---------------------------- MODULE ProberProofs ----------------------------
(***************************************************************************)
(* Lemmas on what the agents publish of their peers, for any nodes,        *)
(* clusters, windows and services: failover and the read surfaces draw the *)
(* same conclusion from every status the agents can write, and what is     *)
(* published lags behind what was dialled by no more than a refresh.  The  *)
(* theorems that rest on them are in FailoverProofs.                       *)
(***************************************************************************)
EXTENDS Failover, TLAPS

\* The time, in seconds, that the backend provers have for a leaf.
USE SMTT(30), ZenonT(30)

\* A listing of clusters holds every one of them and nothing else.
ClustersListed ==
    \A S \in SUBSET Cluster :
        /\ Listing(S) \in Seq(S)
        /\ \A x \in S : \E i \in DOMAIN Listing(S) : Listing(S)[i] = x

\* The first element of a non-empty sequence, and what remains of it.
LEMMA Remaining ==
  ASSUME NEW R, NEW q \in Seq(R), q # <<>>
  PROVE  Head(q) \in R /\ Tail(q) \in Seq(R) /\ (Len(q) # 1 => Tail(q) # <<>>)
<1>1. Head(q) \in R /\ Tail(q) \in Seq(R) /\ Len(Tail(q)) = Len(q) - 1
  OBVIOUS
<1>2. Len(q) # 1 => Len(Tail(q)) # 0
  BY <1>1
<1> QED
  BY <1>1, <1>2

\* The reconciler only ever writes two phases (PlanPeer, fail).
Written(T) == [phase : {"Connected", "Error"}, handshake : T, attempt : T, success : T]
Statuses(T) == [Cluster -> Written(T)]
Cycles(T) ==
    [results : Seq([cluster : Cluster, ok : BOOLEAN, at : T]), list : Statuses(T) \cup {<<>>}]

\* Nothing is of the future, the results and the listed statuses of a cycle in
\* flight and the handshakes in the kernels included; a cycle starts when the
\* one before it is over.
CyclesRight ==
    \A n \in Node :
        /\ due[n] \subseteq Work(n)
        /\ cycle[n].results = <<>> => cycle[n] = Idle
        /\ "probe" \in due[n] => cycle[n] = Idle
FailoverInv ==
    /\ now \in 1..MaxTime
    /\ status \in Statuses(0..now)
    /\ cache \in [Node -> Statuses(0..now)]
    /\ shook \in [Node -> [Cluster -> 0..now]]
    /\ cycle \in [Node -> Cycles(0..now)]
    /\ due \in [Node -> SUBSET ({"probe", "nat"} \cup Cluster)]
    /\ CyclesRight

\* slo.signalFor over the snapshot of a peer against clusterDown: "mirrors the
\* liveness preference the read surfaces use", for every status of the past.
LEMMA VerdictsAgree ==
  ASSUME NEW t \in Nat \ {0}, NEW st \in Written(0..t)
  PROVE  LET expected == IF st.phase = "Connected" THEN "Reachable" ELSE "Unreachable"
             verdict == signalFor(expected, TunnelLive(PeerSnapshot(st, t)))
             unseen == st.handshake = 0 /\ ~(st.attempt > 0 /\ Within(t, st.attempt))
         IN  clusterDown(st, t) = (verdict # "Healthy" /\ (unseen => verdict = "Down"))
<1> DEFINE alive == TunnelLive(PeerSnapshot(st, t))
           unseen == st.handshake = 0 /\ ~(st.attempt > 0 /\ Within(t, st.attempt))
<1>1. st.handshake \in 0..t /\ st.attempt \in 0..t /\ st.success \in 0..t
  BY Zenon DEF Written
<1>2. \A a \in 0..t : live(handshakeAge(t, a)) <=> a > 0 /\ Within(t, a)
  BY StaleAssumption DEF live, handshakeAge, Within
<1>3. alive <=> IF Probed(st, t) THEN st.success > 0 /\ Within(t, st.success)
                ELSE st.handshake > 0 /\ Within(t, st.handshake)
  BY <1>1, <1>2, Zenon DEF TunnelLive, PeerSnapshot
<1>4. Probed(st, t) <=> st.attempt > 0 /\ Within(t, st.attempt)
  BY DEF Probed
<1>5. CASE st.phase = "Error"
  <2>1. signalFor("Unreachable", alive) = "Down"
    BY Zenon DEF signalFor
  <2>2. clusterDown(st, t)
    BY <1>5, Zenon DEF clusterDown
  <2> QED
    BY <1>5, <2>1, <2>2, ZenonT(30) DEF clusterDown
<1>6. CASE st.phase = "Connected"
  <2>1. signalFor("Reachable", alive) = IF alive THEN "Healthy" ELSE "Impaired"
    BY Zenon DEF signalFor
  <2>2. clusterDown(st, t) <=> ~alive /\ ~unseen
    BY <1>1, <1>3, <1>4, <1>6 DEF clusterDown
  <2> HIDE DEF alive, unseen
  <2>3. clusterDown(st, t) \in BOOLEAN
    BY Zenon DEF clusterDown
  <2> QED
    BY <1>6, <2>1, <2>2, <2>3, Zenon DEF alive, unseen
<1> QED
  BY <1>5, <1>6, Zenon DEF Written

\* A merge patch of a status of the past by another leaves one of the past.
LEMMA PatchedStatus ==
  ASSUME NEW T, status \in Statuses(T), NEW c \in Cluster,
         NEW base \in Written(T), NEW new \in Written(T)
  PROVE  Patched(c, base, new) \in Statuses(T)
<1> DEFINE merged == [f \in DOMAIN status[c] |-> IF new[f] # base[f] THEN new[f] ELSE status[c][f]]
<1>1. status[c] \in Written(T)
  BY Zenon DEF Statuses
<1>2. DOMAIN status[c] = {"phase", "handshake", "attempt", "success"}
  BY <1>1, Zenon DEF Written
<1>3. merged \in Written(T)
  BY <1>1, <1>2, Zenon DEF Written
<1>4. Patched(c, base, new) = [status EXCEPT ![c] = merged]
  BY Zenon DEF Patched, Statuses
<1> HIDE DEF merged
<1> QED
  BY <1>3, <1>4, Zenon DEF Statuses

\* What a cycle of Dial holds: a result for every connected peer of the cache.
LEMMA DialledResults ==
  ASSUME ClustersListed, NEW n \in Node, cache[n] \in Statuses(0..now), now \in Nat
  PROVE  LET targets == Listing(PlanTargets(cache[n])) IN
         [i \in DOMAIN targets |-> Classify(targets[i], answer(n, targets[i]), now)]
             \in Seq([cluster : Cluster, ok : BOOLEAN, at : 0..now])
<1> DEFINE S == PlanTargets(cache[n])
           targets == Listing(S)
           result(i) == Classify(targets[i], answer(n, targets[i]), now)
           R == [cluster : Cluster, ok : BOOLEAN, at : 0..now]
<1>1. S \subseteq Cluster
  BY Zenon DEF PlanTargets, Statuses
<1> HIDE DEF S
<1>3. targets \in Seq(S)
  BY <1>1, Zenon DEF ClustersListed
<1> HIDE DEF targets
<1>4. \A i \in DOMAIN targets : targets[i] \in Cluster
  BY <1>1, <1>3
<1>5. \A i \in DOMAIN targets : result(i) \in R
  BY <1>4 DEF Classify
<1>6. DOMAIN targets = 1..Len(targets) /\ Len(targets) \in Nat
  BY <1>3
<1> HIDE DEF result, R
<1>7. [i \in DOMAIN targets |-> result(i)] \in Seq(R)
  BY <1>5, <1>6
<1> QED
  BY <1>7, Zenon DEF result, R, targets, S

\* The agents start with statuses that say nothing yet.
LEMMA FailoverInit == Init => FailoverInv
<1> SUFFICES ASSUME Init PROVE FailoverInv
  BY Zenon
<1>1. now = 1 /\ now \in 1..MaxTime
  BY FailoverAssumption DEF Init
<1>2. status \in Statuses(0..now)
  BY <1>1 DEF Init, Statuses, Written
<1>3. cache \in [Node -> Statuses(0..now)] /\ shook \in [Node -> [Cluster -> 0..now]]
  BY <1>1, <1>2 DEF Init
<1>4. Idle \in Cycles(0..now)
  BY DEF Idle, Cycles
<1>5. cycle \in [Node -> Cycles(0..now)]
  BY <1>4, Zenon DEF Init
<1>6. due \in [Node -> SUBSET ({"probe", "nat"} \cup Cluster)]
  BY Zenon DEF Init, Work
<1>7. CyclesRight
  BY Zenon DEF Init, CyclesRight
<1> QED
  BY <1>1, <1>2, <1>3, <1>5, <1>6, <1>7, Zenon DEF FailoverInv

\* The steps that work on the cycle of a node.
LEMMA CycleSteps ==
  ASSUME ClustersListed, FailoverInv, NEW n \in Node,
         Dial(n) \/ PublishList(n) \/ PublishOne(n) \/ PatchFails(n) \/ Restart(n)
  PROVE  FailoverInv'
<1> USE DEF FailoverInv
<1>1. /\ now \in Nat /\ cache[n] \in Statuses(0..now) /\ cycle[n] \in Cycles(0..now)
      /\ due[n] \in SUBSET ({"probe", "nat"} \cup Cluster) /\ due[n] \subseteq Work(n)
  BY DEF CyclesRight
<1>2. Idle \in Cycles(0..now)
  BY DEF Idle, Cycles
<1> DEFINE R == [cluster : Cluster, ok : BOOLEAN, at : 0..now]
           q == cycle[n].results
<1>q. q \in Seq(R)
  BY <1>1, Zenon DEF Cycles
<1>r. ASSUME q # <<>> PROVE Head(q) \in R /\ Tail(q) \in Seq(R) /\ (Len(q) # 1 => Tail(q) # <<>>)
  BY <1>q, <1>r, Remaining, ZenonT(30)
<1>3. CASE Dial(n)
  <2> DEFINE targets == Listing(PlanTargets(cache[n]))
             results == [i \in DOMAIN targets |-> Classify(targets[i], answer(n, targets[i]), now)]
  <2>1. results \in Seq([cluster : Cluster, ok : BOOLEAN, at : 0..now])
    BY <1>1, DialledResults, ZenonT(30)
  <2>2. /\ cycle' = [cycle EXCEPT ![n].results = results]
        /\ due' = [due EXCEPT ![n] = @ \ {"probe"}]
        /\ "probe" \in due[n]
        /\ UNCHANGED <<now, shook, status, cache>>
    BY <1>3, Zenon DEF Dial
  <2> HIDE DEF results
  <2>3. cycle[n] = Idle
    BY <2>2, Zenon DEF CyclesRight
  <2>4. cycle' = [cycle EXCEPT ![n] = [results |-> results, list |-> <<>>]]
    <3>1. cycle' = [cycle EXCEPT ![n] = [cycle[n] EXCEPT !.results = results]]
      BY <2>2, Zenon
    <3>2. [Idle EXCEPT !.results = results] = [results |-> results, list |-> <<>>]
      BY DEF Idle
    <3> QED
      BY <2>3, <3>1, <3>2, ZenonT(30)
  <2>5. [results |-> results, list |-> <<>>] \in Cycles(0..now)
    BY <2>1, Zenon DEF Cycles
  <2>6. CyclesRight'
    BY <2>2, <2>4, <2>5 DEF CyclesRight, Idle, Work
  <2> QED
    BY <2>2, <2>4, <2>5, <2>6, ZenonT(30)
<1>4. CASE PublishList(n)
  <2>1. [cycle[n] EXCEPT !.list = cache[n]] \in Cycles(0..now)
    BY <1>1, ZenonT(30) DEF Cycles
  <2>2. cycle' = [cycle EXCEPT ![n] = [cycle[n] EXCEPT !.list = cache[n]]]
    BY <1>4, Zenon DEF PublishList
  <2>3. ~("probe" \in due[n])
    BY <1>4 DEF CyclesRight, PublishList, Idle
  <2>4. CyclesRight'
    BY <1>1, <1>4, <2>2, <2>3, Zenon DEF CyclesRight, PublishList, Idle, Cycles, Work
  <2> QED
    BY <1>4, <2>1, <2>2, <2>4, Zenon DEF PublishList
<1>5. ASSUME cycle[n].list # <<>>, NextResult(n), due' = due, Work(n)' = Work(n)
      PROVE  cycle' \in [Node -> Cycles(0..now)] /\ CyclesRight'
  <2> DEFINE rest == IF Len(cycle[n].results) = 1 THEN Idle
                     ELSE [results |-> Tail(cycle[n].results), list |-> cycle[n].list]
  <2>1. cycle' = [cycle EXCEPT ![n] = rest]
    BY <1>5, Zenon DEF NextResult
  <2>2. cycle[n].results # <<>> /\ ~("probe" \in due[n])
    BY <1>5 DEF CyclesRight, Idle
  <2>3. rest \in Cycles(0..now) /\ (rest.results = <<>> => rest = Idle)
    <3>1. CASE Len(cycle[n].results) = 1
      BY <1>2, <3>1, Zenon
    <3>2. CASE Len(cycle[n].results) # 1
      <4>1. Tail(q) \in Seq(R) /\ Tail(q) # <<>>
        BY <1>r, <2>2, <3>2, ZenonT(30)
      <4> QED
        BY <1>1, <3>2, <4>1, Zenon DEF Cycles
    <3> QED
      BY <3>1, <3>2, Zenon
  <2> HIDE DEF rest
  <2>4. CyclesRight'
    BY <1>5, <2>1, <2>2, <2>3, Zenon DEF CyclesRight, Work, Idle
  <2> QED
    BY <2>1, <2>3, <2>4, Zenon
<1>6. CASE PublishOne(n)
  <2> DEFINE r == Head(cycle[n].results)
             cur == cycle[n].list[r.cluster]
             fold == NextProbeStatus(cur, r)
  <2>1. cycle[n].list # <<>> /\ cycle[n].results # <<>>
    <3>1. cycle[n].list # <<>>
      BY <1>6, Zenon DEF PublishOne
    <3> QED
      BY <3>1 DEF CyclesRight, Idle
  <2>2. r \in R
    BY <1>r, <2>1, Zenon
  <2>3. cur \in Written(0..now)
    BY <1>1, <2>1, <2>2, Zenon DEF Cycles, Statuses
  <2> HIDE DEF r, cur
  <2>4. fold.next \in Written(0..now)
    BY <2>2, <2>3, ZenonT(30) DEF NextProbeStatus, Written
  <2> HIDE DEF fold
  <2>5. Patched(r.cluster, cur, fold.next) \in Statuses(0..now)
    BY <2>2, <2>3, <2>4, PatchedStatus, Zenon
  <2>6. status' = IF fold.persist THEN Patched(r.cluster, cur, fold.next) ELSE status
    BY <1>6, ZenonT(30) DEF PublishOne, r, cur, fold
  <2>7. UNCHANGED <<now, shook, cache, due>> /\ NextResult(n) /\ cycle[n].list # <<>>
    BY <1>6, Zenon DEF PublishOne
  <2>8. status' \in Statuses(0..now)
    BY <2>5, <2>6, Zenon
  <2> QED
    BY <1>5, <2>7, <2>8, Zenon DEF Work
<1>7. CASE PatchFails(n)
  BY <1>5, <1>7, ZenonT(30) DEF PatchFails, Work
<1>8. CASE Restart(n)
  <2>1. cycle' = [cycle EXCEPT ![n] = Idle] /\ cache' = [cache EXCEPT ![n] = status]
    BY <1>8, Zenon DEF Restart
  <2>2. due' = [due EXCEPT ![n] = IF probing THEN Work(n) ELSE Work(n) \ {"probe"}]
    BY <1>8, Zenon DEF Restart
  <2>3. due' \in [Node -> SUBSET ({"probe", "nat"} \cup Cluster)]
    BY <2>2, Zenon DEF Work
  <2>4. CyclesRight'
    BY <2>1, <2>2, Zenon DEF CyclesRight, Work, Idle
  <2> QED
    BY <1>2, <1>8, <2>1, <2>3, <2>4 DEF Restart
<1> QED
  BY <1>3, <1>4, <1>6, <1>7, <1>8, Zenon

\* The reconcilers of a node, and its informer.
LEMMA ReconcileSteps ==
  ASSUME FailoverInv, NEW n \in Node,
         \/ SyncNAT(n) \/ Deliver(n)
         \/ \E c \in Cluster : RefreshPeer(n, c) \/ PeerFails(n, c)
  PROVE  FailoverInv'
<1> USE DEF FailoverInv
<1>1. ASSUME NEW w, due' = [due EXCEPT ![n] = @ \ {w}], cycle' = cycle
      PROVE  due' \in [Node -> SUBSET ({"probe", "nat"} \cup Cluster)] /\ CyclesRight'
  BY <1>1, Zenon DEF CyclesRight, Work, Idle
<1>2. CASE SyncNAT(n)
  BY <1>1, <1>2, ZenonT(30) DEF SyncNAT
<1>3. CASE Deliver(n)
  <2>1. due' = [due EXCEPT ![n] = @ \cup (natSyncRequest \cap Work(n))]
    BY <1>3, Zenon DEF Deliver
  <2>2. due' \in [Node -> SUBSET ({"probe", "nat"} \cup Cluster)] /\ CyclesRight'
    BY <1>3, <2>1 DEF Deliver, CyclesRight, Work, Idle, natSyncRequest
  <2> QED
    BY <1>3, <2>2, Zenon DEF Deliver
<1>4. ASSUME NEW c \in Cluster, RefreshPeer(n, c) \/ PeerFails(n, c)
      PROVE  FailoverInv'
  <2>1. cache[n][c] \in Written(0..now) /\ shook[n][c] \in 0..now
    BY Zenon DEF Statuses
  <2>2. /\ [cache[n][c] EXCEPT !.phase = "Connected", !.handshake = shook[n][c]] \in Written(0..now)
        /\ [cache[n][c] EXCEPT !.phase = "Error"] \in Written(0..now)
    BY <2>1, ZenonT(30) DEF Written
  <2>3. status' \in Statuses(0..now)
    <3> DEFINE up == [cache[n][c] EXCEPT !.phase = "Connected", !.handshake = shook[n][c]]
               down == [cache[n][c] EXCEPT !.phase = "Error"]
    <3>1. Patched(c, cache[n][c], up) \in Statuses(0..now)
      BY <2>1, <2>2, PatchedStatus, Zenon
    <3>2. Patched(c, cache[n][c], down) \in Statuses(0..now)
      BY <2>1, <2>2, PatchedStatus, Zenon
    <3>3. \/ status' = Patched(c, cache[n][c], up)
          \/ status' = Patched(c, cache[n][c], down)
      BY <1>4, ZenonT(30) DEF RefreshPeer, PeerFails
    <3> HIDE DEF up, down
    <3> QED
      BY <3>1, <3>2, <3>3, Zenon
  <2>4. /\ due' = [due EXCEPT ![n] = @ \ {c}]
        /\ UNCHANGED <<now, shook, cache, cycle>>
    BY <1>4, ZenonT(30) DEF RefreshPeer, PeerFails
  <2> QED
    BY <1>1, <2>3, <2>4, ZenonT(30)
<1> QED
  BY <1>2, <1>3, <1>4, Zenon

\* The clock: what was of the past still is.
LEMMA TickStep ==
  ASSUME FailoverInv, Tick
  PROVE  FailoverInv'
<1> USE DEF FailoverInv
<1>1. now \in Nat /\ now' = now + 1 /\ now' \in 1..MaxTime
  BY FailoverAssumption DEF Tick
<1>2. 0..now \subseteq 0..now' /\ now + 1 \in 0..now'
  BY <1>1
<1>3. \A T, U : T \subseteq U => Written(T) \subseteq Written(U)
  BY Zenon DEF Written
<1>4. Statuses(0..now) \subseteq Statuses(0..now')
  BY <1>2, <1>3, ZenonT(30) DEF Statuses
<1>5. Cycles(0..now) \subseteq Cycles(0..now')
  <2> DEFINE R(T) == [cluster : Cluster, ok : BOOLEAN, at : T]
  <2>1. R(0..now) \subseteq R(0..now')
    BY <1>2, Zenon
  <2> HIDE DEF R
  <2>2. Seq(R(0..now)) \subseteq Seq(R(0..now'))
    BY <2>1
  <2>3. \A T : Cycles(T) = [results : Seq(R(T)), list : Statuses(T) \cup {<<>>}]
    BY Zenon DEF Cycles, R
  <2> HIDE DEF Cycles
  <2> QED
    BY <1>4, <2>2, <2>3, ZenonT(30)
<1>6. shook' \in [Node -> [Cluster -> 0..now']]
  BY <1>2 DEF Tick
<1>7. status' = status /\ cache' = cache /\ cycle' = cycle
  BY Zenon DEF Tick
<1>8. /\ due' \in [Node -> SUBSET ({"probe", "nat"} \cup Cluster)]
      /\ CyclesRight'
  BY <1>7, Zenon DEF Tick, CyclesRight, Work, Idle
<1> QED
  BY <1>1, <1>4, <1>5, <1>6, <1>7, <1>8, Zenon

\* Every step keeps the statuses of the past.
LEMMA FailoverStep ==
  ASSUME ClustersListed
  PROVE  FailoverInv /\ [Next]_vars => FailoverInv'
<1> SUFFICES ASSUME FailoverInv, [Next]_vars PROVE FailoverInv'
  BY Zenon
<1>1. ASSUME UNCHANGED <<now, shook, status, cache, cycle, due>> PROVE FailoverInv'
  BY <1>1, Zenon DEF FailoverInv, CyclesRight, Work, Idle
<1>2. CASE Tick
  BY <1>2, TickStep, Zenon
<1>3. CASE StopProbing
  BY <1>1, <1>3, Zenon DEF StopProbing
<1>4. ASSUME NEW n \in Node, NEW c \in Cluster, NEW p \in Path(c),
             Flip({n}, c, p) \/ Flip(Node, c, p)
      PROVE  FailoverInv'
  BY <1>1, <1>4, Zenon DEF Flip
<1>5. CASE UNCHANGED vars
  BY <1>1, <1>5, Zenon DEF vars
<1> QED
  BY <1>2, <1>3, <1>4, <1>5, CycleSteps, ReconcileSteps, ZenonT(30) DEF Next

-----------------------------------------------------------------------------
(***************************************************************************)
(* What the steps write.                                                   *)
(***************************************************************************)
\* A merge patch, field by field.
PatchedAs(s, c, base, new) ==
    /\ \A d \in Cluster \ {c} : s[d] = status[d]
    /\ s[c].phase = IF new.phase # base.phase THEN new.phase ELSE status[c].phase
    /\ s[c].handshake = IF new.handshake # base.handshake THEN new.handshake ELSE status[c].handshake
    /\ s[c].attempt = IF new.attempt # base.attempt THEN new.attempt ELSE status[c].attempt
    /\ s[c].success = IF new.success # base.success THEN new.success ELSE status[c].success

\* Patched is such a merge.
LEMMA PatchedFields ==
  ASSUME NEW T, status \in Statuses(T), NEW c \in Cluster,
         NEW base \in Written(T), NEW new \in Written(T), NEW s, s = Patched(c, base, new)
  PROVE  PatchedAs(s, c, base, new)
<1> DEFINE merged == [f \in DOMAIN status[c] |-> IF new[f] # base[f] THEN new[f] ELSE status[c][f]]
<1>1. DOMAIN status[c] = {"phase", "handshake", "attempt", "success"}
  BY Zenon DEF Statuses, Written
<1>2. s = [status EXCEPT ![c] = merged]
  BY Zenon DEF Patched, Statuses
<1>3. s[c] = merged /\ \A d \in Cluster \ {c} : s[d] = status[d]
  BY <1>2, Zenon DEF Statuses
<1> QED
  BY <1>1, <1>3, Zenon DEF PatchedAs

\* What becomes of a time of the status when the result of a dial at that time is
\* folded in: it is written, unless the copy that was listed has it or is recent.
Folded(new, old, seen, at) ==
    \/ new = at
    \/ new = old /\ (seen = at \/ (seen > 0 /\ at - seen < probeStatusRefresh))

Result(T) == [cluster : Cluster, ok : BOOLEAN, at : T]

\* A result that is published changes the times of one cluster, and nothing else.
LEMMA Publishes ==
  ASSUME FailoverInv, NEW n \in Node, PublishOne(n),
         NEW r, r = Head(cycle[n].results), NEW cur, cur = cycle[n].list[r.cluster]
  PROVE  /\ cycle[n].results # <<>> /\ cycle[n].list # <<>>
         /\ r \in Result(0..now) /\ cur \in Written(0..now)
         /\ \A d \in Cluster \ {r.cluster} : status'[d] = status[d]
         /\ status'[r.cluster].phase = status[r.cluster].phase
         /\ status'[r.cluster].handshake = status[r.cluster].handshake
         /\ Folded(status'[r.cluster].attempt, status[r.cluster].attempt, cur.attempt, r.at)
         /\ IF r.ok THEN Folded(status'[r.cluster].success, status[r.cluster].success, cur.success, r.at)
            ELSE status'[r.cluster].success = status[r.cluster].success
<1>1. cycle[n] \in Cycles(0..now) /\ status \in Statuses(0..now) /\ now \in Nat
  BY DEF FailoverInv
<1>2. cycle[n].list # <<>> /\ cycle[n].results # <<>>
  <2>1. cycle[n].list # <<>>
    BY Zenon DEF PublishOne
  <2> QED
    BY <2>1 DEF FailoverInv, CyclesRight, Idle
<1>3. r \in Result(0..now)
  BY <1>1, <1>2, Remaining, ZenonT(30) DEF Cycles, Result
<1>4. cur \in Written(0..now)
  BY <1>1, <1>2, <1>3, ZenonT(30) DEF Cycles, Statuses, Result
<1> DEFINE fold == NextProbeStatus(cur, r)
<1>5. /\ fold.next \in Written(0..now)
      /\ fold.next.phase = cur.phase /\ fold.next.handshake = cur.handshake
      /\ fold.next.attempt = r.at /\ fold.next.success = IF r.ok THEN r.at ELSE cur.success
  BY <1>3, <1>4, ZenonT(30) DEF NextProbeStatus, Written, Result
<1>6. ~fold.persist => /\ cur.attempt > 0 /\ r.at - cur.attempt < probeStatusRefresh
                       /\ r.ok => cur.success = cur.attempt
  <2> DEFINE healthy == cur.attempt > 0 /\ cur.success = cur.attempt
  <2>1. fold.persist = (\/ healthy # r.ok \/ cur.attempt = 0
                        \/ r.at - cur.attempt >= probeStatusRefresh)
    BY Zenon DEF NextProbeStatus
  <2>2. cur.attempt \in Nat /\ r.at \in Nat /\ r.ok \in BOOLEAN /\ probeStatusRefresh \in Nat
    BY ONLY <1>3, <1>4, <1>1, StaleAssumption DEF Written, Result
  <2> HIDE DEF fold
  <2>3. ~fold.persist => healthy = r.ok
    BY ONLY <2>1, ZenonT(30) DEF healthy
  <2>4. ~fold.persist => cur.attempt # 0 /\ ~(r.at - cur.attempt >= probeStatusRefresh)
    BY ONLY <2>1, ZenonT(30)
  <2>5. ~fold.persist /\ r.ok => cur.success = cur.attempt
    BY <2>3, ZenonT(30)
  <2>6. ~fold.persist => cur.attempt > 0 /\ r.at - cur.attempt < probeStatusRefresh
    <3> SUFFICES ASSUME ~fold.persist PROVE cur.attempt > 0 /\ r.at - cur.attempt < probeStatusRefresh
      BY Zenon
    <3>1. cur.attempt # 0 /\ ~(r.at - cur.attempt >= probeStatusRefresh)
      BY <2>4, Zenon
    <3> QED
      BY ONLY <3>1, <2>2, SMTT(30)
  <2> QED
    BY ONLY <2>5, <2>6, ZenonT(30)
<1>7. status' = IF fold.persist THEN Patched(r.cluster, cur, fold.next) ELSE status
  BY Zenon DEF PublishOne
<1> HIDE DEF fold
<1>8. CASE fold.persist
  <2>1. status' = Patched(r.cluster, cur, fold.next)
    BY <1>7, <1>8, ZenonT(30)
  <2>2. r.cluster \in Cluster
    BY <1>3, Zenon DEF Result
  <2>3. PatchedAs(status', r.cluster, cur, fold.next)
    BY ONLY <1>1, <1>4, <1>5, <2>1, <2>2, PatchedFields, ZenonT(30)
  <2>4. /\ status'[r.cluster].phase = status[r.cluster].phase
        /\ status'[r.cluster].handshake = status[r.cluster].handshake
        /\ Folded(status'[r.cluster].attempt, status[r.cluster].attempt, cur.attempt, r.at)
    BY <1>5, <2>3, ZenonT(30) DEF Folded, PatchedAs
  <2>5. CASE r.ok
    BY <1>2, <1>3, <1>4, <1>5, <2>3, <2>4, <2>5, ZenonT(30) DEF Folded, PatchedAs
  <2>6. CASE ~r.ok
    BY <1>2, <1>3, <1>4, <1>5, <2>3, <2>4, <2>6, ZenonT(30) DEF PatchedAs
  <2> QED
    BY <2>5, <2>6, ZenonT(30)
<1>9. CASE ~fold.persist
  BY <1>2, <1>3, <1>4, <1>6, <1>7, <1>9, ZenonT(30) DEF Folded, Result, Written
<1> QED
  BY <1>8, <1>9, ZenonT(30)

\* The elements of a sequence are the first one and those of the tail.
LEMMA TailElements ==
  ASSUME NEW R, NEW q \in Seq(R), q # <<>>
  PROVE  /\ 1 \in DOMAIN q /\ Head(q) = q[1]
         /\ \A i \in DOMAIN Tail(q) : i + 1 \in DOMAIN q /\ Tail(q)[i] = q[i + 1]
         /\ \A i \in DOMAIN q \ {1} : i - 1 \in DOMAIN Tail(q) /\ Tail(q)[i - 1] = q[i]
<1>1. Len(q) \in Nat /\ DOMAIN q = 1..Len(q) /\ Len(q) # 0
  OBVIOUS
<1>2. Tail(q) \in Seq(R) /\ Len(Tail(q)) = Len(q) - 1 /\ DOMAIN Tail(q) = 1..(Len(q) - 1)
  BY <1>1
<1>3. \A i \in 1..(Len(q) - 1) : Tail(q)[i] = q[i + 1]
  BY <1>1, <1>2
<1>4. \A i \in DOMAIN q \ {1} : i - 1 \in 1..(Len(q) - 1) /\ (i - 1) + 1 = i
  BY <1>1
<1> QED
  BY <1>1, <1>2, <1>3, <1>4

\* The results a cycle still has to publish.
Results(cy) == {cy.results[i] : i \in DOMAIN cy.results}

\* The next result is taken: the others remain, and the list as long as there are any.
LEMMA NextResults ==
  ASSUME FailoverInv, NEW n \in Node, NextResult(n), cycle[n].results # <<>>
  PROVE  /\ \A m \in Node \ {n} : cycle'[m] = cycle[m]
         /\ Results(cycle'[n]) \subseteq Results(cycle[n])
         /\ Results(cycle[n]) \subseteq Results(cycle'[n]) \cup {Head(cycle[n].results)}
         /\ Head(cycle[n].results) \in Results(cycle[n])
         /\ cycle'[n].list = <<>> \/ cycle'[n].list = cycle[n].list
<1> DEFINE q == cycle[n].results
           rest == IF Len(q) = 1 THEN Idle ELSE [results |-> Tail(q), list |-> cycle[n].list]
<1>1. cycle' = [cycle EXCEPT ![n] = rest]
  BY Zenon DEF NextResult
<1>2. q \in Seq(Result(0..now)) /\ q # <<>>
  BY ZenonT(30) DEF FailoverInv, Cycles, Result
<1>3. Results(cycle[n]) = {q[i] : i \in DOMAIN q}
  BY Zenon DEF Results
<1> HIDE DEF q
<1>4. 1 \in DOMAIN q /\ Head(q) = q[1]
  BY <1>2, TailElements, Zenon
<1> DEFINE Right ==
       /\ Results(rest) \subseteq Results(cycle[n])
       /\ Results(cycle[n]) \subseteq Results(rest) \cup {Head(q)}
       /\ Head(q) \in Results(cycle[n])
       /\ rest.list = <<>> \/ rest.list = cycle[n].list
<1>5. ASSUME Len(q) = 1 PROVE Right
  <2>1. rest = Idle
    BY <1>5, Zenon
  <2>2. DOMAIN q = {1}
    BY <1>2, <1>5
  <2>3. Results(Idle) = {} /\ Idle.list = <<>>
    BY DEF Results, Idle
  <2> HIDE DEF rest
  <2> QED
    BY <1>3, <1>4, <2>1, <2>2, <2>3, Zenon
<1>6. ASSUME Len(q) # 1 PROVE Right
  <2>1. rest.results = Tail(q) /\ rest.list = cycle[n].list
    BY <1>6, Zenon
  <2> HIDE DEF rest
  <2>2. Results(rest) = {Tail(q)[i] : i \in DOMAIN Tail(q)}
    BY <2>1, Zenon DEF Results
  <2>3. Results(rest) \subseteq Results(cycle[n])
    BY <1>2, <1>3, <2>2, TailElements
  <2>4. Results(cycle[n]) \subseteq Results(rest) \cup {Head(q)}
    <3>1. \A i \in DOMAIN q \ {1} : i - 1 \in DOMAIN Tail(q) /\ Tail(q)[i - 1] = q[i]
      BY ONLY <1>2, TailElements, ZenonT(30)
    <3> QED
      BY ONLY <1>3, <1>4, <2>2, <3>1, SMTT(30)
  <2> QED
    BY <1>3, <1>4, <2>1, <2>3, <2>4, Zenon
<1>7. Right
  BY <1>5, <1>6, ZenonT(30)
<1> HIDE DEF rest
<1>8. cycle'[n] = rest /\ \A m \in Node \ {n} : cycle'[m] = cycle[m]
  BY <1>1, Zenon DEF FailoverInv
<1> QED
  BY ONLY <1>7, <1>8, ZenonT(30) DEF q, Right

\* A cycle dials every connected peer of the cache, now, and is told by the path.
LEMMA Dials ==
  ASSUME ClustersListed, FailoverInv, NEW n \in Node, Dial(n)
  PROVE  /\ cycle[n] = Idle /\ cycle'[n].list = <<>>
         /\ \A m \in Node \ {n} : cycle'[m] = cycle[m]
         /\ \A r \in Results(cycle'[n]) :
               /\ r.cluster \in Cluster /\ r.at = now
               /\ r.ok = (path[n][r.cluster] = r.cluster)
         /\ \A c \in Cluster : cache[n][c].phase = "Connected" =>
               \E r \in Results(cycle'[n]) : r.cluster = c
<1> DEFINE S == PlanTargets(cache[n])
           targets == Listing(S)
           result(i) == Classify(targets[i], answer(n, targets[i]), now)
           results == [i \in DOMAIN targets |-> result(i)]
<1>1. cycle[n] = Idle /\ cycle \in [Node -> Cycles(0..now)]
  BY Zenon DEF Dial, FailoverInv, CyclesRight
<1>2. cycle' = [cycle EXCEPT ![n].results = results]
  BY Zenon DEF Dial
<1>3. S = {c \in Cluster : cache[n][c].phase = "Connected"}
  BY Zenon DEF FailoverInv, Statuses, PlanTargets
<1> HIDE DEF S
<1>4. S \subseteq Cluster
  BY <1>3, Zenon
<1>5. targets \in Seq(S) /\ \A x \in S : \E i \in DOMAIN targets : targets[i] = x
  BY <1>4, ZenonT(30) DEF ClustersListed
<1> HIDE DEF targets
<1>6. \A i \in DOMAIN targets : targets[i] \in Cluster
  BY <1>4, <1>5
<1>7. \A c \in Cluster : (answer(n, c) = c) = (path[n][c] = c)
  BY FailoverAssumption, Zenon DEF answer, Dead
<1>8. \A i \in DOMAIN targets : /\ result(i).cluster = targets[i] /\ result(i).at = now
                                 /\ result(i).ok = (path[n][targets[i]] = targets[i])
  BY <1>6, <1>7, Zenon DEF Classify
<1> HIDE DEF result
<1>9. DOMAIN results = DOMAIN targets /\ \A i \in DOMAIN targets : results[i] = result(i)
  BY Zenon
<1> HIDE DEF results
<1>10. /\ cycle'[n].results = results /\ cycle'[n].list = <<>>
       /\ \A m \in Node \ {n} : cycle'[m] = cycle[m]
  BY <1>1, <1>2 DEF Idle
<1>11. Results(cycle'[n]) = {result(i) : i \in DOMAIN targets}
  BY <1>9, <1>10, Zenon DEF Results
<1>12. \A c \in S : \E r \in Results(cycle'[n]) : r.cluster = c
  BY <1>5, <1>8, <1>11
<1> QED
  BY <1>1, <1>3, <1>6, <1>8, <1>10, <1>11, <1>12

\* The reconciler writes what it read from the kernel, where that is news to it.
LEMMA Refreshes ==
  ASSUME FailoverInv, NEW n \in Node, NEW c \in Cluster, RefreshPeer(n, c)
  PROVE  /\ \A d \in Cluster \ {c} : status'[d] = status[d]
         /\ status'[c].attempt = status[c].attempt /\ status'[c].success = status[c].success
         /\ status'[c].phase = IF cache[n][c].phase # "Connected" THEN "Connected" ELSE status[c].phase
         /\ status'[c].handshake =
               IF shook[n][c] # cache[n][c].handshake THEN shook[n][c] ELSE status[c].handshake
<1> DEFINE up == [cache[n][c] EXCEPT !.phase = "Connected", !.handshake = shook[n][c]]
<1>1. status \in Statuses(0..now) /\ cache[n][c] \in Written(0..now) /\ shook[n][c] \in 0..now
  BY Zenon DEF FailoverInv, Statuses
<1>2. /\ up \in Written(0..now) /\ up.phase = "Connected" /\ up.handshake = shook[n][c]
      /\ up.attempt = cache[n][c].attempt /\ up.success = cache[n][c].success
  BY <1>1, ZenonT(30) DEF Written
<1>3. status' = Patched(c, cache[n][c], up)
  BY Zenon DEF RefreshPeer
<1> HIDE DEF up
<1>4. PatchedAs(status', c, cache[n][c], up)
  BY ONLY <1>1, <1>2, <1>3, c \in Cluster, PatchedFields, ZenonT(30)
<1> QED
  BY <1>2, <1>4, Zenon DEF PatchedAs

\* fail writes the phase and nothing else.
LEMMA Fails ==
  ASSUME FailoverInv, NEW n \in Node, NEW c \in Cluster, PeerFails(n, c)
  PROVE  /\ \A d \in Cluster \ {c} : status'[d] = status[d]
         /\ status'[c].attempt = status[c].attempt /\ status'[c].success = status[c].success
         /\ status'[c].phase = IF cache[n][c].phase # "Error" THEN "Error" ELSE status[c].phase
         /\ status'[c].handshake = status[c].handshake
<1> DEFINE down == [cache[n][c] EXCEPT !.phase = "Error"]
<1>1. status \in Statuses(0..now) /\ cache[n][c] \in Written(0..now)
  BY Zenon DEF FailoverInv, Statuses
<1>2. /\ down \in Written(0..now) /\ down.phase = "Error" /\ down.handshake = cache[n][c].handshake
      /\ down.attempt = cache[n][c].attempt /\ down.success = cache[n][c].success
  BY <1>1, Zenon DEF Written
<1>3. status' = Patched(c, cache[n][c], down)
  BY Zenon DEF PeerFails
<1> HIDE DEF down
<1>4. PatchedAs(status', c, cache[n][c], down)
  BY ONLY <1>1, <1>2, <1>3, c \in Cluster, PatchedFields, ZenonT(30)
<1> QED
  BY <1>2, <1>4, Zenon DEF PatchedAs
-----------------------------------------------------------------------------
(***************************************************************************)
(* What is published lags behind what was dialled by one refresh of the    *)
(* status and by the late intervals.                                       *)
(***************************************************************************)
Behind(x, s, l) ==
    /\ x.attempt <= s.attempt + l /\ (x.attempt > 0 => s.attempt > 0)
    /\ x.success <= s.success + l /\ (x.success > 0 => s.success > 0)
Attested(p, s, l) ==
    /\ s.success <= p
    /\ p > 0 => /\ s.attempt > 0 /\ p <= s.attempt + probeStatusRefresh + l
                /\ s.success > 0 /\ p <= s.success + probeStatusRefresh + l
Fresh(r, t, l, p) == r.at > 0 /\ t - r.at <= l /\ r.ok = (p = r.cluster)

PublishedInv ==
    /\ late \in 0..used /\ used \in 0..MaxEvents
    /\ \A n \in Node : \A r \in Results(cycle[n]) : Fresh(r, now, late, path[n][r.cluster])
    /\ proved \in [Cluster -> 0..now]
    /\ \A c \in Cluster : Attested(proved[c], status[c], late)
    /\ \A n \in Node, c \in Cluster : Behind(cache[n][c], status[c], late)
    /\ \A n \in Node, c \in Cluster :
          cycle[n].list # <<>> => Behind(cycle[n].list[c], status[c], late)

\* A recent result is folded into a status that was not far behind.
Recorded(new, old, seen, at, t, l) ==
    /\ new \in Nat /\ old \in Nat /\ seen \in Nat /\ at \in Nat /\ t \in Nat /\ l \in Nat
    /\ Folded(new, old, seen, at) /\ at > 0 /\ t - at <= l
    /\ seen <= old + l /\ (seen > 0 => old > 0)

Lasting(new, old, at, t, l) ==
    /\ new > 0 /\ at <= new + probeStatusRefresh + l
    /\ t - new <= probeStatusRefresh - 1 + 2 * l
    /\ new = at \/ new = old

\* The time that is left then.
LEMMA FoldedTimes ==
  ASSUME NEW new, NEW old, NEW seen, NEW at, NEW t, NEW l, Recorded(new, old, seen, at, t, l)
  PROVE  Lasting(new, old, at, t, l)
BY StaleAssumption, WindowAssumption DEF Folded, Recorded, Lasting

\* The times of a state, as numbers.
LEMMA Times ==
  ASSUME FailoverInv
  PROVE  /\ now \in Nat \ {0}
         /\ \A c \in Cluster : /\ status[c].attempt \in 0..now /\ status[c].success \in 0..now
                               /\ status[c].handshake \in 0..now /\ status[c].phase \in {"Connected", "Error"}
         /\ \A n \in Node, c \in Cluster :
               /\ cache[n][c].attempt \in 0..now /\ cache[n][c].success \in 0..now
               /\ cache[n][c].handshake \in 0..now /\ cache[n][c].phase \in {"Connected", "Error"}
               /\ shook[n][c] \in 0..now
         /\ \A n \in Node, c \in Cluster : cycle[n].list # <<>> =>
               /\ cycle[n].list[c].attempt \in 0..now /\ cycle[n].list[c].success \in 0..now
<1>1. now \in Nat \ {0} /\ cache \in [Node -> Statuses(0..now)] /\ shook \in [Node -> [Cluster -> 0..now]]
  BY FailoverAssumption DEF FailoverInv
<1>2. \A x \in Written(0..now) : /\ x.attempt \in 0..now /\ x.success \in 0..now
                                 /\ x.handshake \in 0..now /\ x.phase \in {"Connected", "Error"}
  BY Zenon DEF Written
<1>3. /\ \A c \in Cluster : status[c] \in Written(0..now)
      /\ \A n \in Node, c \in Cluster : cache[n][c] \in Written(0..now)
  BY Zenon DEF FailoverInv, Statuses
<1>4. \A n \in Node : cycle[n].list \in Statuses(0..now) \cup {<<>>}
  BY Zenon DEF FailoverInv, Cycles
<1>5. \A n \in Node, c \in Cluster : cycle[n].list # <<>> => cycle[n].list[c] \in Written(0..now)
  BY <1>4, Zenon DEF Statuses
<1> QED
  BY <1>1, <1>2, <1>3, <1>5, ZenonT(30)

\* The counters are numbers.
LEMMA Counters ==
  ASSUME FailoverInv, PublishedInv
  PROVE  /\ now \in Nat \ {0} /\ now \in Nat /\ late \in Nat /\ used \in Nat /\ MaxEvents \in Nat
         /\ late <= used /\ used <= MaxEvents
         /\ StaleSeconds \in Nat /\ probeStatusRefresh \in Nat
<1>1. now \in Nat \ {0}
  BY Times, Zenon
<1>2. late \in 0..used /\ used \in 0..MaxEvents
  BY Zenon DEF PublishedInv
<1> QED
  BY ONLY <1>1, <1>2, FailoverAssumption, StaleAssumption

\* And so are the moments of a cluster.
LEMMA Moments ==
  ASSUME FailoverInv, PublishedInv, NEW c \in Cluster
  PROVE  /\ proved[c] \in Nat
         /\ status[c].attempt \in Nat /\ status[c].success \in Nat /\ status[c].handshake \in Nat
         /\ \A n \in Node : cache[n][c].attempt \in Nat /\ cache[n][c].success \in Nat /\ shook[n][c] \in Nat
         /\ \A n \in Node : cycle[n].list # <<>> =>
               cycle[n].list[c].attempt \in Nat /\ cycle[n].list[c].success \in Nat
<1>1. \A t \in 0..now : t \in Nat
  OBVIOUS
<1>2. proved[c] \in 0..now
  BY Zenon DEF PublishedInv
<1> QED
  BY <1>1, <1>2, Times, Zenon

\* The steps that publish nothing and take no time.
Quiet ==
    /\ used' \in {used, used + 1} /\ used' \in 0..MaxEvents
    /\ UNCHANGED <<now, proved, late>>
    /\ \A c \in Cluster : status'[c].attempt = status[c].attempt /\ status'[c].success = status[c].success
    /\ \A n \in Node : \A r \in Results(cycle'[n]) : Fresh(r, now, late, path'[n][r.cluster])
    /\ \A n \in Node : cache'[n] = cache[n] \/ cache'[n] = status
    /\ \A n \in Node : \/ cycle'[n].list = <<>> \/ cycle'[n].list = cycle[n].list
                       \/ cycle'[n].list = cache[n]

\* They leave nobody further behind.
LEMMA QuietPublished ==
  ASSUME FailoverInv, PublishedInv, Quiet
  PROVE  PublishedInv'
<1> USE DEF Quiet
<1>1. late' \in 0..used' /\ used' \in 0..MaxEvents /\ late \in Nat /\ proved' \in [Cluster -> 0..now']
  BY FailoverAssumption DEF PublishedInv
<1>2. \A n \in Node : \A r \in Results(cycle'[n]) : Fresh(r, now', late', path'[n][r.cluster])
  BY Zenon
<1>3. \A c \in Cluster : Attested(proved'[c], status'[c], late')
  BY Zenon DEF PublishedInv, Attested
<1>4. \A x : \A c \in Cluster : Behind(x, status[c], late) => Behind(x, status'[c], late')
  BY Zenon DEF Behind
<1>5. \A c \in Cluster : Behind(status[c], status[c], late)
  BY <1>1, Times DEF Behind
<1>6. \A n \in Node, c \in Cluster : Behind(cache'[n][c], status'[c], late')
  <2> TAKE n \in Node, c \in Cluster
  <2>1. Behind(cache[n][c], status[c], late)
    BY Zenon DEF PublishedInv
  <2>2. cache'[n] = cache[n] \/ cache'[n] = status
    BY Zenon
  <2> QED
    BY ONLY <1>4, <1>5, <2>1, <2>2, c \in Cluster, ZenonT(30)
<1>7. \A n \in Node, c \in Cluster : cycle'[n].list # <<>> => Behind(cycle'[n].list[c], status'[c], late')
  <2> TAKE n \in Node, c \in Cluster
  <2>1. /\ Behind(cache[n][c], status[c], late)
        /\ cycle[n].list # <<>> => Behind(cycle[n].list[c], status[c], late)
    BY Zenon DEF PublishedInv
  <2>2. cycle'[n].list = <<>> \/ cycle'[n].list = cycle[n].list \/ cycle'[n].list = cache[n]
    BY Zenon
  <2> QED
    BY ONLY <1>4, <2>1, <2>2, c \in Cluster, ZenonT(30)
<1> QED
  BY <1>1, <1>2, <1>3, <1>6, <1>7, Zenon DEF PublishedInv

\* The agents start with nothing dialled.
LEMMA PublishedInit == Init => PublishedInv
<1> SUFFICES ASSUME Init PROVE PublishedInv
  BY Zenon
<1>1. late \in 0..used /\ used \in 0..MaxEvents /\ proved \in [Cluster -> 0..now]
  BY FailoverAssumption DEF Init
<1>2. \A n \in Node : Results(cycle[n]) = {} /\ cycle[n].list = <<>>
  BY DEF Init, Results, Idle
<1>3. \A c \in Cluster : Attested(proved[c], status[c], late)
  BY DEF Init, Attested
<1>4. \A n \in Node, c \in Cluster : Behind(cache[n][c], status[c], late)
  BY DEF Init, Behind
<1> QED
  BY <1>1, <1>2, <1>3, <1>4, Zenon DEF PublishedInv

\* A result is published: its cluster is attested, and nobody is left further behind.
LEMMA PublishOnePublished ==
  ASSUME FailoverInv, FailoverInv', PublishedInv, NEW n \in Node, PublishOne(n)
  PROVE  PublishedInv'
<1> DEFINE r == Head(cycle[n].results)
           cur == cycle[n].list[r.cluster]
           c == r.cluster
<1>1. UNCHANGED <<now, path, cache, late, used>> /\ NextResult(n)
  BY ZenonT(30) DEF PublishOne
<1>2. proved' = IF path[n][c] = c /\ proved[c] < r.at THEN [proved EXCEPT ![c] = r.at] ELSE proved
  BY Zenon DEF PublishOne
<1>3. /\ cycle[n].results # <<>> /\ cycle[n].list # <<>>
      /\ r \in Result(0..now) /\ cur \in Written(0..now)
      /\ \A d \in Cluster \ {c} : status'[d] = status[d]
      /\ Folded(status'[c].attempt, status[c].attempt, cur.attempt, r.at)
      /\ IF r.ok THEN Folded(status'[c].success, status[c].success, cur.success, r.at)
         ELSE status'[c].success = status[c].success
  BY Publishes, Zenon
<1>4. /\ \A m \in Node \ {n} : cycle'[m] = cycle[m]
      /\ Results(cycle'[n]) \subseteq Results(cycle[n]) /\ r \in Results(cycle[n])
      /\ cycle'[n].list = <<>> \/ cycle'[n].list = cycle[n].list
  BY <1>1, <1>3, NextResults, ZenonT(30)
<1>5. Fresh(r, now, late, path[n][c]) /\ Behind(cur, status[c], late) /\ c \in Cluster
  BY <1>3, <1>4, ZenonT(30) DEF PublishedInv, Result
<1> HIDE DEF r, cur
<1>6. /\ now \in Nat /\ late \in Nat /\ r.at \in 0..now /\ c \in Cluster /\ r.ok \in BOOLEAN
      /\ cur.attempt \in 0..now /\ cur.success \in 0..now /\ proved[c] \in 0..now
      /\ status[c].attempt \in 0..now /\ status[c].success \in 0..now
      /\ status'[c].attempt \in 0..now /\ status'[c].success \in 0..now
  <2>1. status'[c] \in Written(0..now)
    BY <1>1, <1>5, ZenonT(30) DEF FailoverInv, Statuses
  <2>2. status'[c].attempt \in 0..now /\ status'[c].success \in 0..now
    BY <2>1, Zenon DEF Written
  <2>3. /\ now \in Nat /\ status[c].attempt \in 0..now /\ status[c].success \in 0..now
        /\ proved[c] \in 0..now
    BY <1>5, Times, ZenonT(30) DEF PublishedInv
  <2>4. late \in Nat
    BY FailoverAssumption DEF PublishedInv
  <2>5. /\ r.at \in 0..now /\ r.ok \in BOOLEAN
        /\ cur.attempt \in 0..now /\ cur.success \in 0..now
    BY ONLY <1>3, Zenon DEF Result, Written
  <2> QED
    BY ONLY <1>5, <2>2, <2>3, <2>4, <2>5, ZenonT(30)
<1>7. Lasting(status'[c].attempt, status[c].attempt, r.at, now, late)
  <2>1. Recorded(status'[c].attempt, status[c].attempt, cur.attempt, r.at, now, late)
    BY <1>3, <1>5, <1>6 DEF Recorded, Fresh, Behind
  <2> QED
    BY ONLY <2>1, FoldedTimes, ZenonT(30)
<1>8. ASSUME r.ok PROVE Lasting(status'[c].success, status[c].success, r.at, now, late)
  <2>1. Recorded(status'[c].success, status[c].success, cur.success, r.at, now, late)
    BY <1>3, <1>5, <1>6, <1>8 DEF Recorded, Fresh, Behind
  <2> QED
    BY ONLY <2>1, FoldedTimes, ZenonT(30)
<1>9. \A x : x.attempt \in 0..now /\ x.success \in 0..now /\ Behind(x, status[c], late)
             => Behind(x, status'[c], late)
  <2>1. r.at > 0 /\ now - r.at <= late
    BY <1>5, Zenon DEF Fresh
  <2>2. \A x \in 0..now : x <= status[c].attempt + late => x <= status'[c].attempt + late
    BY <1>6, <1>7, <2>1 DEF Lasting
  <2>3. status'[c].success = r.at \/ status'[c].success = status[c].success
    BY <1>3, <1>8, Zenon DEF Lasting
  <2>4. \A x \in 0..now : /\ x <= status[c].success + late => x <= status'[c].success + late
                          /\ status[c].success > 0 => status'[c].success > 0
    BY <1>6, <2>1, <2>3
  <2> QED
    BY <1>7, <2>2, <2>4, Zenon DEF Behind, Lasting
<1>10. \A m \in Node, d \in Cluster : Behind(cache'[m][d], status'[d], late')
  <2> SUFFICES ASSUME NEW m \in Node, NEW d \in Cluster PROVE Behind(cache[m][d], status'[d], late)
    BY <1>1, Zenon
  <2>1. Behind(cache[m][d], status[d], late) /\ cache[m][d].attempt \in 0..now /\ cache[m][d].success \in 0..now
    BY Times, Zenon DEF PublishedInv
  <2> QED
    <3>1. CASE d = c
      BY <1>9, <2>1, <3>1, Zenon
    <3>2. CASE d # c
      BY <1>3, <2>1, <3>2, Zenon
    <3> QED
      BY <3>1, <3>2, Zenon
<1>11. \A m \in Node, d \in Cluster : cycle'[m].list # <<>> => Behind(cycle'[m].list[d], status'[d], late')
  <2> SUFFICES ASSUME NEW m \in Node, NEW d \in Cluster, cycle'[m].list # <<>>
               PROVE  Behind(cycle'[m].list[d], status'[d], late)
    BY <1>1, Zenon
  <2>1. cycle'[m].list = cycle[m].list
    BY <1>4, Zenon
  <2>2. /\ Behind(cycle[m].list[d], status[d], late)
        /\ cycle[m].list[d].attempt \in 0..now /\ cycle[m].list[d].success \in 0..now
    BY <2>1, Times, Zenon DEF PublishedInv
  <2>3. CASE d = c
    BY <1>9, <2>1, <2>2, <2>3, Zenon
  <2>4. CASE d # c
    BY <1>3, <2>1, <2>2, <2>4, Zenon
  <2> QED
    BY <2>3, <2>4, Zenon
<1>12. \A m \in Node : \A x \in Results(cycle'[m]) : Fresh(x, now', late', path'[m][x.cluster])
  BY <1>1, <1>4, ZenonT(30) DEF PublishedInv
<1>13. proved' \in [Cluster -> 0..now']
  BY <1>1, <1>2, <1>6, ZenonT(30) DEF PublishedInv
<1>14. Attested(proved'[c], status'[c], late')
  <2>1. r.ok = (path[n][c] = c) /\ r.at > 0 /\ now - r.at <= late /\ Attested(proved[c], status[c], late)
    BY <1>5, Zenon DEF Fresh, PublishedInv
  <2>2. CASE r.ok
    <3>1. proved'[c] = IF proved[c] < r.at THEN r.at ELSE proved[c]
      BY <1>2, <1>5, <2>1, <2>2, ZenonT(30) DEF PublishedInv
    <3> QED
      BY <1>1, <1>6, <1>7, <1>8, <2>1, <2>2, <3>1, StaleAssumption DEF Attested, Lasting
  <2>3. CASE ~r.ok
    <3>1. proved'[c] = proved[c] /\ status'[c].success = status[c].success
      BY <1>2, <1>3, <2>1, <2>3, ZenonT(30)
    <3> QED
      BY <1>1, <1>6, <1>7, <2>1, <3>1, StaleAssumption DEF Attested, Lasting
  <2> QED
    BY <2>2, <2>3, Zenon
<1>15. \A d \in Cluster : Attested(proved'[d], status'[d], late')
  <2>1. \A d \in Cluster \ {c} : proved'[d] = proved[d] /\ status'[d] = status[d]
    BY <1>2, <1>3, ZenonT(30) DEF PublishedInv
  <2> QED
    BY <1>1, <1>14, <2>1, ZenonT(30) DEF PublishedInv
<1> QED
  BY <1>1, <1>10, <1>11, <1>12, <1>13, <1>15, Zenon DEF PublishedInv

\* At rest nothing is under way.
LEMMA AtRest ==
  ASSUME Settled
  PROVE  \A n \in Node : /\ due[n] = {} /\ cache[n] = status /\ cycle[n] = Idle
                         /\ cycle[n].list = <<>> /\ Results(cycle[n]) = {}
BY DEF Settled, Rests, Idle, Results

\* The clock: a result that is not published in its interval was late.
LEMMA TickPublished ==
  ASSUME FailoverInv, FailoverInv', PublishedInv, Tick
  PROVE  PublishedInv'
<1>1. UNCHANGED <<path, status, cache, cycle, proved>> /\ now' = now + 1
  BY Zenon DEF Tick
<1>2. /\ now \in Nat /\ late \in Nat /\ used \in Nat /\ MaxEvents \in Nat
      /\ late <= used /\ used <= MaxEvents
  BY Counters, Zenon
<1>3. \A l \in Nat : l >= late => /\ \A x : \A c \in Cluster : x.attempt \in Nat /\ x.success \in Nat =>
                                         (Behind(x, status[c], late) => Behind(x, status[c], l))
                                  /\ \A c \in Cluster : Attested(proved[c], status[c], l)
  <2> SUFFICES ASSUME NEW l \in Nat, l >= late, NEW c \in Cluster
               PROVE  /\ \A x : x.attempt \in Nat /\ x.success \in Nat =>
                             (Behind(x, status[c], late) => Behind(x, status[c], l))
                      /\ Attested(proved[c], status[c], l)
    BY Zenon
  <2>1. status[c].attempt \in Nat /\ status[c].success \in Nat /\ proved[c] \in Nat
    BY Moments, Zenon
  <2>2. \A x : x.attempt \in Nat /\ x.success \in Nat =>
            (Behind(x, status[c], late) => Behind(x, status[c], l))
    BY <1>2, <2>1 DEF Behind
  <2>3. Attested(proved[c], status[c], late)
    BY Zenon DEF PublishedInv
  <2>4. Attested(proved[c], status[c], l)
    BY <1>2, <2>1, <2>3, StaleAssumption DEF Attested
  <2> QED
    BY <2>2, <2>4, Zenon
<1>4. /\ late' \in 0..used' /\ used' \in 0..MaxEvents /\ late' \in Nat /\ late' >= late
      /\ \/ late' = late /\ Settled
         \/ late' = late + 1
  BY <1>2 DEF Tick, Event
<1>5. proved' \in [Cluster -> 0..now']
  <2>1. 0..now \subseteq 0..now'
    BY <1>1, <1>2
  <2> QED
    BY <1>1, <2>1, Zenon DEF PublishedInv
<1>6. \A c \in Cluster : Attested(proved'[c], status'[c], late')
  BY <1>1, <1>3, <1>4, Zenon
<1>7. \A n \in Node, c \in Cluster : Behind(cache'[n][c], status'[c], late')
  <2> TAKE n \in Node, c \in Cluster
  <2>1. cache[n][c].attempt \in Nat /\ cache[n][c].success \in Nat /\ Behind(cache[n][c], status[c], late)
    BY Moments, Zenon DEF PublishedInv
  <2> QED
    BY <1>1, <1>3, <1>4, <2>1, Zenon
<1>8. \A n \in Node, c \in Cluster :
         cycle'[n].list # <<>> => Behind(cycle'[n].list[c], status'[c], late')
  <2> SUFFICES ASSUME NEW n \in Node, NEW c \in Cluster, cycle[n].list # <<>>
               PROVE  Behind(cycle[n].list[c], status[c], late')
    BY <1>1, Zenon
  <2>1. /\ cycle[n].list[c].attempt \in Nat /\ cycle[n].list[c].success \in Nat
        /\ Behind(cycle[n].list[c], status[c], late)
    BY Moments, Zenon DEF PublishedInv
  <2> QED
    BY <1>3, <1>4, <2>1, ZenonT(30)
<1>9. \A n \in Node : \A r \in Results(cycle'[n]) : Fresh(r, now', late', path'[n][r.cluster])
  <2>1. CASE Settled
    BY <1>1, <2>1, AtRest, Zenon
  <2>2. CASE late' = late + 1
    <3> SUFFICES ASSUME NEW n \in Node, NEW r \in Results(cycle[n])
                 PROVE  Fresh(r, now', late', path[n][r.cluster])
      BY <1>1, Zenon
    <3>1. Fresh(r, now, late, path[n][r.cluster])
      BY Zenon DEF PublishedInv
    <3>2. r.at \in Nat
      <4>1. cycle[n].results \in Seq(Result(0..now))
        BY ZenonT(30) DEF FailoverInv, Cycles, Result
      <4>2. r \in Result(0..now)
        BY <4>1 DEF Results
      <4> QED
        BY <4>2, <1>2 DEF Result
    <3> QED
      BY <1>1, <1>2, <2>2, <3>1, <3>2 DEF Fresh
  <2> QED
    BY <1>4, <2>1, <2>2, Zenon
<1> QED
  BY <1>4, <1>5, <1>6, <1>7, <1>8, <1>9, ZenonT(30) DEF PublishedInv

\* Every step keeps what is published close to what was dialled.
LEMMA PublishedStep ==
  ASSUME ClustersListed, FailoverInv, FailoverInv', PublishedInv, [Next]_vars
  PROVE  PublishedInv'
<1>1. /\ late \in 0..used /\ used \in 0..MaxEvents /\ late \in Nat
      /\ used < MaxEvents => used + 1 \in 0..MaxEvents
  BY FailoverAssumption DEF PublishedInv
<1>2. ASSUME UNCHANGED path, NEW m \in Node, Results(cycle'[m]) \subseteq Results(cycle[m])
      PROVE  \A r \in Results(cycle'[m]) : Fresh(r, now, late, path'[m][r.cluster])
  BY <1>2, Zenon DEF PublishedInv
<1>3. CASE UNCHANGED vars
  <2>1. Quiet
    BY <1>1, <1>2, <1>3, Zenon DEF vars, history, Quiet
  <2> QED
    BY <2>1, QuietPublished, Zenon
<1>4. CASE StopProbing
  <2>1. Quiet
    BY <1>1, <1>2, <1>4, Zenon DEF StopProbing, history, Event, Quiet
  <2> QED
    BY <2>1, QuietPublished, Zenon
<1>5. ASSUME NEW n \in Node, NEW c \in Cluster, NEW p \in Path(c),
             Flip({n}, c, p) \/ Flip(Node, c, p)
      PROVE  PublishedInv'
  <2>1. Settled /\ UNCHANGED <<now, status, cache, cycle, proved, late>> /\ used < MaxEvents /\ used' = used + 1
    BY <1>5, Zenon DEF Flip, history, Event
  <2>2. \A m \in Node : \A r \in Results(cycle'[m]) : Fresh(r, now, late, path'[m][r.cluster])
    BY <2>1, AtRest, Zenon
  <2>3. Quiet
    BY <1>1, <2>1, <2>2, Zenon DEF Quiet
  <2> QED
    BY <2>3, QuietPublished, Zenon
<1>6. ASSUME NEW n \in Node, Dial(n) PROVE PublishedInv'
  <2>1. UNCHANGED <<now, path, status, cache, proved, late, used>>
    BY <1>6, Zenon DEF Dial, history
  <2>2. \A m \in Node : \A r \in Results(cycle'[m]) : Fresh(r, now, late, path'[m][r.cluster])
    <3>1. /\ \A m \in Node \ {n} : cycle'[m] = cycle[m]
          /\ \A r \in Results(cycle'[n]) : r.at = now /\ r.ok = (path[n][r.cluster] = r.cluster)
      BY <1>6, Dials, Zenon
    <3>2. \A r \in Results(cycle'[n]) : Fresh(r, now, late, path'[n][r.cluster])
      BY <1>1, <2>1, <3>1, Times DEF Fresh
    <3> QED
      BY <2>1, <3>1, <3>2, Zenon DEF PublishedInv
  <2>3. \A m \in Node : cycle'[m].list = <<>> \/ cycle'[m].list = cycle[m].list
    BY <1>6, Dials, Zenon
  <2>4. Quiet
    BY <1>1, <2>1, <2>2, <2>3, Zenon DEF Quiet
  <2> QED
    BY <2>4, QuietPublished, Zenon
<1>7. ASSUME NEW n \in Node, PublishList(n) PROVE PublishedInv'
  <2>1. UNCHANGED <<now, path, status, cache, proved, late, used>>
    BY <1>7, Zenon DEF PublishList, history
  <2>2. /\ \A m \in Node \ {n} : cycle'[m] = cycle[m]
        /\ cycle'[n].results = cycle[n].results /\ cycle'[n].list = cache[n]
    BY <1>7 DEF PublishList, FailoverInv, Cycles
  <2>3. \A m \in Node : Results(cycle'[m]) = Results(cycle[m])
    BY <2>2, Zenon DEF Results
  <2>4. Quiet
    BY <1>1, <1>2, <2>1, <2>2, <2>3, Zenon DEF Quiet
  <2> QED
    BY <2>4, QuietPublished, Zenon
<1>8. ASSUME NEW n \in Node, PatchFails(n) PROVE PublishedInv'
  <2>1. /\ UNCHANGED <<now, path, status, cache, proved, late>> /\ NextResult(n)
        /\ used < MaxEvents /\ used' = used + 1 /\ cycle[n].results # <<>>
    BY <1>8 DEF PatchFails, history, Event, FailoverInv, CyclesRight, Idle
  <2>2. /\ \A m \in Node : Results(cycle'[m]) \subseteq Results(cycle[m])
        /\ \A m \in Node : cycle'[m].list = <<>> \/ cycle'[m].list = cycle[m].list
    BY <2>1, NextResults, Zenon
  <2>3. Quiet
    BY <1>1, <1>2, <2>1, <2>2, ZenonT(30) DEF Quiet
  <2> QED
    BY <2>3, QuietPublished, Zenon
<1>9. ASSUME NEW n \in Node, SyncNAT(n) PROVE PublishedInv'
  <2>1. Quiet
    BY <1>1, <1>2, <1>9, ZenonT(30) DEF SyncNAT, history, Quiet
  <2> QED
    BY <2>1, QuietPublished, Zenon
<1>10. ASSUME NEW n \in Node, Deliver(n) PROVE PublishedInv'
  <2>1. \A m \in Node : cache'[m] = cache[m] \/ cache'[m] = status
    BY <1>10, Zenon DEF Deliver, FailoverInv
  <2>2. Quiet
    BY <1>1, <1>2, <1>10, <2>1, ZenonT(30) DEF Deliver, history, Quiet
  <2> QED
    BY <2>2, QuietPublished, Zenon
<1>11. ASSUME NEW n \in Node, Restart(n) PROVE PublishedInv'
  <2>1. /\ UNCHANGED <<now, path, status, proved, late>>
        /\ used < MaxEvents /\ used' = used + 1
    BY <1>11, Zenon DEF Restart, history, Event
  <2>2. \A m \in Node : /\ cache'[m] = cache[m] \/ cache'[m] = status
                        /\ cycle'[m] = cycle[m] \/ cycle'[m] = Idle
    BY <1>11, Zenon DEF Restart, FailoverInv
  <2>3. Results(Idle) = {} /\ Idle.list = <<>>
    BY DEF Results, Idle
  <2>4. \A m \in Node : /\ Results(cycle'[m]) \subseteq Results(cycle[m])
                        /\ cycle'[m].list = <<>> \/ cycle'[m].list = cycle[m].list
    BY <2>2, <2>3, Zenon
  <2>5. Quiet
    BY <1>1, <1>2, <2>1, <2>2, <2>4, Zenon DEF Quiet
  <2> QED
    BY <2>5, QuietPublished, Zenon
<1>12. ASSUME NEW n \in Node, NEW c \in Cluster, RefreshPeer(n, c) PROVE PublishedInv'
  <2>1. \A d \in Cluster : status'[d].attempt = status[d].attempt /\ status'[d].success = status[d].success
    BY <1>12, Refreshes, Zenon
  <2>2. UNCHANGED <<now, path, cache, cycle, proved, late, used>>
    BY <1>12, Zenon DEF RefreshPeer, history
  <2>3. Quiet
    BY <1>1, <1>2, <2>1, <2>2, Zenon DEF Quiet
  <2> QED
    BY <2>3, QuietPublished, Zenon
<1>13. ASSUME NEW n \in Node, NEW c \in Cluster, PeerFails(n, c) PROVE PublishedInv'
  <2>1. \A d \in Cluster : status'[d].attempt = status[d].attempt /\ status'[d].success = status[d].success
    BY <1>13, Fails, Zenon
  <2>2. UNCHANGED <<now, path, cache, cycle, proved, late>> /\ used < MaxEvents /\ used' = used + 1
    BY <1>13, Zenon DEF PeerFails, history, Event
  <2>3. Quiet
    BY <1>1, <1>2, <2>1, <2>2, Zenon DEF Quiet
  <2> QED
    BY <2>3, QuietPublished, Zenon
<1> QED
  BY <1>3, <1>4, <1>5, <1>6, <1>7, <1>8, <1>9, <1>10, <1>11, <1>12, <1>13,
     PublishOnePublished, TickPublished, ZenonT(30) DEF Next
=============================================================================
