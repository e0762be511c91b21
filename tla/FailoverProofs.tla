--------------------------- MODULE FailoverProofs ---------------------------
(***************************************************************************)
(* Failover stops sending traffic to a cluster that is dead, and to no     *)
(* other without a cause, for any nodes, clusters, windows and services:   *)
(* the invariants that tie what a node balances over to what was dialled.  *)
(***************************************************************************)
EXTENDS ProberProofs

\* The time, in seconds, that the backend provers have for a leaf.
USE SMTT(30), ZenonT(30)

-----------------------------------------------------------------------------
(***************************************************************************)
(* While the prober is deployed it attempts every peer often enough: the   *)
(* last attempt is older than a refresh only by two intervals for every    *)
(* event, and where it is about to get older a result is on its way.  A    *)
(* peer in Error is not dialled; its reconcile is due in every interval.   *)
(***************************************************************************)
Lag(c) == now - status[c].attempt - 2 * used
Awaited(c) ==
    \E n \in Node : \/ "probe" \in due[n] /\ cache[n][c].phase = "Connected"
                    \/ \E r \in Results(cycle[n]) : r.cluster = c
Retried(c) == \A n \in Node : cache[n][c].phase = "Error" /\ c \in due[n]
Attempted(c) ==
    /\ Lag(c) <= probeStatusRefresh
    /\ Awaited(c) \/ Lag(c) < probeStatusRefresh
    /\ status[c].phase = "Error" =>
          /\ late < used
          /\ Lag(c) < probeStatusRefresh - 1 \/ (Lag(c) < probeStatusRefresh /\ Retried(c))
LagInv == probing => \A c \in Cluster : Attempted(c)

\* At the start every peer is about to be dialled.
LEMMA LagInit == Init => LagInv
<1> SUFFICES ASSUME Init, NEW c \in Cluster PROVE Attempted(c)
  BY Zenon DEF LagInv
<1>1. Lag(c) = 1 /\ status[c].phase = "Connected"
  BY DEF Init, Lag
<1>2. \A n \in Node : "probe" \in due[n] /\ cache[n][c].phase = "Connected"
  BY Zenon DEF Init, Work
<1> QED
  BY <1>1, <1>2, FailoverAssumption, StaleAssumption, WindowAssumption DEF Attempted, Awaited

\* A step that takes no time and leaves a peer as it is, awaited when it was.
LEMMA AttemptedKept ==
  ASSUME NEW c \in Cluster, Attempted(c), UNCHANGED <<now, late, used>>,
         status'[c].attempt = status[c].attempt, status'[c].phase = status[c].phase,
         Awaited(c) => Awaited(c)', Retried(c) => Retried(c)'
  PROVE  Attempted(c)'
<1>1. Lag(c)' = Lag(c)
  BY Zenon DEF Lag
<1> QED
  BY <1>1, Zenon DEF Attempted

\* An event makes up for itself.
LEMMA EventLag ==
  ASSUME FailoverInv, PublishedInv, LagInv, UNCHANGED <<now, late, probing>>, used' = used + 1,
         \A c \in Cluster : status'[c].attempt = status[c].attempt
  PROVE  LagInv'
<1> SUFFICES ASSUME probing, NEW c \in Cluster PROVE Attempted(c)'
  BY Zenon DEF LagInv
<1>1. now \in Nat /\ status[c].attempt \in Nat /\ used \in Nat /\ late \in Nat /\ late <= used
  BY Counters, Moments, Zenon
<1>2. Lag(c) \in Int /\ Lag(c)' = Lag(c) - 2
  BY <1>1 DEF Lag
<1>3. Lag(c) <= probeStatusRefresh
  BY Zenon DEF LagInv, Attempted
<1>4. /\ Lag(c)' <= probeStatusRefresh /\ Lag(c)' < probeStatusRefresh
      /\ Lag(c)' < probeStatusRefresh - 1 /\ late' < used'
  BY <1>1, <1>2, <1>3, StaleAssumption
<1> QED
  BY <1>4, Zenon DEF Attempted

\* A published result is recent, or the status it was folded into is.
LEMMA PublishOneLag ==
  ASSUME FailoverInv, FailoverInv', PublishedInv, LagInv, NEW n \in Node, PublishOne(n)
  PROVE  LagInv'
<1> DEFINE r == Head(cycle[n].results)
           cur == cycle[n].list[r.cluster]
<1>1. UNCHANGED <<now, cache, due, probing, late, used>> /\ NextResult(n)
  BY ZenonT(30) DEF PublishOne
<1>2. /\ cycle[n].results # <<>> /\ cycle[n].list # <<>>
      /\ r \in Result(0..now) /\ cur \in Written(0..now)
      /\ \A d \in Cluster \ {r.cluster} : status'[d] = status[d]
      /\ status'[r.cluster].phase = status[r.cluster].phase
      /\ Folded(status'[r.cluster].attempt, status[r.cluster].attempt, cur.attempt, r.at)
  BY Publishes, ZenonT(30)
<1>3. /\ \A m \in Node \ {n} : cycle'[m] = cycle[m]
      /\ Results(cycle[n]) \subseteq Results(cycle'[n]) \cup {r} /\ r \in Results(cycle[n])
  BY <1>1, <1>2, NextResults, ZenonT(30)
<1>4. Fresh(r, now, late, path[n][r.cluster]) /\ Behind(cur, status[r.cluster], late) /\ r.cluster \in Cluster
  BY <1>2, <1>3, ZenonT(30) DEF PublishedInv, Result
<1> HIDE DEF r, cur
<1> SUFFICES ASSUME probing, NEW c \in Cluster PROVE Attempted(c)'
  BY <1>1, Zenon DEF LagInv
<1>5. Attempted(c)
  BY Zenon DEF LagInv
<1>6. CASE c # r.cluster
  <2>1. status'[c] = status[c]
    BY <1>2, <1>6, Zenon
  <2>2. Awaited(c) => Awaited(c)'
    BY <1>1, <1>3, <1>6, ZenonT(30) DEF Awaited
  <2>3. Retried(c) => Retried(c)'
    BY <1>1, Zenon DEF Retried
  <2> QED
    BY <1>1, <1>5, <2>1, <2>2, <2>3, AttemptedKept, Zenon
<1>7. CASE c = r.cluster
  <2>1. /\ now \in Nat /\ late \in Nat /\ used \in Nat /\ late <= used /\ r.at \in Nat
        /\ cur.attempt \in Nat /\ status[c].attempt \in Nat /\ status'[c].attempt \in Nat
    <3>1. status'[c] \in Written(0..now)
      BY <1>1, Zenon DEF FailoverInv, Statuses
    <3> QED
      <4>1. \A t \in 0..now : t \in Nat
        OBVIOUS
      <4>2. r.at \in 0..now /\ cur.attempt \in 0..now /\ status'[c].attempt \in 0..now
        BY ONLY <1>2, <3>1, Zenon DEF Result, Written
      <4> QED
        BY <4>1, <4>2, Counters, Moments, Zenon
  <2>2. Recorded(status'[c].attempt, status[c].attempt, cur.attempt, r.at, now, late)
    BY <1>2, <1>4, <1>7, <2>1, ZenonT(30) DEF Recorded, Fresh, Behind
  <2>3. Lasting(status'[c].attempt, status[c].attempt, r.at, now, late)
    BY ONLY <2>2, FoldedTimes, ZenonT(30)
  <2>4. Lag(c)' = now - status'[c].attempt - 2 * used
    BY <1>1, Zenon DEF Lag
  <2>5. /\ Lag(c)' <= probeStatusRefresh /\ Lag(c)' < probeStatusRefresh
        /\ late < used => Lag(c)' < probeStatusRefresh - 1
    BY <2>1, <2>3, <2>4, StaleAssumption DEF Lasting
  <2>6. status'[c].phase = "Error" => late' < used'
    BY <1>1, <1>2, <1>5, <1>7, Zenon DEF Attempted
  <2> QED
    BY <1>1, <2>5, <2>6, Zenon DEF Attempted
<1> QED
  BY <1>6, <1>7, Zenon

\* The clock: at rest nothing is awaited and nothing retried, so that every peer had an
\* interval to spare; then everything is due again.
LEMMA TickLag ==
  ASSUME FailoverInv, PublishedInv, LagInv, Tick
  PROVE  LagInv'
<1> SUFFICES ASSUME probing, NEW c \in Cluster PROVE Attempted(c)'
  BY Zenon DEF LagInv, Tick
<1>1. /\ now \in Nat /\ status[c].attempt \in Nat /\ used \in Nat /\ late \in Nat /\ late <= used
      /\ status[c].phase \in {"Connected", "Error"} /\ probeStatusRefresh \in Nat
  BY Times, Counters, Moments, Zenon
<1>2. UNCHANGED <<status, cache, cycle>> /\ now' = now + 1
  BY Zenon DEF Tick
<1>3. Attempted(c)
  BY Zenon DEF LagInv
<1>4. \A n \in Node : due[n] = {}
  BY AtRest, Zenon DEF Tick
<1>5. ~Retried(c) /\ Lag(c) \in Int
  BY <1>1, <1>4, FailoverAssumption DEF Retried, Lag
<1>6. CASE Settled /\ UNCHANGED <<late, used>>
  <2>1. \A n \in Node : cycle[n] = Idle /\ Results(cycle[n]) = {} /\ cache[n] = status
    BY <1>6, AtRest, Zenon
  <2>2. ~Awaited(c)
    BY <1>4, <2>1, Zenon DEF Awaited
  <2>3. Lag(c)' = Lag(c) + 1
    BY <1>1, <1>2, <1>6 DEF Lag
  <2>4. \A n \in Node : "probe" \in due'[n]
    BY <2>1, FailoverAssumption, Zenon DEF Tick, Work
  <2>5. CASE status[c].phase = "Connected"
    <3>1. Awaited(c)'
      BY <1>2, <2>1, <2>4, <2>5, FailoverAssumption, Zenon DEF Awaited
    <3>2. Lag(c)' <= probeStatusRefresh
      BY <1>1, <1>3, <1>5, <2>2, <2>3 DEF Attempted
    <3> QED
      BY <1>2, <2>5, <3>1, <3>2, Zenon DEF Attempted
  <2>6. CASE status[c].phase = "Error"
    <3>1. Lag(c) < probeStatusRefresh - 1 /\ late < used
      BY <1>3, <1>5, <2>6, Zenon DEF Attempted
    <3>2. Lag(c)' <= probeStatusRefresh /\ Lag(c)' < probeStatusRefresh
      BY <1>1, <1>5, <2>3, <3>1
    <3>3. Retried(c)'
      BY <1>2, <2>1, <2>6, FailoverAssumption, Zenon DEF Retried, Tick, Work
    <3> QED
      BY <1>6, <3>1, <3>2, <3>3, Zenon DEF Attempted
  <2> QED
    BY <1>1, <2>5, <2>6, Zenon
<1>7. CASE used' = used + 1 /\ late' = late + 1
  <2>1. Lag(c)' = Lag(c) - 1
    BY <1>1, <1>2, <1>7 DEF Lag
  <2>2. Lag(c)' <= probeStatusRefresh /\ Lag(c)' < probeStatusRefresh
    BY <1>1, <1>3, <1>5, <2>1 DEF Attempted
  <2>3. status'[c].phase = "Error" => late' < used' /\ Lag(c)' < probeStatusRefresh - 1
    BY <1>1, <1>2, <1>3, <1>5, <1>7, <2>1 DEF Attempted
  <2> QED
    BY <2>2, <2>3, Zenon DEF Attempted
<1> QED
  BY <1>6, <1>7, Zenon DEF Tick, Event

\* Every step leaves the prober time.
LEMMA LagStep ==
  ASSUME ClustersListed, FailoverInv, FailoverInv', PublishedInv, LagInv, [Next]_vars
  PROVE  LagInv'
<1>1. ASSUME UNCHANGED <<now, status, late, used, probing>>,
             \A c \in Cluster : (Awaited(c) => Awaited(c)') /\ (Retried(c) => Retried(c)')
      PROVE  LagInv'
  BY <1>1, AttemptedKept, Zenon DEF LagInv
<1>2. CASE UNCHANGED vars
  BY <1>1, <1>2, Zenon DEF vars, history, Awaited, Retried
<1>3. CASE StopProbing
  BY <1>3, Zenon DEF StopProbing, LagInv
<1>4. ASSUME NEW n \in Node, NEW c \in Cluster, NEW p \in Path(c),
             Flip({n}, c, p) \/ Flip(Node, c, p)
      PROVE  LagInv'
  BY <1>4, EventLag, Zenon DEF Flip, history, Event
<1>5. ASSUME NEW n \in Node, PatchFails(n) \/ Restart(n) PROVE LagInv'
  BY <1>5, EventLag, ZenonT(30) DEF PatchFails, Restart, history, Event
<1>6. ASSUME NEW n \in Node, NEW c \in Cluster, PeerFails(n, c) PROVE LagInv'
  <2>1. \A d \in Cluster : status'[d].attempt = status[d].attempt
    BY <1>6, Fails, Zenon
  <2> QED
    BY <1>6, <2>1, EventLag, Zenon DEF PeerFails, history, Event
<1>7. ASSUME NEW n \in Node, Dial(n) PROVE LagInv'
  <2>1. /\ UNCHANGED <<now, status, cache, late, used, probing>>
        /\ due' = [due EXCEPT ![n] = @ \ {"probe"}]
    BY <1>7, Zenon DEF Dial, history
  <2>2. due'[n] = due[n] \ {"probe"} /\ \A m \in Node \ {n} : due'[m] = due[m]
    BY <2>1, Zenon DEF FailoverInv
  <2>3. /\ Results(cycle[n]) = {} /\ \A m \in Node \ {n} : cycle'[m] = cycle[m]
        /\ \A c \in Cluster : cache[n][c].phase = "Connected" =>
               \E r \in Results(cycle'[n]) : r.cluster = c
    BY <1>7, Dials DEF Results, Idle
  <2>4. ASSUME NEW c \in Cluster, Awaited(c) PROVE Awaited(c)'
    BY <2>1, <2>2, <2>3, <2>4 DEF Awaited
  <2>5. ASSUME NEW c \in Cluster, Retried(c) PROVE Retried(c)'
    BY <2>1, <2>2, <2>5, FailoverAssumption, Zenon DEF Retried
  <2> QED
    BY <1>1, <2>1, <2>4, <2>5, Zenon
<1>8. ASSUME NEW n \in Node, PublishList(n) PROVE LagInv'
  <2>1. UNCHANGED <<now, status, cache, due, late, used, probing>>
    BY <1>8, Zenon DEF PublishList, history
  <2>2. \A m \in Node : cycle'[m].results = cycle[m].results
    BY <1>8 DEF PublishList, FailoverInv, Cycles
  <2> QED
    BY <1>1, <2>1, <2>2, Zenon DEF Awaited, Retried, Results
<1>9. ASSUME NEW n \in Node, SyncNAT(n) PROVE LagInv'
  <2>1. /\ UNCHANGED <<now, status, cache, cycle, late, used, probing>>
        /\ \A m \in Node : \A w \in {"probe"} \cup Cluster : w \in due[m] => w \in due'[m]
    BY <1>9, FailoverAssumption, Zenon DEF SyncNAT, history, FailoverInv
  <2> QED
    BY <1>1, <2>1, ZenonT(30) DEF Awaited, Retried
<1>10. ASSUME NEW n \in Node, Deliver(n) PROVE LagInv'
  <2>1. /\ UNCHANGED <<now, status, cycle, late, used, probing>>
        /\ \A m \in Node : due[m] \subseteq due'[m]
        /\ cache'[n] = status /\ \A m \in Node \ {n} : cache'[m] = cache[m]
    BY <1>10, Zenon DEF Deliver, history, FailoverInv
  <2> SUFFICES ASSUME probing, NEW c \in Cluster PROVE Attempted(c)'
    BY <2>1, Zenon DEF LagInv
  <2>2. Attempted(c) /\ Lag(c)' = Lag(c)
    BY <2>1, Zenon DEF LagInv, Lag
  <2>3. CASE status[c].phase = "Error"
    <3>1. Retried(c) => Retried(c)'
      BY <2>1, <2>3, Zenon DEF Retried
    <3>2. /\ Lag(c) \in Int /\ late < used
          /\ Lag(c) < probeStatusRefresh - 1 \/ (Lag(c) < probeStatusRefresh /\ Retried(c))
      <4>1. now \in Nat /\ status[c].attempt \in Nat /\ used \in Nat /\ late \in Nat
        BY Counters, Moments, Zenon
      <4>2. Lag(c) \in Int
        BY ONLY <4>1 DEF Lag
      <4> QED
        BY <2>2, <2>3, <4>2, Zenon DEF Attempted
    <3>3. Lag(c) < probeStatusRefresh
      BY <3>2, StaleAssumption
    <3> QED
      BY <2>1, <2>2, <3>1, <3>2, <3>3, Zenon DEF Attempted
  <2>4. CASE status[c].phase # "Error"
    <3>1. status[c].phase = "Connected"
      BY <2>4, Times, ZenonT(30)
    <3>2. Awaited(c) => Awaited(c)'
      BY <2>1, <3>1, Zenon DEF Awaited
    <3> QED
      BY <2>1, <2>2, <2>4, <3>2, ZenonT(30) DEF Attempted
  <2> QED
    BY <2>3, <2>4, Zenon
<1>11. ASSUME NEW n \in Node, NEW c \in Cluster, RefreshPeer(n, c) PROVE LagInv'
  <2>1. /\ UNCHANGED <<now, cache, cycle, late, used, probing>>
        /\ \A m \in Node : \A w \in ({"probe"} \cup Cluster) \ {c} : w \in due[m] => w \in due'[m]
    BY <1>11, Zenon DEF RefreshPeer, history, FailoverInv
  <2>2. /\ \A d \in Cluster \ {c} : status'[d] = status[d]
        /\ status'[c].attempt = status[c].attempt
        /\ status'[c].phase = IF cache[n][c].phase # "Connected" THEN "Connected" ELSE status[c].phase
    BY <1>11, Refreshes, Zenon
  <2>3. "probe" # c
    BY FailoverAssumption, Zenon
  <2> SUFFICES ASSUME probing, NEW d \in Cluster PROVE Attempted(d)'
    BY <2>1, Zenon DEF LagInv
  <2>4. Attempted(d)
    BY Zenon DEF LagInv
  <2>5. Awaited(d) => Awaited(d)'
    BY <2>1, <2>3, Zenon DEF Awaited
  <2>6. CASE d # c
    <3>1. Retried(d) => Retried(d)'
      BY <2>1, <2>6, ZenonT(30) DEF Retried
    <3> QED
      BY <2>1, <2>2, <2>4, <2>5, <2>6, <3>1, AttemptedKept, ZenonT(30)
  <2>7. CASE d = c
    <3>1. Lag(c)' = Lag(c)
      BY <2>1, <2>2, Zenon DEF Lag
    <3>2. status'[c].phase = "Error" => status[c].phase = "Error" /\ ~Retried(c)
      BY <2>2, Zenon DEF Retried
    <3> QED
      BY <2>1, <2>4, <2>5, <2>7, <3>1, <3>2, ZenonT(30) DEF Attempted
  <2> QED
    BY <2>6, <2>7, Zenon
<1> QED
  BY <1>2, <1>3, <1>4, <1>5, <1>6, <1>7, <1>8, <1>9, <1>10, <1>11, PublishOneLag, TickLag, ZenonT(30) DEF Next
-----------------------------------------------------------------------------
(***************************************************************************)
(* The handshakes: after every refresh of the reconciler the status has    *)
(* the handshake of this interval, or a tunnel to the cluster is dead.     *)
(***************************************************************************)
Scheduled == now - ((now - 1) % RefreshInterval)
Renewed(c, t) == dead[c] >= t - late \/ status[c].handshake >= t - late
ShakenAt(n, c) ==
    /\ shook[n][c] > 0 /\ (dead[c] < now => shook[n][c] = now)
    /\ cache[n][c].handshake > 0 => status[c].handshake > 0
    /\ cache[n][c].handshake = now => dead[c] = now \/ status[c].handshake = now
    /\ cache[n][c].phase = "Error" => status[c].phase = "Error" \/ Renewed(c, now)
    /\ status[c].handshake = 0 =>
          status[c].phase = "Error" \/ (c \in due[n] /\ cache[n][c].phase = "Connected")
Shaken(c) ==
    /\ \A n \in Node : ShakenAt(n, c)
    /\ \E n \in Node : status[c].handshake <= shook[n][c]
    /\ status[c].phase = "Error" \/ Renewed(c, Scheduled) \/ \E n \in Node : c \in due[n]
ShookInv == dead \in [Cluster -> 0..now] /\ \A c \in Cluster : Shaken(c)

\* The remainders of two numbers that follow each other.
LEMMA Residue ==
  ASSUME NEW a \in Nat, NEW k \in Nat \ {0}
  PROVE  a % k \in 0..(k - 1) /\ ((a + 1) % k # 0 => (a + 1) % k = (a % k) + 1)
<1>1. a % k \in 0..(k - 1) /\ a = k * (a \div k) + (a % k) /\ a \div k \in Int
  OBVIOUS
<1>2. /\ (a + 1) % k \in 0..(k - 1) /\ (a + 1) \div k \in Int
      /\ a + 1 = k * ((a + 1) \div k) + ((a + 1) % k)
  OBVIOUS
<1>3. ASSUME NEW q \in Int, NEW p \in Int, NEW r \in 0..(k - 1), NEW s \in 0..(k - 1),
             k * p + s = k * q + r + 1, s # 0
      PROVE  s = r + 1
  <2>1. k * (p - q) = r + 1 - s /\ p - q \in Int
    BY <1>3
  <2>2. CASE p - q >= 1
    <3>1. k * (p - q) >= k
      BY <2>1, <2>2
    <3> QED
      BY <1>3, <2>1, <3>1
  <2>3. CASE p - q <= -1
    <3>1. k * (p - q) <= -k
      BY <2>1, <2>3
    <3> QED
      BY <1>3, <2>1, <3>1
  <2>4. CASE p - q = 0
    BY <1>3, <2>1, <2>4
  <2> QED
    BY <2>1, <2>2, <2>3, <2>4
<1> DEFINE q == a \div k
           p == (a + 1) \div k
           r == a % k
           s == (a + 1) % k
<1>4. q \in Int /\ p \in Int /\ r \in 0..(k - 1) /\ s \in 0..(k - 1)
  BY <1>1, <1>2, Zenon
<1>5. a = k * q + r /\ a + 1 = k * p + s
  BY <1>1, <1>2, Zenon
<1> HIDE DEF q, p, r, s
<1>6. k * p \in Int /\ k * q \in Int
  BY <1>4
<1>7. k * p + s = k * q + r + 1
  BY <1>4, <1>5, <1>6, Zenon
<1>8. s # 0 => s = r + 1
  BY <1>3, <1>4, <1>7
<1> QED
  BY <1>4, <1>8, Zenon DEF r, s

\* The last refresh that was due is of the past, and of one refresh interval.
LEMMA ScheduledTimes ==
  ASSUME now \in Nat \ {0}
  PROVE  /\ Scheduled \in Int /\ Scheduled <= now /\ now - Scheduled < RefreshInterval
         /\ now % RefreshInterval # 0 /\ now' = now + 1 => Scheduled' = Scheduled
<1> DEFINE g == (now - 1) % RefreshInterval
<1>1. now - 1 \in Nat /\ RefreshInterval \in Nat \ {0} /\ (now - 1) + 1 = now
  BY FailoverAssumption
<1>2. g \in 0..(RefreshInterval - 1) /\ (now % RefreshInterval # 0 => now % RefreshInterval = g + 1)
  BY <1>1, Residue, ZenonT(30)
<1>3. Scheduled = now - g
  BY Zenon DEF Scheduled
<1>4. now' = now + 1 => Scheduled' = (now + 1) - (now % RefreshInterval)
  BY <1>1 DEF Scheduled
<1> HIDE DEF g
<1> QED
  BY <1>1, <1>2, <1>3, <1>4

\* At the start the kernels have a handshake, and the reconciles that read it are due.
LEMMA ShookInit == Init => ShookInv
<1> SUFFICES ASSUME Init PROVE ShookInv
  BY Zenon
<1>1. dead \in [Cluster -> 0..now]
  BY DEF Init
<1> SUFFICES ASSUME NEW c \in Cluster PROVE Shaken(c)
  BY <1>1, Zenon DEF ShookInv
<1>2. \A n \in Node : c \in due[n]
  BY FailoverAssumption, Zenon DEF Init, Work
<1>3. status[c].handshake = 0 /\ status[c].phase = "Connected" /\ now = 1 /\ dead[c] = 0
  BY Zenon DEF Init
<1>4. \A n \in Node : shook[n][c] = 1 /\ cache[n][c] = status[c]
  BY Zenon DEF Init
<1> QED
  BY <1>2, <1>3, <1>4, FailoverAssumption DEF Shaken, ShakenAt

\* A step that takes no time and leaves a peer as it is, due when it was.
ShookQuiet(c) ==
    /\ UNCHANGED <<now, shook, dead, late>>
    /\ status'[c].phase = status[c].phase /\ status'[c].handshake = status[c].handshake
    /\ \A n \in Node : cache'[n] = cache[n] \/ cache'[n] = status
    /\ \A n \in Node : c \in due[n] => c \in due'[n]

\* Such a step keeps what is known of the handshakes.
LEMMA ShakenKept ==
  ASSUME FailoverInv, NEW c \in Cluster, Shaken(c), ShookQuiet(c)
  PROVE  Shaken(c)'
<1> USE DEF ShookQuiet
<1>1. /\ Scheduled' = Scheduled /\ Renewed(c, now)' = Renewed(c, now)
      /\ Renewed(c, Scheduled)' = Renewed(c, Scheduled)
  BY Zenon DEF Scheduled, Renewed
<1>2. ASSUME NEW n \in Node PROVE ShakenAt(n, c)'
  <2>1. ShakenAt(n, c) /\ status[c].phase \in {"Connected", "Error"}
    BY Times, ZenonT(30) DEF Shaken
  <2>2. CASE cache'[n] = cache[n]
    BY <1>1, <2>1, <2>2, Zenon DEF ShakenAt
  <2>3. CASE cache'[n] = status
    BY <1>1, <2>1, <2>3, Zenon DEF ShakenAt
  <2> QED
    BY <2>2, <2>3, Zenon
<1> QED
  BY <1>1, <1>2, Zenon DEF Shaken

\* A reconcile leaves the handshake of this interval, unless a tunnel is dead.
LEMMA RefreshShook ==
  ASSUME FailoverInv, PublishedInv, ShookInv, NEW n \in Node, NEW c \in Cluster, RefreshPeer(n, c)
  PROVE  Shaken(c)'
<1>1. UNCHANGED <<now, shook, cache, dead, late>>
  BY Zenon DEF RefreshPeer, history
<1>2. status'[c].handshake = IF shook[n][c] # cache[n][c].handshake THEN shook[n][c] ELSE status[c].handshake
  BY Refreshes, Zenon
<1>3. /\ now \in Nat \ {0} /\ late \in Nat /\ dead[c] \in 0..now
      /\ shook[n][c] \in 0..now /\ cache[n][c].handshake \in 0..now /\ status[c].handshake \in 0..now
  BY Times, Counters, Zenon DEF ShookInv
<1>4. Shaken(c) /\ ShakenAt(n, c)
  BY ZenonT(30) DEF ShookInv, Shaken
<1>5. status'[c].handshake > 0 /\ (dead[c] = now \/ status'[c].handshake = now)
  BY <1>2, <1>3, <1>4 DEF ShakenAt
<1>6. Renewed(c, now)' /\ Renewed(c, Scheduled)'
  <2>1. Scheduled' = Scheduled /\ Scheduled \in Int /\ Scheduled <= now
    BY <1>1, <1>3, ScheduledTimes, Zenon DEF Scheduled
  <2> QED
    BY <1>1, <1>3, <1>5, <2>1 DEF Renewed
<1>7. \A m \in Node : ShakenAt(m, c)'
  BY <1>1, <1>3, <1>4, <1>5, <1>6 DEF Shaken, ShakenAt
<1>8. \E m \in Node : status'[c].handshake <= shook'[m][c]
  BY <1>1, <1>2, <1>3, <1>4 DEF Shaken
<1> QED
  BY <1>6, <1>7, <1>8, ZenonT(30) DEF Shaken

\* A failing reconcile writes Error, or finds it written and then overtaken by a refresh.
LEMMA FailsShook ==
  ASSUME FailoverInv, PublishedInv, ShookInv, NEW n \in Node, NEW c \in Cluster, PeerFails(n, c)
  PROVE  Shaken(c)'
<1>1. /\ UNCHANGED <<now, shook, cache, dead, late>>
      /\ due' = [due EXCEPT ![n] = @ \ {c}]
  BY Zenon DEF PeerFails, history
<1>2. /\ status'[c].handshake = status[c].handshake
      /\ status'[c].phase = IF cache[n][c].phase # "Error" THEN "Error" ELSE status[c].phase
  BY Fails, ZenonT(30)
<1>3. /\ now \in Nat \ {0} /\ late \in Nat /\ dead[c] \in 0..now
      /\ status[c].handshake \in 0..now /\ \A m \in Node : cache[m][c].phase \in {"Connected", "Error"}
  BY Times, Counters, Zenon DEF ShookInv
<1>4. Shaken(c) /\ ShakenAt(n, c)
  BY ZenonT(30) DEF ShookInv, Shaken
<1>5. /\ Scheduled' = Scheduled /\ Renewed(c, now)' = Renewed(c, now)
      /\ Renewed(c, Scheduled)' = Renewed(c, Scheduled)
  BY <1>1, <1>2, Zenon DEF Scheduled, Renewed
<1>6. Renewed(c, now) => Renewed(c, Scheduled)
  BY <1>3, ScheduledTimes DEF Renewed
<1>7. status'[c].phase # "Error" =>
         status[c].phase = status'[c].phase /\ cache[n][c].phase = "Error" /\ Renewed(c, now)
  BY <1>2, <1>4, ZenonT(30) DEF ShakenAt
<1>8. status[c].handshake = 0 => status'[c].phase = "Error"
  BY <1>2, <1>4, Zenon DEF ShakenAt
<1>9. ASSUME NEW m \in Node PROVE ShakenAt(m, c)'
  <2>1. ShakenAt(m, c)
    BY <1>4, ZenonT(30) DEF Shaken
  <2>2. status[c].phase = "Error" => status'[c].phase = "Error"
    BY <1>2, Zenon
  <2> QED
    BY <1>1, <1>2, <1>5, <1>8, <2>1, <2>2, ZenonT(30) DEF ShakenAt
<1> QED
  BY <1>1, <1>2, <1>4, <1>5, <1>6, <1>7, <1>9, ZenonT(30) DEF Shaken

\* The clock: live tunnels rekey, and the refreshes that are due are made due.
LEMMA TickShook ==
  ASSUME FailoverInv, PublishedInv, ShookInv, Tick
  PROVE  ShookInv'
<1>1. /\ UNCHANGED <<status, cache>> /\ now' = now + 1
      /\ \A n \in Node, c \in Cluster : shook'[n][c] = IF path[n][c] = Dead THEN shook[n][c] ELSE now + 1
      /\ dead' = [c \in Cluster |-> IF \E n \in Node : path[n][c] = Dead THEN now + 1 ELSE dead[c]]
  BY Zenon DEF Tick
<1>2. now \in Nat \ {0} /\ late \in Nat
  BY Counters, Zenon
<1>3. dead' \in [Cluster -> 0..now'] /\ \A c \in Cluster : dead[c] \in 0..now /\ dead'[c] >= dead[c]
  BY <1>1, <1>2 DEF ShookInv
<1>4. (Settled /\ late' = late) \/ late' = late + 1
  BY Zenon DEF Tick
<1>5. \A n \in Node : due[n] = {}
  BY AtRest, Zenon DEF Tick
<1> SUFFICES ASSUME NEW c \in Cluster PROVE Shaken(c)'
  BY <1>3, Zenon DEF ShookInv
<1>6. /\ status[c].handshake \in 0..now
      /\ \A n \in Node : shook[n][c] \in 0..now /\ cache[n][c].handshake \in 0..now
  BY Times, Zenon
<1>7. Shaken(c) /\ \A n \in Node : ShakenAt(n, c)
  BY Zenon DEF ShookInv, Shaken
<1>8. PICK m \in Node : status[c].handshake <= shook[m][c]
  BY <1>7, Zenon DEF Shaken
<1>9. status[c].handshake <= shook'[m][c]
  BY <1>1, <1>2, <1>6, <1>8
<1>10. status[c].handshake = 0 => status[c].phase = "Error"
  BY <1>5, <1>7, <1>8, Zenon DEF ShakenAt
<1>11. \A n \in Node : cache[n][c].phase = "Error" => status[c].phase = "Error" \/ Renewed(c, now)'
  <2>1. CASE Settled
    BY <2>1, AtRest, Zenon
  <2>2. CASE late' = late + 1
    BY <1>1, <1>2, <1>3, <1>6, <1>7, <2>2 DEF ShakenAt, Renewed
  <2> QED
    BY <1>4, <2>1, <2>2, Zenon
<1>12. ASSUME NEW n \in Node PROVE ShakenAt(n, c)'
  <2>1. shook'[n][c] > 0 /\ (dead'[c] < now' => shook'[n][c] = now')
    <3>1. shook[n][c] > 0
      BY <1>7, Zenon DEF ShakenAt
    <3> QED
      BY <1>1, <1>2, <1>6, <3>1
  <2>2. /\ cache[n][c].handshake > 0 => status[c].handshake > 0
        /\ cache[n][c].handshake # now'
    BY <1>1, <1>2, <1>6, <1>7 DEF ShakenAt
  <2> QED
    BY <1>1, <1>10, <1>11, <2>1, <2>2, Zenon DEF ShakenAt
<1>13. status[c].phase = "Error" \/ Renewed(c, Scheduled)' \/ \E n \in Node : c \in due'[n]
  <2>1. CASE now % RefreshInterval = 0
    <3>1. c \in due'[m]
      BY <2>1, FailoverAssumption, ZenonT(30) DEF Tick, Work
    <3> QED
      BY <3>1, Zenon
  <2>2. CASE now % RefreshInterval # 0
    <3>1. Scheduled' = Scheduled /\ Scheduled \in Int
      BY <1>1, <1>2, <2>2, ScheduledTimes, Zenon
    <3>2. status[c].phase = "Error" \/ Renewed(c, Scheduled)
      BY <1>5, <1>7, Zenon DEF Shaken
    <3>3. Renewed(c, Scheduled) => Renewed(c, Scheduled)'
      BY <1>1, <1>2, <1>3, <1>4, <1>6, <3>1 DEF Renewed
    <3> QED
      BY <3>2, <3>3, Zenon
  <2> QED
    BY <2>1, <2>2, Zenon
<1> QED
  BY <1>1, <1>9, <1>12, <1>13, Zenon DEF Shaken

\* Every step keeps what is known of the handshakes.
LEMMA ShookStep ==
  ASSUME FailoverInv, PublishedInv, ShookInv, [Next]_vars
  PROVE  ShookInv'
<1>1. ASSUME UNCHANGED <<now, dead>>, \A c \in Cluster : ShookQuiet(c) \/ Shaken(c)'
      PROVE  ShookInv'
  <2>1. ASSUME NEW c \in Cluster PROVE Shaken(c)'
    <3>1. Shaken(c) /\ (ShookQuiet(c) \/ Shaken(c)')
      BY <1>1, Zenon DEF ShookInv
    <3> QED
      BY <3>1, ShakenKept, Zenon
  <2> QED
    BY <1>1, <2>1, Zenon DEF ShookInv
<1>2. ASSUME UNCHANGED <<now, shook, cache, due, dead, late, status>> PROVE ShookInv'
  <2>1. \A c \in Cluster : ShookQuiet(c)
    BY <1>2, Zenon DEF ShookQuiet
  <2> QED
    BY <1>1, <1>2, <2>1, Zenon
<1>3. CASE UNCHANGED vars
  BY <1>2, <1>3, Zenon DEF vars, history
<1>4. CASE StopProbing
  BY <1>2, <1>4, Zenon DEF StopProbing, history
<1>5. ASSUME NEW n \in Node, NEW c \in Cluster, NEW p \in Path(c),
             Flip({n}, c, p) \/ Flip(Node, c, p)
      PROVE  ShookInv'
  BY <1>2, <1>5, Zenon DEF Flip, history
<1>6. ASSUME NEW n \in Node, PublishList(n) \/ PatchFails(n) PROVE ShookInv'
  BY <1>2, <1>6, ZenonT(30) DEF PublishList, PatchFails, history
<1>7. ASSUME NEW n \in Node, PublishOne(n) PROVE ShookInv'
  <2>1. \A c \in Cluster : status'[c].phase = status[c].phase /\ status'[c].handshake = status[c].handshake
    BY <1>7, Publishes, Zenon
  <2>2. UNCHANGED <<now, shook, cache, due, dead, late>>
    BY <1>7, ZenonT(30) DEF PublishOne
  <2>3. \A c \in Cluster : ShookQuiet(c)
    BY <2>1, <2>2, Zenon DEF ShookQuiet
  <2> QED
    BY <1>1, <2>2, <2>3, Zenon
<1>8. ASSUME NEW n \in Node, Dial(n) \/ SyncNAT(n) \/ Deliver(n) \/ Restart(n) PROVE ShookInv'
  <2>1. UNCHANGED <<now, shook, dead, late, status>>
    BY <1>8, Zenon DEF Dial, SyncNAT, Deliver, Restart, history
  <2>2. \A m \in Node : cache'[m] = cache[m] \/ cache'[m] = status
    BY <1>8, Zenon DEF Dial, SyncNAT, Deliver, Restart, FailoverInv
  <2>3. \A m \in Node : \A c \in Cluster : c \in due[m] => c \in due'[m]
    <3>1. Cluster \subseteq Work(n) \ {"probe"} /\ \A c \in Cluster : c \notin {"probe", "nat"}
      BY FailoverAssumption, Zenon DEF Work
    <3>2. PICK w : /\ due' = [due EXCEPT ![n] = w]
                   /\ \/ w \in {due[n] \ {"probe"}, due[n] \ {"nat"}}
                      \/ due[n] \subseteq w \/ Work(n) \ {"probe"} \subseteq w
      <4>1. CASE Dial(n)
        BY <4>1, Zenon DEF Dial
      <4>2. CASE SyncNAT(n)
        BY <4>2, Zenon DEF SyncNAT
      <4>3. CASE Deliver(n)
        BY <4>3, Zenon DEF Deliver
      <4>4. CASE Restart(n)
        BY <4>4, Zenon DEF Restart
      <4> QED
        BY <1>8, <4>1, <4>2, <4>3, <4>4, Zenon
    <3>3. \A c \in Cluster : c \in due[n] => c \in w
      BY <3>1, <3>2, Zenon
    <3>4. DOMAIN due = Node
      BY Zenon DEF FailoverInv
    <3> QED
      BY <3>2, <3>3, <3>4, Zenon
  <2>4. \A c \in Cluster : ShookQuiet(c)
    BY <2>1, <2>2, <2>3, Zenon DEF ShookQuiet
  <2> QED
    BY <1>1, <2>1, <2>4, Zenon
<1>9. ASSUME NEW n \in Node, NEW c \in Cluster, RefreshPeer(n, c) \/ PeerFails(n, c) PROVE ShookInv'
  <2>1. UNCHANGED <<now, shook, cache, dead, late>> /\ due' = [due EXCEPT ![n] = @ \ {c}]
    BY <1>9, Zenon DEF RefreshPeer, PeerFails, history
  <2>2. \A d \in Cluster \ {c} : status'[d] = status[d]
    BY <1>9, Refreshes, Fails
  <2>3. \A d \in Cluster \ {c} : ShookQuiet(d)
    BY <2>1, <2>2, ZenonT(30) DEF ShookQuiet, FailoverInv
  <2>4. Shaken(c)'
    BY <1>9, RefreshShook, FailsShook, Zenon
  <2> QED
    BY <1>1, <2>1, <2>3, <2>4, Zenon
<1> QED
  BY <1>3, <1>4, <1>5, <1>6, <1>7, <1>8, <1>9, TickShook, ZenonT(30) DEF Next
-----------------------------------------------------------------------------
(***************************************************************************)
(* The service NAT follows the cache of its node.                          *)
(***************************************************************************)
NatInv ==
    /\ DOMAIN nat = Node
    /\ \A n \in NATNode : \/ "nat" \in due[n]
                          \/ nat[n] = BuildServiceDNAT(Imports, Exports, DownClusters(cache[n], now))

\* Every step keeps the NAT that is programmed, or makes a sync due.
LEMMA NatStep ==
  ASSUME FailoverInv, NatInv, [Next]_vars
  PROVE  NatInv'
<1>1. NATNode \subseteq Node /\ \A c \in Cluster : c # "nat"
  BY FailoverAssumption, Zenon
<1>2. ASSUME UNCHANGED <<now, cache, nat>>, \A n \in NATNode : "nat" \in due[n] => "nat" \in due'[n]
      PROVE  NatInv'
  BY <1>2, Zenon DEF NatInv
<1>3. CASE UNCHANGED vars \/ StopProbing
  BY <1>2, <1>3, Zenon DEF vars, history, StopProbing
<1>4. ASSUME NEW n \in Node, NEW c \in Cluster, NEW p \in Path(c),
             Flip({n}, c, p) \/ Flip(Node, c, p)
      PROVE  NatInv'
  BY <1>2, <1>4, Zenon DEF Flip, history
<1>5. ASSUME NEW n \in Node, Dial(n) \/ PublishList(n) \/ PublishOne(n) \/ PatchFails(n) PROVE NatInv'
  <2>1. UNCHANGED <<now, cache, nat>> /\ (UNCHANGED due \/ due' = [due EXCEPT ![n] = @ \ {"probe"}])
    BY <1>5, ZenonT(30) DEF Dial, PublishList, PublishOne, PatchFails, history
  <2>2. \A m \in NATNode : "nat" \in due[m] => "nat" \in due'[m]
    BY <1>1, <2>1, ZenonT(30) DEF FailoverInv
  <2> QED
    BY <1>2, <2>1, <2>2, Zenon
<1>6. ASSUME NEW n \in Node, NEW c \in Cluster, RefreshPeer(n, c) \/ PeerFails(n, c) PROVE NatInv'
  <2>1. UNCHANGED <<now, cache, nat>> /\ due' = [due EXCEPT ![n] = @ \ {c}]
    BY <1>6, Zenon DEF RefreshPeer, PeerFails, history
  <2>2. \A m \in NATNode : "nat" \in due[m] => "nat" \in due'[m]
    BY <1>1, <2>1, Zenon DEF FailoverInv
  <2> QED
    BY <1>2, <2>1, <2>2, Zenon
<1>7. ASSUME NEW n \in Node, SyncNAT(n) PROVE NatInv'
  <2> DEFINE new == BuildServiceDNAT(Imports, Exports, DownClusters(cache[n], now))
  <2>1. /\ UNCHANGED <<now, cache>> /\ nat' = [nat EXCEPT ![n] = new]
        /\ due' = [due EXCEPT ![n] = @ \ {"nat"}]
    BY <1>7, Zenon DEF SyncNAT
  <2>2. DOMAIN nat' = Node /\ nat'[n] = new /\ \A m \in Node \ {n} : nat'[m] = nat[m] /\ due'[m] = due[m]
    BY <2>1, Zenon DEF NatInv, FailoverInv
  <2> QED
    BY <1>1, <2>1, <2>2, Zenon DEF NatInv
<1>8. ASSUME NEW n \in Node, Deliver(n) \/ Restart(n) PROVE NatInv'
  <2>1. /\ UNCHANGED <<now, nat>>
        /\ \A m \in Node \ {n} : due'[m] = due[m] /\ cache'[m] = cache[m]
        /\ n \in NATNode => "nat" \in due'[n]
    BY <1>8 DEF Deliver, Restart, history, FailoverInv, natSyncRequest, Work
  <2> QED
    BY <1>1, <2>1, Zenon DEF NatInv
<1>9. CASE Tick
  <2>1. nat' = nat /\ \A n \in NATNode : "nat" \in due'[n]
    BY <1>1, <1>9, ZenonT(30) DEF Tick, Work
  <2> QED
    BY <2>1, Zenon DEF NatInv
<1> QED
  BY <1>3, <1>4, <1>5, <1>6, <1>7, <1>8, <1>9, ZenonT(30) DEF Next

\* At rest a node balances over the exporters that failover keeps, and over no other.
LEMMA BalancedOver ==
  ASSUME FailoverInv, NatInv, Settled, NEW n \in NATNode
  PROVE  /\ \A c \in Cluster \cap Balanced(n) : ~clusterDown(status[c], now)
         /\ \A c \in Exporters \ Balanced(n) : c \in Cluster /\ clusterDown(status[c], now)
<1> DEFINE down == DownClusters(status, now)
           up == {e \in Exports : e.type = "ClusterSetIP" /\ e.cluster \notin down}
           backends(key) == UNION {e.ips : e \in {f \in up : f.key = key}}
<1>1. n \in Node /\ due[n] = {} /\ cache[n] = status
  BY FailoverAssumption, AtRest, Zenon
<1>2. nat[n] = BuildServiceDNAT(Imports, Exports, down)
  BY <1>1, Zenon DEF NatInv
<1>3. down = {c \in Cluster : clusterDown(status[c], now)}
  BY Zenon DEF DownClusters, FailoverInv, Statuses
<1> HIDE DEF down
<1>4. nat[n] = {[key |-> im.key, vip |-> im.ips[1], ports |-> im.ports, backends |-> backends(im.key)] :
                   im \in {i \in Imports : /\ i.type = "ClusterSetIP" /\ i.ips # <<>>
                                           /\ backends(i.key) # {}}}
  BY <1>2, Zenon DEF BuildServiceDNAT
<1>5. \A key, a : a \in backends(key) <=> \E e \in up : e.key = key /\ a \in e.ips
  BY Zenon
<1> HIDE DEF backends
<1>6. \A s \in nat[n] : s.backends = backends(s.key)
  BY <1>4
<1>7. \A i \in Imports : i.type = "ClusterSetIP" /\ i.ips # <<>> /\ backends(i.key) # {} =>
         \E s \in nat[n] : s.key = i.key
  <2> SUFFICES ASSUME NEW i \in Imports, i.type = "ClusterSetIP", i.ips # <<>>, backends(i.key) # {}
               PROVE  \E s \in nat[n] : s.key = i.key
    BY Zenon
  <2> DEFINE s == [key |-> i.key, vip |-> i.ips[1], ports |-> i.ports, backends |-> backends(i.key)]
  <2>1. s \in nat[n]
    BY <1>4, ZenonT(30)
  <2>2. s.key = i.key
    BY Zenon
  <2> HIDE DEF s
  <2> QED
    BY <2>1, <2>2, Zenon
<1>8. \A c \in Balanced(n) : c \notin down
  <2> SUFFICES ASSUME NEW f \in Exports, NEW s \in nat[n], s.key = f.key, f.ips \subseteq s.backends
               PROVE  f.cluster \notin down
    BY Zenon DEF Balanced
  <2>1. PICK a \in f.ips : TRUE
    BY ExportAssumption, Zenon
  <2>2. PICK e \in up : a \in e.ips
    BY <1>5, <1>6, <2>1
  <2>3. e \in Exports /\ e.cluster \notin down /\ e.ips \cap f.ips # {}
    BY <2>1, <2>2, Zenon
  <2>4. e.cluster = f.cluster
    BY <2>3, ExportAssumption, ZenonT(30)
  <2> QED
    BY <2>3, <2>4, Zenon
<1>9. \A c \in Exporters : c \notin down => c \in Balanced(n)
  <2> SUFFICES ASSUME NEW f \in Exports, f.type = "ClusterSetIP", f.cluster \notin down
               PROVE  f.cluster \in Balanced(n)
    BY Zenon DEF Exporters
  <2>1. PICK i \in Imports : i.key = f.key /\ i.type = "ClusterSetIP" /\ i.ips # <<>>
    BY ExportAssumption, Zenon
  <2>2. f \in up /\ f.ips # {}
    BY ExportAssumption, Zenon
  <2>3. f.ips \subseteq backends(f.key)
    BY <1>5, <2>2, Zenon
  <2>4. PICK s \in nat[n] : s.key = f.key
    BY <1>7, <2>1, <2>2, <2>3, Zenon
  <2>5. f.ips \subseteq s.backends
    BY <1>6, <2>3, <2>4, Zenon
  <2> QED
    BY <2>4, <2>5, Zenon DEF Balanced
<1> QED
  BY <1>3, <1>8, <1>9, Zenon

\* What the invariants say of a cluster at rest.
LEMMA JustAtRest ==
  ASSUME FailoverInv, PublishedInv, ShookInv, Settled, NEW c \in Cluster,
         clusterDown(status[c], now), status[c].phase # "Error"
  PROVE  /\ proved[c] = 0 \/ now - proved[c] > StaleSeconds - probeStatusRefresh - late
         /\ Within(now, status[c].attempt) \/ now - dead[c] < RefreshInterval + late
<1>1. /\ now \in Nat \ {0} /\ late \in Nat /\ late <= MaxEvents /\ proved[c] \in Nat /\ dead[c] \in Nat
      /\ status[c].attempt \in Nat /\ status[c].success \in Nat /\ status[c].handshake \in Nat
      /\ StaleSeconds \in Nat /\ probeStatusRefresh \in Nat /\ RefreshInterval \in Nat /\ MaxEvents \in Nat
  <2>1. /\ now \in Nat \ {0} /\ status[c].attempt \in 0..now
        /\ status[c].success \in 0..now /\ status[c].handshake \in 0..now
    BY Times, ZenonT(30)
  <2>2. late \in 0..used /\ used \in 0..MaxEvents /\ proved[c] \in 0..now
    BY Zenon DEF PublishedInv
  <2>3. dead[c] \in 0..now
    BY Zenon DEF ShookInv
  <2>4. /\ StaleSeconds \in Nat /\ probeStatusRefresh \in Nat
        /\ RefreshInterval \in Nat /\ MaxEvents \in Nat
    BY FailoverAssumption, StaleAssumption, Zenon
  <2> QED
    BY ONLY <2>1, <2>2, <2>3, <2>4, SMTT(30)
<1>2. Attested(proved[c], status[c], late)
  BY ZenonT(30) DEF PublishedInv
<1>3. Renewed(c, Scheduled)
  BY AtRest, ZenonT(30) DEF ShookInv, Shaken
<1>4. Scheduled \in Int /\ now - Scheduled < RefreshInterval
  BY <1>1, ScheduledTimes, Zenon
<1>5. CASE Probed(status[c], now)
  <2>1. status[c].attempt > 0 /\ Within(now, status[c].attempt)
    BY <1>5, Zenon DEF Probed
  <2>2. ~(status[c].success > 0 /\ Within(now, status[c].success))
    BY <1>5, Zenon DEF clusterDown
  <2> QED
    BY <1>1, <1>2, <2>1, <2>2 DEF Attested, Within
<1>6. CASE ~Probed(status[c], now)
  <2>1. ~(status[c].attempt > 0 /\ Within(now, status[c].attempt))
    BY <1>1, <1>6 DEF Probed
  <2>2. ~Within(now, status[c].handshake)
    BY <1>6, Zenon DEF clusterDown
  <2>3. proved[c] = 0 \/ now - proved[c] > StaleSeconds - probeStatusRefresh - late
    BY <1>1, <1>2, <2>1 DEF Attested, Within
  <2>4. now - dead[c] < RefreshInterval + late
    BY <1>1, <1>3, <1>4, <2>2, WindowAssumption DEF Renewed, Within
  <2> QED
    BY <2>3, <2>4, Zenon
<1> QED
  BY <1>5, <1>6, Zenon

\* And of one that failover keeps.
LEMMA ProvedAtRest ==
  ASSUME FailoverInv, PublishedInv, LagInv, ShookInv, Settled, NEW c \in Cluster,
         ~clusterDown(status[c], now)
  PROVE  /\ status[c].phase # "Error"
         /\ Within(now, proved[c]) \/ (~probing /\ \E m \in Node : Within(now, shook[m][c]))
<1>1. /\ now \in Nat \ {0} /\ used \in Nat /\ used <= MaxEvents /\ proved[c] \in Nat
      /\ status[c].attempt \in Nat /\ status[c].success \in Nat /\ status[c].handshake \in Nat
      /\ StaleSeconds \in Nat /\ probeStatusRefresh \in Nat /\ MaxEvents \in Nat
      /\ \A m \in Node : shook[m][c] \in Nat
  BY Counters, Moments, Zenon
<1>2. status[c].phase # "Error"
  BY Zenon DEF clusterDown
<1>3. CASE Probed(status[c], now)
  <2>1. Within(now, status[c].success)
    BY <1>3, Zenon DEF clusterDown
  <2>2. status[c].success <= proved[c]
    BY ZenonT(30) DEF PublishedInv, Attested
  <2>3. Within(now, proved[c])
    BY <1>1, <2>1, <2>2 DEF Within
  <2> QED
    BY <1>2, <2>3, Zenon
<1>4. CASE ~Probed(status[c], now) /\ probing
  <2>1. ~Awaited(c)
    BY AtRest, ZenonT(30) DEF Awaited
  <2>2. Lag(c) < probeStatusRefresh
    BY <1>4, <2>1, ZenonT(30) DEF LagInv, Attempted
  <2>3. Within(now, status[c].attempt)
    BY <1>1, <2>2, WindowAssumption DEF Lag, Within
  <2>4. status[c].attempt = 0
    BY <1>1, <1>4, <2>3 DEF Probed
  <2>5. Within(now, proved[c])
    BY <1>1, <2>3, <2>4 DEF Within
  <2> QED
    BY <1>2, <2>5, Zenon
<1>5. CASE ~Probed(status[c], now) /\ ~probing
  <2>1. Shaken(c)
    BY Zenon DEF ShookInv
  <2>2. status[c].handshake # 0
    BY <1>2, <2>1, AtRest, FailoverAssumption, Zenon DEF Shaken, ShakenAt
  <2>3. Within(now, status[c].handshake)
    BY <1>1, <1>5, <2>2 DEF clusterDown
  <2>4. PICK m \in Node : status[c].handshake <= shook[m][c]
    BY <2>1, ZenonT(30) DEF Shaken
  <2>5. Within(now, shook[m][c])
    BY <1>1, <2>3, <2>4 DEF Within
  <2> QED
    BY <1>2, <1>5, <2>5, Zenon
<1> QED
  BY <1>3, <1>4, <1>5, ZenonT(30)

FailoverIInv == FailoverInv /\ PublishedInv /\ LagInv /\ ShookInv /\ NatInv

INSTANCE FiniteSetTheorems

\* The clusters are finitely many.
LEMMA ListedClusters == ClustersListed
<1> SUFFICES ASSUME NEW S \in SUBSET Cluster
             PROVE  /\ Listing(S) \in Seq(S)
                    /\ \A x \in S : \E i \in DOMAIN Listing(S) : Listing(S)[i] = x
  BY Zenon DEF ClustersListed
<1> DEFINE n == Cardinality(S)
           list == Listing(S)
<1>1. IsFiniteSet(S)
  BY FailoverAssumption, FS_Subset, Zenon
<1>2. n \in Nat /\ ExistsBijection(1..n, S)
  BY <1>1, FS_CardinalityType, Zenon
<1>3. \E g \in [1..n -> S] : Range(g) = S
  BY <1>2 DEF ExistsBijection, Bijection, Surjection, Injection, Range
<1>4. list \in [1..n -> S] /\ Range(list) = S
  BY <1>3, Zenon DEF Listing
<1> QED
  BY <1>2, <1>4 DEF Range

\* Whatever the nodes write, in any order and late: no status, cached status or
\* result is of the future (NextProbeStatus, RefreshPeer), and a node starts a
\* cycle of the prober only after the one before it.
THEOREM StatusesOfThePast == Spec => []FailoverTypeOK
<1>1. FailoverInv => FailoverTypeOK
  <2>1. \A T : Written(T) \subseteq Status(T)
    BY Zenon DEF Written, Status
  <2>2. Statuses(0..now) \subseteq [Cluster -> Status(0..now)]
    BY <2>1, Zenon DEF Statuses
  <2> QED
    BY <2>2, Zenon DEF FailoverInv, FailoverTypeOK, CyclesRight
<1>2. FailoverInv /\ [Next]_vars => FailoverInv'
  BY FailoverStep, ListedClusters, Zenon
<1> QED
  BY <1>1, <1>2, FailoverInit, PTL DEF Spec

\* clusterDown "mirrors the liveness preference the read surfaces use": for any
\* number of nodes and clusters and any windows, in every state the agents reach.
THEOREM FailoverAgreesWithSLO == Spec => []SurfacesAgree
<1>1. FailoverInv => SurfacesAgree
  <2> SUFFICES ASSUME FailoverInv PROVE SurfacesAgree
    BY Zenon
  <2>1. now \in Nat \ {0}
    BY FailoverAssumption DEF FailoverInv
  <2>2. \A c \in Cluster : status[c] \in Written(0..now)
    BY Zenon DEF FailoverInv, Statuses
  <2> QED
    BY <2>1, <2>2, VerdictsAgree, Zenon DEF SurfacesAgree
<1>2. FailoverInv /\ [Next]_vars => FailoverInv'
  BY FailoverStep, ListedClusters, Zenon
<1> QED
  BY <1>1, <1>2, FailoverInit, PTL DEF Spec
\* The invariants hold together.
LEMMA FailoverInvariant == Spec => []FailoverIInv
<1>1. Init => FailoverIInv
  <2>1. Init => NatInv
    BY FailoverAssumption DEF Init, NatInv, Work
  <2> QED
    BY <2>1, FailoverInit, PublishedInit, LagInit, ShookInit, Zenon DEF FailoverIInv
<1>2. FailoverIInv /\ [Next]_vars => FailoverIInv'
  <2> SUFFICES ASSUME FailoverInv, PublishedInv, LagInv, ShookInv, NatInv, [Next]_vars
               PROVE  FailoverIInv'
    BY Zenon DEF FailoverIInv
  <2>1. FailoverInv'
    BY FailoverStep, ListedClusters, Zenon
  <2>2. PublishedInv' /\ LagInv' /\ ShookInv' /\ NatInv'
    BY <2>1, PublishedStep, LagStep, ShookStep, NatStep, ListedClusters, Zenon
  <2> QED
    BY <2>1, <2>2, Zenon DEF FailoverIInv
<1> QED
  BY <1>1, <1>2, PTL DEF Spec

\* "fails the connection fast rather than black-holing it on a dead peer": for any nodes,
\* clusters and services, and whatever is lost, late or restarted as long as the events
\* fit into the stale window, a node at rest never balances over a cluster that could not
\* be programmed or that no published dial (without the prober, no handshake) proved
\* within the window.
THEOREM DeadAreEvicted == Spec => []DeadEvicted
<1>1. FailoverIInv => DeadEvicted
  BY BalancedOver, ProvedAtRest, ZenonT(30) DEF FailoverIInv, DeadEvicted
<1> QED
  BY <1>1, FailoverInvariant, PTL

\* "well inside the stale window so the observed age never falsely ages out": under the
\* same conditions a node at rest misses the backends of a cluster only when it could not
\* be programmed, or when every proof of it is older than the window less a refresh and the
\* late intervals; and then it is being dialled, or a tunnel to it was dead at the last
\* refresh of the handshakes.
THEOREM EvictionsAreJust == Spec => []JustlyEvicted
<1>1. FailoverIInv => JustlyEvicted
  BY BalancedOver, JustAtRest, ExportAssumption, Zenon DEF FailoverIInv, JustlyEvicted
<1> QED
  BY <1>1, FailoverInvariant, PTL
=============================================================================
