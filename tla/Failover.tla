------------------------------ MODULE Failover ------------------------------
(***************************************************************************)
(* Probing and health-gated failover.  Every node dials the responder of   *)
(* every connected peer, folds the result into the status of the shared    *)
(* MeshPeer, and drops from its own ClusterSetIP DNAT the backends of the  *)
(* clusters whose status says that they are down (pkg/probe, the prober's  *)
(* wiring in pkg/agent/agent.go, servicenat_controller.go).                *)
(*                                                                         *)
(* now counts poll intervals: failoverPollInterval and the DefaultInterval *)
(* of the prober are both 30 seconds.  Time passes only when every node    *)
(* has done what was due and its informer has caught up, but for the late  *)
(* events.  In between the steps of the nodes interleave freely.           *)
(***************************************************************************)
EXTENDS Health, Listings

CONSTANTS
    RefreshInterval,     \* handshakeRefreshInterval, in poll intervals
    Node, Cluster,       \* the agents of this cluster; the remote clusters
    NATNode,             \* the agents whose service NAT is followed
    Local,               \* the ID of this cluster
    Imports, Exports,    \* ServiceImports and EndpointExports, fixed here
    Events, MaxEvents,   \* what may happen, and how often in all
    MaxTime              \* the end of the clock

ASSUME FailoverAssumption ==
    /\ IsFiniteSet(Cluster) /\ {NoAnswer, "misrouted", "dead", "probe", "nat"} \cap Cluster = {}
    /\ Node # {} /\ NATNode \subseteq Node
    /\ RefreshInterval \in Nat \ {0} /\ MaxTime \in Nat \ {0} /\ MaxEvents \in Nat

\* The events leave the prober and the reconciler time to come back within the stale
\* window: four events at most for the window of ten and the refreshes of two of the
\* code.
ASSUME WindowAssumption ==
    /\ probeStatusRefresh > 0
    /\ 2 * MaxEvents + probeStatusRefresh <= StaleSeconds + 1
    /\ RefreshInterval + MaxEvents <= StaleSeconds + 1

\* An address is of one exporter, and every exported ClusterSetIP service is imported.
ASSUME ExportAssumption ==
    /\ Local \notin Cluster
    /\ \A e \in Exports : e.ips # {}
    /\ \A e, f \in Exports : e.ips \cap f.ips # {} => e.cluster = f.cluster /\ e.type = f.type
    /\ \A e \in Exports : e.type = "ClusterSetIP" =>
          \E i \in Imports : i.key = e.key /\ i.type = "ClusterSetIP" /\ i.ips # <<>>

VARIABLES
    now,
    path,       \* path[n][c]: what a dial of c from n meets
    shook,      \* shook[n][c]: the last WireGuard handshake in the kernel of n
    status,     \* the status of every MeshPeer in the API
    cache,      \* what the informer of a node has of it
    cycle,      \* the probe cycle of a node: its results, the list it works on
    due,        \* what a node has to run before it rests
    nat,        \* the services programmed on a node
    probing,    \* the agents are deployed with the prober
    proved,     \* the last published dial that c itself answered; history
    dead,       \* when a tunnel to c was last dead; history
    late,       \* how often the clock did not wait; history
    used        \* how many events happened
history == <<proved, dead, late>>
vars == <<now, path, shook, status, cache, cycle, due, nat, probing, history, used>>

Misrouted == "misrouted"   \* the responder of another cluster answers
Dead == "dead"             \* nothing crosses the tunnel
Path(c) == {c, Misrouted, Dead}
answer(n, c) == IF path[n][c] = Dead THEN NoAnswer ELSE path[n][c]

Idle == [results |-> <<>>, list |-> <<>>]

\* The NAT of a node is its own; a cluster stands for the reconcile of its MeshPeer.
Work(n) == {w \in {"probe", "nat"} \cup Cluster : w = "nat" => n \in NATNode}

Event(what) == what \in Events /\ used < MaxEvents /\ used' = used + 1

\* A new peer, connected when the agents come up.
Init ==
    /\ now = 1
    /\ path = [n \in Node |-> [c \in Cluster |-> c]]
    /\ shook = [n \in Node |-> [c \in Cluster |-> 1]]
    /\ status = [c \in Cluster |->
                    [phase |-> "Connected", handshake |-> 0, attempt |-> 0, success |-> 0]]
    /\ cache = [n \in Node |-> status]
    /\ cycle = [n \in Node |-> Idle]
    /\ due = [n \in Node |-> Work(n)]
    /\ nat = [n \in Node |-> {}]
    /\ probing = TRUE
    /\ proved = [c \in Cluster |-> 0]
    /\ dead = proved
    /\ late = 0
    /\ used = 0

\* A merge patch carries the fields in which the new status differs from the
\* cached one it was made from.
Patched(c, base, new) ==
    [status EXCEPT ![c] = [f \in DOMAIN @ |-> IF new[f] # base[f] THEN new[f] ELSE @[f]]]

-----------------------------------------------------------------------------
(***************************************************************************)
(* The prober.                                                             *)
(***************************************************************************)
\* Prober.cycle up to Publish: list the peers, dial each target in turn.
Dial(n) ==
    LET targets == Listing(PlanTargets(cache[n]))
        results == [i \in DOMAIN targets |-> Classify(targets[i], answer(n, targets[i]), now)]
    IN  /\ "probe" \in due[n]
        /\ cycle' = [cycle EXCEPT ![n].results = results]
        /\ due' = [due EXCEPT ![n] = @ \ {"probe"}]
        /\ UNCHANGED <<now, path, shook, status, cache, nat, probing, history, used>>

\* probePublisher lists the peers again.
PublishList(n) ==
    /\ cycle[n].results # <<>> /\ cycle[n].list = <<>>
    /\ cycle' = [cycle EXCEPT ![n].list = cache[n]]
    /\ UNCHANGED <<now, path, shook, status, cache, due, nat, probing, history, used>>

\* Mutant: the list is kept for the next cycle.
NextResultKeepsList(n) == cycle' = [cycle EXCEPT ![n].results = Tail(@)]
NextResult(n) ==
    cycle' = [cycle EXCEPT ![n] =
                IF Len(@.results) = 1 THEN Idle
                ELSE [results |-> Tail(@.results), list |-> @.list]]

\* One result: fold it into the listed status, patch when that is worth it.
PublishOne(n) ==
    LET r == Head(cycle[n].results)
        cur == cycle[n].list[r.cluster]
        fold == NextProbeStatus(cur, r)
    IN  /\ cycle[n].list # <<>>
        /\ status' = IF fold.persist THEN Patched(r.cluster, cur, fold.next) ELSE status
        /\ NextResult(n)
        /\ proved' = IF path[n][r.cluster] = r.cluster /\ proved[r.cluster] < r.at
                     THEN [proved EXCEPT ![r.cluster] = r.at] ELSE proved
        /\ UNCHANGED <<now, path, shook, cache, due, nat, probing, dead, late, used>>

\* The patch fails; it is logged and the next result is taken.
PatchFails(n) ==
    /\ cycle[n].list # <<>>
    /\ NextProbeStatus(cycle[n].list[Head(cycle[n].results).cluster],
                       Head(cycle[n].results)).persist
    /\ NextResult(n)
    /\ Event("patchFails")
    /\ UNCHANGED <<now, path, shook, status, cache, due, nat, probing, history>>

-----------------------------------------------------------------------------
(***************************************************************************)
(* The MeshPeer reconciler, as far as the status goes.                     *)
(***************************************************************************)
\* The peer is programmed, its handshake read from the kernel.
RefreshPeer(n, c) ==
    /\ c \in due[n]
    /\ status' = Patched(c, cache[n][c],
                    [cache[n][c] EXCEPT !.phase = "Connected", !.handshake = shook[n][c]])
    /\ due' = [due EXCEPT ![n] = @ \ {c}]
    /\ UNCHANGED <<now, path, shook, cache, cycle, nat, probing, history, used>>

\* fail: the peer could not be programmed; the next try comes with the clock.
PeerFails(n, c) ==
    /\ c \in due[n]
    /\ status' = Patched(c, cache[n][c], [cache[n][c] EXCEPT !.phase = "Error"])
    /\ due' = [due EXCEPT ![n] = @ \ {c}]
    /\ Event("peerFails")
    /\ UNCHANGED <<now, path, shook, cache, cycle, nat, probing, history>>

-----------------------------------------------------------------------------
(***************************************************************************)
(* The service NAT reconciler.                                             *)
(***************************************************************************)
SyncNAT(n) ==
    /\ "nat" \in due[n]
    /\ nat' = [nat EXCEPT ![n] =
           BuildServiceDNAT(Imports, Exports, DownClusters(cache[n], now))]
    /\ due' = [due EXCEPT ![n] = @ \ {"nat"}]
    /\ UNCHANGED <<now, path, shook, status, cache, cycle, probing, history, used>>

natSyncRequest == {"nat"}

\* The informer catches up; MeshPeer events re-evaluate the backends.
Deliver(n) ==
    /\ cache[n] # status
    /\ cache' = [cache EXCEPT ![n] = status]
    /\ due' = [due EXCEPT ![n] = @ \cup (natSyncRequest \cap Work(n))]
    /\ UNCHANGED <<now, path, shook, status, cycle, nat, probing, history, used>>

-----------------------------------------------------------------------------
(***************************************************************************)
(* The surroundings.                                                       *)
(***************************************************************************)
Rests(n) == due[n] = {} /\ cycle[n] = Idle /\ cache[n] = status
Settled == \A n \in Node : Rests(n)

\* A poll interval passes: tickers and requeues fire, live tunnels rekey.
Tick ==
    /\ now < MaxTime
    /\ \/ Settled /\ UNCHANGED <<late, used>>
       \/ ~Settled /\ (\A n \in Node : due[n] = {}) /\ Event("late") /\ late' = late + 1
    /\ now' = now + 1
    /\ shook' = [n \in Node |-> [c \in Cluster |->
                    IF path[n][c] = Dead THEN shook[n][c] ELSE now + 1]]
    /\ due' = [n \in Node |-> {w \in Work(n) :
                  /\ w = "probe" => probing /\ cycle[n] = Idle
                  /\ w \in Cluster => now % RefreshInterval = 0 \/ cache[n][w].phase = "Error"}]
    /\ dead' = [c \in Cluster |-> IF \E n \in Node : path[n][c] = Dead THEN now + 1 ELSE dead[c]]
    /\ UNCHANGED <<path, status, cache, cycle, nat, probing, proved>>

\* What nodes N meet on the way to c changes.
Flip(N, c, p) ==
    /\ Settled /\ \E n \in N : p # path[n][c]
    /\ path' = [n \in Node |-> IF n \in N THEN [path[n] EXCEPT ![c] = p] ELSE path[n]]
    /\ Event("flip")
    /\ UNCHANGED <<now, shook, status, cache, cycle, due, nat, probing, history>>

\* The agents are rolled out again without the prober.
StopProbing ==
    /\ probing /\ Settled
    /\ probing' = FALSE
    /\ Event("stops")
    /\ UNCHANGED <<now, path, shook, status, cache, cycle, due, nat, history>>

\* The agent starts again: a fresh cache, everything due; the kernel keeps nat.
Restart(n) ==
    /\ Event("restarts")
    /\ cycle' = [cycle EXCEPT ![n] = Idle]
    /\ cache' = [cache EXCEPT ![n] = status]
    /\ due' = [due EXCEPT ![n] = IF probing THEN Work(n) ELSE Work(n) \ {"probe"}]
    /\ UNCHANGED <<now, path, shook, status, nat, probing, history>>

Next ==
    \/ \E n \in Node :
        \/ Dial(n) \/ PublishList(n) \/ PublishOne(n) \/ PatchFails(n)
        \/ SyncNAT(n) \/ Deliver(n) \/ Restart(n)
        \/ \E c \in Cluster :
            \/ RefreshPeer(n, c) \/ PeerFails(n, c)
            \/ \E p \in Path(c) : Flip({n}, c, p) \/ Flip(Node, c, p)
    \/ Tick
    \/ StopProbing

Spec == Init /\ [][Next]_vars

-----------------------------------------------------------------------------
(***************************************************************************)
(* Properties.                                                             *)
(***************************************************************************)
\* The exporters whose ClusterSetIP backends node n load-balances over.
Balanced(n) ==
    {e.cluster : e \in {f \in Exports : \E s \in nat[n] : s.key = f.key /\ f.ips \subseteq s.backends}}
Exporters == {e.cluster : e \in {f \in Exports : f.type = "ClusterSetIP"}}

\* No status is of the future, and a prober lists the peers only to publish.
FailoverTypeOK ==
    /\ now \in 1..MaxTime
    /\ status \in [Cluster -> Status(0..now)]
    /\ cache \in [Node -> [Cluster -> Status(0..now)]]
    /\ \A n \in Node : due[n] \subseteq Work(n)
    /\ \A n \in Node : cycle[n].results = <<>> => cycle[n] = Idle

\* "well inside the stale window so the observed age never falsely ages out": at
\* rest a node misses the backends of a cluster only for a reason.  This cluster
\* is never dropped.  Another is dropped when it could not be programmed, or when
\* no node published a proof of it within the window less one refresh and the late
\* intervals; and then either it is being dialled or some node has lost its handshake
\* since the last refresh.
JustlyEvicted ==
    Settled => \A n \in NATNode : \A c \in Exporters \ Balanced(n) :
        /\ c # Local
        /\ \/ status[c].phase = "Error"
           \/ /\ \/ proved[c] = 0
                 \/ now - proved[c] > StaleSeconds - probeStatusRefresh - late
              /\ \/ Within(now, status[c].attempt)
                 \/ now - dead[c] < RefreshInterval + late

\* "fails the connection fast rather than black-holing it on a dead peer": at rest no
\* node balances over a cluster that could not be programmed, or that no published dial
\* of any node proved within the stale window, whatever was missed in between; without
\* the prober the same is true of the handshakes.
DeadEvicted ==
    Settled => \A n \in NATNode : \A c \in Cluster \cap Balanced(n) :
        /\ status[c].phase # "Error"
        /\ \/ Within(now, proved[c])
           \/ ~probing /\ \E m \in Node : Within(now, shook[m][c])

\* clusterDown "mirrors the liveness preference the read surfaces use": whatever
\* the agents wrote, slo reports a programmed peer as live exactly when failover
\* keeps it, but for a peer never seen, on which failover fails open.
SurfacesAgree ==
    \A c \in Cluster :
        LET st == status[c]
            expected == IF st.phase = "Connected" THEN "Reachable" ELSE "Unreachable"
            verdict == signalFor(expected, TunnelLive(PeerSnapshot(st, now)))
            unseen == st.handshake = 0 /\ ~(st.attempt > 0 /\ Within(now, st.attempt))
        IN  clusterDown(st, now) = (verdict # "Healthy" /\ (unseen => verdict = "Down"))
=============================================================================
