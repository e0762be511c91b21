------------------------------- MODULE Routed -------------------------------
(***************************************************************************)
(* The routed data plane (pkg/routed): host routes through an overlay that *)
(* somebody else runs.  The kernel holds one route per destination, and    *)
(* deleting a route names its next hop too, so it spares a route that was  *)
(* replaced by one through another hop.                                    *)
(***************************************************************************)
CONSTANTS
    Key, Cidr,
    Hop,         \* overlay next hops
    NoHop,       \* no route, not in Hop
    BadHop,      \* those that are not IP addresses
    Mismatched,  \* Mismatched[v]: CIDRs whose address family is not that of hop v
    LossyDelete  \* TRUE iff a Delete may fail; the failure is only logged

VARIABLES
    table,      \* table[c]: the hop the host routes c through, or NoHop
    peerRoutes  \* peerRoutes[k]: the routes recorded for peer k

vars == <<table, peerRoutes>>

Route == [dest : Cidr, via : Hop]

Init ==
    /\ table = [c \in Cidr |-> NoHop]
    /\ peerRoutes = [k \in Key |-> {}]

\* PlanRoutes: one route per CIDR, all through v; a hop that is not an address and
\* a family mismatch are errors.
PlanFails(C, v) == v \in BadHop \/ C \cap Mismatched[v] # {}
PlanRoutes(C, v) == {[dest |-> c, via |-> v] : c \in C}

Replace(t, R) ==
    [c \in Cidr |-> IF \E r \in R : r.dest = c
                    THEN (CHOOSE r \in R : r.dest = c).via ELSE t[c]]

deleteRoutes(t, R) ==
    [c \in Cidr |-> IF \E r \in R : r.dest = c /\ r.via = t[c] THEN NoHop ELSE t[c]]

\* The routes of R whose deletion may go through.
Deleted(R) == IF LossyDelete THEN SUBSET R ELSE {R}

ConfigureOk(k, C, v) ==
    LET desired == PlanRoutes(C, v) IN
    /\ ~PlanFails(C, v)
    /\ \E gone \in Deleted(peerRoutes[k] \ desired) :
           table' = deleteRoutes(Replace(table, desired), gone)
    /\ peerRoutes' = [peerRoutes EXCEPT ![k] = desired]

\* Mutant: the routes of a failed call stay.
ConfigureFailKeeps(k, C, v) ==
    /\ ~PlanFails(C, v)
    /\ \E installed \in SUBSET PlanRoutes(C, v) : table' = Replace(table, installed)
    /\ UNCHANGED peerRoutes

\* The route after those in installed cannot be put in: roll back this call.
ConfigureFail(k, C, v) ==
    /\ \/ PlanFails(C, v) /\ UNCHANGED table
       \/ /\ ~PlanFails(C, v)
          /\ \E installed \in (SUBSET PlanRoutes(C, v)) \ {PlanRoutes(C, v)} :
                \E gone \in Deleted(installed) :
                    table' = deleteRoutes(Replace(table, installed), gone)
    /\ UNCHANGED peerRoutes

ConfigurePeer(k, C, v) == ConfigureOk(k, C, v) \/ ConfigureFail(k, C, v)

RemovePeer(k) ==
    /\ \E gone \in Deleted(peerRoutes[k]) : table' = deleteRoutes(table, gone)
    /\ peerRoutes' = [peerRoutes EXCEPT ![k] = {}]

Next ==
    \E k \in Key :
        \/ RemovePeer(k)
        \/ \E C \in SUBSET Cidr, v \in Hop : ConfigurePeer(k, C, v)

Spec == Init /\ [][Next]_vars

-----------------------------------------------------------------------------

\* What the reconciler sees: the destinations of each peer, and all of them.
Destinations == [k \in Key |-> {r.dest : r \in peerRoutes[k]}]
Routed == {c \in Cidr : table[c] # NoHop}
=============================================================================
