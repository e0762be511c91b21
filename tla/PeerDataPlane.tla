---------------------------- MODULE PeerDataPlane ----------------------------
(***************************************************************************)
(* What the MeshPeerReconciler may assume of a PeerDataPlane               *)
(* (pkg/controllers/meshpeer_controller.go, implemented by pkg/wg and      *)
(* pkg/routed): the host routes are accounted for peer by peer, and a call *)
(* for one peer touches only routes that are, or are to be, that peer's.   *)
(***************************************************************************)
CONSTANTS Key, Cidr

VARIABLES
    programmed, \* programmed[k]: the CIDRs of the last successful call for k
    routes      \* the CIDRs the host routes into the mesh

Owned(f) == UNION {f[k] : k \in Key}

Init ==
    /\ programmed = [k \in Key |-> {}]
    /\ routes = {}

\* A call for k leaves alone every route outside C and k's own.
Spares(k, C) == routes \ (programmed[k] \cup C) \subseteq routes'

Configured(k, C) ==
    /\ programmed' = [programmed EXCEPT ![k] = C]
    /\ C \subseteq routes'
    /\ routes' \subseteq (routes \cup C) \cap Owned(programmed')
    /\ Spares(k, C)

Removed(k) ==
    /\ programmed' = [programmed EXCEPT ![k] = {}]
    /\ routes' \subseteq routes \cap Owned(programmed')
    /\ Spares(k, {})

\* A failed call may lose routes, which the retry brings back; it adds none.
Failed(k, C) ==
    /\ UNCHANGED programmed
    /\ routes' \subseteq routes
    /\ Spares(k, C)

Next ==
    \E k \in Key :
        \/ Removed(k)
        \/ \E C \in SUBSET Cidr : Configured(k, C) \/ Failed(k, C)

Spec == Init /\ [][Next]_<<programmed, routes>>
=============================================================================
