-------------------------- MODULE WireGuardManager --------------------------
(***************************************************************************)
(* The WireGuardManager of one node, while its process lives, under any    *)
(* sequence of calls, any of which may fail.                               *)
(***************************************************************************)
EXTENDS WireGuard

VARIABLE dp

ManagerInit == dp = EmptyDataPlane

ConfigurePeer(k, C) == dp' \in ConfigurePeerOk(dp, k, C) \cup ConfigurePeerFail(dp, k, C)

RemovePeer(k) == dp' \in RemovePeerOk(dp, k) \cup RemovePeerFail(dp, k)

ManagerNext ==
    \E k \in Key : RemovePeer(k) \/ \E C \in SUBSET Cidr : ConfigurePeer(k, C)

ManagerSpec == ManagerInit /\ [][ManagerNext]_dp

-----------------------------------------------------------------------------
\* Every field of the data plane stays in its type.
ManagerTypeOK == dp \in DataPlane

\* "Never orphans entries in the host routing table": a host route is always in
\* the bookkeeping of some peer, so that RemovePeer can withdraw it.
RoutesTracked == dp.routes \subseteq UNION {dp.peerRoutes[k] : k \in Key}

Abs == INSTANCE PeerDataPlane WITH programmed <- dp.peerRoutes, routes <- dp.routes

\* As long as routes can be deleted, the WireGuard manager keeps the promises of a
\* PeerDataPlane, whatever calls fail.
ImplementsPeerDataPlane == Abs!Spec
=============================================================================
