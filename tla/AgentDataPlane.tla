--------------------------- MODULE AgentDataPlane ---------------------------
(***************************************************************************)
(* The peer data plane of an agent: selectPeerDataPlane (pkg/agent) builds *)
(* the WireGuard manager or the routed manager at boot, and the            *)
(* MeshPeerReconciler is unaware of the choice.                            *)
(***************************************************************************)
EXTENDS WireGuardManager

CONSTANTS
    Hop, NoHop, BadHop,
    V6Cidr, V6Hop  \* the IPv6 CIDRs and hops

ASSUME HopAssumption == NoHop \notin Hop

VARIABLES mode, table, peerRoutes

R == INSTANCE Routed WITH
         Mismatched <- [v \in Hop |-> IF v \in V6Hop THEN Cidr \ V6Cidr ELSE V6Cidr]

agentVars == <<mode, dp, table, peerRoutes>>

selectPeerDataPlane ==
    /\ mode \in {"wireguard", "routed"}
    /\ ManagerInit
    /\ R!Init

Step ==
    /\ UNCHANGED mode
    /\ \/ mode = "wireguard" /\ ManagerNext /\ UNCHANGED <<table, peerRoutes>>
       \/ mode = "routed" /\ R!Next /\ UNCHANGED dp

AgentSpec == selectPeerDataPlane /\ [][Step]_agentVars

-----------------------------------------------------------------------------

\* Whichever manager was selected, as long as routes can be deleted the reconciler
\* is served a PeerDataPlane, whatever calls fail.
AgentAbs == INSTANCE PeerDataPlane WITH
    programmed <- IF mode = "wireguard" THEN dp.peerRoutes ELSE R!Destinations,
    routes     <- IF mode = "wireguard" THEN dp.routes ELSE R!Routed
AgentImplementsPeerDataPlane == AgentAbs!Spec
=============================================================================
