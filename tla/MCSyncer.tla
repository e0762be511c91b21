------------------------------ MODULE MCSyncer ------------------------------
(***************************************************************************)
(* Small instances of Syncer: the local cluster and a remote one, which is *)
(* in the topology, changed, or gone.                                      *)
(***************************************************************************)
EXTENDS Syncer

CONSTANTS here, b, nh, nb, x, y

MCSanitize == [c \in Cluster |-> IF c = here THEN nh ELSE nb]
\* x and y are interchangeable: the first topology need not have y.
MCPeers ==
    [r \in 1..MaxRevision |->
        {[c \in Cluster |-> IF c = here THEN x ELSE v] :
            v \in IF r = 1 THEN {x, Absent} ELSE {x, y, Absent}}]
=============================================================================
