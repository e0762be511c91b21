------------------------------- MODULE MCView -------------------------------
(***************************************************************************)
(* Two peers and two policies.  Addresses 1 and 2 are remote, 3 and 4      *)
(* local, 5 is never routed, 6 is not IPv4, 0 is no address.  A stale      *)
(* window of four.                                                         *)
(***************************************************************************)
EXTENDS View

At(phase, handshake, attempt, success) ==
    [phase |-> phase, handshake |-> handshake, attempt |-> attempt, success |-> success]
Fresh == At("Connected", 9, 0, 0)
Old == At("Connected", 3, 0, 0)
Proved == At("Connected", 3, 9, 8)
Unproved == At("Connected", 9, 9, 2)
Refused == At("Error", 0, 0, 0)
Unknown == At("", 0, 0, 0)

Peer(name, id, key, endpoint, cidrs, st) ==
    [name |-> name, id |-> id, key |-> key, endpoint |-> endpoint, cidrs |-> cidrs, st |-> st]

MCPeers(n) ==
    IF n = "p1"
    THEN {Peer(n, "east", "ke", "host", {{1}}, st) : st \in {Fresh, Old}}
         \cup {Peer(n, "east", "ke", "", {{1}, {0}}, Fresh)}
    ELSE {Peer(n, "west", "kw", "host", {{2}}, st) : st \in {Proved, Unproved, Unknown}}
         \cup {Peer(n, "west", "kw", "host", {{1, 2}}, Fresh), Peer(n, "east", "kw", "host", {{2}}, Old),
               Peer(n, "west", "ke", "host", {{2}}, Fresh), Peer(n, "west", "kw", "host", {{2}, {5}}, Refused)}

Policy(name, dests, ingress, phase) ==
    [name |-> name, dests |-> dests, ingress |-> ingress, phase |-> phase]
From(clusters, cidrs, ports) == [clusters |-> clusters, cidrs |-> cidrs, ports |-> ports]

MCPolicies(n) ==
    IF n = "pa"
    THEN {Policy(n, {{3}}, {From({"east"}, {}, {})}, "Programmed"),
          Policy(n, {{3}, {4}}, {From({}, {1..5}, {80})}, "Programmed"),
          Policy(n, {}, {}, "Error")}
    ELSE {Policy(n, {{4}}, {From({"west", "ghost"}, {}, {80}), From({"east"}, {}, {443})}, "Programmed"),
          Policy(n, {{6}}, {From({"east"}, {}, {})}, "Programmed"),
          Policy(n, {}, {From({"west"}, {}, {})}, "Programmed")}

MCAgents == {[found |-> TRUE, desired |-> 2, ready |-> r] : r \in {1, 2}}
MCExports == {{}, {[name |-> "web", valid |-> FALSE, conflict |-> FALSE]}}
MCImports == {[name |-> "web", clusters |-> {"east", "here"}]}
MCEvents == {{"sync failed"}}
MCPeerName == <<"p1", "p2">>
MCPolicyName == <<"pa", "pb">>
MCLocals == {{3}, {4}}
MCBefore(a, b) == a = "east" /\ b = "west"
=============================================================================
