----------------------------- MODULE MCFirewall -----------------------------
(***************************************************************************)
(* Small instances of Firewall: a policy for one destination that admits a *)
(* cluster on one port, and one that protects everything and admits a      *)
(* range; IPv6 ranges among both.                                          *)
(***************************************************************************)
EXTENDS Firewall

CONSTANTS here, there, six, a, http, ssh

MCOne ==
    [dests   |-> {{here}, {six}},
     ingress |-> {[clusters |-> {a}, cidrs |-> {{six}}, ports |-> {http}]}]
MCAll ==
    [dests   |-> {},
     ingress |-> {[clusters |-> {}, cidrs |-> {{there}}, ports |-> {}]}]

MCSpecs == {MCOne, MCAll}
MCPeerCIDRs == {{{there}, {six}}}
=============================================================================
