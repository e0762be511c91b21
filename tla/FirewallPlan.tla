---------------------------- MODULE FirewallPlan ----------------------------
(***************************************************************************)
(* BuildFirewall (pkg/meshfw/plan.go): the mesh network policies of a      *)
(* cluster compiled to one iptables chain, and what that chain decides.    *)
(*                                                                         *)
(* A CIDR is the set of its addresses; an IPv6 one is not within Addr.     *)
(* The "" of the code, any address, is AnyAddr; a policy is a record       *)
(* [dests, ingress], an ingress rule a record [clusters, cidrs, ports]; no *)
(* port stands for every port.                                             *)
(***************************************************************************)
EXTENDS Listings

CONSTANTS
    Addr,   \* IPv4 addresses
    Port    \* protocol and port pairs

\* A packet has one of finitely many headers.
ASSUME PacketAssumption == IsFiniteSet(Addr) /\ IsFiniteSet(Port)

AnyAddr == Addr
Packet == [src : Addr, dst : Addr, port : Port, established : BOOLEAN]

keepIPv4(list) == {c \in list : c \subseteq Addr}

\* The destinations of a policy; one that lists none protects everything.
Destinations(pol) == IF pol.dests = {} THEN {AnyAddr} ELSE keepIPv4(pol.dests)

\* Cluster IDs are resolved with the CIDRs their MeshPeers advertise.
resolveSources(ing, clusterCIDRs) ==
    (UNION {clusterCIDRs[id] : id \in ing.clusters}) \cup ing.cidrs

Ports(ing) == IF ing.ports = {} THEN {Port} ELSE {{p} : p \in ing.ports}

addIngress(ing, dests, clusterCIDRs) ==
    [verdict : {"ACCEPT"}, src : keepIPv4(resolveSources(ing, clusterCIDRs)),
     dst : dests, ports : Ports(ing)]

Accepts(policies, clusterCIDRs) ==
    UNION {UNION {addIngress(ing, Destinations(pol), clusterCIDRs) : ing \in pol.ingress} :
               pol \in policies}

Drops(policies) ==
    [verdict : {"DROP"}, src : {AnyAddr},
     dst : UNION {Destinations(pol) : pol \in policies}, ports : {Port}]

Conntrack == [verdict |-> "ESTABLISHED", src |-> AnyAddr, dst |-> AnyAddr, ports |-> Port]

\* The fast path, then what is allowed, then the protected destinations.  The
\* code sorts each group; only that the order is fixed matters.
BuildFirewall(policies, clusterCIDRs) ==
    <<Conntrack>> \o Listing(Accepts(policies, clusterCIDRs)) \o Listing(Drops(policies))

Matches(rule, pkt) ==
    /\ pkt.src \in rule.src /\ pkt.dst \in rule.dst /\ pkt.port \in rule.ports
    /\ rule.verdict = "ESTABLISHED" => pkt.established

\* iptables: the first match decides, and a packet that falls off the end of the
\* chain goes on to be accepted.
Passes(rules, pkt) ==
    LET hits == {i \in DOMAIN rules : Matches(rules[i], pkt)} IN
    hits = {} \/ \E i \in hits : rules[i].verdict # "DROP" /\ \A j \in hits : i <= j

-----------------------------------------------------------------------------
(***************************************************************************)
(* What the policies mean, said without rules.                             *)
(***************************************************************************)
Protects(pol, pkt) ==
    pol.dests = {} \/ \E d \in pol.dests : pkt.dst \in d

Permits(pol, clusterCIDRs, pkt) ==
    /\ Protects(pol, pkt)
    /\ \E ing \in pol.ingress :
          /\ \E c \in resolveSources(ing, clusterCIDRs) : pkt.src \in c
          /\ ing.ports = {} \/ pkt.port \in ing.ports

\* Mesh ingress is default-deny for whatever some policy protects.
Allowed(policies, clusterCIDRs, pkt) ==
    \/ pkt.established
    \/ \A pol \in policies : ~Protects(pol, pkt)
    \/ \E pol \in policies : Permits(pol, clusterCIDRs, pkt)
=============================================================================
