------------------------------- MODULE MCNat -------------------------------
(***************************************************************************)
(* Addresses of five bits.  The cluster has 0-1 and 4-5; ClusterSetIPs are *)
(* 6, clients are 8-9, 7 is a dangerous range, and 16-31 is the remap      *)
(* pool.  Peer "b" has 2-3, which is routed directly, "a" overlaps 0-1 and *)
(* "c" overlaps 4-5; both local ranges hash to the same virtual one.       *)
(***************************************************************************)
EXTENDS Nat

MCBits == 5
MCDangerous == {CIDR(4, 7, 5)}
MCHash(cluster, c) ==
    CASE cluster = "here" -> 0 [] cluster = "a" -> 1 [] OTHER -> 2

MCLocal == {CIDR(4, 0, 4), CIDR(4, 4, 4), CIDR(6, 0, 4)}
MCPool == CIDR(4, 16, 1)
MCClusterSet == {CIDR(4, 6, 5)}
MCClients == {CIDR(4, 8, 4)}

Peer(cluster, keyed, cidrs) == [cluster |-> cluster, keyed |-> keyed, cidrs |-> cidrs]
PeerA == Peer("a", TRUE, {CIDR(4, 0, 4)})
PeerB == Peer("b", TRUE, {CIDR(4, 2, 4), CIDR(6, 3, 4), CIDR(4, 7, 5), Malformed})
PeerC == Peer("c", TRUE, {CIDR(4, 5, 4)})
Unkeyed == Peer("d", FALSE, {CIDR(4, 12, 3)})
MCPeerSets == {{}, {PeerA, PeerB}, {PeerB, Unkeyed}, {PeerA, PeerC}}

Port(proto, port) == [proto |-> proto, port |-> port]
Service(name, vip, ports, backends) ==
    [name |-> name, vip |-> vip, ports |-> ports, backends |-> backends]
MCWeb == Service("web", IP(4, 6), {Port("TCP", 80), Port("", 80), Port("udp", 53)},
                 {IP(4, 1), IP(4, 2), IP(4, 3)})
MCApi == Service("api", IP(4, 6), {Port("tcp", 80)}, {IP(4, 2)})
MCSix == Service("six", IP(6, 6), {Port("tcp", 80)}, {IP(6, 2)})
MCServiceSets == {{}, {MCWeb}, {MCApi, MCSix}}

MCRoles == [remap : {"iptables", "ebpf"}, gateway : {"none"}]
           \cup [remap : {"none"}, gateway : {"masq", "nonat"}]
=============================================================================
