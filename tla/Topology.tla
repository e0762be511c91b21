------------------------------ MODULE Topology ------------------------------
(***************************************************************************)
(* pkg/topology: which ranges of a peer may be routed, and the virtual     *)
(* ranges that stand in for the overlapping ones.  Addresses are numbers   *)
(* of Bits bits in one of two families; a CIDR is a record [fam, ip, ones] *)
(* as it is written, so ip may have host bits set, and Malformed is one    *)
(* that does not parse.  Lists are sets: their order shows in messages     *)
(* only.                                                                   *)
(***************************************************************************)
EXTENDS Naturals, FiniteSets

CONSTANTS
    Bits,           \* the address width; the code has 32 and 128
    DangerousNets,  \* loopback, link-local and multicast
    Hash(_, _)      \* hash32 of a cluster ID and a CIDR as it is written

Malformed == [fam |-> 0, ip |-> 0, ones |-> 0]
CIDR(fam, ip, ones) == [fam |-> fam, ip |-> ip, ones |-> ones]
IP(fam, ip) == CIDR(fam, ip, Bits)

Parses(c) == c # Malformed
Size(c) == 2 ^ (Bits - c.ones)
Masked(c) == [c EXCEPT !.ip = @ - (@ % Size(c))]
ParseCIDRList(cidrs) == {Masked(c) : c \in {d \in cidrs : Parses(d)}}

\* n.Contains(ip), for a masked n.
netContains(n, a) == n.fam = a.fam /\ a.ip - (a.ip % Size(n)) = n.ip
cidrsOverlap(a, b) == netContains(a, b) \/ netContains(b, a)
OverlapsAny(n, nets) == \E m \in nets : cidrsOverlap(n, m)

IsDangerousCIDR(n) == n.ones = 0 \/ OverlapsAny(n, DangerousNets)
DangerousCIDRs(cidrs) == {c \in cidrs : Parses(c) /\ IsDangerousCIDR(Masked(c))}

\* Partition returns two lists.
Conflicts(desired, locals) ==
    {c \in desired :
        \/ ~Parses(c)
        \/ IsDangerousCIDR(Masked(c))
        \/ OverlapsAny(Masked(c), ParseCIDRList(locals))}
Routable(desired, locals) == desired \ Conflicts(desired, locals)

-----------------------------------------------------------------------------
(***************************************************************************)
(* VirtualCIDR and PlanRemap.  An error is Malformed, or ok = FALSE.       *)
(***************************************************************************)
VirtualCIDR(pool, cluster, c) ==
    IF ~Parses(pool) \/ pool.fam # 4 \/ ~Parses(c) \/ c.fam # 4 \/ c.ones < pool.ones
    THEN Malformed
    ELSE LET blocks == 2 ^ (c.ones - pool.ones)
             index  == Hash(cluster, c) % blocks
         IN  CIDR(4, Masked(pool).ip + index * Size(c), c.ones)

\* The peer's ranges to replace, and the local ranges each one overlaps.
Remapped(conflicts) == {c \in conflicts : Parses(c)}
RemappedLocals(locals, conflicts) ==
    {l \in ParseCIDRList(locals) :
        \E c \in Remapped(conflicts) : cidrsOverlap(l, Masked(c))}

\* claim: whoever maps to a virtual range must be the only one.
Collides(claims) ==
    \E x, y \in claims : x.virtual = y.virtual /\ x.source # y.source
Claim(pool, side, cluster, c) ==
    [virtual |-> VirtualCIDR(pool, cluster, c), source |-> <<side, cluster, c>>]

PlanRemap(pool, local, locals, peer, conflicts) ==
    LET routes == {Claim(pool, "peer", peer, c) : c \in Remapped(conflicts)}
        netmap == {Claim(pool, "local", local, l) : l \in RemappedLocals(locals, conflicts)}
        claims == routes \cup netmap
    IN  IF Collides(claims) \/ \E x \in claims : ~Parses(x.virtual)
        THEN [ok |-> FALSE, routes |-> {}, locals |-> {}]
        ELSE [ok |-> TRUE, routes |-> {x.virtual : x \in routes},
              locals |-> {[real |-> x.source[3], virtual |-> x.virtual] : x \in netmap}]
=============================================================================
