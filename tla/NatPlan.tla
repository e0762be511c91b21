------------------------------ MODULE NatPlan ------------------------------
(***************************************************************************)
(* The pure planners of pkg/nat (plan.go, remap.go, nomasq.go, gateway.go) *)
(* and of pkg/dataplane/ebpf/maps.go, and how the kernel reads what they   *)
(* plan.  A rule is a record: the chain it is in, the source, destination  *)
(* and port it matches, odds (it fires once in odds packets), and where    *)
(* the packet goes.  hashChain is the tuple it hashes.  The code sorts     *)
(* what it lists; here the order is fixed as well, and it is by address    *)
(* where ranges can nest.                                                  *)
(***************************************************************************)
EXTENDS Topology, Sequences, SequencesExt

RootChain == <<"DWX-CLUSTERSET">>
RemapPreChain == <<"DWX-REMAP-PRE">>
RemapPostChain == <<"DWX-REMAP-POST">>
NoMasqChain == <<"DWX-MESH-NOMASQ">>
GatewayMasqChain == <<"DWX-GW-MASQ">>
\* Mutant: the port is left out of the hash.
svcChainShared(s, p) == <<"DWX-SVC-", s.name, 0>>
svcChain(s, p) == <<"DWX-SVC-", s.name, p>>
sepChain(s, p, b) == <<"DWX-SEP-", s.name, p, b>>
Managed(c) == c[1] \in {"DWX-SVC-", "DWX-SEP-"}

Anywhere == Malformed
AnyPort == [proto |-> "", port |-> 0]
Rule(chain, src, dst, port, odds, to) ==
    [chain |-> chain, src |-> src, dst |-> dst, port |-> port, odds |-> odds, to |-> to]

Listed(S) == FoldSet(LAMBDA x, seq : Append(seq, x), <<>>, S)
Sorted(nets) ==
    SortSeq(Listed(nets), LAMBDA a, b : a.ip < b.ip \/ (a.ip = b.ip /\ a.ones < b.ones))

-----------------------------------------------------------------------------
(***************************************************************************)
(* BuildRuleset.                                                           *)
(***************************************************************************)
normalizeProto(p) == CASE p \in {"", "TCP"} -> "tcp" [] OTHER -> p
sortedPorts(ports) ==
    Listed({[proto |-> normalizeProto(p.proto), port |-> p.port] : p \in ports})

\* Mutant: probability 1/n for every backend but the last.
oddsFlat(n, i) == IF i < n THEN n ELSE 1
odds(n, i) == IF i < n THEN n - i + 1 ELSE 1

appendPortRules(s, p, backends) ==
    LET n == Len(backends) IN
    <<Rule(RootChain, Anywhere, s.vip, p, 1, [jump |-> svcChain(s, p)])>>
    \o [i \in 1..n |-> Rule(svcChain(s, p), Anywhere, Anywhere, AnyPort, odds(n, i),
                            [jump |-> sepChain(s, p, backends[i])])]
    \o [i \in 1..n |-> Rule(sepChain(s, p, backends[i]), Anywhere, Anywhere, AnyPort, 1,
                            [dnat |-> backends[i], port |-> p])]

Programmed(services) ==
    {s \in services : s.vip # Malformed /\ s.ports # {} /\ s.backends # {}}
BuildRules(services) ==
    FlattenSeq([i \in 1..Cardinality(Programmed(services)) |->
        LET s == Listed(Programmed(services))[i]
            ports == sortedPorts(s.ports)
        IN  FlattenSeq([j \in 1..Len(ports) |->
                appendPortRules(s, ports[j], Sorted(s.backends))])])
BuildChains(rules) ==
    Listed({rules[i].chain : i \in DOMAIN rules} \ {RootChain})

-----------------------------------------------------------------------------
(***************************************************************************)
(* The other rule sets, and the two eBPF maps.                             *)
(***************************************************************************)
BuildRemapRules(entries) ==
    LET one(v) == CHOOSE e \in entries : e.virtual = v
        seq == Sorted({e.virtual : e \in entries})
    IN  [i \in 1..Len(seq) |->
            Rule(RemapPreChain, Anywhere, seq[i], AnyPort, 1, [netmap |-> one(seq[i]).real])]
        \o [i \in 1..Len(seq) |->
            Rule(RemapPostChain, one(seq[i]).real, Anywhere, AnyPort, 1, [netmap |-> seq[i]])]

Pairs(chain, srcs, dsts, to) ==
    LET s == Sorted(srcs)
        d == Sorted(dsts)
    IN  FlattenSeq([i \in 1..Len(s) |->
            FlattenSeq([j \in 1..Len(d) |->
                IF s[i].fam = d[j].fam THEN <<Rule(chain, s[i], d[j], AnyPort, 1, to)>>
                ELSE <<>>])])

BuildNoMasqRules(local, remote) == Pairs(NoMasqChain, local, remote, [accept |-> TRUE])
BuildGatewayMasqRules(clients, dests) ==
    Pairs(GatewayMasqChain, clients, dests, [masquerade |-> TRUE])

\* A map is a function from prefixes to rewrites of the same size.
BuildIngress(entries) ==
    [v \in {e.virtual : e \in entries} |-> (CHOOSE e \in entries : e.virtual = v).real]
BuildEgress(entries) ==
    [r \in {e.real : e \in entries} |-> (CHOOSE e \in entries : e.real = r).virtual]

-----------------------------------------------------------------------------
(***************************************************************************)
(* The kernel.  A packet is [src, dst, port]; Through gives every way it   *)
(* can leave a chain, as the choice of a rule with odds is random.  A jump *)
(* to a chain that it falls off goes on behind the jump.                   *)
(***************************************************************************)
Pass == [pass |-> TRUE]

Matches(r, pkt) ==
    /\ r.src = Anywhere \/ netContains(Masked(r.src), pkt.src)
    /\ r.dst = Anywhere \/ netContains(Masked(r.dst), pkt.dst)
    /\ r.port = AnyPort \/ r.port = pkt.port

Through(rules, pkt, Go(_)) ==
    LET hits == {i \in DOMAIN rules : Matches(rules[i], pkt)}
        open(i) == rules[i].odds > 1 \/ Pass \in Go(rules[i].to)
        reached == {i \in hits : \A j \in hits : j < i => open(j)}
    IN  (UNION {Go(rules[i].to) \ {Pass} : i \in reached})
        \cup (IF \A j \in hits : open(j) THEN {Pass} ELSE {})

\* Chains nest three deep: root, service, backend.
Follow(chains, pkt, to, Go(_)) ==
    IF "jump" \in DOMAIN to THEN Through(chains[to.jump], pkt, Go) ELSE {to}
InSvc(chains, pkt, to) == Follow(chains, pkt, to, LAMBDA x : {x})
InRoot(chains, pkt, to) == Follow(chains, pkt, to, LAMBDA x : InSvc(chains, pkt, x))

\* A built-in chain is the sequence of the chains it jumps to.
Traverse(chains, hook, pkt) ==
    Through([i \in DOMAIN hook |->
                Rule(<<"hook">>, Anywhere, Anywhere, AnyPort, 1, [jump |-> hook[i]])],
            pkt, LAMBDA x : Follow(chains, pkt, x, LAMBDA y : InRoot(chains, pkt, y)))

\* NETMAP keeps the host bits.
NetMapped(a, to) == IP(a.fam, Masked(to).ip + (a.ip % Size(to)))
=============================================================================
