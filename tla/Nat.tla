-------------------------------- MODULE Nat --------------------------------
(***************************************************************************)
(* The NAT of one node: four reconcilers (ServiceNAT, MasqExempt, Remap    *)
(* and, on a gateway, Gateway) share nat.Manager and through it the        *)
(* kernel's nat tables; the remap may go to eBPF maps instead.  Each sync  *)
(* rebuilds its chains by single commands, under m.mu, so one sync runs at *)
(* a time while packets pass between any two commands; each command may    *)
(* fail, and the agent may die after each.                                 *)
(***************************************************************************)
EXTENDS NatPlan

CONSTANTS
    ClusterID, LocalCIDRs, RemapPool,  \* the agent's configuration
    ClusterSetCIDRs, ClientCIDRs,
    HaveIPv6,      \* whether ip6tables opened
    Roles,         \* what the agent may be started as: [remap, gateway]
    PeerSets,      \* the MeshPeers there may be, records [cluster, keyed, cidrs]
    ServiceSets,   \* the imported services, records [name, vip, ports, backends]
    MaxWrites, MaxTrouble  \* bounds: writes; failed commands and crashes

Fam == IF HaveIPv6 THEN {4, 6} ELSE {4}
Sync == {"clusterset", "nomasq", "remap", "gateway"}
Hook == {"PREROUTING", "OUTPUT", "POSTROUTING"}
Idle == [sync |-> "idle", todo |-> <<>>, services |-> {}]
NoProfile == [routes |-> {}, published |-> FALSE]

VARIABLES
    role,             \* what this agent was started as
    peers, services,  \* the objects, as the informers have them
    queue,            \* the syncs whose reconciler has a request
    chains, hooks,    \* the nat table of each family
    maps,             \* the eBPF maps
    profile,          \* the access-profile ConfigMap
    run,              \* the sync that holds m.mu, with the commands it has left
    serving,          \* history: the services RootChain is being built from
    dirty,            \* history: the syncs with no complete run since the last change
    used              \* how much of each bound is spent

kernel == <<chains, hooks, maps>>
objects == <<role, peers, services>>
vars == <<objects, queue, kernel, profile, run, serving, dirty, used>>

-----------------------------------------------------------------------------
(***************************************************************************)
(* What the reconcilers ask for.                                           *)
(***************************************************************************)
Programmable == {p \in peers : p.keyed}

routedRemoteCIDRs == UNION {Routable(p.cidrs, LocalCIDRs) : p \in Programmable}

reachableMesh == LocalCIDRs \cup routedRemoteCIDRs
\* Mutant: the no-NAT switch the wrong way round.
masqClientsInverted == IF role.gateway = "nonat" THEN ClientCIDRs ELSE {}
masqClients == IF role.gateway = "nonat" THEN {} ELSE ClientCIDRs
GatewayDests == ClusterSetCIDRs \cup reachableMesh
BuildAccessProfile == [routes |-> GatewayDests, published |-> TRUE]

excludeDangerous(cidrs) == cidrs \ DangerousCIDRs(cidrs)
RemapPlanOf(p) ==
    PlanRemap(RemapPool, ClusterID, LocalCIDRs, p.cluster,
              excludeDangerous(Conflicts(p.cidrs, LocalCIDRs)))

\* Across peers a virtual range has one owner as well.
GlobalClaims ==
    UNION {{[virtual |-> v, source |-> <<"peer", p.cluster>>] : v \in RemapPlanOf(p).routes}
           \cup {[virtual |-> l.virtual, source |-> <<"local", l.real>>] :
                    l \in RemapPlanOf(p).locals} : p \in Programmable}
\* Mutant: collisions between the plans of two peers are not looked for.
buildEntriesFailsLocally == \E p \in Programmable : ~RemapPlanOf(p).ok
buildEntriesFails ==
    \/ \E p \in Programmable : ~RemapPlanOf(p).ok
    \/ Collides(GlobalClaims)
buildEntries == UNION {RemapPlanOf(p).locals : p \in Programmable}

Of(f, cidrs) == {c \in cidrs : c.fam = f}

-----------------------------------------------------------------------------
(***************************************************************************)
(* The commands of a sync.                                                 *)
(***************************************************************************)
Cmd(do, f, chain) == [do |-> do, fam |-> f, chain |-> chain]
OnAll(do, f, seq) == [i \in DOMAIN seq |-> Cmd(do, f, seq[i])]
ensureHook(f, hook, chain) == [do |-> "hook", fam |-> f, hook |-> hook, chain |-> chain]
AppendAll(f, rules) == [i \in DOMAIN rules |-> [do |-> "append", fam |-> f, rule |-> rules[i]]]

ensureInfra(f) ==
    <<Cmd("ensure", f, RootChain), ensureHook(f, "PREROUTING", RootChain),
      ensureHook(f, "OUTPUT", RootChain)>>

managedChains(f) == Listed({c \in DOMAIN chains[f] : Managed(c)})
\* Mutant: each chain is flushed and deleted in turn.
deleteManagedChainsInTurn(f) ==
    FlattenSeq([i \in DOMAIN managedChains(f) |->
        <<Cmd("clear", f, managedChains(f)[i]), Cmd("delete", f, managedChains(f)[i])>>])
deleteManagedChains(f) ==
    OnAll("clear", f, managedChains(f)) \o OnAll("delete", f, managedChains(f))

applyRuleset(f, rules) == OnAll("new", f, BuildChains(rules)) \o AppendAll(f, rules)

syncClusterSet(f) ==
    ensureInfra(f) \o <<Cmd("clear", f, RootChain)>> \o deleteManagedChains(f)
    \o applyRuleset(f, BuildRules({s \in services : s.vip.fam = f}))

Rebuild(f, hook, chain, rules) ==
    <<Cmd("ensure", f, chain), ensureHook(f, hook, chain), Cmd("clear", f, chain)>>
    \o AppendAll(f, rules)

syncNoMasq(f) ==
    Rebuild(f, "POSTROUTING", NoMasqChain,
            BuildNoMasqRules(Of(f, LocalCIDRs), Of(f, routedRemoteCIDRs)))
syncGatewayMasq(f) ==
    Rebuild(f, "POSTROUTING", GatewayMasqChain,
            BuildGatewayMasqRules(Of(f, masqClients), Of(f, GatewayDests)))
syncRemap(f) ==
    <<Cmd("ensure", f, RemapPreChain), ensureHook(f, "PREROUTING", RemapPreChain),
      Cmd("ensure", f, RemapPostChain), ensureHook(f, "POSTROUTING", RemapPostChain),
      Cmd("clear", f, RemapPreChain), Cmd("clear", f, RemapPostChain)>>
    \o AppendAll(f, BuildRemapRules({e \in buildEntries : e.virtual.fam = f}))

\* Differences are written, then what is no longer wanted goes.
reconcileMap(id, desired) ==
    LET old == maps[id]
        put == Listed({k \in DOMAIN desired : k \notin DOMAIN old \/ old[k] # desired[k]})
        del == Listed(DOMAIN old \ DOMAIN desired)
    IN  [i \in DOMAIN put |->
            [do |-> "Update", map |-> id, key |-> put[i], val |-> desired[put[i]]]]
        \o [i \in DOMAIN del |-> [do |-> "Delete", map |-> id, key |-> del[i]]]

\* The IPv4 handle, then the IPv6 one where there is one.
Handles == IF HaveIPv6 THEN <<4, 6>> ELSE <<4>>
OnHandles(Prog(_)) == FlattenSeq([i \in DOMAIN Handles |-> Prog(Handles[i])])

Program(s) ==
    CASE s = "boot" -> OnHandles(ensureInfra)
      [] s = "clusterset" -> OnHandles(syncClusterSet)
      [] s = "nomasq" -> OnHandles(syncNoMasq)
      [] s = "remap" /\ role.remap = "iptables" -> OnHandles(syncRemap)
      [] s = "remap" /\ role.remap = "ebpf" ->
             reconcileMap("ingress", BuildIngress(buildEntries))
             \o reconcileMap("egress", BuildEgress(buildEntries))
      [] s = "gateway" -> OnHandles(syncGatewayMasq) \o <<[do |-> "publish", profile |-> BuildAccessProfile]>>

-----------------------------------------------------------------------------
(***************************************************************************)
(* The kernel executes one command.  ClearChain creates a chain that is    *)
(* missing; the others fail when they are not legal.                       *)
(***************************************************************************)
Referenced(f, c) ==
    \/ \E h \in Hook : c \in Range(hooks[f][h])
    \/ \E d \in DOMAIN chains[f] : \E i \in DOMAIN chains[f][d] :
          "jump" \in DOMAIN chains[f][d][i].to /\ chains[f][d][i].to.jump = c

Legal(c) ==
    CASE c.do = "new"    -> c.chain \notin DOMAIN chains[c.fam]
      [] c.do = "delete" -> /\ c.chain \in DOMAIN chains[c.fam]
                            /\ chains[c.fam][c.chain] = <<>>
                            /\ ~Referenced(c.fam, c.chain)
      [] c.do = "append" -> /\ c.rule.chain \in DOMAIN chains[c.fam]
                            /\ "jump" \in DOMAIN c.rule.to =>
                                  c.rule.to.jump \in DOMAIN chains[c.fam]
      [] OTHER -> TRUE

Put(f, c, rules) == chains' = [chains EXCEPT ![f] = (c :> rules) @@ @]

ExecChain(c) ==
    /\ CASE c.do = "ensure" -> IF c.chain \in DOMAIN chains[c.fam] THEN UNCHANGED chains
                               ELSE Put(c.fam, c.chain, <<>>)
         [] c.do \in {"new", "clear"} -> Put(c.fam, c.chain, <<>>)
         [] c.do = "delete" ->
                chains' = [chains EXCEPT ![c.fam] = Restrict(@, DOMAIN @ \ {c.chain})]
         [] c.do = "append" ->
                Put(c.fam, c.rule.chain, Append(chains[c.fam][c.rule.chain], c.rule))
    /\ serving' = IF c.do = "clear" /\ c.chain = RootChain
                  THEN [serving EXCEPT ![c.fam] = run.services] ELSE serving
    /\ UNCHANGED <<hooks, maps, profile>>

\* Mutant: the hook goes to the end of the built-in chain.
ExecHookLast(c) ==
    /\ hooks' = IF c.chain \in Range(hooks[c.fam][c.hook]) THEN hooks
                ELSE [hooks EXCEPT ![c.fam][c.hook] = Append(@, c.chain)]
    /\ UNCHANGED <<chains, maps, profile, serving>>
\* Insert(..., 1, ...)
ExecHook(c) ==
    /\ hooks' = IF c.chain \in Range(hooks[c.fam][c.hook]) THEN hooks
                ELSE [hooks EXCEPT ![c.fam][c.hook] = <<c.chain>> \o @]
    /\ UNCHANGED <<chains, maps, profile, serving>>

ExecMap(c) ==
    /\ maps' = [maps EXCEPT ![c.map] =
                   IF c.do = "Update" THEN (c.key :> c.val) @@ @
                   ELSE Restrict(@, DOMAIN @ \ {c.key})]
    /\ UNCHANGED <<chains, hooks, profile, serving>>

\* CreateOrUpdate of the ConfigMap.
publishProfile(c) ==
    /\ profile' = c.profile
    /\ UNCHANGED <<kernel, serving>>

Exec(c) ==
    /\ Legal(c)
    /\ \/ c.do \in {"ensure", "new", "clear", "delete", "append"} /\ ExecChain(c)
       \/ c.do = "hook" /\ ExecHook(c)
       \/ c.do \in {"Update", "Delete"} /\ ExecMap(c)
       \/ c.do = "publish" /\ publishProfile(c)

-----------------------------------------------------------------------------
Spend(what, max) ==
    /\ used[what] < max
    /\ used' = [used EXCEPT ![what] = @ + 1]

Active ==
    {"clusterset", "nomasq"} \cup (IF role.remap # "none" THEN {"remap"} ELSE {})
    \cup (IF role.gateway # "none" THEN {"gateway"} ELSE {})
OnServices == {"clusterset"}
OnPeers == Active \ OnServices
\* The reconcilers an initial list triggers: those that find an object.
Listing == (IF services # {} THEN OnServices ELSE {}) \cup (IF peers # {} THEN OnPeers ELSE {})

\* The CNI's own rules: pod traffic that leaves the cluster is masqueraded.
CNIChain == <<"CNI-MASQ">>
CNIRules(f) ==
    Pairs(CNIChain, Of(f, LocalCIDRs), Of(f, LocalCIDRs), [accept |-> TRUE])
    \o Pairs(CNIChain, Of(f, LocalCIDRs), {CIDR(f, 0, 0)}, [masquerade |-> TRUE])

Boot == [sync |-> "boot", todo |-> OnHandles(ensureInfra), services |-> {}]

Init ==
    /\ role \in Roles
    /\ peers = {} /\ services = {} /\ queue = {}
    /\ chains = [f \in Fam |-> CNIChain :> CNIRules(f)]
    /\ hooks = [f \in Fam |-> [h \in Hook |->
                   IF h = "POSTROUTING" THEN <<CNIChain>> ELSE <<>>]]
    /\ maps = [id \in {"ingress", "egress"} |-> <<>>]
    /\ profile = NoProfile
    /\ run = Boot
    /\ serving = [f \in Fam |-> {}]
    /\ dirty = Sync
    /\ used = [writes |-> 0, trouble |-> 0]

\* Watches start when the manager does; before that nothing is enqueued.
Enqueue(s) == queue' = IF run.sync = "boot" THEN queue ELSE queue \cup s

WritePeers(P) ==
    /\ Spend("writes", MaxWrites)
    /\ P # peers
    /\ peers' = P
    /\ Enqueue(OnPeers)
    /\ dirty' = dirty \cup OnPeers
    /\ UNCHANGED <<role, services, kernel, profile, run, serving>>

WriteServices(S) ==
    /\ Spend("writes", MaxWrites)
    /\ S # services
    /\ services' = S
    /\ Enqueue(OnServices)
    /\ dirty' = dirty \cup OnServices
    /\ UNCHANGED <<role, peers, kernel, profile, run, serving>>

\* A reconciler lists its objects and takes m.mu.  One whose plan is refused, or
\* that finds the eBPF maps right, programs nothing.
Reconcile(s) ==
    /\ run = Idle
    /\ s \in queue
    /\ s = "remap" => ~buildEntriesFails
    /\ queue' = queue \ {s}
    /\ LET todo == Program(s) IN
       IF todo = <<>> THEN UNCHANGED run /\ dirty' = dirty \ {s}
       ELSE run' = [sync |-> s, todo |-> todo, services |-> services] /\ UNCHANGED dirty
    /\ UNCHANGED <<objects, kernel, profile, serving, used>>

Step ==
    /\ run.todo # <<>>
    /\ Exec(Head(run.todo))
    /\ IF Len(run.todo) > 1
       THEN run' = [run EXCEPT !.todo = Tail(@)] /\ UNCHANGED <<queue, dirty>>
       ELSE /\ run' = Idle
            /\ queue' = IF run.sync = "boot" THEN Listing ELSE queue
            /\ dirty' = IF run.sync \in queue THEN dirty ELSE dirty \ {run.sync}
    /\ UNCHANGED <<objects, used>>

\* Mutant: the error is logged and not returned.
StepFailsQuietly ==
    /\ Spend("trouble", MaxTrouble)
    /\ run.sync \in Sync
    /\ run' = Idle
    /\ UNCHANGED <<objects, queue, kernel, profile, serving, dirty>>
\* A command fails: the reconciler returns the error and is retried.
StepFails ==
    /\ Spend("trouble", MaxTrouble)
    /\ run.sync \in Sync
    /\ run' = Idle
    /\ queue' = queue \cup {run.sync}
    /\ UNCHANGED <<objects, kernel, profile, serving, dirty>>

\* The agent dies, also when opening the manager fails.
Crash ==
    /\ Spend("trouble", MaxTrouble)
    /\ run' = Boot
    /\ queue' = {}
    /\ dirty' = Sync
    /\ UNCHANGED <<objects, kernel, profile, serving>>

Next ==
    \/ \E P \in PeerSets : WritePeers(P)
    \/ \E S \in ServiceSets : WriteServices(S)
    \/ \E s \in Sync : Reconcile(s)
    \/ Step \/ StepFails \/ Crash

Spec == Init /\ [][Next]_vars

\* A sync that has started goes on, and a request is taken from the work queue, again
\* and again while the reconciler fails.
Taken(s) ==
    /\ run = Idle
    /\ s \in queue
    /\ s = "remap" => ~buildEntriesFails
    /\ queue' = queue \ {s}
FairSpec ==
    /\ Spec
    /\ WF_vars(Step)
    /\ WF_queue(\E s \in Sync : Taken(s))

-----------------------------------------------------------------------------
(***************************************************************************)
(* Where packets go.  The eBPF programs look up the longest prefix.        *)
(***************************************************************************)
Masqueraded == [masquerade |-> TRUE]
NormalPort(p) == [p EXCEPT !.proto = normalizeProto(@)]
Ports == {NormalPort(p) : p \in UNION {s.ports : s \in UNION ServiceSets}}
Packet(src, dst, p) == [src |-> src, dst |-> dst, port |-> p]

PreRoute(pkt) == Traverse(chains[pkt.dst.fam], hooks[pkt.dst.fam]["PREROUTING"], pkt)
PostRoute(pkt) == Traverse(chains[pkt.dst.fam], hooks[pkt.dst.fam]["POSTROUTING"], pkt)

Longest(map, a) ==
    {k \in DOMAIN map : /\ netContains(k, a)
                        /\ \A j \in DOMAIN map : netContains(j, a) => j.ones <= k.ones}

\* The destination a packet from the mesh is delivered to, the source one to the
\* mesh is sent with.
Delivered(dst) ==
    IF role.remap = "ebpf" THEN {NetMapped(dst, maps.ingress[k]) : k \in Longest(maps.ingress, dst)}
    ELSE {NetMapped(dst, to.netmap) : to \in PreRoute(Packet(dst, dst, AnyPort)) \ {Pass}}
Presented(src, dst) ==
    IF role.remap = "ebpf" THEN {NetMapped(src, maps.egress[k]) : k \in Longest(maps.egress, src)}
    ELSE {NetMapped(src, to.netmap) :
             to \in {x \in PostRoute(Packet(src, dst, AnyPort)) : "netmap" \in DOMAIN x}}

Hosts(c) == {IP(c.fam, Masked(c).ip + i) : i \in 0..(Size(c) - 1)}
\* Rules match whole ranges, so one host of a range stands for the others where no
\* host bits are kept.
Host(c) == IP(c.fam, Masked(c).ip)
Mesh == {c \in UNION {p.cidrs : p \in UNION PeerSets} : Parses(c)}
Elsewhere == {h \in {Host(c) : c \in Mesh \cup ClusterSetCIDRs \cup ClientCIDRs \cup {RemapPool}} :
                 ~\E l \in LocalCIDRs : netContains(Masked(l), h)}

-----------------------------------------------------------------------------
(***************************************************************************)
(* Properties.                                                             *)
(***************************************************************************)

\* Whatever an earlier sync left behind, no command of a sync is one the kernel
\* refuses: a chain is empty and unreferenced when it is deleted, absent when it is
\* created, and there when a rule is appended or jumps to it.
CommandsLegal == run.todo # <<>> => Legal(Head(run.todo))

\* The rules must "never silently misroute": between any two commands, and after any
\* failure, a packet to a ClusterSetIP is left alone or goes, port unchanged, to a
\* backend that the services being programmed give that address and port.
NeverMisdirected ==
    \A f \in Fam, p \in Ports, vip \in {s.vip : s \in UNION ServiceSets} :
        vip.fam = f =>
            \A to \in PreRoute(Packet(vip, vip, p)) \ {Pass} :
                /\ to.port = p
                /\ \E s \in serving[f] : s.vip = vip /\ to.dnat \in s.backends

\* A ClusterSet sync that has finished gives each address and port of a service
\* exactly its backends, and each of them the same share: what passes the rules
\* before the i-th of n, times the odds of that one, is 1/n.
BackendsShared ==
    "clusterset" \notin dirty =>
        \A s \in Programmed(services) : \A p \in {NormalPort(q) : q \in s.ports} :
            s.vip.fam \in Fam =>
            LET f == s.vip.fam
                rules == chains[f][svcChain(s, p)]
                passed == [i \in 0..Len(rules) |->
                              FoldLeft(LAMBDA x, r : x * (r.odds - 1), 1, SubSeq(rules, 1, i))]
                all == [i \in 0..Len(rules) |->
                              FoldLeft(LAMBDA x, r : x * r.odds, 1, SubSeq(rules, 1, i))]
            IN  /\ {to.dnat : to \in PreRoute(Packet(s.vip, s.vip, p)) \ {Pass}} = s.backends
                /\ \A i \in DOMAIN rules :
                      Cardinality(s.backends) * passed[i - 1] = all[i]

\* "Exempting local->remote mesh traffic from masquerade preserves the real pod
\* source": once the exemption is synced, in whatever order the chains were hooked
\* in, traffic to a directly routed range keeps its source and no other traffic that
\* leaves the cluster is exempt, unless the source's range is also translated.
Direct(dst) == \E c \in Mesh : /\ netContains(Masked(c), dst)
                             /\ \E p \in Programmable : c \in Routable(p.cidrs, LocalCIDRs)
Translated(l) == role.remap = "iptables" /\ \E e \in buildEntries : e.real = l
KeepsSource(l) ==
    \A dst \in {h \in Elsewhere : h.fam = l.fam} :
        LET out == PostRoute(Packet(Host(l), dst, AnyPort)) IN
        IF Direct(dst) THEN out = {[accept |-> TRUE]} ELSE [accept |-> TRUE] \notin out
SourceKept ==
    ("nomasq" \notin dirty /\ "remap" \notin dirty \cap Active) =>
        \A l \in LocalCIDRs : Translated(l) \/ KeepsSource(l)

\* A gateway masquerades a client's traffic to every range its profile tells clients
\* to route there, as a reply to a client that was not masqueraded is lost; in no-NAT
\* mode it never does, so that pods see the client.
ClientsReturn ==
    "gateway" \notin dirty =>
        /\ profile = BuildAccessProfile
        /\ \A c \in ClientCIDRs, r \in profile.routes : c.fam = r.fam =>
              PostRoute(Packet(Host(c), Host(r), AnyPort))
                  = {IF role.gateway = "masq" THEN Masqueraded ELSE Pass}

\* Both backends make the remap a bijection: once it is synced, an address of the
\* virtual range is delivered to the host with the same host bits, and that host's
\* traffic to no directly routed range is presented under that address again.
RemapBijective ==
    "remap" \notin dirty =>
        \A e \in buildEntries : \A v \in Hosts(e.virtual) :
            LET real == NetMapped(v, e.real) IN
            /\ Delivered(v) = {real}
            /\ \A dst \in {h \in Elsewhere : h.fam = 4} :
                  Direct(dst) \/ Presented(real, dst) = {v}

\* Full-state syncs are "self-healing": whatever failed and wherever the agent died,
\* every sync that has an object to be triggered by, and a plan, is complete in the end.
ChainsConverge ==
    <>[](\A s \in Listing : s \notin dirty \/ (s = "remap" /\ buildEntriesFails))
=============================================================================
