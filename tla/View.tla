-------------------------------- MODULE View --------------------------------
(***************************************************************************)
(* The commands that read the mesh: internal/meshstate gathers a snapshot  *)
(* with one API call after the other, from which every surface is derived; *)
(* `dwx mesh policy` lists what it needs and predicts what a change would  *)
(* do (internal/cli/mesh/policy.go).  Meanwhile the objects change.        *)
(***************************************************************************)
EXTENDS ReadModels

CONSTANTS
    PeerName, PolicyName,    \* sequences, in the order of a list
    Peers(_), Policies(_),   \* what may be written under a name
    Agents, Exports, Imports, Events, Locals,
    Absent, Now, MaxChanges

\* A peer has a cluster ID, is stored under its name, has a valid status and ranges
\* with addresses.  The order of cluster IDs is total.
ASSUME PeerAssumption ==
    /\ \A n \in Range(PeerName) : \A p \in Peers(n) :
          /\ p # Absent /\ p.name = n /\ p.id # Unset /\ p.st \in Status(Nat)
          /\ {} \notin p.cidrs
    /\ \A n, m \in Range(PeerName) : \A p \in Peers(n), q \in Peers(m) :
          p.id # q.id => Before(p.id, q.id) \/ Before(q.id, p.id)
    /\ PeerName \in Seq(Range(PeerName))
    /\ Malformed \notin Locals \cup {Dangerous}
    /\ ~(Malformed \subseteq Addr)
    /\ Now \in Nat \ {0}
    /\ MaxChanges \in Nat

\* A policy is stored under its name, its destinations have addresses, its ports are
\* ports.
ASSUME PolicyAssumption ==
    /\ Port # {}
    /\ \A n \in Range(PolicyName) : \A p \in Policies(n) :
          /\ p # Absent /\ {} \notin p.dests
          /\ p = [name |-> n, dests |-> p.dests, ingress |-> p.ingress, phase |-> p.phase]
          /\ \A ing \in p.ingress :
                /\ ing = [clusters |-> ing.clusters, cidrs |-> ing.cidrs, ports |-> ing.ports]
                /\ ing.ports \subseteq Port

VARIABLES
    store,     \* the objects in the API
    was,       \* the objects as they were since the command began; history
    cmd,       \* the running command, what it is asked about
    step,      \* its next read
    got,       \* what it has read
    out,       \* what it printed: a snapshot, an impact, or an error
    changes
vars == <<store, was, cmd, step, got, out, changes>>

Names(seq) == Range(seq)
Present(objs) == {n \in DOMAIN objs : objs[n] # Absent}
\* The elements of a list at the positions P, in their order.
Picked(list, P) ==
    [k \in 1..Cardinality(P) |-> list[CHOOSE i \in P : Cardinality({j \in P : j <= i}) = k]]
Listed(names, objs) ==
    Picked([i \in DOMAIN names |-> objs[names[i]]], {i \in DOMAIN names : objs[names[i]] # Absent})
PolicySet(objs) == {objs[n] : n \in Present(objs)}

Section == <<"crds", "agent", "peers", "exports", "imports", "policies", "events">>
Reads(c) == CASE c.kind = "snapshot" -> Section
              [] c.kind = "policy" -> <<"policies", "peers">>
              [] c.kind = "peer" -> <<"peers">>

\* What a section of the store looks like in the inputs of a snapshot.
Read(section, s) ==
    CASE section = "peers" -> Listed(PeerName, s.peers)
      [] section = "policies" -> PolicySet(s.policies)
      [] OTHER -> s[section]

\* The inputs with one more section.
Filled(in, section, value) ==
    [f \in DOMAIN in \cup {section} |-> IF f = section THEN value ELSE in[f]]

NoOutput == [kind |-> "none"]
Failed == [kind |-> "error"]

Command ==
    [kind : {"snapshot"}]
    \cup [kind : {"policy"}, proposed : UNION {Policies(n) : n \in Names(PolicyName)}]
    \cup [kind : {"peer"}, proposed : UNION {Peers(n) : n \in Names(PeerName)}]

Init ==
    /\ \E ps \in [Names(PeerName) -> (UNION {Peers(n) : n \in Names(PeerName)}) \cup {Absent}],
          pols \in [Names(PolicyName) -> (UNION {Policies(n) : n \in Names(PolicyName)}) \cup {Absent}],
          a \in Agents, ev \in Events :
        /\ \A n \in Names(PeerName) : ps[n] \in Peers(n) \cup {Absent}
        /\ \A n \in Names(PolicyName) : pols[n] \in Policies(n) \cup {Absent}
        /\ store = [peers |-> ps, policies |-> pols, agent |-> a, exports |-> {},
                    imports |-> Imports, events |-> ev, crds |-> TRUE]
    /\ was = {store}
    /\ cmd \in Command
    /\ step = 1
    /\ got = <<>>
    /\ out = NoOutput
    /\ changes = 0

-----------------------------------------------------------------------------
(***************************************************************************)
(* The commands.                                                           *)
(***************************************************************************)
Reading == out = NoOutput /\ step <= Len(Reads(cmd))

\* One read succeeds.
Gather ==
    /\ Reading
    /\ got' = Filled(got, Reads(cmd)[step], Read(Reads(cmd)[step], store))
    /\ step' = step + 1
    /\ UNCHANGED <<store, was, cmd, out, changes>>

\* Mutant: peers that cannot be listed are no peers.
GatherFailsQuietly ==
    /\ Reading /\ cmd.kind = "snapshot" /\ Reads(cmd)[step] = "peers"
    /\ got' = Filled(got, "peers", <<>>)
    /\ step' = step + 1
    /\ UNCHANGED <<store, was, cmd, out, changes>>
\* A failed read ends the command; only events are best-effort.
GatherFails ==
    /\ Reading
    /\ IF Reads(cmd)[step] = "events"
       THEN got' = Filled(got, "events", {}) /\ step' = step + 1 /\ UNCHANGED out
       ELSE out' = Failed /\ UNCHANGED <<got, step>>
    /\ UNCHANGED <<store, was, cmd, changes>>

\* The set with the proposed policy in place of the one of its name.
Replaced(policies, p) == {q \in policies : q.name # p.name} \cup {p}
Others(peers, p) == Picked(peers, {i \in DOMAIN peers : peers[i].name # p.name})

Snapshot == BuildSnapshot(got, DetectTopologyConflicts(got.peers), Now)

Finish ==
    /\ out = NoOutput /\ step > Len(Reads(cmd))
    /\ out' = CASE cmd.kind = "snapshot" -> [kind |-> "snapshot", snap |-> Snapshot]
                [] cmd.kind = "policy" ->
                     [kind |-> "policy",
                      impact |-> AnalyzePolicyChange(got.policies,
                                    Replaced(got.policies, cmd.proposed), clusterCIDRs(got.peers))]
                [] cmd.kind = "peer" ->
                     [kind |-> "peer",
                      impact |-> AnalyzePeerChange(cmd.proposed, Locals, Others(got.peers, cmd.proposed))]
    /\ UNCHANGED <<store, was, cmd, step, got, changes>>

-----------------------------------------------------------------------------
(***************************************************************************)
(* The objects change while a command reads.                               *)
(***************************************************************************)
Change(new) ==
    /\ out = NoOutput /\ changes < MaxChanges /\ new # store
    /\ store' = new
    /\ was' = was \cup {new}
    /\ changes' = changes + 1
    /\ UNCHANGED <<cmd, step, got, out>>

ChangePeer == \E n \in Names(PeerName) : \E p \in Peers(n) \cup {Absent} :
                  Change([store EXCEPT !.peers[n] = p])
ChangePolicy == \E n \in Names(PolicyName) : \E p \in Policies(n) \cup {Absent} :
                    Change([store EXCEPT !.policies[n] = p])
ChangeRest == \/ \E a \in Agents : Change([store EXCEPT !.agent = a])
              \/ \E x \in Exports : Change([store EXCEPT !.exports = x])
              \/ Change([store EXCEPT !.crds = ~@])

\* The proposal is applied as it was analysed.
Apply ==
    /\ out.kind \in {"policy", "peer"} /\ step > 0
    /\ step' = 0
    /\ store' = IF out.kind = "policy" THEN [store EXCEPT !.policies[cmd.proposed.name] = cmd.proposed]
                ELSE [store EXCEPT !.peers[cmd.proposed.name] = cmd.proposed]
    /\ UNCHANGED <<was, cmd, got, out, changes>>

Next ==
    \/ Gather \/ GatherFails \/ Finish \/ Apply
    \/ ChangePeer \/ ChangePolicy \/ ChangeRest

Spec == Init /\ [][Next]_vars

-----------------------------------------------------------------------------
(***************************************************************************)
(* Properties.                                                             *)
(***************************************************************************)
Printed == out.kind = "snapshot"
snap == out.snap
New(src, dst) == {pkt \in Packet : pkt.src \in src /\ pkt.dst = dst /\ ~pkt.established}

\* meshstate.Snapshot: the reads "are authoritative for the core objects", and only
\* "the recent-events block is best-effort".  A printed snapshot shows each section
\* as it was at some moment of the command, never an empty one in place of a failed
\* read.
SnapshotFaithful ==
    Printed =>
        /\ \A sec \in Range(Section) \ {"events"} : \E s \in was : snap[sec] = Read(sec, s)
        /\ snap.events = {} \/ \E s \in was : snap.events = s.events

\* The IDs whose ranges no other peer of the snapshot claims.
Unambiguous(i) ==
    \A j \in DOMAIN snap.peers \ {i} :
        snap.peers[i].id # snap.peers[j].id /\ ~OverlapPair(snap.peers[i], snap.peers[j])

\* reach: "its policy verdicts are provably consistent with what the data plane
\* programs".  Of a connected peer with IPv4 ranges that are its own, the destinations
\* reported open are those a new connection from it can pass the compiled chain
\* to, and it is Blocked when there are none.
ReachMatchesFirewall ==
    Printed =>
        LET chain == Compile(snap.policies, clusterCIDRs(snap.peers))
            guarded == UNION Interpret(chain).protected
        IN  \A i \in DOMAIN snap.peers :
                snap.peers[i].st.phase = "Connected" /\ Unambiguous(i)
                    /\ Plan(snap)[i].status # "Degraded" =>
                LET src == Addr \cap UNION (snap.peers[i].cidrs \ {Malformed})
                    passes(d) == \E pkt \in New(src, d) : Passes(chain, pkt)
                    r == Plan(snap)[i]
                IN  src # {} =>
                    /\ \A d \in guarded : passes(d) = (\E dest \in r.open : d \in dest)
                    /\ (r.status = "Blocked") =
                           (guarded # {} /\ \A d \in guarded : ~passes(d))

\* What diagnose names with at least a warning.
Named == {f.about : f \in {g \in Diagnose(snap) : g.severity # "info"}}
Bad(i) == Assess(snap)[i] \in {"Down", "Degraded", "Impaired"}

\* slo: "the report can never disagree with snapshot / reach / diagnose".  A cluster
\* that slo does not call fine has a finding in diagnose, as long as its liveness is
\* that of the handshake.  meshgraph flags the connected peers that reach calls
\* Degraded, and a cluster an allows edge leads from is not Blocked, when it is a
\* connected peer with IPv4 ranges that are its own and the policy has IPv4
\* destinations: the edges come from the selectors, the verdict from the rules they
\* are compiled to.
ReportsAgree ==
    Printed =>
        LET g == Graph(snap)
            guards(name) == \E pol \in snap.policies : pol.name = name /\ Destinations(pol) # {}
            allowed == {e.from : e \in {f \in g.edges : f.kind = "allows" /\ guards(f.policy)}}
        IN  \A i \in DOMAIN snap.peers :
                LET p == snap.peers[i] status == Plan(snap)[i].status IN
                /\ Bad(i) /\ ~snap.observed[i].probed => p.id \in Named
                /\ p.st.phase = "Connected" =>
                      /\ (status = "Degraded") = (p.id \in g.conflict)
                      /\ p.id \in allowed /\ keepIPv4(p.cidrs) # {} /\ Unambiguous(i) => status # "Blocked"

Chain(s) == Compile(PolicySet(s.policies), clusterCIDRs(Listed(PeerName, s.peers)))
Covered(pkt, accesses, dests) ==
    \/ \E a \in accesses : pkt.src \in a.src /\ pkt.dst \in a.dst /\ pkt.port \in a.ports
    \/ \E d \in dests : pkt.dst \in d

\* impact: NewlyExposed is "the blast radius of the change", NewlyDenied "what the
\* change would break".  When nothing else changed, every packet that the applied
\* policy lets through or shuts out, and was not before, is among what was said.
ImpactComplete ==
    [][Apply /\ out.kind = "policy" /\ was = {store} =>
        \A pkt \in Packet :
            LET before == Passes(Chain(store), pkt)
                after == Passes(Chain(store'), pkt)
            IN  /\ ~before /\ after =>
                       Covered(pkt, out.impact.newlyExposed, out.impact.noLongerProtected)
                /\ before /\ ~after =>
                       Covered(pkt, out.impact.newlyDenied, out.impact.newlyProtected)]_vars

\* impact: a change that Safe lets through is routed whole and shares no range, key
\* or ID with another peer, when the others had no conflict and nothing changed.
SafePeersFit ==
    [][Apply /\ out.kind = "peer" /\ was = {store} /\ Safe(out.impact)
           /\ DetectTopologyConflicts(Others(got.peers, cmd.proposed)) = {} =>
        LET p == cmd.proposed IN
        /\ \A c \in p.cidrs : c \cap Dangerous = {} /\ \A l \in Locals : c \cap l = {}
        /\ \A n \in Present(store'.peers) \ {p.name} : LET q == store'.peers[n] IN
               p.id # q.id /\ p.key # q.key /\ \A c \in p.cidrs, d \in q.cidrs : c \cap d = {}]_vars
=============================================================================
