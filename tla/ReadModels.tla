----------------------------- MODULE ReadModels -----------------------------
(***************************************************************************)
(* The pure read side of the mesh: topology conflicts (pkg/topology), the  *)
(* health report and its diagnosis (pkg/verify), expected reachability     *)
(* (pkg/reach), connectivity (pkg/slo), the dependency graph               *)
(* (pkg/meshgraph) and the impact of a change (pkg/impact).                *)
(*                                                                         *)
(* A peer is a record [name, id, key, endpoint, cidrs, st]; Unset is a     *)
(* missing field.  A policy is one of FirewallPlan with a name and a       *)
(* phase.  Cluster IDs are compared with Before, their order.  Texts are   *)
(* left out: a finding is its severity and what it is about.               *)
(***************************************************************************)
EXTENDS FirewallPlan, Health

CONSTANTS
    Before(_, _),    \* the order of cluster IDs
    Dangerous,       \* addresses that are never routed into the mesh
    Malformed        \* a text that is no CIDR

Parses(cidr) == cidr # Malformed
Overlap(c, d) == Parses(c) /\ Parses(d) /\ c \cap d # {}

-----------------------------------------------------------------------------
(***************************************************************************)
(* DetectTopologyConflicts, on a sequence of peers: records [id, reason,   *)
(* with].                                                                  *)
(***************************************************************************)
Clash(id, reason, with) == [id |-> id, reason |-> reason, with |-> with]

missingFieldConflicts(p) ==
    {Clash(p.id, f, Unset) : f \in {g \in {"id", "key", "endpoint"} : p[g] = Unset}}

identityConflicts(peers, i) ==
    LET p == peers[i]
        first == {j \in 1..(i - 1) : peers[j].key = p.key /\ \A k \in 1..(j - 1) : peers[k].key # p.key}
    IN  {Clash(p.id, "duplicate", Unset) : j \in {k \in 1..(i - 1) : p.id # Unset /\ peers[k].id = p.id}}
        \cup {Clash(p.id, "shared key", peers[j].id) : j \in {k \in first : p.key # Unset}}

invalidCIDRs(p) == {Clash(p.id, "invalid CIDR", Unset) : c \in p.cidrs \cap {Malformed}}

OverlapPair(p, q) == \E c \in p.cidrs, d \in q.cidrs : Overlap(c, d)

\* Mutant: an overlap is seen only when the smaller ID is listed first.
cidrOverlapConflictsInOrder(peers) ==
    {Clash(peers[ij[1]].id, "overlap", peers[ij[2]].id) :
        ij \in {k \in (DOMAIN peers) \X (DOMAIN peers) :
                  /\ k[1] < k[2] /\ Before(peers[k[1]].id, peers[k[2]].id)
                  /\ OverlapPair(peers[k[1]], peers[k[2]])}}
\* An overlap is put to the account of the smaller cluster ID.
cidrOverlapConflicts(peers) ==
    {Clash(pq[1].id, "overlap", pq[2].id) :
        pq \in {r \in Range(peers) \X Range(peers) :
                  r[1].id # r[2].id /\ Before(r[1].id, r[2].id) /\ OverlapPair(r[1], r[2])}}

DetectTopologyConflicts(peers) ==
    (UNION {missingFieldConflicts(peers[i]) \cup identityConflicts(peers, i)
                \cup invalidCIDRs(peers[i]) : i \in DOMAIN peers})
    \cup cidrOverlapConflicts(peers)

-----------------------------------------------------------------------------
(***************************************************************************)
(* verify.Build: the checks of the health report.                          *)
(***************************************************************************)
checkCRDs(s) == IF s.crds THEN "PASS" ELSE "FAIL"
checkAgent(s) ==
    CASE ~s.agent.found -> "FAIL"
      [] s.agent.found /\ s.agent.desired = 0 -> "WARN"
      [] OTHER -> IF s.agent.ready = s.agent.desired THEN "PASS" ELSE "FAIL"
Phases(s) == {s.peers[i].st.phase : i \in DOMAIN s.peers}
checkPeers(s) ==
    CASE s.peers = <<>> -> "WARN"
      [] s.peers # <<>> /\ "Error" \in Phases(s) -> "FAIL"
      [] OTHER -> IF Phases(s) \subseteq {"Connected"} THEN "PASS" ELSE "WARN"
checkHandshakes(s, now) ==
    IF \E i \in DOMAIN s.peers : LET st == s.peers[i].st IN
           st.phase = "Connected" /\ (st.handshake <= 0 \/ ~Within(now, st.handshake))
    THEN "WARN" ELSE "PASS"
checkExports(s) == IF \E e \in s.exports : ~e.valid THEN "WARN" ELSE "PASS"

Build(s, now) ==
    [crds |-> checkCRDs(s), agent |-> checkAgent(s), peers |-> checkPeers(s),
     handshakes |-> checkHandshakes(s, now), exports |-> checkExports(s)]

\* BuildSnapshot: the same inputs, the report and what is derived of every peer.
BuildSnapshot(s, conflicts, now) ==
    [crds |-> s.crds, agent |-> s.agent, peers |-> s.peers, exports |-> s.exports,
     imports |-> s.imports, policies |-> s.policies, events |-> s.events,
     conflicts |-> conflicts, health |-> Build(s, now),
     observed |-> [i \in DOMAIN s.peers |-> PeerSnapshot(s.peers[i].st, now)]]

-----------------------------------------------------------------------------
(***************************************************************************)
(* verify.Diagnose.                                                        *)
(***************************************************************************)
Finding(sev, about) == [severity |-> sev, about |-> about]

diagnoseHealth(s) == {Finding("critical", c) : c \in {d \in DOMAIN s.health : s.health[d] = "FAIL"}}
diagnoseConflicts(s) == {Finding("critical", c.id) : c \in s.conflicts}

\* Mutant: a peer that is not programmed yet is not worth a word.
diagnosePeersProgrammed(s) ==
    UNION {CASE s.observed[i].phase = "Error" -> {Finding("critical", s.peers[i].id)}
             [] s.observed[i].phase = "Connected" /\ staleTunnel(s.observed[i]) ->
                    {Finding("warning", s.peers[i].id)}
             [] OTHER -> {} : i \in DOMAIN s.peers}
diagnosePeers(s) ==
    UNION {CASE s.observed[i].phase = "Error" -> {Finding("critical", s.peers[i].id)}
             [] s.observed[i].phase = "Connected" /\ staleTunnel(s.observed[i]) ->
                    {Finding("warning", s.peers[i].id)}
             [] s.observed[i].phase \in {"Pending", Unset} -> {Finding("warning", s.peers[i].id)}
             [] OTHER -> {} : i \in DOMAIN s.peers}
diagnoseExports(s) == {Finding("warning", e.name) : e \in {f \in s.exports : f.conflict \/ ~f.valid}}
diagnosePolicies(s) == {Finding("critical", p.name) : p \in {q \in s.policies : q.phase = "Error"}}
diagnoseEvents(s) == {Finding("info", e) : e \in s.events}

Diagnose(s) ==
    diagnoseHealth(s) \cup diagnoseConflicts(s) \cup diagnosePeers(s)
        \cup diagnoseExports(s) \cup diagnosePolicies(s) \cup diagnoseEvents(s)

-----------------------------------------------------------------------------
(***************************************************************************)
(* meshfw.Interpret, reach.Plan and slo.Assess.                            *)
(***************************************************************************)
Interpret(rules) ==
    LET of(verdict) == {r \in Range(rules) : r.verdict = verdict} IN
    [accepts |-> {[src |-> r.src, dst |-> r.dst, ports |-> r.ports] : r \in of("ACCEPT")},
     protected |-> {r.dst : r \in of("DROP")}]

\* Mutant: an accept for another destination will do.
peerAllowedAnywhere(cidrs, accepts, dest) ==
    \E a \in accepts : a.src = AnyAddr \/ a.src \in cidrs
\* Sources are compared as they are written, with the peer's ranges as they are.
peerAllowed(cidrs, accepts, dest) ==
    \E a \in accepts : a.dst \in {AnyAddr, dest} /\ (a.src = AnyAddr \/ a.src \in cidrs)

\* Of peers with the same ID the last one listed gives the ranges.
clusterCIDRs(peers) ==
    [id \in {peers[i].id : i \in DOMAIN peers} |->
        LET ofID == {i \in DOMAIN peers : peers[i].id = id} IN
        peers[CHOOSE i \in ofID : \A j \in ofID : j <= i].cidrs]

Resolve(policies, known) ==
    {[pol EXCEPT !.ingress = {[ing EXCEPT !.clusters = @ \cap DOMAIN known] : ing \in @}] : pol \in policies}
Compile(policies, known) == BuildFirewall(Resolve(policies, known), known)

reachFor(p, conflicted, d) ==
    LET open == {dest \in d.protected : peerAllowed(p.cidrs, d.accepts, dest)} IN
    [id |-> p.id, open |-> open,
     status |-> CASE p.st.phase # "Connected" -> "Unreachable"
                  [] p.st.phase = "Connected" /\ p.id \in conflicted -> "Degraded"
                  [] OTHER -> IF d.protected # {} /\ open = {} THEN "Blocked" ELSE "Reachable"]

Plan(s) ==
    LET d == Interpret(Compile(s.policies, clusterCIDRs(s.peers)))
        conflicted == {c.id : c \in s.conflicts}
    IN  [i \in DOMAIN s.peers |-> reachFor(s.peers[i], conflicted, d)]

\* slo.FromSnapshot; the liveness of an ID is that of the last peer that has it.
Assess(s) ==
    LET last(i) == CHOOSE j \in DOMAIN s.peers :
                       /\ s.peers[j].id = s.peers[i].id
                       /\ \A k \in DOMAIN s.peers : s.peers[k].id = s.peers[i].id => k <= j
    IN  [i \in DOMAIN s.peers |-> signalFor(Plan(s)[i].status, TunnelLive(s.observed[last(i)]))]

-----------------------------------------------------------------------------
(***************************************************************************)
(* meshgraph.Build.                                                        *)
(***************************************************************************)
LocalNodeID == "local"
Edge(from, to, kind, policy) == [from |-> from, to |-> to, kind |-> kind, policy |-> policy]
conflictClusters(s) == {c.id : c \in s.conflicts} \ {Unset}

peerings(s) == {Edge(LocalNodeID, s.peers[i].id, "peering", Unset) : i \in DOMAIN s.peers}
addImport(im) ==
    {Edge(im.name, LocalNodeID, "imports", Unset)} \cup {Edge(c, im.name, "serves", Unset) : c \in im.clusters}
addExport(ex) == {Edge(LocalNodeID, ex.name, "exports", Unset)}
addPolicy(p) ==
    {Edge(c, LocalNodeID, "allows", p.name) : c \in UNION {ing.clusters : ing \in p.ingress}}

Graph(s) ==
    LET edges == peerings(s) \cup (UNION {addImport(im) : im \in s.imports})
                     \cup (UNION {addExport(ex) : ex \in s.exports})
                     \cup (UNION {addPolicy(p) : p \in s.policies})
    IN  [nodes |-> {LocalNodeID} \cup {e.from : e \in edges} \cup {e.to : e \in edges},
         edges |-> edges,
         conflict |-> {s.peers[i].id : i \in DOMAIN s.peers} \cap conflictClusters(s)]

-----------------------------------------------------------------------------
(***************************************************************************)
(* pkg/impact.                                                             *)
(***************************************************************************)
policyWarnings(policies, known) ==
    {[policy |-> p.name, what |-> "denies everything"] : p \in {q \in policies : q.dests = {}}}
    \cup {[policy |-> p.name, what |-> "allows everyone"] :
             p \in {q \in policies : \E ing \in q.ingress : AnyAddr \in ing.cidrs}}
    \cup {[policy |-> p.name, what |-> "unknown cluster"] :
             p \in {q \in policies : \E ing \in q.ingress : ~(ing.clusters \subseteq DOMAIN known)}}

\* Mutant: only what is accepted is compared.
AnalyzePolicyChangeAccepts(current, proposed, known) ==
    LET cur == Interpret(Compile(current, known))
        prop == Interpret(Compile(proposed, known))
    IN  [newlyExposed |-> prop.accepts \ cur.accepts, newlyDenied |-> cur.accepts \ prop.accepts,
         newlyProtected |-> {}, noLongerProtected |-> {},
         warnings |-> policyWarnings(proposed, known)]
AnalyzePolicyChange(current, proposed, known) ==
    LET cur == Interpret(Compile(current, known))
        prop == Interpret(Compile(proposed, known))
    IN  [newlyExposed |-> prop.accepts \ cur.accepts, newlyDenied |-> cur.accepts \ prop.accepts,
         newlyProtected |-> prop.protected \ cur.protected,
         noLongerProtected |-> cur.protected \ prop.protected,
         warnings |-> policyWarnings(proposed, known)]

IsDangerousCIDR(c) == c = AnyAddr \/ Overlap(c, Dangerous)

\* Partition and PlanPeer: what is withheld, and the phase that follows.
Withheld(cidrs, locals) ==
    {c \in cidrs : ~Parses(c) \/ IsDangerousCIDR(c) \/ \E l \in locals : Overlap(c, l)}
PlanPeer(p, locals) ==
    LET withheld == IF p.key = Unset THEN {} ELSE Withheld(p.cidrs, locals) IN
    [withheld |-> withheld, routable |-> IF p.key = Unset THEN {} ELSE p.cidrs \ withheld,
     phase |-> IF p.key = Unset \/ withheld # {} THEN "Error" ELSE "Connected"]

AnalyzePeerChange(proposed, locals, existing) ==
    [plan |-> PlanPeer(proposed, locals),
     dangerous |-> {c \in proposed.cidrs : IsDangerousCIDR(c)},
     newConflicts |-> DetectTopologyConflicts(Append(existing, proposed))
                          \ DetectTopologyConflicts(existing)]

Safe(imp) == imp.plan.withheld = {} /\ imp.dangerous = {} /\ imp.newConflicts = {}
=============================================================================
