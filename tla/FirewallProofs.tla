--------------------------- MODULE FirewallProofs ---------------------------
(***************************************************************************)
(* The firewall fails closed for any policies, peers, failures and         *)
(* crashes.  The chain it compiles means what the policies say, and what   *)
(* the commands that read the mesh foretell of a change, or say of who     *)
(* reaches what, is what that chain does.                                  *)
(***************************************************************************)
EXTENDS Firewall, ViewProofs

Closed == \A h \in Hook : guard[h] > 0
Complete == infra = Len(Infra)

\* What makes FailsClosed inductive: the guard is up in both hooks whenever FWChain
\* may differ from the last complete ruleset, in particular when it is about to be
\* flushed; and nothing was ever applied before the hooks were in place.
FailsClosedInv ==
    /\ guard \in [Hook -> Nat]
    /\ infra \in 0..Len(Infra)
    /\ fw = applied \/ Closed
    /\ pc \in {"clear", "append"} => Closed
    /\ pc = "lift" => fw = applied
    /\ pc \in {"engage", "clear", "append", "lift", "patch"} => Complete
    /\ applied = <<>> \/ Complete

LEMMA InfraLength == Len(Infra) = 5
BY Zenon DEF Infra

LEMMA FirstHook ==
    ASSUME NEW S \in SUBSET Hook, S # {}
    PROVE  First(S) \in S
BY Zenon DEF First, Hook

\* The history variable and FWChain agree when the agent starts.
LEMMA InitFailsClosed == FirewallInit => FailsClosedInv
BY InfraLength DEF FirewallInit, FailsClosedInv, Hook

\* No step of a user, of the informers, of the reconciler or of iptables, no failed
\* command and no crash opens a hook onto an incomplete chain.
LEMMA StepFailsClosed == FailsClosedInv /\ [FirewallNext]_firewallVars => FailsClosedInv'
<1> SUFFICES ASSUME FailsClosedInv, [FirewallNext]_firewallVars PROVE FailsClosedInv'
  BY Zenon
<1> USE DEF FailsClosedInv, Closed, Complete
<1>1. CASE UNCHANGED firewallVars
  BY <1>1, Zenon DEF firewallVars, kernel
<1>2. CASE User
  BY <1>2, ZenonT(30) DEF User, DeletePolicy, CreatePolicy, UpdatePolicy, WritePeers, kernel
<1>3. CASE Deliver
  BY <1>3, Zenon DEF Deliver, DeliverPolicy, DeliverPeers, kernel
<1>4. CASE \E p \in Policy : Reconcile(p)
  BY <1>4, Zenon DEF Reconcile, kernel
<1>5. CASE ensureInfra
  BY <1>5, InfraLength DEF ensureInfra, Goto
<1>6. CASE engageGuard
  <2> DEFINE open == {h \in Hook : guard[h] = 0}
  <2>1. CASE open # {}
    <3>1. First(open) \in Hook
      BY <2>1, FirstHook, Zenon
    <3>2. guard' = [guard EXCEPT ![First(open)] = 1]
      BY <1>6, <2>1, Zenon DEF engageGuard
    <3>3. guard' \in [Hook -> Nat] /\ \A h \in Hook : guard[h] > 0 => guard'[h] > 0
      BY <3>1, <3>2
    <3> QED
      BY <1>6, <2>1, <3>3, Zenon DEF engageGuard, Goto
  <2>2. CASE open = {}
    <3>1. Closed
      BY <2>2
    <3> QED
      BY <1>6, <2>2, <3>1, Zenon DEF engageGuard, Goto
  <2> QED
    BY <2>1, <2>2, Zenon
<1>7. CASE ClearChain
  BY <1>7, Zenon DEF ClearChain, Goto
<1>8. CASE AppendRules
  BY <1>8, Zenon DEF AppendRules, Goto
<1>9. CASE disengageGuard
  <2> DEFINE closed == {h \in Hook : guard[h] > 0}
  <2>1. CASE closed # {}
    <3>1. First(closed) \in closed
      BY <2>1, FirstHook, ZenonT(30)
    <3>2. guard' = [guard EXCEPT ![First(closed)] = @ - 1]
      BY <1>9, <2>1, Zenon DEF disengageGuard
    <3>3. guard' \in [Hook -> Nat]
      BY <3>1, <3>2
    <3> QED
      BY <1>9, <2>1, <3>3, Zenon DEF disengageGuard, Goto
  <2>2. CASE closed = {}
    BY <1>9, <2>2, Zenon DEF disengageGuard, Goto
  <2> QED
    BY <2>1, <2>2, Zenon
<1>10. CASE Succeed
  BY <1>10, Zenon DEF Succeed, Return
<1>11. CASE SyncFails
  BY <1>11, Zenon DEF SyncFails, Return
<1>12. CASE Crash
  BY <1>12, Zenon DEF Crash, kernel
<1> QED
  BY <1>1, <1>2, <1>3, <1>4, <1>5, <1>6, <1>7, <1>8, <1>9, <1>10, <1>11, <1>12, ZenonT(30) DEF
     FirewallNext, SyncFirewall

LEMMA EmptyChainPasses ==
    ASSUME NEW pkt PROVE Passes(<<>>, pkt)
BY DEF Passes

LEMMA InvFailsClosed == FailsClosedInv => FailsClosed
<1> SUFFICES ASSUME FailsClosedInv,
                    NEW h \in Hook, NEW pkt \in Packet, LetsThrough(h, pkt)
             PROVE  Passes(applied, pkt)
  BY Zenon DEF FailsClosed
<1>1. CASE applied = <<>>
  BY <1>1, EmptyChainPasses, Zenon
<1>2. CASE applied # <<>>
  <2>1. infra = 5
    BY <1>2, InfraLength, Zenon DEF FailsClosedInv, Complete
  <2>2. Hooked(h)
    BY <2>1 DEF Hooked, Infra, Hook
  <2>3. fw = applied
    BY DEF FailsClosedInv, Closed, LetsThrough
  <2> QED
    BY <2>2, <2>3, Zenon DEF LetsThrough
<1> QED
  BY <1>1, <1>2, Zenon

\* SyncFirewall fails closed: however many policies, peers, failed
\* commands and crashes, a mesh packet only ever gets through if the last ruleset
\* that was completely in FWChain lets it through.
THEOREM FirewallFailsClosed == FirewallSpec => []FailsClosed
BY InitFailsClosed, StepFailsClosed, InvFailsClosed, PTL DEF FirewallSpec

-----------------------------------------------------------------------------
(***************************************************************************)
(* What a chain compiled from any policies decides.                        *)
(***************************************************************************)
\* meshfw.BuildFirewall: the fast path, the accepts before the drops, and the rest
\* of the chain's traffic let through.  This is what Passes comes to, the positions
\* of the rules left out.
LEMMA ChainDecides ==
  ASSUME NEW pols, NEW cidrOf, WellFormed(pols), NEW pkt \in Packet
  PROVE  Passes(BuildFirewall(pols, cidrOf), pkt) <=>
             \/ pkt.established
             \/ \E r \in Accepts(pols, cidrOf) : Matches(r, pkt)
             \/ \A r \in Drops(pols) : ~Matches(r, pkt)
<1> DEFINE A == Accepts(pols, cidrOf)
           D == Drops(pols)
           a == Listing(A)
           d == Listing(D)
           chain == (<<Conntrack>> \o a) \o d
           hits == {i \in DOMAIN chain : Matches(chain[i], pkt)}
<1>1. /\ a \in Seq(A) /\ d \in Seq(D)
      /\ \A r \in A : \E i \in DOMAIN a : a[i] = r
      /\ \A r \in D : \E i \in DOMAIN d : d[i] = r
  BY CompiledFinite, ListingComplete, Zenon
<1>2. chain = BuildFirewall(pols, cidrOf)
  BY Zenon DEF BuildFirewall
<1>3. /\ \A r \in A : r.verdict = "ACCEPT"
      /\ \A r \in D : r.verdict = "DROP"
      /\ Conntrack.verdict = "ESTABLISHED"
  BY DEF Accepts, addIngress, Drops, Conntrack
<1> HIDE DEF A, D, a, d
<1>4. /\ Len(a) \in Nat /\ Len(d) \in Nat
      /\ DOMAIN chain = 1..(1 + Len(a) + Len(d))
      /\ chain[1] = Conntrack
      /\ \A i \in 1..Len(a) : chain[i + 1] = a[i]
      /\ \A i \in 1..Len(d) : chain[1 + Len(a) + i] = d[i]
  <2> DEFINE S == A \cup D \cup {Conntrack}
  <2>1. Conntrack \in S /\ a \in Seq(S) /\ d \in Seq(S)
    BY <1>1
  <2> HIDE DEF S
  <2> QED
    BY <2>1, SMTT(30)
<1> HIDE DEF chain
<1>5. Matches(Conntrack, pkt) <=> pkt.established
  BY Zenon DEF Matches, Conntrack, AnyAddr, Packet
<1>6. \A i \in DOMAIN chain : \/ i = 1
                              \/ i - 1 \in 1..Len(a) /\ chain[i] = a[i - 1]
                              \/ i - 1 - Len(a) \in 1..Len(d) /\ chain[i] = d[i - 1 - Len(a)]
  BY <1>4
<1>7. hits # {} => \E i \in hits : \A j \in hits : i <= j
  <2>1. hits \subseteq Nat
    BY <1>4
  <2> QED
    BY <2>1, FirstPosition, ZenonT(30)
<1>8. Passes(chain, pkt) <=> \/ hits = {}
                             \/ \E i \in hits : chain[i].verdict # "DROP" /\ \A j \in hits : i <= j
  BY Zenon DEF Passes
<1>9. CASE pkt.established
  <2>1. 1 \in hits /\ \A j \in hits : 1 <= j
    BY <1>4, <1>5, <1>9
  <2> QED
    BY <1>2, <1>3, <1>4, <1>8, <1>9, <2>1, Zenon
<1>10. CASE \E r \in A : Matches(r, pkt)
  <2>1. PICK k \in 1..Len(a) : Matches(a[k], pkt)
    <3>1. DOMAIN a = 1..Len(a)
      BY <1>1
    <3> QED
      BY <1>1, <1>10, <3>1, Zenon
  <2>2. k + 1 \in hits
    BY <1>4, <2>1
  <2>3. PICK i \in hits : \A j \in hits : i <= j
    BY <1>7, <2>2, Zenon
  <2>4. i \in Nat /\ i <= 1 + Len(a)
    <3>1. i \in 1..(1 + Len(a) + Len(d)) /\ i <= k + 1
      BY <1>4, <2>2, <2>3, Zenon
    <3>2. k \in 1..Len(a) /\ Len(a) \in Nat /\ Len(d) \in Nat
      BY <1>4, <2>1, Zenon
    <3> QED
      BY ONLY <3>1, <3>2
  <2>5. i = 1 \/ (i - 1 \in 1..Len(a) /\ chain[i] = a[i - 1])
    BY <1>4, <1>6, <2>4
  <2>6. chain[i] = Conntrack \/ chain[i] \in A
    BY <1>1, <1>4, <2>5
  <2>7. chain[i].verdict # "DROP"
    BY <1>3, <2>6, Zenon
  <2> QED
    BY <1>2, <1>8, <1>10, <2>3, <2>7, Zenon DEF A
<1>11. CASE ~pkt.established /\ ~\E r \in A : Matches(r, pkt)
  <2>1. \A i \in hits : i - 1 - Len(a) \in 1..Len(d) /\ chain[i] = d[i - 1 - Len(a)]
    <3> TAKE i \in hits
    <3>1. i # 1
      BY <1>4, <1>5, <1>11, Zenon
    <3>2. CASE i - 1 \in 1..Len(a) /\ chain[i] = a[i - 1]
      BY <1>1, <1>11, <3>2
    <3> QED
      BY <1>6, <3>1, <3>2, Zenon
  <2>2. \A i \in hits : chain[i] \in D /\ chain[i].verdict = "DROP"
    BY <1>1, <1>3, <2>1
  <2>3. hits = {} <=> \A r \in D : ~Matches(r, pkt)
    <3>1. ASSUME NEW r \in D, Matches(r, pkt) PROVE hits # {}
      <4>1. PICK k \in 1..Len(d) : d[k] = r
        BY <1>1
      <4>2. 1 + Len(a) + k \in hits
        BY <1>4, <3>1, <4>1
      <4> QED
        BY <4>2, Zenon
    <3> QED
      BY <2>2, <3>1, Zenon
  <2> QED
    BY <1>2, <1>8, <1>11, <2>2, <2>3, Zenon DEF A, D
<1> QED
  BY <1>9, <1>10, <1>11, Zenon

\* A range is of one address family.
OneFamily(c) == c \subseteq Addr \/ c \cap Addr = {}
Ranges(pols, cidrOf) ==
    UNION {pol.dests \cup UNION {resolveSources(ing, cidrOf) : ing \in pol.ingress} :
               pol \in pols}

\* Leaving the IPv6 destinations out changes nothing for a packet of the chain.
LEMMA DestinationsProtect ==
  ASSUME NEW pols, NEW cidrOf, \A c \in Ranges(pols, cidrOf) : OneFamily(c),
         NEW pkt \in Packet, NEW pol \in pols
  PROVE  Protects(pol, pkt) <=> \E d \in Destinations(pol) : pkt.dst \in d
<1>1. pkt.dst \in Addr
  BY Zenon DEF Packet
<1>2. \A d \in pol.dests : OneFamily(d)
  BY DEF Ranges
<1>3. CASE pol.dests = {}
  BY <1>1, <1>3, Zenon DEF Protects, Destinations, AnyAddr
<1>4. CASE pol.dests # {}
  BY <1>1, <1>2, <1>4, Zenon DEF Protects, Destinations, keepIPv4, OneFamily
<1> QED
  BY <1>3, <1>4, Zenon

\* The chain that BuildFirewall compiles decides every packet as the policies mean
\* it: accepts before drops, cluster IDs resolved, no port for every port, the
\* families apart, and no policy, no effect.
THEOREM ChainMeansPolicies ==
  ASSUME NEW pols, NEW cidrOf, WellFormed(pols),
         \A c \in Ranges(pols, cidrOf) : OneFamily(c), NEW pkt \in Packet
  PROVE  Passes(BuildFirewall(pols, cidrOf), pkt) <=> Allowed(pols, cidrOf, pkt)
<1>1. pkt.src \in Addr /\ pkt.dst \in Addr /\ pkt.port \in Port
  BY Zenon DEF Packet
<1>2. (\A r \in Drops(pols) : ~Matches(r, pkt)) <=> \A pol \in pols : ~Protects(pol, pkt)
  <2>1. ASSUME NEW pol \in pols, Protects(pol, pkt)
        PROVE  \E r \in Drops(pols) : Matches(r, pkt)
    <3>1. PICK d \in Destinations(pol) : pkt.dst \in d
      BY <2>1, DestinationsProtect, Zenon
    <3> DEFINE r == [verdict |-> "DROP", src |-> AnyAddr, dst |-> d, ports |-> Port]
    <3>2. r \in Drops(pols)
      BY Zenon DEF Drops
    <3>3. Matches(r, pkt)
      BY <1>1, <3>1, Zenon DEF Matches, AnyAddr
    <3> QED
      BY <3>2, <3>3, Zenon
  <2>2. ASSUME NEW r \in Drops(pols), Matches(r, pkt)
        PROVE  \E pol \in pols : Protects(pol, pkt)
    <3>1. PICK pol \in pols : r.dst \in Destinations(pol)
      BY Zenon DEF Drops
    <3> QED
      BY <2>2, <3>1, DestinationsProtect, Zenon DEF Matches
  <2> QED
    BY <2>1, <2>2, Zenon
<1>3. (\E r \in Accepts(pols, cidrOf) : Matches(r, pkt))
          <=> \E pol \in pols : Permits(pol, cidrOf, pkt)
  <2>1. ASSUME NEW pol \in pols, Permits(pol, cidrOf, pkt)
        PROVE  \E r \in Accepts(pols, cidrOf) : Matches(r, pkt)
    <3>1. PICK d \in Destinations(pol) : pkt.dst \in d
      BY <2>1, DestinationsProtect, Zenon DEF Permits
    <3>2. PICK ing \in pol.ingress :
              /\ \E c \in resolveSources(ing, cidrOf) : pkt.src \in c
              /\ ing.ports = {} \/ pkt.port \in ing.ports
      BY <2>1, Zenon DEF Permits
    <3>3. PICK c \in resolveSources(ing, cidrOf) : pkt.src \in c
      BY <3>2, Zenon
    <3>4. c \in keepIPv4(resolveSources(ing, cidrOf))
      <4>1. OneFamily(c)
        BY DEF Ranges
      <4> QED
        BY <1>1, <3>3, <4>1, Zenon DEF keepIPv4, OneFamily
    <3>5. PICK ports \in Ports(ing) : pkt.port \in ports
      BY <1>1, <3>2, ZenonT(30) DEF Ports
    <3> DEFINE r == [verdict |-> "ACCEPT", src |-> c, dst |-> d, ports |-> ports]
    <3>6. r \in addIngress(ing, Destinations(pol), cidrOf)
      BY <3>4, Zenon DEF addIngress
    <3>7. r \in Accepts(pols, cidrOf)
      BY <3>6 DEF Accepts
    <3>8. Matches(r, pkt)
      BY <3>1, <3>3, <3>5, Zenon DEF Matches
    <3> QED
      BY <3>7, <3>8, Zenon
  <2>2. ASSUME NEW r \in Accepts(pols, cidrOf), Matches(r, pkt)
        PROVE  \E pol \in pols : Permits(pol, cidrOf, pkt)
    <3>1. PICK pol \in pols : \E ing \in pol.ingress :
              r \in addIngress(ing, Destinations(pol), cidrOf)
      BY DEF Accepts
    <3>2. PICK ing \in pol.ingress : r \in addIngress(ing, Destinations(pol), cidrOf)
      BY <3>1, Zenon
    <3>3. /\ r.src \in resolveSources(ing, cidrOf) /\ r.dst \in Destinations(pol)
          /\ r.ports \in Ports(ing)
      BY <3>2, Zenon DEF addIngress, keepIPv4
    <3>4. Protects(pol, pkt)
      BY <2>2, <3>3, DestinationsProtect, SMTT(30) DEF Matches
    <3>5. ing.ports = {} \/ pkt.port \in ing.ports
      BY <2>2, <3>3, SMTT(30) DEF Matches, Ports
    <3> QED
      BY <2>2, <3>3, <3>4, <3>5, Zenon DEF Permits, Matches
  <2> QED
    BY <2>1, <2>2, Zenon
<1> QED
  BY <1>2, <1>3, ChainDecides, Zenon DEF Allowed

-----------------------------------------------------------------------------
(***************************************************************************)
(* The impact of a policy change.                                          *)
(***************************************************************************)
\* meshfw.Interpret reads back what a compiled chain decides.
LEMMA InterpretDecides ==
  ASSUME NEW pols, NEW known, Stored(pols), NEW pkt \in Packet
  PROVE  LET d == Interpret(Compile(pols, known)) IN
         Passes(Compile(pols, known), pkt) <=>
             \/ pkt.established
             \/ \E a \in d.accepts : pkt.src \in a.src /\ pkt.dst \in a.dst /\ pkt.port \in a.ports
             \/ \A dest \in d.protected : pkt.dst \notin dest
<1> DEFINE R == Resolve(pols, known)
           A == Accepts(R, known)
           D == Drops(R)
           d == Interpret(Compile(pols, known))
<1>1. WellFormed(R)
  BY ResolvedWellFormed, SMTT(30)
<1>2. /\ d.accepts = {[src |-> r.src, dst |-> r.dst, ports |-> r.ports] : r \in A}
      /\ d.protected = {r.dst : r \in D}
  BY <1>1, ChainRules, Zenon DEF Interpret, Compile
<1>3. Passes(Compile(pols, known), pkt) <=>
          pkt.established \/ (\E r \in A : Matches(r, pkt)) \/ (\A r \in D : ~Matches(r, pkt))
  BY <1>1, ChainDecides, Zenon DEF Compile
<1>4. \A r \in A : Matches(r, pkt) <=> pkt.src \in r.src /\ pkt.dst \in r.dst /\ pkt.port \in r.ports
  BY DEF Accepts, addIngress, Matches
<1>5. \A r \in D : Matches(r, pkt) <=> pkt.dst \in r.dst
  BY Zenon DEF Drops, Matches, AnyAddr, Packet
<1> HIDE DEF A, D, d
<1>6. (\E r \in A : Matches(r, pkt)) <=>
          \E a \in d.accepts : pkt.src \in a.src /\ pkt.dst \in a.dst /\ pkt.port \in a.ports
  <2> DEFINE access(r) == [src |-> r.src, dst |-> r.dst, ports |-> r.ports]
  <2>1. \A r : access(r).src = r.src /\ access(r).dst = r.dst /\ access(r).ports = r.ports
    BY Zenon
  <2>2. d.accepts = {access(r) : r \in A}
    BY <1>2, Zenon
  <2> HIDE DEF access
  <2> QED
    BY <1>4, <2>1, <2>2
<1>7. (\A r \in D : ~Matches(r, pkt)) <=> \A dest \in d.protected : pkt.dst \notin dest
  BY <1>2, <1>5, SMTT(30)
<1> QED
  BY <1>3, <1>6, <1>7, Zenon DEF d

\* AnalyzePolicyChange compares what the two policy sets compile to: a packet that
\* only one of them lets through is covered by what it reports.
THEOREM ImpactCovers ==
  ASSUME NEW current, NEW proposed, NEW known, Stored(current), Stored(proposed), NEW pkt \in Packet
  PROVE  LET imp == AnalyzePolicyChange(current, proposed, known)
             before == Passes(Compile(current, known), pkt)
             after == Passes(Compile(proposed, known), pkt)
         IN  /\ ~before /\ after => Covered(pkt, imp.newlyExposed, imp.noLongerProtected)
             /\ before /\ ~after => Covered(pkt, imp.newlyDenied, imp.newlyProtected)
<1> DEFINE cur == Interpret(Compile(current, known))
           prop == Interpret(Compile(proposed, known))
           imp == AnalyzePolicyChange(current, proposed, known)
<1>1. /\ imp.newlyExposed = prop.accepts \ cur.accepts
      /\ imp.newlyDenied = cur.accepts \ prop.accepts
      /\ imp.newlyProtected = prop.protected \ cur.protected
      /\ imp.noLongerProtected = cur.protected \ prop.protected
  BY ZenonT(30) DEF AnalyzePolicyChange
<1>2. Passes(Compile(current, known), pkt) <=>
             \/ pkt.established
             \/ \E a \in cur.accepts : pkt.src \in a.src /\ pkt.dst \in a.dst /\ pkt.port \in a.ports
             \/ \A dest \in cur.protected : pkt.dst \notin dest
  BY InterpretDecides, Zenon
<1>3. Passes(Compile(proposed, known), pkt) <=>
             \/ pkt.established
             \/ \E a \in prop.accepts : pkt.src \in a.src /\ pkt.dst \in a.dst /\ pkt.port \in a.ports
             \/ \A dest \in prop.protected : pkt.dst \notin dest
  BY InterpretDecides, Zenon
<1> HIDE DEF cur, prop, imp
<1> QED
  BY <1>1, <1>2, <1>3, Zenon DEF Covered, imp

\* The store after the change holds the policies that were analysed.
LEMMA AppliedPolicies ==
  ASSUME ImpactInv, Apply, out.kind = "policy"
  PROVE  /\ PolicySet(store'.policies) = Replaced(PolicySet(store.policies), cmd.proposed)
         /\ store'.peers = store.peers
         /\ Stored(PolicySet(store.policies))
         /\ Stored(Replaced(PolicySet(store.policies), cmd.proposed))
<1> DEFINE old == store.policies
           p == cmd.proposed
<1>1. PICK n \in Names(PolicyName) : p \in Policies(n)
  BY Zenon DEF ImpactInv
<1>2. p.name = n /\ p # Absent
  BY <1>1, PolicyAssumption DEF Names
<1>3. store' = [store EXCEPT !.policies[n] = p]
  BY <1>2, Zenon DEF Apply
<1>4. /\ store'.peers = store.peers
      /\ store'.policies = [old EXCEPT ![n] = p]
      /\ DOMAIN old = Names(PolicyName)
      /\ \A m \in Names(PolicyName) : old[m] \in Policies(m) \cup {Absent}
  BY <1>3, Zenon DEF ImpactInv, Shape
<1>5. \A m \in Names(PolicyName) : old[m] # Absent => old[m].name = m
  BY <1>4, PolicyAssumption DEF Names
<1> HIDE DEF old, p
<1>6. PolicySet([old EXCEPT ![n] = p]) = Replaced(PolicySet(old), p)
  BY <1>2, <1>4, <1>5 DEF PolicySet, Present, Replaced
<1>7. Stored(PolicySet(old))
  BY <1>4, Zenon DEF Stored, PolicySet, Present
<1>8. Stored(Replaced(PolicySet(old), p))
  BY <1>1, <1>7, Zenon DEF Stored, Replaced
<1> QED
  BY <1>4, <1>6, <1>7, <1>8, SMTT(30) DEF old, p

\* `dwx mesh policy`: whatever the policies, the peers and the packet, a change that
\* is applied to the objects as they were read lets through and shuts out nothing
\* that the command did not name.
THEOREM ImpactIsComplete == Spec => ImpactComplete
<1>1. ASSUME ImpactInv, Apply, out.kind = "policy", was = {store}, NEW pkt \in Packet
      PROVE  LET before == Passes(Chain(store), pkt)
                 after == Passes(Chain(store'), pkt)
             IN  /\ ~before /\ after =>
                        Covered(pkt, out.impact.newlyExposed, out.impact.noLongerProtected)
                 /\ before /\ ~after =>
                        Covered(pkt, out.impact.newlyDenied, out.impact.newlyProtected)
  <2> DEFINE current == PolicySet(store.policies)
             proposed == Replaced(current, cmd.proposed)
  <2>1. Undisturbed
    BY <1>1, Zenon DEF ImpactInv, Undisturbed, Apply
  <2>2. out.impact = AnalyzePolicyChange(current, proposed, Known(store))
    BY <1>1, <2>1, SMTT(30) DEF ImpactInv
  <2>3. /\ Chain(store) = Compile(current, Known(store))
        /\ Chain(store') = Compile(proposed, Known(store))
        /\ Stored(current) /\ Stored(proposed)
    BY <1>1, AppliedPolicies, Zenon DEF Chain, Known
  <2> HIDE DEF current, proposed
  <2> QED
    BY <2>2, <2>3, ImpactCovers, Zenon
<1>2. ImpactInv /\ [Next]_vars =>
          [Apply /\ out.kind = "policy" /\ was = {store} =>
            \A pkt \in Packet :
                LET before == Passes(Chain(store), pkt)
                    after == Passes(Chain(store'), pkt)
                IN  /\ ~before /\ after =>
                           Covered(pkt, out.impact.newlyExposed, out.impact.noLongerProtected)
                    /\ before /\ ~after =>
                           Covered(pkt, out.impact.newlyDenied, out.impact.newlyProtected)]_vars
  BY <1>1, Zenon
<1> QED
  BY <1>2, ImpactInit, ImpactStep, PTL DEF Spec, ImpactComplete

-----------------------------------------------------------------------------
(***************************************************************************)
(* Who reaches what.                                                       *)
(***************************************************************************)
\* An explicit source of a policy is any address, a peer's range as it is written, or
\* apart from the peers' ranges.  reach compares sources as they are written: of a
\* source within a range, or around one, it would know nothing.
SourcesAsWritten ==
    \A n \in Names(PolicyName) : \A pol \in Policies(n) : \A ing \in pol.ingress :
        \A c \in keepIPv4(ing.cidrs) :
            c = AnyAddr \/ \A m \in Names(PeerName) : \A p \in Peers(m) :
                               \A e \in p.cidrs \ {Malformed} : c = e \/ c \cap e = {}

\* What an ingress rule of a policy may list, and what is compiled of it.
LEMMA AcceptShape ==
  ASSUME NEW pols, NEW known, Stored(pols), NEW d, d = Interpret(Compile(pols, known)),
         NEW a \in d.accepts
  PROVE  /\ a.src \subseteq Addr /\ a.dst \subseteq Addr /\ a.dst \in d.protected
         /\ \E q \in Port : q \in a.ports
<1>1. PICK pol \in pols : \E ing \in pol.ingress :
          a.src \in Sources(ing, known) /\ a.dst \in Destinations(pol) /\ a.ports \in Ports(ing)
  BY InterpretPolicies, ZenonT(30)
<1>2. PICK ing \in pol.ingress :
          a.src \in Sources(ing, known) /\ a.dst \in Destinations(pol) /\ a.ports \in Ports(ing)
  BY <1>1, Zenon
<1>3. a.dst \in d.protected
  <2>1. d.protected = ProtectedBy(pols)
    BY InterpretProtects, Zenon
  <2> QED
    BY <1>1, <2>1, Zenon DEF ProtectedBy
<1>4. a.src \subseteq Addr /\ a.dst \subseteq Addr
  BY <1>2, Zenon DEF Sources, Destinations, keepIPv4, AnyAddr
<1>5. ing.ports \subseteq Port /\ Port # {}
  BY PolicyAssumption, Zenon DEF Stored, Names
<1>6. \E q \in Port : q \in a.ports
  BY <1>2, <1>5, Zenon DEF Ports
<1> QED
  BY <1>3, <1>4, <1>6, Zenon

\* The peer at i shares its ID and its ranges with no other; its IPv4 addresses.
Alone(s, i) ==
    \A j \in DOMAIN s.peers \ {i} :
        s.peers[i].id # s.peers[j].id /\ ~OverlapPair(s.peers[i], s.peers[j])
OwnAddrs(p) == Addr \cap UNION (p.cidrs \ {Malformed})
Guarded(d) == UNION d.protected

\* An accept that a peer's own addresses match is written with its ranges, or is for
\* any source.
LEMMA OwnSource ==
  ASSUME SourcesAsWritten, NEW s, Derived(s), NEW i \in DOMAIN s.peers, Alone(s, i),
         NEW known, known = clusterCIDRs(s.peers),
         NEW d, d = Interpret(Compile(s.policies, known)),
         NEW a \in d.accepts, NEW c \in s.peers[i].cidrs \ {Malformed}, a.src \cap c # {}
  PROVE  a.src = AnyAddr \/ a.src \in s.peers[i].cidrs
<1>1. Stored(s.policies) /\ PeerList(s.peers)
  BY Zenon DEF Derived
<1>2. PICK pol \in s.policies : \E ing \in pol.ingress :
          a.src \in Sources(ing, known) /\ a.dst \in Destinations(pol) /\ a.ports \in Ports(ing)
  BY <1>1, InterpretPolicies, ZenonT(30)
<1>3. PICK ing \in pol.ingress : a.src \in Sources(ing, known)
  BY <1>2, SMTT(30)
<1>4. a.src \subseteq Addr
  BY <1>3, ZenonT(30) DEF Sources, keepIPv4
<1>5. CASE a.src \in ing.cidrs
  <2>1. PICK n \in Names(PolicyName) : pol \in Policies(n)
    BY <1>1, Zenon DEF Stored
  <2>2. PICK m \in Names(PeerName) : s.peers[i] \in Peers(m)
    BY PeerOf, ZenonT(30)
  <2>3. a.src \in keepIPv4(ing.cidrs)
    BY <1>4, <1>5, ZenonT(30) DEF keepIPv4
  <2>4. a.src = AnyAddr \/ a.src = c \/ a.src \cap c = {}
    BY <2>1, <2>2, <2>3 DEF SourcesAsWritten
  <2> QED
    BY <2>4, Zenon
<1>6. CASE a.src \notin ing.cidrs
  <2>1. PICK id \in ing.clusters \cap DOMAIN known : a.src \in known[id]
    BY <1>3, <1>6, Zenon DEF Sources, keepIPv4
  <2>2. PICK j \in DOMAIN s.peers : s.peers[j].id = id /\ known[id] = s.peers[j].cidrs
    <3>1. \A e \in DOMAIN known : \E j \in DOMAIN s.peers :
              s.peers[j].id = e /\ known[e] = s.peers[j].cidrs
      <4>1. \A e \in DOMAIN clusterCIDRs(s.peers) : \E j \in DOMAIN s.peers :
                s.peers[j].id = e /\ clusterCIDRs(s.peers)[e] = s.peers[j].cidrs
        BY ONLY <1>1, KnownRanges, ZenonT(30)
      <4> QED
        BY ONLY known = clusterCIDRs(s.peers), <4>1, Zenon
    <3> QED
      BY <2>1, <3>1, Zenon
  <2>3. CASE j = i
    BY <2>1, <2>2, <2>3, Zenon
  <2>4. CASE j # i
    <3>1. ~OverlapPair(s.peers[i], s.peers[j])
      BY <2>4, Zenon DEF Alone
    <3>2. a.src \in s.peers[j].cidrs /\ a.src # Malformed /\ c # Malformed
      BY <1>4, <2>1, <2>2, PeerAssumption, Zenon
    <3>3. c \cap a.src # {}
      BY Zenon
    <3>4. OverlapPair(s.peers[i], s.peers[j])
      BY <3>2, <3>3, ZenonT(30) DEF OverlapPair, Overlap, Parses
    <3> QED
      BY <3>1, <3>4, Zenon
  <2> QED
    BY <2>3, <2>4, ZenonT(30)
<1> QED
  BY <1>5, <1>6, Zenon

\* reach.Plan and the chain: the destinations that are open to a peer are the ones a
\* new connection of the peer passes to.
LEMMA OpenIsPassable ==
  ASSUME SourcesAsWritten, NEW s, Derived(s), NEW i \in DOMAIN s.peers, Alone(s, i),
         NEW known, known = clusterCIDRs(s.peers),
         NEW d, d = Interpret(Compile(s.policies, known)),
         NEW src, src = OwnAddrs(s.peers[i]), src # {},
         NEW x \in Guarded(d)
  PROVE  (\E pkt \in New(src, x) : Passes(Compile(s.policies, known), pkt))
             <=> \E dest \in Plan(s)[i].open : x \in dest
<1> DEFINE p == s.peers[i]
<1>1. Stored(s.policies)
  BY Zenon DEF Derived
<1>2. Plan(s)[i].open = OpenTo(p.cidrs, d)
  BY PlanStatus, Zenon DEF Planned
<1>3. \A a \in d.accepts : /\ a.src \subseteq Addr /\ a.dst \subseteq Addr /\ a.dst \in d.protected
                           /\ \E q \in Port : q \in a.ports
  BY <1>1, AcceptShape, ZenonT(30)
<1>4. ASSUME NEW pkt \in New(src, x)
      PROVE  Passes(Compile(s.policies, known), pkt) <=>
                 \E a \in d.accepts : pkt.src \in a.src /\ x \in a.dst /\ pkt.port \in a.ports
  <2>1. pkt \in Packet /\ pkt.src \in src /\ pkt.dst = x /\ ~pkt.established
    BY Zenon DEF New
  <2>2. Passes(Compile(s.policies, known), pkt) <=>
             \/ pkt.established
             \/ \E a \in d.accepts : pkt.src \in a.src /\ pkt.dst \in a.dst /\ pkt.port \in a.ports
             \/ \A dest \in d.protected : pkt.dst \notin dest
    BY <1>1, <2>1, InterpretDecides, ZenonT(30)
  <2> QED
    BY <2>1, <2>2, Zenon DEF Guarded
<1>5. ASSUME NEW pkt \in New(src, x), Passes(Compile(s.policies, known), pkt)
      PROVE  \E dest \in Plan(s)[i].open : x \in dest
  <2>1. PICK a \in d.accepts : pkt.src \in a.src /\ x \in a.dst /\ pkt.port \in a.ports
    BY <1>4, <1>5, ZenonT(30)
  <2>2. PICK c \in p.cidrs \ {Malformed} : pkt.src \in c
    BY ZenonT(30) DEF New, OwnAddrs
  <2>3. a.src = AnyAddr \/ a.src \in p.cidrs
    BY <2>1, <2>2, OwnSource, Zenon
  <2>4. peerAllowed(p.cidrs, d.accepts, a.dst)
    BY <2>3, ZenonT(30) DEF peerAllowed
  <2> QED
    BY <1>2, <1>3, <2>1, <2>4, ZenonT(30) DEF OpenTo
<1>6. ASSUME NEW dest \in Plan(s)[i].open, x \in dest
      PROVE  \E pkt \in New(src, x) : Passes(Compile(s.policies, known), pkt)
  <2>1. PICK a \in d.accepts : a.dst \in {AnyAddr, dest} /\ (a.src = AnyAddr \/ a.src \in p.cidrs)
    BY <1>2, SMTT(30) DEF OpenTo, peerAllowed
  <2>2. x \in Addr
    <3>1. d.protected = ProtectedBy(s.policies)
      BY <1>1, InterpretProtects, SMTT(30)
    <3>2. \A pol \in s.policies : \A e \in Destinations(pol) : e \subseteq Addr
      BY SMTT(30) DEF Destinations, keepIPv4, AnyAddr
    <3> QED
      BY <3>1, <3>2, SMTT(30) DEF Guarded, ProtectedBy
  <2>3. x \in a.dst
    BY <1>6, <2>1, <2>2, SMTT(30) DEF AnyAddr
  <2>4. PICK y : y \in a.src /\ y \in src
    <3>1. CASE a.src = AnyAddr
      BY <3>1, Zenon DEF AnyAddr, OwnAddrs
    <3>2. CASE a.src \in p.cidrs
      <4>1. a.src # {} /\ a.src # Malformed /\ a.src \subseteq Addr
        <5>1. {} \notin p.cidrs
          BY PeerOf, ZenonT(30)
        <5> QED
          BY <1>3, <3>2, <5>1, PeerAssumption, ZenonT(30)
      <4> QED
        BY <3>2, <4>1, Zenon DEF OwnAddrs
    <3> QED
      BY <2>1, <3>1, <3>2, ZenonT(30)
  <2>5. PICK q \in Port : q \in a.ports
    BY <1>3, ZenonT(30)
  <2> DEFINE pkt == [src |-> y, dst |-> x, port |-> q, established |-> FALSE]
  <2>6. pkt \in New(src, x)
    BY <2>2, <2>4, Zenon DEF New, Packet, OwnAddrs
  <2>7. pkt.src \in a.src /\ x \in a.dst /\ pkt.port \in a.ports
    BY <2>3, <2>4, <2>5, ZenonT(30)
  <2> HIDE DEF pkt
  <2> QED
    BY <1>4, <2>6, <2>7, SMTT(30)
<1> QED
  BY <1>5, <1>6, ZenonT(30)

\* What reach.Plan says of a peer is what the chain does.
ReachOf(s, i, chain, src) ==
    LET guarded == Guarded(Interpret(chain))
        passes(d) == \E pkt \in New(src, d) : Passes(chain, pkt)
        r == Plan(s)[i]
    IN  /\ \A d \in guarded : passes(d) = (\E dest \in r.open : d \in dest)
        /\ (r.status = "Blocked") = (guarded # {} /\ \A d \in guarded : ~passes(d))

\* reach.Plan says of a connected peer what the chain does, as long as the peer is
\* Alone and SourcesAsWritten.
LEMMA ReachOfPeer ==
  ASSUME SourcesAsWritten, NEW s, Derived(s), NEW i \in DOMAIN s.peers,
         s.peers[i].st.phase = "Connected", Plan(s)[i].status # "Degraded", Alone(s, i),
         NEW known, known = clusterCIDRs(s.peers),
         NEW chain, chain = Compile(s.policies, known),
         NEW src, src = OwnAddrs(s.peers[i]), src # {}
  PROVE  ReachOf(s, i, chain, src)
<1> DEFINE d == Interpret(chain)
           prot == d.protected
           guarded == Guarded(d)
           passes(x) == \E pkt \in New(src, x) : Passes(chain, pkt)
           r == Plan(s)[i]
<1>1. d = Interpret(Compile(s.policies, known)) /\ Stored(s.policies)
  BY ZenonT(30) DEF Derived
<1> HIDE DEF d
<1>2. ASSUME NEW x \in guarded PROVE passes(x) <=> \E dest \in r.open : x \in dest
  <2>1. (\E pkt \in New(src, x) : Passes(Compile(s.policies, known), pkt))
            <=> \E dest \in Plan(s)[i].open : x \in dest
    BY <1>1, OpenIsPassable, ZenonT(30)
  <2> QED
    BY <2>1, ZenonT(30)
<1>3. /\ r.open \subseteq prot
      /\ (r.status = "Blocked") <=> (prot # {} /\ r.open = {})
  <2>1. r.open = OpenTo(s.peers[i].cidrs, d)
    BY <1>1, PlanStatus, Zenon DEF Planned
  <2>2. r.status = IF d.protected # {} /\ r.open = {} THEN "Blocked" ELSE "Reachable"
    BY <1>1, PlanStatus, Zenon DEF Planned
  <2> HIDE DEF r
  <2> QED
    BY <2>1, <2>2, Zenon DEF OpenTo
<1>4. {} \notin prot
  <2>1. prot = ProtectedBy(s.policies)
    BY <1>1, InterpretProtects, Zenon
  <2>2. \A pol \in s.policies : {} \notin pol.dests
    BY <1>1, PolicyAssumption, Zenon DEF Stored, Names
  <2>3. \A pol \in s.policies : {} \notin Destinations(pol)
    BY <2>2, ZenonT(30) DEF Destinations, keepIPv4, AnyAddr, OwnAddrs
  <2> QED
    BY <2>1, <2>3, ZenonT(30) DEF ProtectedBy
<1> HIDE DEF prot, passes, r
<1>5. (r.status = "Blocked") <=> (guarded # {} /\ \A x \in guarded : ~passes(x))
  <2>0. guarded = UNION prot
    BY Zenon DEF Guarded, prot
  <2> HIDE DEF guarded
  <2>1. guarded # {} <=> prot # {}
    <3>1. ASSUME prot # {} PROVE guarded # {}
      <4>1. PICK dest \in prot : dest # {}
        BY <1>4, <3>1, Zenon
      <4> QED
        BY <2>0, <4>1, Zenon
    <3> QED
      BY <2>0, <3>1, Zenon
  <2>2. ASSUME r.open = {}, NEW x \in guarded PROVE ~passes(x)
    BY <1>2, <2>2, Zenon
  <2>3. ASSUME r.open # {} PROVE \E x \in guarded : passes(x)
    <3>1. PICK dest \in r.open : dest \in prot
      BY <1>3, <2>3, Zenon
    <3>2. PICK x : x \in dest
      BY <1>4, <3>1, Zenon
    <3>3. x \in guarded
      BY <2>0, <3>1, <3>2, Zenon
    <3> QED
      BY <1>2, <3>2, <3>3, Zenon
  <2> QED
    BY <1>3, <2>1, <2>2, <2>3, ZenonT(30)
<1> HIDE DEF guarded
<1>6. \A x \in guarded : passes(x) = (\E dest \in r.open : x \in dest)
  <2>1. \A x : passes(x) \in BOOLEAN
    BY Zenon DEF passes
  <2> QED
    BY <1>2, <2>1, ZenonT(30)
<1> QED
  BY <1>5, <1>6, ZenonT(30) DEF ReachOf, prot, guarded, passes, r, d

\* reach's verdicts are what the data plane programs: whatever peers and policies were
\* read, as long as SourcesAsWritten, the destinations reported open to a connected
\* peer with ranges of its own are the ones its new connections pass the compiled
\* chain to, and it is Blocked when there are none.
THEOREM ReachIsFirewall ==
  ASSUME SourcesAsWritten
  PROVE  Spec => []ReachMatchesFirewall
<1>1. ASSUME SnapInv, Printed, NEW i \in DOMAIN snap.peers,
             snap.peers[i].st.phase = "Connected", Unambiguous(i), Plan(snap)[i].status # "Degraded",
             OwnAddrs(snap.peers[i]) # {}
      PROVE  ReachOf(snap, i, Compile(snap.policies, clusterCIDRs(snap.peers)), OwnAddrs(snap.peers[i]))
  <2>1. Derived(snap)
    BY <1>1, PrintedDerived, SMTT(30)
  <2>2. Alone(snap, i)
    BY <1>1, Zenon DEF Unambiguous, Alone
  <2> QED
    BY <1>1, <2>1, <2>2, ReachOfPeer, ZenonT(30)
<1>2. SnapInv => ReachMatchesFirewall
  BY <1>1, ZenonT(30) DEF ReachMatchesFirewall, ReachOf, OwnAddrs, Guarded
<1> QED
  BY <1>2, ImpactInit, ImpactStep, SnapInit, SnapStep, PTL DEF Spec

-----------------------------------------------------------------------------
(***************************************************************************)
(* The impact of a change of a peer.                                       *)
(***************************************************************************)
\* What makes SafePeersFit inductive: what was read of an undisturbed store, and what
\* was said of it.
PeerInv ==
    /\ cmd.kind = "peer" => \E n \in Names(PeerName) : cmd.proposed \in Peers(n)
    /\ out.kind = "peer" => cmd.kind = "peer" /\ (step > 0 => step > 1)
    /\ cmd.kind = "peer" /\ was = {store} /\ step > 1 => got.peers = Listed(PeerName, store.peers)
    /\ out.kind = "peer" =>
           out.impact = AnalyzePeerChange(cmd.proposed, Locals, Others(got.peers, cmd.proposed))

\* Nothing is read yet when a command begins.
LEMMA PeerInit == Init => PeerInv
<1> SUFFICES ASSUME Init PROVE PeerInv
  BY SMTT(30)
<1>1. cmd.kind = "peer" => \E n \in Names(PeerName) : cmd.proposed \in Peers(n)
  BY DEF Init, Command
<1>2. out.kind # "peer" /\ step = 1
  BY Zenon DEF Init, NoOutput
<1> QED
  BY <1>1, <1>2 DEF PeerInv

\* A write disturbs the command that is reading.
LEMMA PeerChange ==
  ASSUME ImpactInv, PeerInv, NEW new, Change(new)
  PROVE  PeerInv'
<1>1. store' = new /\ new # store /\ was' = was \cup {new} /\ UNCHANGED <<cmd, step, got, out>>
      /\ out = NoOutput
  BY ZenonT(30) DEF Change
<1>2. store \in was /\ was' # {store'} /\ out.kind # "peer"
  BY <1>1, Zenon DEF ImpactInv, NoOutput
<1> QED
  BY <1>1, <1>2, Zenon DEF PeerInv

\* Every step of the command, of a user and of the API server keeps PeerInv.
LEMMA PeerStep == ImpactInv /\ PeerInv /\ [Next]_vars => PeerInv'
<1> SUFFICES ASSUME ImpactInv, PeerInv, [Next]_vars PROVE PeerInv'
  BY ZenonT(30)
<1>0. step \in Nat /\ (out = NoOutput => step > 0 /\ out.kind # "peer")
  BY DEF ImpactInv, NoOutput
<1>1. CASE UNCHANGED vars
  BY <1>1, Zenon DEF vars, PeerInv
<1>2. CASE Gather
  <2>1. /\ UNCHANGED <<store, was, cmd, out>> /\ step' = step + 1 /\ out = NoOutput
        /\ step <= Len(Reads(cmd))
        /\ got' = Filled(got, Reads(cmd)[step], Read(Reads(cmd)[step], store))
    BY <1>2, Zenon DEF Gather, Reading
  <2>2. CASE cmd.kind = "peer"
    <3>1. Reads(cmd) = <<"peers">>
      BY <2>2, Zenon DEF Reads
    <3>2. step = 1 /\ Reads(cmd)[step] = "peers"
      BY <1>0, <2>1, <3>1
    <3>3. got'.peers = Listed(PeerName, store.peers)
      BY <2>1, <3>2, Zenon DEF Filled, Read
    <3> QED
      BY <1>0, <2>1, <2>2, <3>3, ZenonT(30) DEF PeerInv
  <2>3. CASE cmd.kind # "peer"
    BY <1>0, <2>1, <2>3, ZenonT(30) DEF PeerInv
  <2> QED
    BY <2>2, <2>3, Zenon
<1>3. CASE GatherFails
  <2>1. UNCHANGED <<store, was, cmd>> /\ out = NoOutput /\ step <= Len(Reads(cmd))
    BY <1>3, ZenonT(30) DEF GatherFails, Reading
  <2>2. CASE cmd.kind = "peer"
    <3>1. Reads(cmd) = <<"peers">>
      BY <2>2, Zenon DEF Reads
    <3>2. Reads(cmd)[step] = "peers"
      BY <1>0, <2>1, <3>1
    <3>3. out' = Failed /\ UNCHANGED <<got, step>>
      BY <1>3, <3>2, SMTT(30) DEF GatherFails
    <3> QED
      BY <2>1, <3>3, Zenon DEF PeerInv, Failed
  <2>3. CASE cmd.kind # "peer"
    <3>1. out' = out \/ out' = Failed
      BY <1>3, Zenon DEF GatherFails
    <3>2. out'.kind # "peer" /\ cmd'.kind # "peer"
      BY <1>0, <2>1, <2>3, <3>1 DEF Failed
    <3> QED
      BY <3>2, ZenonT(30) DEF PeerInv
  <2> QED
    BY <2>2, <2>3, Zenon
<1>4. CASE Finish
  <2>1. UNCHANGED <<store, was, cmd, step, got>> /\ step > Len(Reads(cmd)) /\ out = NoOutput
    BY <1>4, Zenon DEF Finish
  <2>2. CASE cmd.kind = "peer"
    <3>1. step > 1
      BY <2>1, <2>2, Zenon DEF Reads
    <3>2. /\ out'.kind = "peer"
          /\ out'.impact = AnalyzePeerChange(cmd.proposed, Locals, Others(got.peers, cmd.proposed))
      BY <1>4, <2>2, Zenon DEF Finish
    <3> QED
      BY <2>1, <2>2, <3>1, <3>2, ZenonT(30) DEF PeerInv
  <2>3. CASE cmd.kind # "peer"
    <3>1. out'.kind = cmd.kind
      BY <1>4, <2>3, Zenon DEF Finish, ImpactInv
    <3> QED
      BY <2>1, <2>3, <3>1, ZenonT(30) DEF PeerInv
  <2> QED
    BY <2>2, <2>3, Zenon
<1>5. CASE Apply
  <2>1. step' = 0 /\ UNCHANGED <<was, cmd, got, out>>
    BY <1>5, Zenon DEF Apply
  <2> QED
    BY <2>1 DEF PeerInv
<1>6. CASE ChangePeer \/ ChangePolicy \/ ChangeRest
  <2>1. PICK new : Change(new)
    BY <1>6, ZenonT(30) DEF ChangePeer, ChangePolicy, ChangeRest
  <2> QED
    BY <2>1, PeerChange, Zenon
<1> QED
  BY <1>1, <1>2, <1>3, <1>4, <1>5, <1>6, Zenon DEF Next

\* A list of peers without conflicts: nothing of what DetectTopologyConflicts looks for
\* is true of two of them, in whichever order.
LEMMA NoConflicts ==
  ASSUME NEW listed, PeerList(listed), DetectTopologyConflicts(listed) = {},
         NEW i \in DOMAIN listed, NEW j \in DOMAIN listed, j < i
  PROVE  /\ listed[i].id # listed[j].id /\ listed[i].key # listed[j].key
         /\ Malformed \notin listed[j].cidrs
         /\ \A c \in listed[i].cidrs, d \in listed[j].cidrs : c \cap d = {}
<1> DEFINE p == listed[i]
           q == listed[j]
<1>1. PICK k \in Nat : DOMAIN listed = 1..k
  BY Zenon DEF PeerList
<1>2. /\ missingFieldConflicts(p) = {} /\ identityConflicts(listed, i) = {}
      /\ invalidCIDRs(p) = {} /\ invalidCIDRs(q) = {}
  BY OwnConflicts, Zenon
<1>3. Malformed \notin p.cidrs /\ Malformed \notin q.cidrs
  BY <1>2, ZenonT(30) DEF invalidCIDRs
<1>4. p.key # Unset
  BY <1>2, Zenon DEF missingFieldConflicts
<1>5. j \in 1..(i - 1) /\ i \in Nat
  BY <1>1
<1>6. p.id # q.id
  <2>1. p.id # Unset
    BY PeerAssumption, ZenonT(30) DEF PeerList, Names
  <2> QED
    BY <1>2, <1>5, <2>1, ZenonT(30) DEF identityConflicts
<1>7. p.key # q.key
  <2> SUFFICES ASSUME p.key = q.key PROVE FALSE
    BY Zenon
  <2> DEFINE same == {m \in 1..(i - 1) : listed[m].key = p.key}
  <2>1. same \subseteq Nat /\ same # {}
    BY <1>5
  <2>2. PICK m \in same : \A x \in same : m <= x
    BY <2>1, FirstPosition, ZenonT(30)
  <2>3. m \in Nat /\ m \in 1..(i - 1) /\ listed[m].key = p.key
    BY <1>5
  <2>4. \A x \in 1..(m - 1) : listed[x].key # p.key
    BY <1>5, <2>2, <2>3
  <2>5. Clash(p.id, "shared key", listed[m].id) \in identityConflicts(listed, i)
    BY <1>4, <2>3, <2>4, ZenonT(30) DEF identityConflicts
  <2> QED
    BY <1>2, <2>5, Zenon
<1>8. ASSUME NEW c \in p.cidrs, NEW d \in q.cidrs, c \cap d # {} PROVE FALSE
  <2>1. OverlapPair(p, q) /\ OverlapPair(q, p)
    <3>1. Overlap(c, d) /\ Overlap(d, c)
      BY <1>3, <1>8, Zenon DEF Overlap, Parses
    <3> QED
      BY <3>1, Zenon DEF OverlapPair
  <2>2. Before(p.id, q.id) \/ Before(q.id, p.id)
    BY <1>6, PeerAssumption, ZenonT(30) DEF PeerList, Names
  <2>3. p \in Range(listed) /\ q \in Range(listed)
    BY Zenon DEF Range
  <2>4. cidrOverlapConflicts(listed) = {}
    BY SMTT(30) DEF DetectTopologyConflicts
  <2>5. \A r1, r2 \in Range(listed) : ~(r1.id # r2.id /\ Before(r1.id, r2.id) /\ OverlapPair(r1, r2))
    <3> SUFFICES ASSUME NEW r1 \in Range(listed), NEW r2 \in Range(listed),
                        r1.id # r2.id, Before(r1.id, r2.id), OverlapPair(r1, r2)
                 PROVE  FALSE
      BY Zenon
    <3> DEFINE r == <<r1, r2>>
    <3>1. r \in Range(listed) \X Range(listed) /\ r[1] = r1 /\ r[2] = r2
      BY Zenon
    <3> HIDE DEF r
    <3>2. Clash(r[1].id, "overlap", r[2].id) \in cidrOverlapConflicts(listed)
      BY <3>1, SMTT(30) DEF cidrOverlapConflicts
    <3> QED
      BY <2>4, <3>2, ZenonT(30)
  <2> QED
    BY <1>6, <2>1, <2>2, <2>3, <2>5, ZenonT(30)
<1> QED
  BY <1>3, <1>6, <1>7, <1>8, Zenon

\* A list that has p behind every object of another name.
EndsIn(list, p, objs) ==
    \E i \in DOMAIN list :
        /\ list[i] = p
        /\ \A m \in Present(objs) \ {p.name} : \E j \in DOMAIN list : j < i /\ list[j] = objs[m]

\* The peers that are peers, without the one that is proposed and then with it.
LEMMA OthersAppended ==
  ASSUME NEW objs, Filed(objs), NEW n \in Names(PeerName), NEW p \in Peers(n)
  PROVE  LET L == Append(Others(Listed(PeerName, objs), p), p) IN
         PeerList(L) /\ EndsIn(L, p, objs)
<1> DEFINE list == Listed(PeerName, objs)
           P == {i \in DOMAIN list : list[i].name # p.name}
           E == Picked(list, P)
           L == Append(E, p)
           S == UNION {Peers(m) : m \in Names(PeerName)}
<1>1. PeerList(list) /\ \A m \in Present(objs) : \E i \in DOMAIN list : list[i] = objs[m]
  BY ListedPeers, ZenonT(30)
<1>2. E = Others(list, p)
  BY Zenon DEF Others
<1> HIDE DEF list
<1>3. PICK k \in Nat : DOMAIN list = 1..k
  BY <1>1, Zenon DEF PeerList
<1>4. P \subseteq Nat /\ IsFiniteSet(P)
  <2>1. IsFiniteSet(1..k)
    BY FS_Interval
  <2>2. P \in SUBSET (1..k)
    BY <1>3, Zenon
  <2> QED
    BY <2>1, <2>2, FS_Subset
<1>5. Lists(E, list, P)
  BY <1>4, PickedLists, ZenonT(30)
<1>6. /\ \A i \in P : i \in DOMAIN list /\ list[i].name # p.name
      /\ \A i \in DOMAIN list : list[i].name # p.name => i \in P
      /\ \A i \in DOMAIN list : list[i] \in S
      /\ p \in S
  BY <1>1, ZenonT(30) DEF PeerList
<1> HIDE DEF P, S
<1>7. PICK e \in Nat : DOMAIN E = 1..e /\ \A i \in 1..e : E[i] \in S
  BY <1>5, <1>6, Zenon DEF Lists
<1>8. \A i \in P : \E j \in DOMAIN E : E[j] = list[i]
  BY <1>5, Zenon DEF Lists
<1>9. E = [i \in 1..e |-> E[i]]
  BY <1>7 DEF Picked
<1> HIDE DEF E
<1>10. E \in Seq(S) /\ Len(E) = e
  <2>1. E \in [1..e -> S]
    BY <1>7, <1>9, Zenon
  <2> QED
    BY <1>7, <2>1
<1>11. /\ DOMAIN L = 1..(e + 1) /\ L[e + 1] = p
       /\ \A i \in 1..e : L[i] = E[i]
  BY <1>6, <1>10
<1> HIDE DEF L
<1>12. PeerList(L)
  <2>1. \A i \in 1..(e + 1) : L[i] \in S
    <3>1. \A i \in 1..(e + 1) : i = e + 1 \/ i \in 1..e
      OBVIOUS
    <3> QED
      BY <1>6, <1>7, <1>11, <3>1, Zenon
  <2>2. e + 1 \in Nat
    BY SMTT(30)
  <2> QED
    BY <1>11, <2>1, <2>2, ZenonT(30) DEF PeerList, S
<1>13. ASSUME NEW m \in Present(objs) \ {p.name} PROVE \E j \in DOMAIN L : j < e + 1 /\ L[j] = objs[m]
  <2>1. PICK i \in DOMAIN list : list[i] = objs[m]
    BY <1>1, Zenon
  <2>2. objs[m].name = m
    BY PeerAssumption, ZenonT(30) DEF Present, Filed, Names
  <2>3. PICK j \in DOMAIN E : E[j] = objs[m]
    BY <1>6, <1>8, <2>1, <2>2, Zenon
  <2>4. j \in 1..e /\ j \in 1..(e + 1) /\ j < e + 1
    BY <1>7
  <2> QED
    BY <1>11, <2>3, <2>4, ZenonT(30)
<1>14. EndsIn(L, p, objs)
  BY <1>11, <1>13 DEF EndsIn
<1> QED
  BY <1>2, <1>12, <1>14, Zenon DEF L, list

\* impact.Safe: nothing of a peer that it lets through is dangerous or overlaps what is
\* local.
LEMMA SafeRanges ==
  ASSUME NEW p, NEW locals, Malformed \notin locals \cup {Dangerous}, p.key # Unset,
         NEW existing, Safe(AnalyzePeerChange(p, locals, existing)), NEW c \in p.cidrs
  PROVE  c # Malformed /\ c \cap Dangerous = {} /\ \A l \in locals : c \cap l = {}
<1>1. PlanPeer(p, locals).withheld = {}
  BY ZenonT(30) DEF Safe, AnalyzePeerChange
<1>2. Withheld(p.cidrs, locals) = {}
  BY <1>1, Zenon DEF PlanPeer
<1>3. Parses(c) /\ ~IsDangerousCIDR(c) /\ \A l \in locals : ~Overlap(c, l)
  BY <1>2, Zenon DEF Withheld
<1> QED
  BY <1>3, Zenon DEF IsDangerousCIDR, Overlap, Parses

\* impact of a peer: whatever the peers, one that Safe lets through and that
\* is applied to the objects as they were read, among peers without a conflict, has
\* ranges that are routed, and shares no range, key or ID with another peer.
THEOREM SafePeersDoFit == Spec => SafePeersFit
<1>1. ASSUME ImpactInv, SnapInv, PeerInv, Apply, out.kind = "peer", was = {store}, Safe(out.impact),
             DetectTopologyConflicts(Others(got.peers, cmd.proposed)) = {}
      PROVE  LET p == cmd.proposed IN
             /\ \A c \in p.cidrs : c \cap Dangerous = {} /\ \A l \in Locals : c \cap l = {}
             /\ \A n \in Present(store'.peers) \ {p.name} : LET q == store'.peers[n] IN
                    p.id # q.id /\ p.key # q.key /\ \A c \in p.cidrs, d \in q.cidrs : c \cap d = {}
  <2> DEFINE p == cmd.proposed
             E == Others(Listed(PeerName, store.peers), p)
             L == Append(E, p)
  <2>1. PICK n \in Names(PeerName) : p \in Peers(n)
    BY <1>1, Zenon DEF PeerInv
  <2>2. Shape(store) /\ Filed(store.peers) /\ E = Others(got.peers, p)
    BY <1>1, Zenon DEF ImpactInv, SnapInv, PeerInv, Apply
  <2>3. out.impact = AnalyzePeerChange(p, Locals, E)
    BY <1>1, <2>2, Zenon DEF PeerInv
  <2>4. DetectTopologyConflicts(E) = {}
    BY <1>1, <2>2, Zenon
  <2>5. PeerList(L) /\ EndsIn(L, p, store.peers)
    BY ONLY <2>1, <2>2, OthersAppended, ZenonT(30)
  <2> HIDE DEF E
  <2>6. DetectTopologyConflicts(L) = {}
    BY <1>1, <2>3, <2>4 DEF Safe, AnalyzePeerChange
  <2> HIDE DEF L
  <2>7. PICK i \in DOMAIN L :
            /\ L[i] = p
            /\ \A m \in Present(store.peers) \ {p.name} : \E j \in DOMAIN L : j < i /\ L[j] = store.peers[m]
    BY <2>5, Zenon DEF EndsIn
  <2>8. p.key # Unset
    <3>1. missingFieldConflicts(p) = {}
      BY <2>6, <2>7, OwnConflicts, SMTT(30)
    <3> QED
      BY <3>1, SMTT(30) DEF missingFieldConflicts
  <2>9. \A c \in p.cidrs : c \cap Dangerous = {} /\ \A l \in Locals : c \cap l = {}
    <3>1. Malformed \notin Locals \cup {Dangerous}
      BY PeerAssumption, Zenon
    <3>2. Safe(AnalyzePeerChange(p, Locals, E))
      BY <1>1, <2>3, Zenon
    <3> QED
      BY <2>8, <3>1, <3>2, SafeRanges, ZenonT(30)
  <2>10. store'.peers = [store.peers EXCEPT ![p.name] = p]
    BY <1>1, <2>2, ZenonT(30) DEF Apply, Shape
  <2>11. ASSUME NEW m \in Present(store'.peers) \ {p.name}
         PROVE  /\ p.id # store'.peers[m].id /\ p.key # store'.peers[m].key
                /\ \A c \in p.cidrs, d \in store'.peers[m].cidrs : c \cap d = {}
    <3>1. m \in Present(store.peers) \ {p.name} /\ store'.peers[m] = store.peers[m]
      BY <2>2, <2>10, ZenonT(30) DEF Present, Filed
    <3>2. PICK j \in DOMAIN L : j < i /\ L[j] = store.peers[m]
      BY <2>7, <3>1, ZenonT(30)
    <3>3. /\ L[i].id # L[j].id /\ L[i].key # L[j].key
          /\ \A c \in L[i].cidrs, d \in L[j].cidrs : c \cap d = {}
      BY <2>5, <2>6, <3>2, NoConflicts, ZenonT(30)
    <3> QED
      BY <2>7, <3>1, <3>2, <3>3
  <2> HIDE DEF p
  <2> QED
    BY <2>9, <2>11, Zenon DEF p
<1>2. ImpactInv /\ SnapInv /\ PeerInv /\ [Next]_vars =>
          [Apply /\ out.kind = "peer" /\ was = {store} /\ Safe(out.impact)
               /\ DetectTopologyConflicts(Others(got.peers, cmd.proposed)) = {} =>
            LET p == cmd.proposed IN
            /\ \A c \in p.cidrs : c \cap Dangerous = {} /\ \A l \in Locals : c \cap l = {}
            /\ \A n \in Present(store'.peers) \ {p.name} : LET q == store'.peers[n] IN
                   p.id # q.id /\ p.key # q.key /\ \A c \in p.cidrs, d \in q.cidrs : c \cap d = {}]_vars
  BY <1>1, Zenon
<1> QED
  BY <1>2, ImpactInit, ImpactStep, SnapInit, SnapStep, PeerInit, PeerStep, PTL DEF Spec, SafePeersFit
=============================================================================
