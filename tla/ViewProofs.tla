----------------------------- MODULE ViewProofs -----------------------------
(***************************************************************************)
(* What the commands that read the mesh show is what was there, and their  *)
(* reports agree, for any policies and peers and whatever is written while *)
(* they read.                                                              *)
(***************************************************************************)
EXTENDS View, FiniteSetTheorems, NaturalsInduction, TLAPS

\* A non-empty set of positions has a first one.
LEMMA FirstPosition ==
  ASSUME NEW S, S \subseteq Nat, S # {}
  PROVE  \E i \in S : \A j \in S : i <= j
<1>1. PICK i \in S : \A j \in S : ~(<<j, i>> \in OpToRel(<, Nat))
  BY NatLessThanWellFounded, WFMin, ZenonT(30)
<1>2. ASSUME NEW j \in S PROVE i <= j
  <2>1. <<j, i>> \in Nat \X Nat
    BY Zenon
  <2>2. ~(<<j, i>>[1] < <<j, i>>[2])
    BY <1>1, <2>1, Zenon DEF OpToRel
  <2> QED
    BY <2>2
<1> QED
  BY <1>2, Zenon

\* The policies of the API server: the port of a rule is a port.
WellFormed(policies) ==
    \A pol \in policies : \A ing \in pol.ingress : ing.ports \subseteq Port

\* Policies under the names they are stored under.
Stored(policies) ==
    \A p \in policies : \E n \in Names(PolicyName) : p \in Policies(n)

\* Resolving cluster IDs leaves the ports alone.
LEMMA ResolvedWellFormed ==
  ASSUME NEW policies, NEW known, Stored(policies)
  PROVE  WellFormed(Resolve(policies, known))
<1> SUFFICES ASSUME NEW p \in policies,
                    NEW ing \in {[x EXCEPT !.clusters = @ \cap DOMAIN known] : x \in p.ingress}
             PROVE  ing.ports \subseteq Port
  <2>1. \A p \in policies : p = [name |-> p.name, dests |-> p.dests, ingress |-> p.ingress, phase |-> p.phase]
    BY PolicyAssumption DEF Stored, Names
  <2> QED
    BY <2>1, Zenon DEF WellFormed, Resolve
<1>1. PICK x \in p.ingress : ing = [x EXCEPT !.clusters = @ \cap DOMAIN known]
  BY Zenon
<1>2. /\ x = [clusters |-> x.clusters, cidrs |-> x.cidrs, ports |-> x.ports]
      /\ x.ports \subseteq Port
  BY PolicyAssumption, Zenon DEF Stored, Names
<1>3. ing.ports = x.ports
  BY <1>1, <1>2, Zenon
<1> QED
  BY <1>2, <1>3, Zenon

-----------------------------------------------------------------------------
(***************************************************************************)
(* The rules of a chain compiled from any policies.                        *)
(***************************************************************************)
\* A listing holds every element of a finite set and nothing else.
LEMMA ListingComplete ==
  ASSUME NEW S, IsFiniteSet(S)
  PROVE  /\ Listing(S) \in Seq(S)
         /\ \A x \in S : \E i \in DOMAIN Listing(S) : Listing(S)[i] = x
<1> DEFINE n == Cardinality(S)
           list == Listing(S)
<1>1. n \in Nat /\ ExistsBijection(1..n, S)
  BY FS_CardinalityType, Zenon
<1>2. \E f \in [1..n -> S] : Range(f) = S
  BY <1>1 DEF ExistsBijection, Bijection, Surjection, Injection, Range
<1>3. list \in [1..n -> S] /\ Range(list) = S
  BY <1>2, Zenon DEF Listing
<1> QED
  BY <1>1, <1>3 DEF Range

Rule == [verdict : {"ACCEPT", "DROP"}, src : SUBSET Addr, dst : SUBSET Addr, ports : SUBSET Port]

\* There are finitely many rules.
LEMMA RuleFinite == IsFiniteSet(Rule)
<1> DEFINE V == {"ACCEPT", "DROP"}
           A == SUBSET Addr
           P == SUBSET Port
           T == V \X (A \X (A \X P))
           f == [r \in Rule |-> <<r.verdict, <<r.src, <<r.dst, r.ports>>>>>>]
<1>1. IsFiniteSet(A) /\ IsFiniteSet(P)
  BY PacketAssumption, FS_SUBSET, Zenon
<1>2. IsFiniteSet({"ACCEPT"})
  BY FS_Singleton, ZenonT(30)
<1>3. IsFiniteSet({"ACCEPT"} \cup {"DROP"})
  BY <1>2, FS_AddElement, Zenon
<1>4. IsFiniteSet(V)
  <2>1. V = {"ACCEPT"} \cup {"DROP"}
    BY Zenon
  <2> QED
    BY <1>3, <2>1, Zenon
<1>5. IsFiniteSet(A \X P)
  BY <1>1, FS_Product, Zenon
<1>6. IsFiniteSet(A \X (A \X P))
  BY <1>1, <1>5, FS_Product, Zenon
<1>7. IsFiniteSet(T)
  BY <1>4, <1>6, FS_Product, Zenon
<1>8. f \in [Rule -> T]
  BY Zenon DEF Rule
<1>9. ASSUME NEW r \in Rule, NEW q \in Rule, f[r] = f[q] PROVE r = q
  BY <1>9 DEF Rule
<1>10. f \in Injection(Rule, T)
  BY <1>8, <1>9, ZenonT(30) DEF Injection, IsInjective
<1> QED
  BY <1>7, <1>10, FS_Injection, Zenon

\* A compiled policy set is made of finitely many rules.
LEMMA CompiledFinite ==
  ASSUME NEW policies, NEW cidrOf, WellFormed(policies)
  PROVE  /\ Accepts(policies, cidrOf) \subseteq Rule
         /\ Drops(policies) \subseteq Rule
         /\ IsFiniteSet(Accepts(policies, cidrOf))
         /\ IsFiniteSet(Drops(policies))
<1>1. ASSUME NEW pol \in policies PROVE Destinations(pol) \subseteq SUBSET Addr
  BY Zenon DEF Destinations, keepIPv4, AnyAddr
<1>2. ASSUME NEW pol \in policies, NEW ing \in pol.ingress PROVE Ports(ing) \subseteq SUBSET Port
  BY Zenon DEF Ports, WellFormed
<1>3. ASSUME NEW pol \in policies, NEW ing \in pol.ingress
      PROVE  addIngress(ing, Destinations(pol), cidrOf) \subseteq Rule
  <2>1. keepIPv4(resolveSources(ing, cidrOf)) \subseteq SUBSET Addr
    BY Zenon DEF keepIPv4
  <2> QED
    BY <1>1, <1>2, <2>1 DEF addIngress, Rule
<1>4. Accepts(policies, cidrOf) \subseteq Rule
  BY <1>3 DEF Accepts
<1>5. Drops(policies) \subseteq Rule
  BY <1>1 DEF Drops, Rule, AnyAddr
<1> QED
  BY <1>4, <1>5, RuleFinite, FS_Subset, Zenon

\* The rules of the chain, by verdict.
LEMMA ChainRules ==
  ASSUME NEW policies, NEW cidrOf, WellFormed(policies)
  PROVE  LET rules == Range(BuildFirewall(policies, cidrOf)) IN
         /\ {r \in rules : r.verdict = "ACCEPT"} = Accepts(policies, cidrOf)
         /\ {r \in rules : r.verdict = "DROP"} = Drops(policies)
<1> DEFINE A == Accepts(policies, cidrOf)
           D == Drops(policies)
           a == Listing(A)
           d == Listing(D)
           chain == (<<Conntrack>> \o a) \o d
<1>1. /\ a \in Seq(A) /\ d \in Seq(D)
      /\ \A r \in A : \E i \in DOMAIN a : a[i] = r
      /\ \A r \in D : \E i \in DOMAIN d : d[i] = r
  BY CompiledFinite, ListingComplete, Zenon
<1>2. chain = BuildFirewall(policies, cidrOf)
  BY Zenon DEF BuildFirewall
<1>3. /\ \A r \in A : r.verdict = "ACCEPT"
      /\ \A r \in D : r.verdict = "DROP"
      /\ Conntrack.verdict = "ESTABLISHED"
  BY DEF Accepts, addIngress, Drops, Conntrack
<1> HIDE DEF A, D, a, d
<1>4. Range(chain) = {Conntrack} \cup A \cup D
  <2> DEFINE S == A \cup D \cup {Conntrack}
  <2>1. Conntrack \in S /\ a \in Seq(S) /\ d \in Seq(S)
    BY <1>1
  <2>2. chain \in Seq(S)
    BY <2>1
  <2> HIDE DEF S
  <2>3. /\ 1 \in DOMAIN chain /\ chain[1] = Conntrack
        /\ \A i \in DOMAIN a : i + 1 \in DOMAIN chain /\ chain[i + 1] = a[i]
        /\ \A i \in DOMAIN d : 1 + Len(a) + i \in DOMAIN chain /\ chain[1 + Len(a) + i] = d[i]
    BY ONLY <2>1
  <2> HIDE DEF chain
  <2>4. Range(chain) \subseteq S
    BY <2>2 DEF Range
  <2>5. \A r \in A \cup D \cup {Conntrack} : \E i \in DOMAIN chain : chain[i] = r
    BY <1>1, <2>3
  <2> QED
    BY <2>4, <2>5, Zenon DEF Range, S
<1> HIDE DEF chain
<1> QED
  BY <1>2, <1>3, <1>4, Zenon DEF A, D

-----------------------------------------------------------------------------
(***************************************************************************)
(* What a command has read, as long as nothing was written since it began. *)
(***************************************************************************)
Shape(s) ==
    /\ s = [peers |-> s.peers, policies |-> s.policies, agent |-> s.agent, exports |-> s.exports,
            imports |-> s.imports, events |-> s.events, crds |-> s.crds]
    /\ s.policies = [n \in Names(PolicyName) |-> s.policies[n]]
    /\ \A n \in Names(PolicyName) : s.policies[n] \in Policies(n) \cup {Absent}

Known(s) == clusterCIDRs(Listed(PeerName, s.peers))
Undisturbed == was = {store} /\ step > 0 /\ cmd.kind = "policy"

\* What makes ImpactComplete inductive: what was read and said of an undisturbed
\* store, read by read.
ImpactInv ==
    /\ Shape(store)
    /\ cmd.kind \in {"snapshot", "policy", "peer"}
    /\ cmd.kind = "policy" => \E n \in Names(PolicyName) : cmd.proposed \in Policies(n)
    /\ step \in Nat
    /\ step > 0 => store \in was
    /\ out = NoOutput => step > 0
    /\ out.kind = "policy" => cmd.kind = "policy"
    /\ cmd.kind = "policy" /\ out = NoOutput => DOMAIN got = {Reads(cmd)[i] : i \in 1..(step - 1)}
    /\ Undisturbed /\ step > 1 => got.policies = PolicySet(store.policies)
    /\ Undisturbed /\ step > 2 => got.peers = Listed(PeerName, store.peers)
    /\ Undisturbed /\ out.kind = "policy" =>
           out.impact = AnalyzePolicyChange(PolicySet(store.policies),
                            Replaced(PolicySet(store.policies), cmd.proposed), Known(store))

\* Nothing is read yet when a command begins.
LEMMA ImpactInit == Init => ImpactInv
<1> SUFFICES ASSUME Init PROVE ImpactInv
  BY Zenon
<1>1. Shape(store)
  BY DEF Init, Shape
<1>2. /\ cmd.kind \in {"snapshot", "policy", "peer"}
      /\ cmd.kind = "policy" => \E n \in Names(PolicyName) : cmd.proposed \in Policies(n)
  BY DEF Init, Command
<1>3. out = NoOutput /\ out.kind # "policy" /\ step = 1 /\ was = {store} /\ DOMAIN got = {}
  BY DEF Init, NoOutput
<1> QED
  BY <1>1, <1>2, <1>3 DEF ImpactInv, Undisturbed

\* A write disturbs the command that is reading.
LEMMA ImpactChange ==
  ASSUME ImpactInv, NEW new, Shape(new), Change(new)
  PROVE  ImpactInv'
<1>1. store' = new /\ new # store /\ was' = was \cup {new} /\ UNCHANGED <<cmd, step, got, out>>
  BY Zenon DEF Change
<1>2. step > 0 /\ store \in was
  BY Zenon DEF Change, ImpactInv
<1>3. ~Undisturbed'
  BY <1>1, <1>2, Zenon DEF Undisturbed
<1> QED
  BY <1>1, <1>2, <1>3 DEF ImpactInv, Shape

\* Every step of the command, of a user and of the API server keeps ImpactInv.
LEMMA ImpactStep == ImpactInv /\ [Next]_vars => ImpactInv'
<1> SUFFICES ASSUME ImpactInv, [Next]_vars PROVE ImpactInv'
  BY Zenon
<1>1. CASE UNCHANGED vars
  BY <1>1, Zenon DEF vars, ImpactInv, Shape, Undisturbed, Known
<1>2. CASE Gather
  <2> DEFINE sec == Reads(cmd)[step]
  <2>1. /\ UNCHANGED <<store, was, cmd, out, changes>> /\ step' = step + 1 /\ out = NoOutput
        /\ step \in 1..Len(Reads(cmd)) /\ got' = Filled(got, sec, Read(sec, store))
    BY <1>2 DEF Gather, Reading, ImpactInv
  <2>2. out.kind # "policy"
    BY <2>1, Zenon DEF NoOutput
  <2>3. CASE cmd.kind = "policy"
    <3>1. Reads(cmd) = <<"policies", "peers">>
      BY <2>3, Zenon DEF Reads
    <3>2. DOMAIN got = {Reads(cmd)[i] : i \in 1..(step - 1)}
      BY <2>1, <2>3, Zenon DEF ImpactInv
    <3>3. CASE step = 1
      <4>1. sec = "policies" /\ DOMAIN got = {}
        BY <3>1, <3>2, <3>3
      <4>2. DOMAIN got' = {"policies"} /\ got'.policies = PolicySet(store.policies)
        BY <2>1, <4>1, Zenon DEF Filled, Read
      <4> QED
        BY <2>1, <2>2, <2>3, <3>1, <3>3, <4>2 DEF ImpactInv, Shape, Undisturbed, Reads
    <3>4. CASE step = 2
      <4>1. sec = "peers" /\ DOMAIN got = {"policies"}
        BY <3>1, <3>2, <3>4
      <4>2. /\ DOMAIN got' = {"policies", "peers"} /\ got'.policies = got.policies
            /\ got'.peers = Listed(PeerName, store.peers)
        BY <2>1, <4>1, Zenon DEF Filled, Read
      <4>3. {Reads(cmd)[i] : i \in 1..2} = {"policies", "peers"}
        BY <3>1
      <4>4. DOMAIN got' = {Reads(cmd')[i] : i \in 1..(step' - 1)}
        <5>1. step' - 1 = 2 /\ cmd' = cmd
          BY <2>1, <3>4
        <5> QED
          BY <4>2, <4>3, <5>1, Zenon
      <4>5. Undisturbed' => Undisturbed
        BY <2>1, <2>3, Zenon DEF Undisturbed, ImpactInv
      <4> QED
        BY <2>1, <2>2, <2>3, <3>4, <4>2, <4>4, <4>5 DEF ImpactInv, Shape, Reads
    <3> QED
      BY <2>1, <3>1, <3>3, <3>4
  <2>4. CASE cmd.kind # "policy"
    BY <2>1, <2>2, <2>4 DEF ImpactInv, Shape, Undisturbed
  <2> QED
    BY <2>3, <2>4, Zenon
<1>3. CASE GatherFails
  <2>1. CASE cmd.kind = "policy"
    <3>1. Reads(cmd) = <<"policies", "peers">> /\ step \in 1..2
      BY <1>3, <2>1 DEF Reads, GatherFails, Reading, ImpactInv
    <3>2. Reads(cmd)[step] # "events"
      BY <3>1
    <3>3. out' = Failed /\ UNCHANGED <<store, was, cmd, step, got>>
      BY <1>3, <3>2, Zenon DEF GatherFails
    <3> QED
      BY <3>3, Zenon DEF Failed, NoOutput, ImpactInv, Shape, Undisturbed
  <2>2. CASE cmd.kind # "policy"
    <3>1. /\ UNCHANGED <<store, was, cmd>> /\ step' \in {step, step + 1}
          /\ out' = out \/ out' = Failed
          /\ step > 0
      BY <1>3, Zenon DEF GatherFails, Reading, ImpactInv
    <3> QED
      BY <2>2, <3>1 DEF Failed, NoOutput, ImpactInv, Shape, Undisturbed
  <2> QED
    BY <2>1, <2>2, Zenon
<1>4. CASE Finish
  <2>1. UNCHANGED <<store, was, cmd, step, got>> /\ step > Len(Reads(cmd)) /\ out = NoOutput
    BY <1>4, Zenon DEF Finish
  <2>2. CASE cmd.kind = "policy"
    <3>1. step > 2
      BY <2>1, <2>2, Zenon DEF Reads, ImpactInv
    <3>2. /\ out'.kind = "policy"
          /\ out'.impact = AnalyzePolicyChange(got.policies,
                               Replaced(got.policies, cmd.proposed), clusterCIDRs(got.peers))
      BY <1>4, <2>2, Zenon DEF Finish
    <3>3. out' # NoOutput
      BY <3>2 DEF NoOutput
    <3> QED
      BY <2>1, <2>2, <3>1, <3>2, <3>3 DEF ImpactInv, Shape, Undisturbed, Known
  <2>3. CASE cmd.kind # "policy"
    <3>1. out'.kind = cmd.kind /\ out' # NoOutput
      BY <1>4, <2>3, Zenon DEF Finish, NoOutput, ImpactInv
    <3> QED
      BY <2>1, <2>3, <3>1, Zenon DEF ImpactInv, Shape, Undisturbed
  <2> QED
    BY <2>2, <2>3, Zenon
<1>5. CASE Apply
  <2>1. step' = 0 /\ UNCHANGED <<was, cmd, got, out, changes>> /\ out # NoOutput
    BY <1>5 DEF Apply, NoOutput
  <2>2. Shape(store')
    <3>1. CASE out.kind = "policy"
      <4>1. PICK n \in Names(PolicyName) : cmd.proposed \in Policies(n)
        BY <3>1, Zenon DEF ImpactInv
      <4>2. cmd.proposed.name = n
        BY <4>1, PolicyAssumption DEF Names
      <4>3. store' = [store EXCEPT !.policies[n] = cmd.proposed]
        BY <1>5, <3>1, <4>2, Zenon DEF Apply
      <4> QED
        BY <4>1, <4>3, Zenon DEF ImpactInv, Shape
    <3>2. CASE out.kind # "policy"
      BY <1>5, <3>2, Zenon DEF Apply, ImpactInv, Shape
    <3> QED
      BY <3>1, <3>2, Zenon
  <2> QED
    BY <2>1, <2>2 DEF ImpactInv, Undisturbed
<1>6. CASE ChangePeer
  <2>1. PICK n \in Names(PeerName) : \E p \in Peers(n) \cup {Absent} :
            Change([store EXCEPT !.peers[n] = p])
    BY <1>6, Zenon DEF ChangePeer
  <2>2. PICK p : Change([store EXCEPT !.peers[n] = p])
    BY <2>1, ZenonT(30)
  <2>3. Shape([store EXCEPT !.peers[n] = p])
    BY DEF ImpactInv, Shape
  <2> QED
    BY <2>2, <2>3, ImpactChange, Zenon
<1>7. CASE ChangePolicy
  <2>1. PICK n \in Names(PolicyName) : \E p \in Policies(n) \cup {Absent} :
            Change([store EXCEPT !.policies[n] = p])
    BY <1>7, Zenon DEF ChangePolicy
  <2>2. PICK p \in Policies(n) \cup {Absent} : Change([store EXCEPT !.policies[n] = p])
    BY <2>1, Zenon
  <2>3. Shape([store EXCEPT !.policies[n] = p])
    BY DEF ImpactInv, Shape
  <2> QED
    BY <2>2, <2>3, ImpactChange, Zenon
<1>8. CASE ChangeRest
  <2>1. /\ \A a : Shape([store EXCEPT !.agent = a])
        /\ \A x : Shape([store EXCEPT !.exports = x])
        /\ Shape([store EXCEPT !.crds = ~@])
    BY DEF ImpactInv, Shape
  <2> QED
    BY <1>8, <2>1, ImpactChange, ZenonT(30) DEF ChangeRest
<1> QED
  BY <1>1, <1>2, <1>3, <1>4, <1>5, <1>6, <1>7, <1>8, Zenon DEF Next

-----------------------------------------------------------------------------
(***************************************************************************)
(* Lists of objects, and what a snapshot shows.                            *)
(***************************************************************************)
\* What picked has is what list has at the positions P.
Lists(picked, list, P) ==
    /\ Cardinality(P) \in Nat
    /\ DOMAIN picked = 1..Cardinality(P)
    /\ \A k \in 1..Cardinality(P) : \E i \in P : picked[k] = list[i]
    /\ \A i \in P : \E k \in 1..Cardinality(P) : picked[k] = list[i]

\* Picked lists what is at the positions, all of it and nothing else.
LEMMA PickedLists ==
  ASSUME NEW list, NEW P, P \subseteq Nat, IsFiniteSet(P)
  PROVE  Lists(Picked(list, P), list, P)
<1> DEFINE n == Cardinality(P)
           upto(i) == {j \in P : j <= i}
           rank == [i \in P |-> Cardinality(upto(i))]
<1>1. n \in Nat
  BY FS_CardinalityType, Zenon
<1>2. ASSUME NEW i \in P
      PROVE  IsFiniteSet(upto(i)) /\ Cardinality(upto(i)) \in 1..n
  <2>1. upto(i) \in SUBSET P /\ i \in upto(i)
    OBVIOUS
  <2>2. IsFiniteSet(upto(i)) /\ Cardinality(upto(i)) <= n
    BY <2>1, FS_Subset, Zenon
  <2>3. Cardinality(upto(i)) \in Nat /\ Cardinality(upto(i)) # 0
    BY <2>1, <2>2, FS_CardinalityType, FS_EmptySet, Zenon
  <2> QED
    BY <1>1, <2>2, <2>3
<1>3. ASSUME NEW i \in P, NEW j \in P, i < j
      PROVE  Cardinality(upto(i)) # Cardinality(upto(j))
  <2>1. upto(i) \in SUBSET upto(j) /\ j \in upto(j) /\ j \notin upto(i)
    <3>1. i \in Nat /\ j \in Nat /\ \A k \in P : k \in Nat
      BY Zenon
    <3>2. ~(j <= i) /\ \A k \in Nat : k <= i => k <= j
      BY <1>3, <3>1
    <3>3. upto(i) \in SUBSET upto(j)
      BY <3>1, <3>2, ZenonT(30)
    <3>4. j <= j
      BY <3>1
    <3> QED
      BY <3>2, <3>3, <3>4, ZenonT(30)
  <2>2. IsFiniteSet(upto(j)) /\ upto(i) # upto(j)
    BY <1>2, <2>1, Zenon
  <2> HIDE DEF upto
  <2>3. Cardinality(upto(j)) = Cardinality(upto(i)) => upto(j) = upto(i)
    BY <2>1, <2>2, FS_Subset, Zenon
  <2> QED
    BY <2>2, <2>3, Zenon
<1>4. rank \in [P -> 1..n]
  BY <1>2, Zenon
<1>5. ASSUME NEW i \in P, NEW j \in P, rank[i] = rank[j]
      PROVE  i = j
  BY <1>3, <1>5
<1>6. rank \in Injection(P, 1..n)
  BY <1>4, <1>5, ZenonT(30) DEF Injection, IsInjective
<1>7. IsFiniteSet(1..n) /\ Cardinality(1..n) = n
  BY <1>1, FS_Interval
<1>8. \A k \in 1..n : \E i \in P : rank[i] = k
  <2>1. Cardinality(P) = Cardinality(1..n)
    BY <1>7, Zenon
  <2> HIDE DEF rank, n
  <2>2. rank \in Surjection(P, 1..n)
    BY <1>6, <1>7, <2>1, FS_Injection, Zenon
  <2> QED
    BY <2>2, Zenon DEF Surjection
<1>9. ASSUME NEW k \in 1..n
      PROVE  LET i == CHOOSE i \in P : rank[i] = k IN
             i \in P /\ rank[i] = k /\ Picked(list, P)[k] = list[i]
  <2>1. Picked(list, P)[k] = list[CHOOSE i \in P : rank[i] = k]
    BY ZenonT(30) DEF Picked
  <2> QED
    BY <1>8, <2>1, ZenonT(30)
<1>10. DOMAIN Picked(list, P) = 1..n
  BY Zenon DEF Picked
<1> HIDE DEF n, rank
<1>11. ASSUME NEW i \in P
       PROVE  \E k \in 1..n : Picked(list, P)[k] = list[i]
  <2>1. rank[i] \in 1..n
    BY <1>4, Zenon
  <2> QED
    BY <1>5, <1>9, <2>1
<1>12. \A k \in 1..n : \E i \in P : Picked(list, P)[k] = list[i]
  BY <1>9, ZenonT(30)
<1> QED
  BY <1>1, <1>10, <1>11, <1>12, Zenon DEF n, Lists
\* The peers of a store, each under its name, and a list of peers.
Filed(objs) ==
    /\ objs = [n \in Names(PeerName) |-> objs[n]]
    /\ \A n \in Names(PeerName) : objs[n] \in Peers(n) \cup {Absent}
PeerList(list) ==
    /\ \E k \in Nat : DOMAIN list = 1..k
    /\ \A i \in DOMAIN list : \E n \in Names(PeerName) : list[i] \in Peers(n)

\* A list of the peers has every one that is there and nothing else.
LEMMA ListedPeers ==
  ASSUME NEW objs, Filed(objs)
  PROVE  /\ PeerList(Listed(PeerName, objs))
         /\ \A n \in Present(objs) :
               \E i \in DOMAIN Listed(PeerName, objs) : Listed(PeerName, objs)[i] = objs[n]
<1> DEFINE D == DOMAIN PeerName
           list == [i \in D |-> objs[PeerName[i]]]
           P == {i \in D : objs[PeerName[i]] # Absent}
           L == Picked(list, P)
<1>1. L = Listed(PeerName, objs)
  BY Zenon DEF Listed
<1>2. Len(PeerName) \in Nat /\ D = 1..Len(PeerName)
  BY PeerAssumption
<1>3. P \subseteq Nat /\ IsFiniteSet(P)
  <2>1. IsFiniteSet(D)
    BY <1>2, FS_Interval
  <2>2. P \in SUBSET D
    BY Zenon
  <2> QED
    BY <1>2, <2>1, <2>2, FS_Subset
<1>4. \A i \in P : list[i] = objs[PeerName[i]] /\ PeerName[i] \in Names(PeerName)
                   /\ list[i] \in Peers(PeerName[i])
  BY Zenon DEF Names, Range, Filed
<1>5. \A n \in Present(objs) : \E i \in P : list[i] = objs[n]
  BY Zenon DEF Names, Range, Filed, Present
<1> HIDE DEF list, P
<1>6. Lists(L, list, P)
  BY <1>3, PickedLists, ZenonT(30)
<1> HIDE DEF L
<1>7. PeerList(L)
  <2>1. Cardinality(P) \in Nat /\ DOMAIN L = 1..Cardinality(P)
    BY <1>6, Zenon DEF Lists
  <2>2. \A k \in DOMAIN L : \E i \in P : L[k] = list[i]
    BY <1>6, <2>1, Zenon DEF Lists
  <2> QED
    BY <1>4, <2>1, <2>2, Zenon DEF PeerList
<1>8. \A n \in Present(objs) : \E i \in DOMAIN L : L[i] = objs[n]
  <2>1. \A i \in P : \E k \in DOMAIN L : L[k] = list[i]
    BY <1>6, Zenon DEF Lists
  <2> QED
    BY <1>5, <2>1, Zenon
<1> QED
  BY <1>1, <1>7, <1>8, Zenon

-----------------------------------------------------------------------------
\* What a section of a snapshot may show: what was there at some moment, and of
\* events perhaps nothing.
Shown(sec, v, hist) ==
    IF sec = "events" THEN v = {} \/ \E s \in hist : v = s.events
    ELSE \E s \in hist : v = Read(sec, s)

SectionNames == {"crds", "agent", "peers", "exports", "imports", "policies", "events"}

\* What makes SnapshotFaithful inductive, and what the reports are made of: the
\* sections read so far are shown, and nothing but they is printed.
SnapInv ==
    /\ \A s \in was : Shape(s) /\ Filed(s.peers)
    /\ cmd.kind = "snapshot" /\ out = NoOutput =>
          step <= 8 /\ DOMAIN got = {Section[i] : i \in 1..(step - 1)}
    /\ cmd.kind = "snapshot" => \A sec \in DOMAIN got : Shown(sec, got[sec], was)
    /\ Printed => cmd.kind = "snapshot" /\ DOMAIN got = SectionNames /\ snap = Snapshot

\* Nothing is read when a command begins.
LEMMA SnapInit == Init => SnapInv
<1> SUFFICES ASSUME Init PROVE SnapInv
  BY Zenon
<1>1. \A s \in was : Shape(s) /\ Filed(s.peers)
  BY DEF Init, Shape, Filed
<1>2. out = NoOutput /\ ~Printed /\ step = 1 /\ DOMAIN got = {}
  BY DEF Init, NoOutput, Printed
<1> QED
  BY <1>1, <1>2 DEF SnapInv

\* A write adds to what was there.
LEMMA SnapChange ==
  ASSUME SnapInv, NEW new, Shape(new), Filed(new.peers), Change(new)
  PROVE  SnapInv'
<1>1. was' = was \cup {new} /\ UNCHANGED <<cmd, step, got, out>> /\ ~Printed
  BY Zenon DEF Change, Printed, NoOutput
<1>2. \A s \in was' : Shape(s) /\ Filed(s.peers)
  BY <1>1, Zenon DEF SnapInv
<1>3. \A sec, v : Shown(sec, v, was) => Shown(sec, v, was')
  BY <1>1, Zenon DEF Shown
<1> QED
  BY <1>1, <1>2, <1>3, ZenonT(30) DEF SnapInv, Printed

\* A snapshot has read its sections in order.
LEMMA SectionsRead ==
  ASSUME NEW k \in 1..7
  PROVE  /\ {Section[i] : i \in 1..k} = {Section[i] : i \in 1..(k - 1)} \cup {Section[k]}
         /\ {Section[i] : i \in 1..7} = SectionNames
         /\ Len(Section) = 7
<1>1. 1..k = 1..(k - 1) \cup {k} /\ 1..7 = {1, 2, 3, 4, 5, 6, 7}
  OBVIOUS
<1> QED
  BY <1>1 DEF Section, SectionNames

\* One more section, read or, of events, given up.
LEMMA SnapFilled ==
  ASSUME ImpactInv, SnapInv, Reading, cmd.kind = "snapshot",
         NEW v, Shown(Section[step], v, was), got' = Filled(got, Section[step], v), step' = step + 1,
         UNCHANGED <<store, was, cmd, out>>
  PROVE  SnapInv'
<1>1. step \in 1..7 /\ out = NoOutput /\ ~Printed
  <2>1. Reads(cmd) = Section /\ Len(Section) = 7
    BY Zenon DEF Reads, Section
  <2>2. step \in Nat /\ step > 0 /\ step <= 7
    BY <2>1, Zenon DEF Reading, ImpactInv
  <2> QED
    BY <2>2 DEF Reading, NoOutput, Printed
<1>2. DOMAIN got = {Section[i] : i \in 1..(step - 1)}
  BY <1>1, Zenon DEF SnapInv
<1>3. DOMAIN got' = DOMAIN got \cup {Section[step]}
      /\ \A sec \in DOMAIN got' : got'[sec] = IF sec = Section[step] THEN v ELSE got[sec]
  BY Zenon DEF Filled
<1>4. \A sec \in DOMAIN got' : Shown(sec, got'[sec], was)
  BY <1>3, Zenon DEF SnapInv
<1>5. DOMAIN got' = {Section[i] : i \in 1..(step' - 1)} /\ step' <= 8
  <2>1. step' - 1 = step /\ step' <= 8
    BY <1>1
  <2> QED
    BY <1>1, <1>2, <1>3, <2>1, SectionsRead, Zenon
<1>6. \A sec \in DOMAIN got' : Shown(sec, got'[sec], was')
  BY <1>4, Zenon
<1> QED
  BY <1>1, <1>5, <1>6, Zenon DEF SnapInv, Printed

\* A step that prints nothing and reads nothing keeps what was read.
LEMMA SnapKept ==
  ASSUME SnapInv, UNCHANGED <<was, cmd, got>>, ~(out' = NoOutput /\ step' # step),
         out' = NoOutput => out = NoOutput, out'.kind = "snapshot" => out' = out
  PROVE  SnapInv'
<1>1. CASE out' = out
  BY <1>1, Zenon DEF SnapInv, Printed, snap, Snapshot
<1>2. CASE out' # out
  BY <1>2, Zenon DEF SnapInv, Printed
<1> QED
  BY <1>1, <1>2, Zenon

\* Every step of the command, of a user and of the API server keeps SnapInv.
LEMMA SnapStep == ImpactInv /\ SnapInv /\ [Next]_vars => SnapInv'
<1> SUFFICES ASSUME ImpactInv, SnapInv, [Next]_vars PROVE SnapInv'
  BY Zenon
<1>0. out = NoOutput => store \in was /\ Shape(store) /\ Filed(store.peers)
  BY Zenon DEF ImpactInv, SnapInv
<1>1. CASE UNCHANGED vars
  BY <1>1, SnapKept, Zenon DEF vars
<1>2. CASE Gather
  <2>1. Reading /\ UNCHANGED <<store, was, cmd, out>> /\ step' = step + 1 /\ out = NoOutput
    BY <1>2, Zenon DEF Gather, Reading
  <2>2. CASE cmd.kind = "snapshot"
    <3>1. Reads(cmd) = Section
      BY <2>2, Zenon DEF Reads
    <3>2. got' = Filled(got, Section[step], Read(Section[step], store))
      BY <1>2, <3>1, Zenon DEF Gather
    <3>3. Shown(Section[step], Read(Section[step], store), was)
      BY <1>0, <2>1, Zenon DEF Shown, Read
    <3> QED
      BY <2>1, <2>2, <3>2, <3>3, SnapFilled, Zenon
  <2>3. CASE cmd.kind # "snapshot"
    <3>1. ~Printed
      BY <2>1, Zenon DEF Printed, NoOutput
    <3> QED
      BY <2>1, <2>3, <3>1, Zenon DEF SnapInv, Printed
  <2> QED
    BY <2>2, <2>3, Zenon
<1>3. CASE GatherFails
  <2>1. Reading /\ out = NoOutput /\ UNCHANGED <<store, was, cmd>>
    BY <1>3, Zenon DEF GatherFails, Reading
  <2>2. CASE Reads(cmd)[step] = "events"
    <3>1. got' = Filled(got, "events", {}) /\ step' = step + 1 /\ out' = out
      BY <1>3, <2>2, Zenon DEF GatherFails
    <3>2. CASE cmd.kind = "snapshot"
      <4>1. Section[step] = "events"
        BY <2>2, <3>2, Zenon DEF Reads
      <4>2. Shown(Section[step], {}, was)
        BY <4>1, Zenon DEF Shown
      <4> QED
        BY <2>1, <3>1, <3>2, <4>1, <4>2, SnapFilled, Zenon
    <3>3. CASE cmd.kind # "snapshot"
      <4>1. ~Printed
        BY <2>1, Zenon DEF Printed, NoOutput
      <4> QED
        BY <2>1, <3>1, <3>3, <4>1, Zenon DEF SnapInv, Printed
    <3> QED
      BY <3>2, <3>3, Zenon
  <2>3. CASE Reads(cmd)[step] # "events"
    <3>1. out' = Failed /\ UNCHANGED <<got, step>>
      BY <1>3, <2>3, Zenon DEF GatherFails
    <3>2. out'.kind = "error" /\ out' # NoOutput
      BY <3>1, Zenon DEF Failed, NoOutput
    <3> QED
      BY <2>1, <3>1, <3>2, SnapKept, Zenon
  <2> QED
    BY <2>2, <2>3, Zenon
<1>4. CASE Finish
  <2>1. UNCHANGED <<store, was, cmd, step, got>> /\ out = NoOutput /\ step > Len(Reads(cmd))
    BY <1>4, Zenon DEF Finish
  <2>2. CASE cmd.kind = "snapshot"
    <3>1. out' = [kind |-> "snapshot", snap |-> Snapshot]
      BY <1>4, <2>2, Zenon DEF Finish
    <3>2. DOMAIN got = SectionNames
      <4>1. Reads(cmd) = Section /\ Len(Section) = 7 /\ step \in Nat
        BY <2>2, Zenon DEF Reads, Section, ImpactInv
      <4>2. step - 1 = 7
        BY <2>1, <2>2, <4>1 DEF SnapInv
      <4>3. {Section[i] : i \in 1..7} = SectionNames
        BY SectionsRead
      <4> QED
        BY <2>1, <2>2, <4>2, <4>3, Zenon DEF SnapInv
    <3>3. out' # NoOutput /\ out'.snap = Snapshot
      BY <3>1, Zenon DEF NoOutput
    <3>4. Snapshot' = Snapshot
      BY <2>1, Zenon DEF Snapshot
    <3> QED
      BY <2>1, <2>2, <3>2, <3>3, <3>4, Zenon DEF SnapInv, Printed, snap
  <2>3. CASE cmd.kind # "snapshot"
    <3>1. out'.kind = cmd.kind /\ out' # NoOutput
      BY <1>4, <2>3, Zenon DEF Finish, NoOutput, ImpactInv
    <3> QED
      BY <2>1, <2>3, <3>1, SnapKept, Zenon
  <2> QED
    BY <2>2, <2>3, Zenon
<1>5. CASE Apply
  <2>1. UNCHANGED <<was, cmd, got, out>> /\ out # NoOutput
    BY <1>5 DEF Apply, NoOutput
  <2> QED
    BY <2>1, SnapKept, Zenon
<1>6. CASE ChangePeer
  <2>0. PICK n \in Names(PeerName) : \E p \in Peers(n) \cup {Absent} :
            Change([store EXCEPT !.peers[n] = p])
    BY <1>6, Zenon DEF ChangePeer
  <2>1. PICK p \in Peers(n) \cup {Absent} : Change([store EXCEPT !.peers[n] = p])
    BY <2>0, Zenon
  <2>2. out = NoOutput
    BY <2>1, Zenon DEF Change
  <2>3. Shape([store EXCEPT !.peers[n] = p])
    BY <1>0, <2>2 DEF Shape
  <2>4. Filed([store EXCEPT !.peers[n] = p].peers)
    BY <1>0, <2>1, <2>2, Zenon DEF Shape, Filed
  <2> QED
    BY <2>1, <2>3, <2>4, SnapChange, ZenonT(30)
<1>7. CASE ChangePolicy
  <2>0. PICK n \in Names(PolicyName) : \E p \in Policies(n) \cup {Absent} :
            Change([store EXCEPT !.policies[n] = p])
    BY <1>7, Zenon DEF ChangePolicy
  <2>1. PICK p \in Policies(n) \cup {Absent} : Change([store EXCEPT !.policies[n] = p])
    BY <2>0, Zenon
  <2>2. out = NoOutput
    BY <2>1, Zenon DEF Change
  <2>3. Shape([store EXCEPT !.policies[n] = p])
    BY <1>0, <2>1, <2>2 DEF Shape
  <2>4. Filed([store EXCEPT !.policies[n] = p].peers)
    BY <1>0, <2>2, Zenon DEF Shape
  <2> QED
    BY <2>1, <2>3, <2>4, SnapChange, ZenonT(30)
<1>8. CASE ChangeRest
  <2>1. PICK new : /\ Change(new)
                   /\ \/ \E a \in Agents : new = [store EXCEPT !.agent = a]
                      \/ \E x \in Exports : new = [store EXCEPT !.exports = x]
                      \/ new = [store EXCEPT !.crds = ~@]
    BY <1>8, ZenonT(30) DEF ChangeRest
  <2>2. out = NoOutput
    BY <2>1, Zenon DEF Change
  <2>3. Shape(new) /\ new.peers = store.peers
    BY <1>0, <2>1, <2>2 DEF Shape
  <2> QED
    BY <1>0, <2>1, <2>2, <2>3, SnapChange, Zenon
<1> QED
  BY <1>1, <1>2, <1>3, <1>4, <1>5, <1>6, <1>7, <1>8, Zenon DEF Next

\* meshstate.Snapshot: whatever is written while it reads, and whichever of its reads
\* fail, a snapshot that is printed shows each section as it was at some moment of the
\* command; only events may be missing.
THEOREM SnapshotIsFaithful == Spec => []SnapshotFaithful
<1>1. SnapInv => SnapshotFaithful
  <2> SUFFICES ASSUME SnapInv, Printed
      PROVE  /\ \A sec \in Range(Section) \ {"events"} : \E s \in was : snap[sec] = Read(sec, s)
             /\ snap.events = {} \/ \E s \in was : snap.events = s.events
    BY Zenon DEF SnapshotFaithful
  <2>1. \A sec \in SectionNames : Shown(sec, got[sec], was)
    BY Zenon DEF SnapInv
  <2>2. \A sec \in SectionNames : snap[sec] = got[sec]
    BY DEF SnapInv, Snapshot, BuildSnapshot, SectionNames
  <2>3. Range(Section) = SectionNames
    <3>1. Range(Section) = {Section[i] : i \in 1..7}
      BY DEF Range, Section
    <3> QED
      BY <3>1, SectionsRead
  <2> QED
    BY <2>1, <2>2, <2>3, Zenon DEF Shown, SectionNames
<1> QED
  BY <1>1, ImpactInit, ImpactStep, SnapInit, SnapStep, PTL DEF Spec

-----------------------------------------------------------------------------
(***************************************************************************)
(* The reports that are made of a snapshot.                                *)
(***************************************************************************)
\* What BuildSnapshot makes of peers and policies that were listed.
Derived(s) ==
    /\ PeerList(s.peers) /\ Stored(s.policies)
    /\ \A p, q \in s.policies : p.name = q.name => p = q
    /\ s.conflicts = DetectTopologyConflicts(s.peers)
    /\ s.observed = [i \in DOMAIN s.peers |-> PeerSnapshot(s.peers[i].st, Now)]

\* Such is every snapshot that is printed.
LEMMA PrintedDerived == SnapInv /\ Printed => Derived(snap)
<1> SUFFICES ASSUME SnapInv, Printed PROVE Derived(snap)
  BY Zenon
<1>1. snap = Snapshot /\ \A sec \in SectionNames : Shown(sec, got[sec], was)
  BY Zenon DEF SnapInv
<1>2. /\ snap.peers = got.peers /\ snap.policies = got.policies
      /\ snap.conflicts = DetectTopologyConflicts(snap.peers)
      /\ snap.observed = [i \in DOMAIN snap.peers |-> PeerSnapshot(snap.peers[i].st, Now)]
  BY <1>1, Zenon DEF Snapshot, BuildSnapshot
<1>3. PeerList(snap.peers)
  <2>1. PICK s \in was : got.peers = Listed(PeerName, s.peers)
    BY <1>1, Zenon DEF Shown, Read, SectionNames
  <2>2. Filed(s.peers)
    BY Zenon DEF SnapInv
  <2> QED
    BY <1>2, <2>1, <2>2, ListedPeers, Zenon
<1>4. Stored(snap.policies) /\ \A p, q \in snap.policies : p.name = q.name => p = q
  <2>1. PICK s \in was : got.policies = PolicySet(s.policies)
    BY <1>1, Zenon DEF Shown, Read, SectionNames
  <2>2. /\ DOMAIN s.policies = Names(PolicyName)
        /\ \A n \in Names(PolicyName) : s.policies[n] \in Policies(n) \cup {Absent}
    BY ZenonT(30) DEF SnapInv, Shape
  <2>3. \A n \in Names(PolicyName) : s.policies[n] # Absent => s.policies[n].name = n
    BY <2>2, PolicyAssumption DEF Names
  <2> QED
    BY <1>2, <2>1, <2>2, <2>3 DEF Stored, PolicySet, Present
<1> QED
  BY <1>2, <1>3, <1>4, Zenon DEF Derived

\* A peer of a snapshot.
LEMMA PeerOf ==
  ASSUME NEW s, Derived(s), NEW i \in DOMAIN s.peers
  PROVE  /\ \E n \in Names(PeerName) : s.peers[i] \in Peers(n)
         /\ s.peers[i].id # Unset
         /\ s.peers[i].st \in Status(Nat)
         /\ {} \notin s.peers[i].cidrs
         /\ i \in Nat /\ i >= 1
<1>1. PICK n \in Names(PeerName) : s.peers[i] \in Peers(n)
  BY Zenon DEF Derived, PeerList
<1>2. PICK k \in Nat : DOMAIN s.peers = 1..k
  BY SMTT(30) DEF Derived, PeerList
<1> QED
  BY <1>1, <1>2, PeerAssumption DEF Names

\* The destinations the decision d of a chain leaves open to these ranges.
OpenTo(cidrs, d) == {dest \in d.protected : peerAllowed(cidrs, d.accepts, dest)}

\* reach.Plan, peer by peer.
Planned(s, i, d) ==
    /\ Plan(s)[i].open = OpenTo(s.peers[i].cidrs, d)
    /\ s.peers[i].st.phase # "Connected" => Plan(s)[i].status = "Unreachable"
    /\ s.peers[i].st.phase = "Connected" =>
          IF \E c \in s.conflicts : c.id = s.peers[i].id THEN Plan(s)[i].status = "Degraded"
          ELSE Plan(s)[i].status =
                  IF d.protected # {} /\ Plan(s)[i].open = {} THEN "Blocked" ELSE "Reachable"

\* That is what reach.Plan says of every peer.
LEMMA PlanStatus ==
  ASSUME NEW s, NEW i \in DOMAIN s.peers, NEW d,
         d = Interpret(Compile(s.policies, clusterCIDRs(s.peers)))
  PROVE  Planned(s, i, d)
<1>1. Plan(s)[i] = reachFor(s.peers[i], {c.id : c \in s.conflicts}, d)
  BY Zenon DEF Plan
<1> DEFINE p == s.peers[i]
           ids == {c.id : c \in s.conflicts}
           open == OpenTo(p.cidrs, d)
           status == CASE p.st.phase # "Connected" -> "Unreachable"
                       [] p.st.phase = "Connected" /\ p.id \in ids -> "Degraded"
                       [] OTHER -> IF d.protected # {} /\ open = {} THEN "Blocked" ELSE "Reachable"
<1>2. Plan(s)[i] = [id |-> p.id, open |-> open, status |-> status]
  BY ONLY <1>1, Zenon DEF reachFor, OpenTo
<1>3. p.id \in ids <=> \E c \in s.conflicts : c.id = p.id
  BY ONLY Zenon
<1> HIDE DEF ids, open, p, status
<1>4. Plan(s)[i].open = open /\ Plan(s)[i].status = status
  BY ONLY <1>2
<1>5. /\ p.st.phase # "Connected" => status = "Unreachable"
      /\ p.st.phase = "Connected" =>
            IF p.id \in ids THEN status = "Degraded"
            ELSE status = IF d.protected # {} /\ open = {} THEN "Blocked" ELSE "Reachable"
  BY ONLY DEF status
<1> QED
  BY ONLY <1>3, <1>4, <1>5, Zenon DEF p, open, Planned

\* The conflicts that are found looking at one peer after the other.
LEMMA OwnConflicts ==
  ASSUME NEW peers, NEW i \in DOMAIN peers
  PROVE  /\ missingFieldConflicts(peers[i]) \subseteq DetectTopologyConflicts(peers)
         /\ identityConflicts(peers, i) \subseteq DetectTopologyConflicts(peers)
         /\ invalidCIDRs(peers[i]) \subseteq DetectTopologyConflicts(peers)
<1> DEFINE of(j) == missingFieldConflicts(peers[j]) \cup identityConflicts(peers, j)
                        \cup invalidCIDRs(peers[j])
           all == UNION {of(j) : j \in DOMAIN peers}
<1>1. all \subseteq DetectTopologyConflicts(peers)
  BY Zenon DEF DetectTopologyConflicts
<1> HIDE DEF of
<1>2. of(i) \subseteq all
  BY Zenon
<1> HIDE DEF all
<1> QED
  BY <1>1, <1>2, Zenon DEF of

\* An ID that has no conflict is the ID of one peer.
LEMMA OwnID ==
  ASSUME NEW s, Derived(s), NEW i \in DOMAIN s.peers, NEW j \in DOMAIN s.peers, i # j,
         s.peers[i].id = s.peers[j].id
  PROVE  \E c \in s.conflicts : c.id = s.peers[i].id
<1>1. ASSUME NEW k \in DOMAIN s.peers, NEW m \in DOMAIN s.peers, k < m, s.peers[k].id = s.peers[m].id
      PROVE  \E c \in s.conflicts : c.id = s.peers[m].id
  <2> DEFINE c == Clash(s.peers[m].id, "duplicate", Unset)
  <2>1. k \in 1..(m - 1) /\ s.peers[m].id # Unset
    <3>1. k \in Nat /\ k >= 1 /\ m \in Nat /\ s.peers[m].id # Unset
      BY PeerOf, Zenon
    <3> QED
      BY <1>1, <3>1
  <2>2. c \in identityConflicts(s.peers, m)
    BY <1>1, <2>1, ZenonT(30) DEF identityConflicts
  <2>3. c.id = s.peers[m].id
    BY Zenon DEF Clash
  <2> HIDE DEF c
  <2>4. c \in DetectTopologyConflicts(s.peers)
    BY <2>2, OwnConflicts, Zenon
  <2>5. c \in s.conflicts
    BY <2>4, Zenon DEF Derived
  <2> QED
    BY <2>3, <2>5, Zenon
<1>2. i < j \/ j < i
  BY PeerOf
<1> QED
  BY <1>1, <1>2, Zenon

\* diagnose names a peer that is not connected, one with a conflict, and a connected
\* one whose handshake is old.
LEMMA DiagnoseNames ==
  ASSUME NEW s, Derived(s), NEW i \in DOMAIN s.peers,
         \/ s.peers[i].st.phase # "Connected"
         \/ \E c \in s.conflicts : c.id = s.peers[i].id
         \/ s.peers[i].st.phase = "Connected" /\ staleTunnel(s.observed[i])
  PROVE  \E f \in Diagnose(s) : f.severity # "info" /\ f.about = s.peers[i].id
<1> DEFINE id == s.peers[i].id
           critical == Finding("critical", id)
           warning == Finding("warning", id)
<1>1. critical.severity # "info" /\ critical.about = id /\ warning.severity # "info" /\ warning.about = id
  BY Zenon DEF Finding
<1>2. s.observed[i].phase = s.peers[i].st.phase
  <2>1. s.observed = [j \in DOMAIN s.peers |-> PeerSnapshot(s.peers[j].st, Now)]
    BY Zenon DEF Derived
  <2>2. s.observed[i] = PeerSnapshot(s.peers[i].st, Now)
    BY ONLY <2>1, i \in DOMAIN s.peers, Zenon
  <2> QED
    BY ONLY <2>2 DEF PeerSnapshot
<1>3. s.peers[i].st.phase \in {Unset, "Pending", "Connected", "Error"}
  BY PeerOf, Zenon DEF Status
<1>4. CASE \E c \in s.conflicts : c.id = id
  <2>1. critical \in diagnoseConflicts(s)
    BY <1>4, Zenon DEF diagnoseConflicts
  <2> QED
    BY <1>1, <2>1, Zenon DEF Diagnose
<1>5. CASE ~\E c \in s.conflicts : c.id = id
  <2> DEFINE of(j) == CASE s.observed[j].phase = "Error" -> {Finding("critical", s.peers[j].id)}
                        [] s.observed[j].phase = "Connected" /\ staleTunnel(s.observed[j]) ->
                               {Finding("warning", s.peers[j].id)}
                        [] s.observed[j].phase \in {"Pending", Unset} -> {Finding("warning", s.peers[j].id)}
                        [] OTHER -> {}
  <2>1. diagnosePeers(s) = UNION {of(j) : j \in DOMAIN s.peers}
    BY SMTT(30) DEF diagnosePeers
  <2>2. critical \in of(i) \/ warning \in of(i)
    <3>1. Unset # "Error" /\ Unset # "Connected"
      BY ZenonT(30) DEF Unset
    <3>2. CASE s.observed[i].phase = "Error"
      BY <3>2
    <3>3. CASE s.observed[i].phase = "Connected"
      BY <1>2, <1>5, <3>3, Zenon
    <3>4. CASE s.observed[i].phase \in {"Pending", Unset}
      BY <3>1, <3>4, Zenon
    <3> QED
      BY <1>2, <1>3, <3>2, <3>3, <3>4, ZenonT(30)
  <2> HIDE DEF of, critical, warning
  <2>3. of(i) \subseteq diagnosePeers(s)
    BY <2>1, Zenon
  <2> QED
    BY <1>1, <2>2, <2>3, Zenon DEF Diagnose
<1> QED
  BY <1>4, <1>5, Zenon

\* slo and diagnose: a cluster whose liveness is that of the handshake and that slo
\* calls Down, Degraded or Impaired has a finding.
LEMMA BadIsNamed ==
  ASSUME NEW s, Derived(s), NEW i \in DOMAIN s.peers, ~s.observed[i].probed,
         Assess(s)[i] \in {"Down", "Degraded", "Impaired"}
  PROVE  \E f \in Diagnose(s) : f.severity # "info" /\ f.about = s.peers[i].id
<1> DEFINE own(j) == /\ s.peers[j].id = s.peers[i].id
                     /\ \A k \in DOMAIN s.peers : s.peers[k].id = s.peers[i].id => k <= j
           last == CHOOSE j \in DOMAIN s.peers : own(j)
           conflict == \E c \in s.conflicts : c.id = s.peers[i].id
<1>1. Assess(s)[i] = signalFor(Plan(s)[i].status, TunnelLive(s.observed[last]))
  BY ONLY ZenonT(30) DEF Assess
<1>2. CASE s.peers[i].st.phase # "Connected" \/ conflict
  BY <1>2, DiagnoseNames, Zenon
<1>3. CASE s.peers[i].st.phase = "Connected" /\ ~conflict
  <2>1. \A j \in DOMAIN s.peers : s.peers[j].id = s.peers[i].id => j = i
    BY <1>3, OwnID, Zenon
  <2>2. last = i
    <3>1. i \in Nat /\ own(i)
      BY <2>1, PeerOf
    <3>2. \A j \in DOMAIN s.peers : own(j) => j = i
      BY <2>1, Zenon
    <3> HIDE DEF own
    <3> QED
      BY <3>1, <3>2, Zenon
  <2>3. Plan(s)[i].status \in {"Blocked", "Reachable"}
    BY <1>3, PlanStatus, Zenon DEF Planned
  <2> HIDE DEF last
  <2>4. ~TunnelLive(s.observed[i])
    BY <1>1, <2>2, <2>3, SMTT(30) DEF signalFor
  <2>5. /\ s.observed[i] = PeerSnapshot(s.peers[i].st, Now)
        /\ s.peers[i].st.handshake \in Nat /\ Now \in Nat /\ Now > 0 /\ StaleSeconds \in Nat
    BY PeerOf, PeerAssumption, StaleAssumption, SMTT(30) DEF Derived, Status
  <2>6. /\ s.observed[i].handshakeAge = handshakeAge(Now, s.peers[i].st.handshake)
        /\ s.observed[i].handshake = s.peers[i].st.handshake
    BY <2>5 DEF PeerSnapshot
  <2>7. ~live(handshakeAge(Now, s.peers[i].st.handshake))
    BY <2>4, <2>6, SMTT(30) DEF TunnelLive
  <2>8. staleTunnel(s.observed[i])
    BY <2>5, <2>6, <2>7, SMTT(30) DEF staleTunnel, live, handshakeAge
  <2> QED
    BY <1>3, <2>8, DiagnoseNames, Zenon
<1> QED
  BY <1>2, <1>3, SMTT(30)

\* The sources an ingress rule is compiled to.
Sources(ing, known) ==
    keepIPv4((UNION {known[id] : id \in ing.clusters \cap DOMAIN known}) \cup ing.cidrs)

\* The destinations the policies protect.
ProtectedBy(policies) == UNION {Destinations(pol) : pol \in policies}

\* Interpret, said of the policies themselves.
LEMMA InterpretPolicies ==
  ASSUME NEW policies, NEW known, Stored(policies), NEW d, d = Interpret(Compile(policies, known))
  PROVE  /\ d.protected = ProtectedBy(policies)
         /\ \A a \in d.accepts : \E pol \in policies : \E ing \in pol.ingress :
               a.src \in Sources(ing, known) /\ a.dst \in Destinations(pol) /\ a.ports \in Ports(ing)
         /\ \A pol \in policies : \A ing \in pol.ingress :
               \A src \in Sources(ing, known), dst \in Destinations(pol), ports \in Ports(ing) :
                  \E a \in d.accepts : a.src = src /\ a.dst = dst
<1> DEFINE res(ing) == [ing EXCEPT !.clusters = @ \cap DOMAIN known]
           rpol(pol) == [pol EXCEPT !.ingress = {res(ing) : ing \in @}]
           R == Resolve(policies, known)
           A == Accepts(R, known)
           D == Drops(R)
           access(r) == [src |-> r.src, dst |-> r.dst, ports |-> r.ports]
<1>1. R = {rpol(pol) : pol \in policies}
  BY Zenon DEF Resolve
<1>2. ASSUME NEW pol \in policies
      PROVE  /\ rpol(pol).dests = pol.dests
             /\ rpol(pol).ingress = {res(ing) : ing \in pol.ingress}
             /\ \A ing \in pol.ingress :
                   /\ res(ing).clusters = ing.clusters \cap DOMAIN known
                   /\ res(ing).cidrs = ing.cidrs /\ res(ing).ports = ing.ports
  <2>1. PICK n \in Names(PolicyName) : pol \in Policies(n)
    BY Zenon DEF Stored
  <2>2. pol = [name |-> n, dests |-> pol.dests, ingress |-> pol.ingress, phase |-> pol.phase]
    BY <2>1, PolicyAssumption, Zenon DEF Names
  <2>3. \A ing \in pol.ingress : ing = [clusters |-> ing.clusters, cidrs |-> ing.cidrs, ports |-> ing.ports]
    BY <2>1, PolicyAssumption, Zenon DEF Names
  <2>4. rpol(pol).dests = pol.dests /\ rpol(pol).ingress = {res(ing) : ing \in pol.ingress}
    BY <2>2, Zenon
  <2> QED
    BY <2>3, <2>4
<1> HIDE DEF rpol, res
<1>3. \A pol \in policies : Destinations(rpol(pol)) = Destinations(pol)
  BY <1>2, Zenon DEF Destinations
<1>4. \A pol \in policies : \A ing \in pol.ingress :
          /\ keepIPv4(resolveSources(res(ing), known)) = Sources(ing, known)
          /\ Ports(res(ing)) = Ports(ing)
  BY <1>2, ZenonT(30) DEF resolveSources, Sources, Ports
<1>5. WellFormed(R)
  BY ResolvedWellFormed, Zenon
<1> HIDE DEF R
<1>6. d.accepts = {access(r) : r \in A} /\ d.protected = {r.dst : r \in D}
  BY <1>5, ChainRules, Zenon DEF Interpret, Compile, R
<1>7. d.protected = ProtectedBy(policies)
  <2>1. {r.dst : r \in D} = UNION {Destinations(q) : q \in R}
    <3> DEFINE T == UNION {Destinations(q) : q \in R}
               mk(x) == [verdict |-> "DROP", src |-> AnyAddr, dst |-> x, ports |-> Port]
    <3>1. D = [verdict : {"DROP"}, src : {AnyAddr}, dst : T, ports : {Port}]
      BY Zenon DEF Drops
    <3> HIDE DEF T, D
    <3>2. \A x \in T : mk(x) \in D /\ mk(x).dst = x
      BY <3>1, Zenon
    <3>3. \A r \in D : r.dst \in T
      BY <3>1, Zenon
    <3> HIDE DEF mk
    <3> QED
      BY <3>2, <3>3, Zenon DEF T
  <2>2. {Destinations(q) : q \in R} = {Destinations(pol) : pol \in policies}
    BY <1>1, <1>3, Zenon
  <2> QED
    BY <1>6, <2>1, <2>2, ZenonT(30) DEF ProtectedBy
<1>8. \A r : access(r).src = r.src /\ access(r).dst = r.dst /\ access(r).ports = r.ports
  BY Zenon
<1> HIDE DEF access
<1>9. ASSUME NEW a \in d.accepts
      PROVE  \E pol \in policies : \E ing \in pol.ingress :
               a.src \in Sources(ing, known) /\ a.dst \in Destinations(pol) /\ a.ports \in Ports(ing)
  <2>1. PICK r \in A : a = access(r)
    BY <1>6, Zenon
  <2>2. PICK q \in R : \E ing \in q.ingress : r \in addIngress(ing, Destinations(q), known)
    BY DEF Accepts
  <2>3. PICK pol \in policies : q = rpol(pol)
    BY <1>1, Zenon
  <2>4. PICK ing \in pol.ingress : r \in addIngress(res(ing), Destinations(pol), known)
    BY <1>2, <1>3, <2>2, <2>3
  <2>5. r.src \in Sources(ing, known) /\ r.dst \in Destinations(pol) /\ r.ports \in Ports(ing)
    BY <1>4, <2>4, ZenonT(30) DEF addIngress
  <2> QED
    BY <1>8, <2>1, <2>5, Zenon
<1>10. ASSUME NEW pol \in policies, NEW ing \in pol.ingress, NEW src \in Sources(ing, known),
              NEW dst \in Destinations(pol), NEW ports \in Ports(ing)
       PROVE  \E a \in d.accepts : a.src = src /\ a.dst = dst
  <2> DEFINE r == [verdict |-> "ACCEPT", src |-> src, dst |-> dst, ports |-> ports]
  <2>1. r \in addIngress(res(ing), Destinations(pol), known)
    BY <1>4, ZenonT(30) DEF addIngress
  <2>2. r.src = src /\ r.dst = dst
    BY ZenonT(30)
  <2> HIDE DEF r
  <2>3. rpol(pol) \in R /\ res(ing) \in rpol(pol).ingress
    BY <1>1, <1>2, Zenon
  <2>4. r \in A
    BY <1>3, <2>1, <2>3 DEF Accepts
  <2> QED
    BY <1>6, <1>8, <2>2, <2>4, ZenonT(30)
<1> QED
  BY <1>7, <1>9, <1>10, Zenon

LEMMA InterpretProtects ==
  ASSUME NEW policies, NEW known, Stored(policies)
  PROVE  Interpret(Compile(policies, known)).protected = ProtectedBy(policies)
BY InterpretPolicies, Zenon

\* cidrOf: the ranges of an ID are those of a peer that has it, which is the
\* peer itself when no other has its ID.
LEMMA KnownRanges ==
  ASSUME NEW peers, PeerList(peers)
  PROVE  /\ DOMAIN clusterCIDRs(peers) = {peers[i].id : i \in DOMAIN peers}
         /\ \A id \in DOMAIN clusterCIDRs(peers) : \E i \in DOMAIN peers :
               peers[i].id = id /\ clusterCIDRs(peers)[id] = peers[i].cidrs
         /\ \A i \in DOMAIN peers : (\A j \in DOMAIN peers \ {i} : peers[j].id # peers[i].id) =>
               clusterCIDRs(peers)[peers[i].id] = peers[i].cidrs
<1> DEFINE known == clusterCIDRs(peers)
           ofID(id) == {i \in DOMAIN peers : peers[i].id = id}
           last(id) == CHOOSE i \in ofID(id) : \A j \in ofID(id) : j <= i
<1>1. /\ DOMAIN known = {peers[i].id : i \in DOMAIN peers}
      /\ \A id \in DOMAIN known : known[id] = peers[last(id)].cidrs
  BY Zenon DEF clusterCIDRs
<1>2. PICK k \in Nat : DOMAIN peers = 1..k
  BY Zenon DEF PeerList
<1>3. ASSUME NEW id \in DOMAIN known
      PROVE  last(id) \in ofID(id)
  <2> DEFINE U == {m \in Nat : \A j \in ofID(id) : j <= m}
  <2>1. U \subseteq Nat /\ k \in U
    BY <1>2
  <2>2. PICK m \in U : \A x \in U : m <= x
    BY <2>1, FirstPosition, ZenonT(30)
  <2>3. PICK i0 \in DOMAIN peers : peers[i0].id = id
    BY <1>1
  <2>4. m \in ofID(id)
    <3> SUFFICES ASSUME m \notin ofID(id) PROVE FALSE
      BY Zenon
    <3>1. m \in Nat /\ i0 \in ofID(id) /\ i0 <= m /\ i0 >= 1 /\ i0 \in Nat
      BY <1>2, <2>3
    <3>2. m - 1 \in Nat
      BY <3>1
    <3>3. \A j \in ofID(id) : j \in Nat /\ j <= m /\ j # m
      BY <1>2
    <3>4. \A j \in ofID(id) : j <= m - 1
      BY <3>1, <3>3
    <3>5. m - 1 \in U
      BY <3>2, <3>4, Zenon
    <3> QED
      BY <2>2, <3>1, <3>5
  <2>5. \A j \in ofID(id) : j <= m
    BY Zenon
  <2> HIDE DEF U, ofID
  <2> QED
    BY <2>4, <2>5, Zenon
<1>4. ASSUME NEW i \in DOMAIN peers, \A j \in DOMAIN peers \ {i} : peers[j].id # peers[i].id
      PROVE  known[peers[i].id] = peers[i].cidrs
  <2>1. peers[i].id \in DOMAIN known /\ ofID(peers[i].id) = {i}
    BY <1>1, <1>4
  <2>2. last(peers[i].id) = i
    BY <1>3, <2>1, Zenon
  <2> HIDE DEF last, known
  <2> QED
    BY <1>1, <2>1, <2>2, Zenon
<1> HIDE DEF last
<1> QED
  BY <1>1, <1>3, <1>4, Zenon

\* reach: a connected peer that is the only one of its ID, has an IPv4 range and is
\* named by a policy with IPv4 destinations, is not Blocked.
LEMMA SelectedIsOpen ==
  ASSUME NEW s, Derived(s), NEW i \in DOMAIN s.peers, s.peers[i].st.phase = "Connected",
         NEW pol \in s.policies, Destinations(pol) # {},
         NEW ing \in pol.ingress, s.peers[i].id \in ing.clusters,
         keepIPv4(s.peers[i].cidrs) # {},
         \A j \in DOMAIN s.peers \ {i} : s.peers[j].id # s.peers[i].id
  PROVE  Plan(s)[i].status # "Blocked"
<1> DEFINE known == clusterCIDRs(s.peers)
           d == Interpret(Compile(s.policies, known))
           p == s.peers[i]
<1>1. PICK c \in p.cidrs : c \subseteq Addr
  BY Zenon DEF keepIPv4
<1>2. PICK dest : dest \in Destinations(pol)
  BY Zenon
<1>3. p.id \in DOMAIN known /\ known[p.id] = p.cidrs
  <2>1. PeerList(s.peers)
    BY Zenon DEF Derived
  <2>2. DOMAIN known = {s.peers[k].id : k \in DOMAIN s.peers}
    BY ONLY <2>1, KnownRanges, ZenonT(30)
  <2>3. \A k \in DOMAIN s.peers : (\A j \in DOMAIN s.peers \ {k} : s.peers[j].id # s.peers[k].id) =>
            known[s.peers[k].id] = s.peers[k].cidrs
    BY ONLY <2>1, KnownRanges, ZenonT(30)
  <2> HIDE DEF known
  <2>4. p.id \in DOMAIN known
    BY <2>2, Zenon
  <2>5. \A j \in DOMAIN s.peers \ {i} : s.peers[j].id # s.peers[i].id
    BY Zenon
  <2> QED
    BY <2>3, <2>4, <2>5, SMTT(30)
<1>4. c \in Sources(ing, known)
  <2> HIDE DEF known
  <2> QED
    BY <1>1, <1>3, Zenon DEF Sources, keepIPv4
<1>5. PICK ports : ports \in Ports(ing)
  BY ZenonT(30) DEF Ports
<1> HIDE DEF known
<1>6. \E a \in d.accepts : a.src = c /\ a.dst = dest
  <2>1. Stored(s.policies)
    BY ZenonT(30) DEF Derived
  <2>2. \A q \in s.policies : \A i1 \in q.ingress :
            \A src \in Sources(i1, known), dst \in Destinations(q), p1 \in Ports(i1) :
               \E a \in d.accepts : a.src = src /\ a.dst = dst
    BY ONLY <2>1, InterpretPolicies
  <2> QED
    BY ONLY <1>2, <1>4, <1>5, <2>2, pol \in s.policies, ing \in pol.ingress
<1>7. dest \in d.protected
  <2>1. d.protected = ProtectedBy(s.policies)
    BY InterpretProtects, Zenon DEF Derived
  <2> QED
    BY ONLY <1>2, <2>1, pol \in s.policies, SMTT(30) DEF ProtectedBy
<1>8. peerAllowed(p.cidrs, d.accepts, dest)
  BY <1>1, <1>6, ZenonT(30) DEF peerAllowed
<1>9. /\ Plan(s)[i].open = OpenTo(p.cidrs, d)
      /\ \/ Plan(s)[i].status = "Degraded"
         \/ Plan(s)[i].status = IF d.protected # {} /\ Plan(s)[i].open = {} THEN "Blocked" ELSE "Reachable"
  <2>1. d = Interpret(Compile(s.policies, clusterCIDRs(s.peers)))
    BY Zenon DEF known
  <2> HIDE DEF d
  <2> QED
    <3>1. Planned(s, i, d)
      BY <2>1, PlanStatus, Zenon
    <3> HIDE DEF p
    <3> QED
      BY ONLY <3>1, s.peers[i].st.phase = "Connected" DEF Planned, p
<1> QED
  BY ONLY <1>7, <1>8, <1>9, Zenon DEF OpenTo

\* meshgraph: an allows edge comes from a selector of the policy it names.
LEMMA AllowsEdge ==
  ASSUME NEW s, NEW e \in Graph(s).edges, e.kind = "allows"
  PROVE  \E p \in s.policies : e.policy = p.name /\ \E ing \in p.ingress : e.from \in ing.clusters
<1>1. \A x \in peerings(s) : x.kind = "peering"
  BY DEF peerings, Edge
<1>2. \A x \in UNION {addImport(im) : im \in s.imports} : x.kind \in {"imports", "serves"}
  <2>1. \A im \in s.imports : \A x \in addImport(im) : x.kind \in {"imports", "serves"}
    BY DEF addImport, Edge
  <2> QED
    BY <2>1, Zenon
<1>3. \A x \in UNION {addExport(ex) : ex \in s.exports} : x.kind = "exports"
  <2>1. \A ex \in s.exports : \A x \in addExport(ex) : x.kind = "exports"
    BY DEF addExport, Edge
  <2> QED
    BY <2>1, Zenon
<1>4. e \in UNION {addPolicy(p) : p \in s.policies}
  <2> DEFINE ims == UNION {addImport(im) : im \in s.imports}
             exs == UNION {addExport(ex) : ex \in s.exports}
             pols == UNION {addPolicy(p) : p \in s.policies}
  <2>1. Graph(s).edges = peerings(s) \cup ims \cup exs \cup pols
    BY ZenonT(30) DEF Graph
  <2> HIDE DEF ims, exs, pols
  <2>2. e \in peerings(s) \/ e \in ims \/ e \in exs \/ e \in pols
    BY <2>1, Zenon
  <2>3. e \notin peerings(s)
    BY <1>1, Zenon
  <2>4. e \notin ims
    BY <1>2, Zenon DEF ims
  <2>5. e \notin exs
    BY <1>3, Zenon DEF exs
  <2> QED
    BY <2>2, <2>3, <2>4, <2>5, Zenon DEF pols
<1>5. PICK p \in s.policies : e \in addPolicy(p)
  BY <1>4, Zenon
<1>6. PICK c \in UNION {ing.clusters : ing \in p.ingress} : e = Edge(c, LocalNodeID, "allows", p.name)
  BY <1>5, SMTT(30) DEF addPolicy
<1> QED
  BY <1>6, Zenon DEF Edge

\* The reports of one snapshot agree: slo with diagnose, meshgraph with reach, and the
\* selectors of the policies with the rules they are compiled to.
THEOREM ReportsDoAgree == Spec => []ReportsAgree
<1>1. ASSUME SnapInv, Printed, NEW i \in DOMAIN snap.peers
      PROVE  LET g == Graph(snap)
                 guards(name) == \E pol \in snap.policies : pol.name = name /\ Destinations(pol) # {}
                 allowed == {e.from : e \in {f \in g.edges : f.kind = "allows" /\ guards(f.policy)}}
                 p == snap.peers[i] status == Plan(snap)[i].status IN
             /\ Bad(i) /\ ~snap.observed[i].probed => p.id \in Named
             /\ p.st.phase = "Connected" =>
                   /\ (status = "Degraded") = (p.id \in g.conflict)
                   /\ p.id \in allowed /\ keepIPv4(p.cidrs) # {} /\ Unambiguous(i) => status # "Blocked"
  <2> DEFINE p == snap.peers[i]
             status == Plan(snap)[i].status
             guards(name) == \E pol \in snap.policies : pol.name = name /\ Destinations(pol) # {}
             allowed == {e.from : e \in {f \in Graph(snap).edges : f.kind = "allows" /\ guards(f.policy)}}
  <2>1. Derived(snap)
    BY <1>1, PrintedDerived, Zenon
  <2>2. Bad(i) /\ ~snap.observed[i].probed => p.id \in Named
    <3>1. Bad(i) /\ ~snap.observed[i].probed =>
              \E f \in Diagnose(snap) : f.severity # "info" /\ f.about = snap.peers[i].id
      BY <2>1, BadIsNamed, Zenon DEF Bad
    <3> QED
      BY <3>1, SMTT(30) DEF Named
  <2>3. ASSUME p.st.phase = "Connected" PROVE (status = "Degraded") = (p.id \in Graph(snap).conflict)
    <3>1. p.id # Unset
      BY <2>1, PeerOf, Zenon
    <3>2. p.id \in Graph(snap).conflict <=> \E c \in snap.conflicts : c.id = p.id
      BY <3>1, Zenon DEF Graph, conflictClusters
    <3>3. (status = "Degraded") <=> \E c \in snap.conflicts : c.id = p.id
      BY <2>3, PlanStatus, Zenon DEF Planned
    <3> QED
      BY <3>2, <3>3
  <2>4. ASSUME p.st.phase = "Connected", p.id \in allowed, keepIPv4(p.cidrs) # {}, Unambiguous(i)
        PROVE  status # "Blocked"
    <3>1. PICK e \in Graph(snap).edges : e.kind = "allows" /\ guards(e.policy) /\ e.from = p.id
      BY <2>4, Zenon
    <3>2. PICK pol \in snap.policies : e.policy = pol.name /\ \E ing \in pol.ingress : e.from \in ing.clusters
      BY <3>1, AllowsEdge, Zenon
    <3>3. Destinations(pol) # {}
      BY <2>1, <3>1, <3>2, Zenon DEF Derived
    <3>4. PICK ing \in pol.ingress : p.id \in ing.clusters
      BY <3>1, <3>2, Zenon
    <3>5. \A j \in DOMAIN snap.peers \ {i} : snap.peers[j].id # snap.peers[i].id
      BY <2>4, ZenonT(30) DEF Unambiguous
    <3> QED
      BY <2>1, <2>4, <3>3, <3>4, <3>5, SelectedIsOpen, ZenonT(30)
  <2> HIDE DEF status, allowed
  <2> QED
    BY <2>2, <2>3, <2>4, Zenon DEF status, allowed
<1>2. SnapInv => ReportsAgree
  BY <1>1, ZenonT(30) DEF ReportsAgree
<1> QED
  BY <1>2, ImpactInit, ImpactStep, SnapInit, SnapStep, PTL DEF Spec
=============================================================================
