------------------------ MODULE AgentDataPlaneProofs ------------------------
(***************************************************************************)
(* The WireGuard manager never orphans a host route, and whichever manager *)
(* an agent selects implements PeerDataPlane, for every set of keys, CIDRs *)
(* and hops and every failing call, provided that deleting a route does    *)
(* not fail.                                                               *)
(***************************************************************************)
EXTENDS AgentDataPlane, MeshPeerProofs

\* Whatever a call does, the data plane is one afterwards.
LEMMA NextTyped ==
  ASSUME ManagerTypeOK, ManagerNext
  PROVE  ManagerTypeOK'
<1>1. ASSUME NEW k \in Key, NEW C \in SUBSET Cidr, dp' \in ConfigurePeerOk(dp, k, C)
      PROVE  ManagerTypeOK'
  BY <1>1, ConfigureOkShape, Zenon DEF ManagerTypeOK, Reconfigured
<1>2. ASSUME NEW k \in Key, NEW C \in SUBSET Cidr, dp' \in ConfigurePeerFail(dp, k, C)
      PROVE  ManagerTypeOK'
  BY <1>2, ConfigureFailShape, Zenon DEF ManagerTypeOK
<1>3. ASSUME NEW k \in Key, dp' \in RemovePeerOk(dp, k)
      PROVE  ManagerTypeOK'
  BY <1>3, RemoveOkShape, Zenon DEF ManagerTypeOK
<1>4. ASSUME NEW k \in Key, dp' \in RemovePeerFail(dp, k)
      PROVE  ManagerTypeOK'
  BY <1>4, RemoveFailShape, Zenon DEF ManagerTypeOK
<1> QED
  BY <1>1, <1>2, <1>3, <1>4, Zenon DEF ManagerNext, ConfigurePeer, RemovePeer

\* The data plane stays well typed under every sequence of calls and failures.
THEOREM ManagerTypeCorrect == ManagerSpec => []ManagerTypeOK
<1>1. ManagerInit => ManagerTypeOK
  BY EmptyType, Zenon DEF ManagerInit, ManagerTypeOK
<1>2. ManagerTypeOK /\ [ManagerNext]_dp => ManagerTypeOK'
  BY NextTyped, Zenon DEF ManagerTypeOK
<1> QED
  BY <1>1, <1>2, PTL DEF ManagerSpec

-----------------------------------------------------------------------------
\* When routes can be deleted, each outcome of a call is a step PeerDataPlane
\* allows: the bookkeeping plays the part of what is programmed.
LEMMA ConfigureOkStep ==
  ASSUME ManagerTypeOK, RoutesTracked, ~LossyDelete,
         NEW k \in Key, NEW C \in SUBSET Cidr, dp' \in ConfigurePeerOk(dp, k, C)
  PROVE  Abs!Configured(k, C)
<1>s. Reconfigured(dp, k, C, dp')
  BY ConfigureOkShape, Zenon DEF ManagerTypeOK
<1>1. /\ dp \in DataPlane
      /\ dp' \in DataPlane
      /\ dp'.peerRoutes = [dp.peerRoutes EXCEPT ![k] = C]
  BY <1>s, Zenon DEF ManagerTypeOK, Reconfigured
<1>2. /\ dp'.routes \subseteq dp.routes \cup C
      /\ (dp.routes \cup C) \ (dp.peerRoutes[k] \ C) \subseteq dp'.routes
      /\ dp'.routes \cap (dp.peerRoutes[k] \ C) = {}
  BY <1>s, Zenon DEF Reconfigured
<1>3. ASSUME NEW c \in dp'.routes
      PROVE  c \in (dp.routes \cup C) /\ \E j \in Key : c \in dp'.peerRoutes[j]
  <2>1. c \in dp.routes \cup C /\ c \notin dp.peerRoutes[k] \ C
    BY <1>2, Zenon
  <2>2. CASE c \in C
    <3>1. dp'.peerRoutes[k] = C
      BY <1>1, Zenon DEF DataPlane
    <3> QED
      BY <2>1, <2>2, <3>1, Zenon
  <2>3. CASE c \notin C
    <3>1. PICK j \in Key : c \in dp.peerRoutes[j]
      BY <2>1, <2>3, Zenon DEF RoutesTracked
    <3>2. j # k
      BY <2>1, <2>3, <3>1, Zenon
    <3>3. dp'.peerRoutes[j] = dp.peerRoutes[j]
      BY <1>1, <3>2, Zenon DEF DataPlane
    <3> QED
      BY <2>1, <3>1, <3>3, Zenon
  <2> QED
    BY <2>2, <2>3, Zenon
<1> QED
  BY <1>1, <1>2, <1>3, Zenon DEF Abs!Configured, Abs!Owned, Abs!Spares

\* A failed ConfigurePeer is a failed call of PeerDataPlane.
LEMMA ConfigureFailStep ==
  ASSUME ManagerTypeOK, ~LossyDelete,
         NEW k \in Key, NEW C \in SUBSET Cidr, dp' \in ConfigurePeerFail(dp, k, C)
  PROVE  Abs!Failed(k, C)
  BY ConfigureFailShape DEF ManagerTypeOK, Abs!Failed, Abs!Spares

\* A successful RemovePeer withdraws the routes nobody else records.
LEMMA RemoveOkStep ==
  ASSUME ManagerTypeOK, RoutesTracked, ~LossyDelete,
         NEW k \in Key, dp' \in RemovePeerOk(dp, k)
  PROVE  Abs!Removed(k)
<1>1. /\ dp \in DataPlane
      /\ dp' \in DataPlane
      /\ dp'.peerRoutes = [dp.peerRoutes EXCEPT ![k] = {}]
  BY RemoveOkShape DEF ManagerTypeOK
<1>2. /\ dp'.routes \subseteq dp.routes
      /\ dp.routes \ dp.peerRoutes[k] \subseteq dp'.routes
      /\ dp'.routes \cap dp.peerRoutes[k] = {}
  BY RemoveOkShape, Zenon DEF ManagerTypeOK
<1>3. ASSUME NEW c \in dp'.routes
      PROVE  \E j \in Key : c \in dp'.peerRoutes[j]
  <2>1. PICK j \in Key : c \in dp.peerRoutes[j]
    BY <1>2, Zenon DEF RoutesTracked
  <2>2. j # k
    BY <1>2, <2>1, Zenon
  <2>3. dp'.peerRoutes[j] = dp.peerRoutes[j]
    BY <1>1, <2>2, Zenon DEF DataPlane
  <2> QED
    BY <2>1, <2>3, Zenon
<1> QED
  BY <1>1, <1>2, <1>3, Zenon DEF Abs!Removed, Abs!Owned, Abs!Spares

\* A failed RemovePeer changes neither routes nor bookkeeping.
LEMMA RemoveFailStep ==
  ASSUME ManagerTypeOK, NEW k \in Key, dp' \in RemovePeerFail(dp, k)
  PROVE  Abs!Failed(k, {})
  BY RemoveFailShape, Zenon DEF ManagerTypeOK, Abs!Failed, Abs!Spares

\* Every step of the manager is a step of PeerDataPlane.
LEMMA StepRefines ==
  ASSUME ManagerTypeOK, RoutesTracked, ~LossyDelete, ManagerNext
  PROVE  Abs!Next
<1>1. ASSUME NEW k \in Key, NEW C \in SUBSET Cidr, dp' \in ConfigurePeerOk(dp, k, C)
      PROVE  Abs!Next
  BY <1>1, ConfigureOkStep, Zenon DEF Abs!Next
<1>2. ASSUME NEW k \in Key, NEW C \in SUBSET Cidr, dp' \in ConfigurePeerFail(dp, k, C)
      PROVE  Abs!Next
  BY <1>2, ConfigureFailStep, Zenon DEF Abs!Next
<1>3. ASSUME NEW k \in Key, dp' \in RemovePeerOk(dp, k)
      PROVE  Abs!Next
  BY <1>3, RemoveOkStep, Zenon DEF Abs!Next
<1>4. ASSUME NEW k \in Key, dp' \in RemovePeerFail(dp, k)
      PROVE  Abs!Next
  <2>1. {} \in SUBSET Cidr
    BY Zenon
  <2> QED
    BY <1>4, <2>1, RemoveFailStep, Zenon DEF Abs!Next
<1> QED
  BY <1>1, <1>2, <1>3, <1>4, Zenon DEF ManagerNext, ConfigurePeer, RemovePeer

\* A step of PeerDataPlane keeps every route accounted for.
LEMMA AbsTracked ==
  ASSUME RoutesTracked, Abs!Next
  PROVE  RoutesTracked'
<1>1. PICK k \in Key : \/ Abs!Removed(k)
                       \/ \E C \in SUBSET Cidr : Abs!Configured(k, C) \/ Abs!Failed(k, C)
  BY Zenon DEF Abs!Next
<1> QED
  BY <1>1, Zenon DEF Abs!Removed, Abs!Configured, Abs!Failed, Abs!Owned, RoutesTracked

\* "Never orphans entries in the host routing table": as long as RouteDel works,
\* every host route stays in some peer's bookkeeping, whatever calls fail.
THEOREM NeverOrphans ==
  ASSUME ~LossyDelete
  PROVE  ManagerSpec => []RoutesTracked
<1>1. ManagerInit => RoutesTracked
  BY DEF ManagerInit, RoutesTracked, EmptyDataPlane
<1>2. ManagerTypeOK /\ RoutesTracked /\ [ManagerNext]_dp => RoutesTracked'
  <2> SUFFICES ASSUME ManagerTypeOK, RoutesTracked, [ManagerNext]_dp PROVE RoutesTracked'
    BY Zenon
  <2>1. CASE UNCHANGED dp
    BY <2>1, Zenon DEF RoutesTracked
  <2>2. CASE ManagerNext
    BY <2>2, StepRefines, AbsTracked, Zenon
  <2> QED
    BY <2>1, <2>2, Zenon
<1> QED
  BY <1>1, <1>2, ManagerTypeCorrect, PTL DEF ManagerSpec

\* As long as RouteDel works, the WireGuard manager is a PeerDataPlane: a call
\* for one peer touches that peer's routes only, and no call orphans a route.
THEOREM Refinement ==
  ASSUME ~LossyDelete
  PROVE  ManagerSpec => ImplementsPeerDataPlane
<1>1. ManagerInit => Abs!Init
  BY DEF ManagerInit, EmptyDataPlane, Abs!Init
<1>2. ManagerTypeOK /\ RoutesTracked /\ [ManagerNext]_dp => [Abs!Next]_<<dp.peerRoutes, dp.routes>>
  <2>1. UNCHANGED dp => UNCHANGED <<dp.peerRoutes, dp.routes>>
    BY Zenon
  <2> QED
    BY <2>1, StepRefines, Zenon
<1> QED
  BY <1>1, <1>2, ManagerTypeCorrect, NeverOrphans, PTL DEF ManagerSpec, ImplementsPeerDataPlane, Abs!Spec

-----------------------------------------------------------------------------
(***************************************************************************)
(* The routed manager.                                                     *)
(***************************************************************************)
\* Every route of the table is recorded for some peer, with its next hop.
RoutedInv ==
    /\ table \in [Cidr -> Hop \cup {NoHop}]
    /\ peerRoutes \in [Key -> SUBSET R!Route]
    /\ \A c \in Cidr : table[c] # NoHop =>
          \E k \in Key : \E r \in peerRoutes[k] : r.dest = c /\ r.via = table[c]

\* What PlanRoutes desires for a call: one route per CIDR, through the one hop.
LEMMA PlannedRoutes ==
  ASSUME NEW C \in SUBSET Cidr, NEW v \in Hop
  PROVE  /\ R!PlanRoutes(C, v) \subseteq R!Route
         /\ \A r \in R!PlanRoutes(C, v) : r.dest \in C /\ r.via = v
         /\ \A c \in C : [dest |-> c, via |-> v] \in R!PlanRoutes(C, v)
         /\ \A r \in R!Route : r.dest \in C /\ r.via = v => r \in R!PlanRoutes(C, v)
<1>1. ASSUME NEW r \in R!Route, r.dest \in C, r.via = v PROVE r = [dest |-> r.dest, via |-> v]
  BY <1>1, Zenon DEF R!Route
<1> QED
  BY <1>1 DEF R!PlanRoutes, R!Route

\* Replacing routes that all go through v.
LEMMA ReplacedTable ==
  ASSUME NEW t \in [Cidr -> Hop \cup {NoHop}], NEW C \in SUBSET Cidr, NEW v \in Hop,
         NEW S \in SUBSET R!PlanRoutes(C, v)
  PROVE  /\ R!Replace(t, S) \in [Cidr -> Hop \cup {NoHop}]
         /\ \A r \in S : R!Replace(t, S)[r.dest] = v
         /\ \A c \in Cidr : (\A r \in S : r.dest # c) => R!Replace(t, S)[c] = t[c]
<1>1. ASSUME NEW c \in Cidr, \E r \in S : r.dest = c
      PROVE  (CHOOSE r \in S : r.dest = c).via = v
  BY <1>1, PlannedRoutes, Zenon
<1>2. \A r \in S : r.dest \in Cidr
  BY PlannedRoutes, Zenon
<1> QED
  BY <1>1, <1>2 DEF R!Replace

\* Deleting routes spares a destination that goes through another hop.
LEMMA DeletedTable ==
  ASSUME NEW t \in [Cidr -> Hop \cup {NoHop}], NEW S \in SUBSET R!Route
  PROVE  /\ R!deleteRoutes(t, S) \in [Cidr -> Hop \cup {NoHop}]
         /\ \A c \in Cidr : (\E r \in S : r.dest = c /\ r.via = t[c])
                                => R!deleteRoutes(t, S)[c] = NoHop
         /\ \A c \in Cidr : (\A r \in S : ~(r.dest = c /\ r.via = t[c]))
                                => R!deleteRoutes(t, S)[c] = t[c]
  BY Zenon DEF R!deleteRoutes

\* A successful call puts its routes in and takes out those the peer alone had.
LEMMA RoutedConfigured ==
  ASSUME RoutedInv, ~LossyDelete, NEW k \in Key, NEW C \in SUBSET Cidr, NEW v \in Hop,
         R!ConfigureOk(k, C, v)
  PROVE  /\ RoutedInv'
         /\ peerRoutes' = [peerRoutes EXCEPT ![k] = R!PlanRoutes(C, v)]
         /\ \A c \in C : table'[c] # NoHop
         /\ \A c \in Cidr \ C : table'[c] \in {table[c], NoHop}
         /\ \A c \in Cidr \ C : (\A r \in peerRoutes[k] : r.dest # c) => table'[c] = table[c]
<1> DEFINE desired == R!PlanRoutes(C, v)
           gone == peerRoutes[k] \ desired
           t == R!Replace(table, desired)
<1>1. table' = R!deleteRoutes(t, gone) /\ peerRoutes' = [peerRoutes EXCEPT ![k] = desired]
  BY Zenon DEF R!ConfigureOk, R!Deleted
<1>2. /\ desired \subseteq R!Route
      /\ \A r \in desired : r.dest \in C /\ r.via = v
      /\ \A c \in C : [dest |-> c, via |-> v] \in desired
      /\ \A r \in R!Route : r.dest \in C /\ r.via = v => r \in desired
  BY PlannedRoutes, Zenon
<1>3. /\ t \in [Cidr -> Hop \cup {NoHop}]
      /\ \A c \in C : t[c] = v
      /\ \A c \in Cidr \ C : t[c] = table[c]
  <2>1. /\ t \in [Cidr -> Hop \cup {NoHop}]
        /\ \A r \in desired : t[r.dest] = v
        /\ \A c \in Cidr : (\A r \in desired : r.dest # c) => t[c] = table[c]
    BY ReplacedTable DEF RoutedInv
  <2> QED
    BY <1>2, <2>1, Zenon
<1>4. gone \in SUBSET R!Route /\ gone \subseteq peerRoutes[k] /\ gone \cap desired = {}
  BY Zenon DEF RoutedInv
<1> HIDE DEF desired, t
<1>5. /\ table' \in [Cidr -> Hop \cup {NoHop}]
      /\ \A c \in Cidr : (\E r \in gone : r.dest = c /\ r.via = t[c]) => table'[c] = NoHop
      /\ \A c \in Cidr : (\A r \in gone : ~(r.dest = c /\ r.via = t[c])) => table'[c] = t[c]
  BY <1>1, <1>3, <1>4, DeletedTable
<1>6. \A c \in C : table'[c] = v
  BY <1>2, <1>3, <1>4, <1>5, Zenon
<1>7. \A c \in Cidr \ C : table'[c] \in {table[c], NoHop}
  BY <1>3, <1>5, Zenon
<1>8. \A c \in Cidr \ C : (\A r \in peerRoutes[k] : r.dest # c) => table'[c] = table[c]
  BY <1>3, <1>4, <1>5, Zenon
<1>9. peerRoutes' \in [Key -> SUBSET R!Route]
  BY <1>1, <1>2, Zenon DEF RoutedInv
<1>10. ASSUME NEW c \in Cidr, table'[c] # NoHop
       PROVE  \E j \in Key : \E r \in peerRoutes'[j] : r.dest = c /\ r.via = table'[c]
  <2>1. CASE c \in C
    <3>1. [dest |-> c, via |-> v] \in peerRoutes'[k]
      BY <1>1, <1>2, <2>1, Zenon DEF RoutedInv
    <3> QED
      BY <1>6, <2>1, <3>1, Zenon
  <2>2. CASE c \notin C
    <3>1. table'[c] = table[c]
      BY <1>7, <1>10, <2>2, Zenon
    <3>2. PICK j \in Key : \E r \in peerRoutes[j] : r.dest = c /\ r.via = table[c]
      BY <1>10, <3>1, Zenon DEF RoutedInv
    <3>3. j # k
      <4>1. SUFFICES ASSUME j = k PROVE FALSE
        BY Zenon
      <4>2. PICK r \in peerRoutes[k] : r.dest = c /\ r.via = table[c]
        BY <3>2, <4>1, Zenon
      <4>3. r \in gone
        BY <1>2, <2>2, <4>2, Zenon
      <4> QED
        BY <1>3, <1>5, <1>10, <2>2, <4>2, <4>3
    <3>4. peerRoutes'[j] = peerRoutes[j]
      BY <1>1, <3>3, Zenon DEF RoutedInv
    <3> QED
      BY <3>1, <3>2, <3>4, Zenon
  <2> QED
    BY <2>1, <2>2, Zenon
<1>11. v # NoHop
  BY HopAssumption, Zenon
<1> QED
  BY <1>1, <1>5, <1>6, <1>7, <1>8, <1>9, <1>10, <1>11, Zenon DEF RoutedInv, desired

\* A failed call deletes again what it had put in, and records nothing.
LEMMA RoutedFailed ==
  ASSUME RoutedInv, ~LossyDelete, NEW k \in Key, NEW C \in SUBSET Cidr, NEW v \in Hop,
         R!ConfigureFail(k, C, v)
  PROVE  /\ RoutedInv'
         /\ peerRoutes' = peerRoutes
         /\ \A c \in Cidr : table'[c] \in {table[c], NoHop}
         /\ \A c \in Cidr \ C : table'[c] = table[c]
<1>1. CASE UNCHANGED table
  BY <1>1, Zenon DEF R!ConfigureFail, RoutedInv
<1>2. CASE table' # table
  <2>1. PICK S \in SUBSET R!PlanRoutes(C, v) :
            table' = R!deleteRoutes(R!Replace(table, S), S)
    BY <1>2, Zenon DEF R!ConfigureFail, R!Deleted
  <2> DEFINE t == R!Replace(table, S)
  <2>2. /\ t \in [Cidr -> Hop \cup {NoHop}]
        /\ \A r \in S : t[r.dest] = v
        /\ \A c \in Cidr : (\A r \in S : r.dest # c) => t[c] = table[c]
    <3>1. table \in [Cidr -> Hop \cup {NoHop}]
      BY Zenon DEF RoutedInv
    <3> QED
      BY <3>1, ReplacedTable
  <2>3. S \in SUBSET R!Route /\ \A r \in S : r.dest \in C /\ r.via = v
    BY PlannedRoutes, Zenon
  <2> HIDE DEF t
  <2>4. /\ table' \in [Cidr -> Hop \cup {NoHop}]
        /\ \A c \in Cidr : (\E r \in S : r.dest = c /\ r.via = t[c]) => table'[c] = NoHop
        /\ \A c \in Cidr : (\A r \in S : ~(r.dest = c /\ r.via = t[c])) => table'[c] = t[c]
    BY <2>1, <2>2, <2>3, DeletedTable, Zenon DEF t
  <2>5. \A c \in Cidr : table'[c] = IF \E r \in S : r.dest = c THEN NoHop ELSE table[c]
    BY <2>2, <2>3, <2>4
  <2>6. peerRoutes' = peerRoutes
    BY Zenon DEF R!ConfigureFail
  <2> QED
    BY <2>3, <2>4, <2>5, <2>6 DEF RoutedInv
<1> QED
  BY <1>1, <1>2, Zenon

\* RemovePeer takes out the routes that still are as the peer's record has them.
LEMMA RoutedRemoved ==
  ASSUME RoutedInv, ~LossyDelete, NEW k \in Key, R!RemovePeer(k)
  PROVE  /\ RoutedInv'
         /\ peerRoutes' = [peerRoutes EXCEPT ![k] = {}]
         /\ \A c \in Cidr : table'[c] \in {table[c], NoHop}
         /\ \A c \in Cidr : (\A r \in peerRoutes[k] : r.dest # c) => table'[c] = table[c]
<1> DEFINE gone == peerRoutes[k]
<1>1. table' = R!deleteRoutes(table, gone) /\ peerRoutes' = [peerRoutes EXCEPT ![k] = {}]
  BY Zenon DEF R!RemovePeer, R!Deleted
<1>2. gone \in SUBSET R!Route /\ table \in [Cidr -> Hop \cup {NoHop}]
  BY Zenon DEF RoutedInv
<1>3. /\ table' \in [Cidr -> Hop \cup {NoHop}]
      /\ \A c \in Cidr : (\E r \in gone : r.dest = c /\ r.via = table[c]) => table'[c] = NoHop
      /\ \A c \in Cidr : (\A r \in gone : ~(r.dest = c /\ r.via = table[c]))
                             => table'[c] = table[c]
  BY <1>1, <1>2, DeletedTable, Zenon
<1>4. ASSUME NEW c \in Cidr, table'[c] # NoHop
      PROVE  \E j \in Key : \E r \in peerRoutes'[j] : r.dest = c /\ r.via = table'[c]
  <2>1. table'[c] = table[c]
    BY <1>3, <1>4, Zenon
  <2>2. PICK j \in Key : \E r \in peerRoutes[j] : r.dest = c /\ r.via = table[c]
    BY <1>4, <2>1, Zenon DEF RoutedInv
  <2>3. j # k
    BY <1>3, <1>4, <2>2, Zenon
  <2>4. peerRoutes'[j] = peerRoutes[j]
    BY <1>1, <2>3, Zenon DEF RoutedInv
  <2> QED
    BY <2>1, <2>2, <2>4, Zenon
<1>5. peerRoutes' \in [Key -> SUBSET R!Route]
  BY <1>1, Zenon DEF RoutedInv
<1> QED
  BY <1>1, <1>3, <1>4, <1>5 DEF RoutedInv

\* Every step of the routed manager is a step of PeerDataPlane.
LEMMA RoutedRefines ==
  ASSUME RoutedInv, ~LossyDelete, R!Next, mode = "routed", mode' = mode
  PROVE  RoutedInv' /\ AgentAbs!Next
<1>1. ASSUME NEW k \in Key, NEW C \in SUBSET Cidr, NEW v \in Hop, R!ConfigureOk(k, C, v)
      PROVE  RoutedInv' /\ AgentAbs!Configured(k, C)
  <2>1. /\ RoutedInv'
        /\ peerRoutes' = [peerRoutes EXCEPT ![k] = R!PlanRoutes(C, v)]
        /\ \A c \in C : table'[c] # NoHop
        /\ \A c \in Cidr \ C : table'[c] \in {table[c], NoHop}
        /\ \A c \in Cidr \ C : (\A r \in peerRoutes[k] : r.dest # c) => table'[c] = table[c]
    BY <1>1, RoutedConfigured, Zenon
  <2>2. {r.dest : r \in R!PlanRoutes(C, v)} = C
    <3>1. \A c \in C : [dest |-> c, via |-> v].dest = c
      BY Zenon
    <3>2. \A r \in R!PlanRoutes(C, v) : r.dest \in C
      BY PlannedRoutes, Zenon
    <3>3. \A c \in C : \E r \in R!PlanRoutes(C, v) : c = r.dest
      BY <3>1, PlannedRoutes, Zenon
    <3> QED
      BY <3>2, <3>3, Zenon
  <2>3. R!Destinations' = [R!Destinations EXCEPT ![k] = C]
    BY <2>1, <2>2, Zenon DEF R!Destinations, RoutedInv
  <2>4. C \subseteq R!Routed' /\ R!Routed' \subseteq R!Routed \cup C
    BY <2>1, Zenon DEF R!Routed
  <2>5. R!Routed' \subseteq AgentAbs!Owned(R!Destinations')
    BY <2>1 DEF RoutedInv, R!Routed, R!Destinations, AgentAbs!Owned
  <2>6. R!Routed \ (R!Destinations[k] \cup C) \subseteq R!Routed'
    BY <2>1, Zenon DEF R!Routed, R!Destinations
  <2> QED
    BY <2>1, <2>3, <2>4, <2>5, <2>6 DEF AgentAbs!Configured, AgentAbs!Spares, AgentAbs!Owned
<1>2. ASSUME NEW k \in Key, NEW C \in SUBSET Cidr, NEW v \in Hop, R!ConfigureFail(k, C, v)
      PROVE  RoutedInv' /\ AgentAbs!Failed(k, C)
  <2>1. /\ RoutedInv'
        /\ peerRoutes' = peerRoutes
        /\ \A c \in Cidr : table'[c] \in {table[c], NoHop}
        /\ \A c \in Cidr \ C : table'[c] = table[c]
    BY <1>2, RoutedFailed, Zenon
  <2>2. R!Destinations' = R!Destinations
    BY <2>1, Zenon DEF R!Destinations
  <2>3. R!Routed' \subseteq R!Routed /\ R!Routed \ C \subseteq R!Routed'
    BY <2>1, Zenon DEF R!Routed
  <2> QED
    BY <2>1, <2>2, <2>3, Zenon DEF AgentAbs!Failed, AgentAbs!Spares
<1>3. ASSUME NEW k \in Key, R!RemovePeer(k)
      PROVE  RoutedInv' /\ AgentAbs!Removed(k)
  <2>1. /\ RoutedInv'
        /\ peerRoutes' = [peerRoutes EXCEPT ![k] = {}]
        /\ \A c \in Cidr : table'[c] \in {table[c], NoHop}
        /\ \A c \in Cidr : (\A r \in peerRoutes[k] : r.dest # c) => table'[c] = table[c]
    BY <1>3, RoutedRemoved, Zenon
  <2>2. R!Destinations' = [R!Destinations EXCEPT ![k] = {}]
    <3>1. peerRoutes'[k] = {} /\ \A j \in Key : j # k => peerRoutes'[j] = peerRoutes[j]
      BY <2>1 DEF RoutedInv
    <3>2. {r.dest : r \in peerRoutes'[k]} = {}
      BY <3>1, Zenon
    <3>3. \A j \in Key : j # k => {r.dest : r \in peerRoutes'[j]} = {r.dest : r \in peerRoutes[j]}
      BY <3>1, Zenon
    <3> QED
      BY <3>2, <3>3, Zenon DEF R!Destinations
  <2>3. R!Routed' \subseteq R!Routed
    BY <2>1, Zenon DEF R!Routed
  <2>4. R!Routed' \subseteq AgentAbs!Owned(R!Destinations')
    BY <2>1 DEF RoutedInv, R!Routed, R!Destinations, AgentAbs!Owned
  <2>5. R!Routed \ R!Destinations[k] \subseteq R!Routed'
    BY <2>1, Zenon DEF R!Routed, R!Destinations
  <2> QED
    BY <2>1, <2>2, <2>3, <2>4, <2>5, Zenon DEF AgentAbs!Removed, AgentAbs!Spares, AgentAbs!Owned
<1> QED
  BY <1>1, <1>2, <1>3, Zenon DEF R!Next, R!ConfigurePeer, AgentAbs!Next

-----------------------------------------------------------------------------
\* What the selected manager keeps.
AgentInv ==
    IF mode = "wireguard" THEN ManagerTypeOK /\ RoutesTracked ELSE mode = "routed" /\ RoutedInv

\* In WireGuard mode the reconciler sees the WireGuard manager.
LEMMA WireGuardSeen ==
  ASSUME mode = "wireguard", mode' = mode, Abs!Next
  PROVE  AgentAbs!Next
<1>1. ASSUME NEW k \in Key, Abs!Removed(k) PROVE AgentAbs!Removed(k)
  BY <1>1, Zenon DEF Abs!Removed, Abs!Spares, Abs!Owned,
              AgentAbs!Removed, AgentAbs!Spares, AgentAbs!Owned
<1>2. ASSUME NEW k \in Key, NEW C \in SUBSET Cidr, Abs!Configured(k, C)
      PROVE  AgentAbs!Configured(k, C)
  BY <1>2, Zenon DEF Abs!Configured, Abs!Spares, Abs!Owned,
              AgentAbs!Configured, AgentAbs!Spares, AgentAbs!Owned
<1>3. ASSUME NEW k \in Key, NEW C \in SUBSET Cidr, Abs!Failed(k, C)
      PROVE  AgentAbs!Failed(k, C)
  BY <1>3, Zenon DEF Abs!Failed, Abs!Spares, AgentAbs!Failed, AgentAbs!Spares
<1> QED
  BY <1>1, <1>2, <1>3, Zenon DEF Abs!Next, AgentAbs!Next

\* As long as routes can be deleted, the reconciler is served a PeerDataPlane by the
\* manager selectPeerDataPlane built, be it pkg/wg's or pkg/routed's: a call for one
\* peer touches that peer's routes only, and no call orphans a route.
THEOREM AgentRefinement ==
  ASSUME ~LossyDelete
  PROVE  AgentSpec => AgentImplementsPeerDataPlane
<1>1. selectPeerDataPlane => AgentInv /\ AgentAbs!Init
  <2> SUFFICES ASSUME selectPeerDataPlane PROVE AgentInv /\ AgentAbs!Init
    BY Zenon
  <2>1. ManagerTypeOK /\ RoutesTracked
    BY EmptyType, Zenon DEF selectPeerDataPlane, ManagerInit, ManagerTypeOK, RoutesTracked, EmptyDataPlane
  <2>2. RoutedInv
    BY Zenon DEF selectPeerDataPlane, R!Init, RoutedInv
  <2>3. dp.peerRoutes = [k \in Key |-> {}] /\ dp.routes = {}
    BY Zenon DEF selectPeerDataPlane, ManagerInit, EmptyDataPlane
  <2>4. R!Destinations = [k \in Key |-> {}] /\ R!Routed = {}
    BY Zenon DEF selectPeerDataPlane, R!Init, R!Destinations, R!Routed
  <2> QED
    BY <2>1, <2>2, <2>3, <2>4, Zenon DEF selectPeerDataPlane, AgentInv, AgentAbs!Init
<1> DEFINE seen == <<IF mode = "wireguard" THEN dp.peerRoutes ELSE R!Destinations,
                     IF mode = "wireguard" THEN dp.routes ELSE R!Routed>>
<1>2. AgentInv /\ [Step]_agentVars => AgentInv' /\ [AgentAbs!Next]_seen
  <2> SUFFICES ASSUME AgentInv, [Step]_agentVars PROVE AgentInv' /\ [AgentAbs!Next]_seen
    BY Zenon
  <2>1. CASE UNCHANGED agentVars
    BY <2>1, Zenon DEF agentVars, AgentInv, ManagerTypeOK, RoutesTracked, RoutedInv, R!Destinations, R!Routed
  <2>2. CASE mode = "wireguard" /\ ManagerNext /\ UNCHANGED mode
    <3>1. ManagerTypeOK /\ RoutesTracked
      BY <2>2, Zenon DEF AgentInv
    <3>2. Abs!Next
      BY <2>2, <3>1, StepRefines, Zenon
    <3>3. ManagerTypeOK' /\ RoutesTracked'
      BY <2>2, <3>1, <3>2, AbsTracked, NextTyped, Zenon
    <3> QED
      BY <2>2, <3>2, <3>3, WireGuardSeen, Zenon DEF AgentInv
  <2>3. CASE mode = "routed" /\ R!Next /\ UNCHANGED mode
    <3>1. RoutedInv
      BY <2>3, Zenon DEF AgentInv
    <3> QED
      BY <2>3, <3>1, RoutedRefines, Zenon DEF AgentInv
  <2> QED
    BY <2>1, <2>2, <2>3, Zenon DEF Step
<1> QED
  BY <1>1, <1>2, PTL DEF AgentSpec, AgentImplementsPeerDataPlane, AgentAbs!Spec
=============================================================================
