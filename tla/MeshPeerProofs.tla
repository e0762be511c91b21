--------------------------- MODULE MeshPeerProofs ---------------------------
(***************************************************************************)
(* Theorems about the MeshPeer life cycle, for every set of nodes, names,  *)
(* keys, CIDRs and specs and every bound.                                  *)
(***************************************************************************)
EXTENDS MeshPeer, TLAPS

-----------------------------------------------------------------------------
(***************************************************************************)
(* What the calls of the WireGuard data plane do to each of its fields,    *)
(* for every set of keys and CIDRs.                                        *)
(***************************************************************************)
\* The empty data plane is a data plane (a fresh node, before any call).
LEMMA EmptyType == EmptyDataPlane \in DataPlane
  BY WireGuardAssumption, Zenon DEF EmptyDataPlane, DataPlane

\* UpsertPeer adds one peer and leaves routes and bookkeeping alone.
LEMMA UpsertShape ==
  ASSUME NEW d \in DataPlane, NEW k \in Key, NEW C \in SUBSET Cidr
  PROVE  LET e == UpsertPeer(d, k, C) IN
         /\ e \in DataPlane
         /\ e.peers = d.peers \cup {k}
         /\ e.routes = d.routes
         /\ e.peerRoutes = d.peerRoutes
  BY ZenonT(30) DEF UpsertPeer, DataPlane

\* DropPeer takes one peer off and leaves routes and bookkeeping alone.
LEMMA DropShape ==
  ASSUME NEW d \in DataPlane, NEW k \in Key
  PROVE  LET e == DropPeer(d, k) IN
         /\ e \in DataPlane
         /\ e.peers = d.peers \ {k}
         /\ e.routes = d.routes
         /\ e.peerRoutes = d.peerRoutes
  BY WireGuardAssumption, Zenon DEF DropPeer, DataPlane

\* InstallRoutes only adds routes.
LEMMA InstallShape ==
  ASSUME NEW d \in DataPlane, NEW C \in SUBSET Cidr
  PROVE  LET e == InstallRoutes(d, C) IN
         /\ e \in DataPlane
         /\ e.peers = d.peers
         /\ e.routes = d.routes \cup C
         /\ e.peerRoutes = d.peerRoutes
  BY Zenon DEF InstallRoutes, DataPlane

\* rollbackRoutes only deletes routes.
LEMMA RollbackShape ==
  ASSUME NEW d \in DataPlane, NEW R \in SUBSET Cidr, NEW kept \in SUBSET Cidr
  PROVE  LET e == rollbackRoutes(d, R, kept) IN
         /\ e \in DataPlane
         /\ e.peers = d.peers
         /\ e.routes = d.routes \ (R \ kept)
         /\ e.peerRoutes = d.peerRoutes
  BY Zenon DEF rollbackRoutes, DataPlane

\* Recording the routes of a call changes the bookkeeping only.
LEMMA RecordShape ==
  ASSUME NEW d \in DataPlane, NEW B \in [Key -> SUBSET Cidr],
         NEW e, e = [d EXCEPT !.peerRoutes = B]
  PROVE  /\ e \in DataPlane
         /\ e.peers = d.peers
         /\ e.routes = d.routes
         /\ e.peerRoutes = B
  BY Zenon DEF DataPlane

\* A deletion leaves behind some of what it was to delete, and nothing when no
\* RouteDel fails.
LEMMA UndeletedShape ==
  ASSUME NEW R, NEW kept \in Undeleted(R)
  PROVE  kept \subseteq R /\ (~LossyDelete => kept = {})
  BY Zenon DEF Undeleted
-----------------------------------------------------------------------------
\* A successful ConfigurePeer: the peer is on the device, its bookkeeping is the
\* CIDRs of the call, and of the routes it had only stale ones are deleted.
Reconfigured(d, k, C, e) ==
    /\ e \in DataPlane
    /\ k \notin BadKey
    /\ e.peers = d.peers \cup {k}
    /\ e.peerRoutes = [d.peerRoutes EXCEPT ![k] = C]
    /\ e.routes \subseteq d.routes \cup C
    /\ (d.routes \cup C) \ (d.peerRoutes[k] \ C) \subseteq e.routes
    /\ ~LossyDelete => e.routes \cap (d.peerRoutes[k] \ C) = {}

\* That is what a successful ConfigurePeer does.
LEMMA ConfigureOkShape ==
  ASSUME NEW d \in DataPlane, NEW k \in Key, NEW C \in SUBSET Cidr,
         NEW e \in ConfigurePeerOk(d, k, C)
  PROVE  Reconfigured(d, k, C, e)
<1> DEFINE up == InstallRoutes(UpsertPeer(d, k, C), C)
           stale == staleRoutes(d.peerRoutes[k], C)
           B == [d.peerRoutes EXCEPT ![k] = C]
<1>1. k \notin BadKey
  BY Zenon DEF ConfigurePeerOk
<1>2. PICK kept \in Undeleted(stale) :
          e = [rollbackRoutes(up, stale, kept) EXCEPT !.peerRoutes = B]
  BY <1>1, Zenon DEF ConfigurePeerOk
<1>3. stale = d.peerRoutes[k] \ C /\ stale \in SUBSET Cidr /\ kept \in SUBSET Cidr
  BY UndeletedShape DEF staleRoutes, DataPlane
<1>4. /\ up \in DataPlane
      /\ up.peers = d.peers \cup {k}
      /\ up.routes = d.routes \cup C
      /\ up.peerRoutes = d.peerRoutes
  <2>1. UpsertPeer(d, k, C) \in DataPlane
    BY UpsertShape, Zenon
  <2> QED
    BY <2>1, UpsertShape, InstallShape
<1> HIDE DEF up, stale
<1>5. LET r == rollbackRoutes(up, stale, kept) IN
      /\ r \in DataPlane
      /\ r.peers = d.peers \cup {k}
      /\ r.routes = (d.routes \cup C) \ (stale \ kept)
      /\ r.peerRoutes = d.peerRoutes
  BY <1>3, <1>4, Zenon DEF rollbackRoutes, DataPlane
<1>6. /\ e \in DataPlane
      /\ e.peers = d.peers \cup {k}
      /\ e.routes = (d.routes \cup C) \ (stale \ kept)
      /\ e.peerRoutes = B
  <2> DEFINE r == rollbackRoutes(up, stale, kept)
  <2>1. /\ r \in DataPlane
        /\ r.peers = d.peers \cup {k}
        /\ r.routes = (d.routes \cup C) \ (stale \ kept)
        /\ r.peerRoutes = d.peerRoutes
    BY <1>5, Zenon
  <2>2. e = [r EXCEPT !.peerRoutes = B] /\ B \in [Key -> SUBSET Cidr]
    BY <1>2, Zenon DEF DataPlane
  <2> HIDE DEF r, B
  <2>3. /\ e \in DataPlane
        /\ e.peers = r.peers
        /\ e.routes = r.routes
        /\ e.peerRoutes = B
    BY <2>1, <2>2, RecordShape
  <2> QED
    BY <2>1, <2>3, Zenon
<1>7. kept \subseteq stale /\ (~LossyDelete => kept = {})
  BY UndeletedShape, Zenon
<1> QED
  BY <1>1, <1>3, <1>6, <1>7, Zenon DEF Reconfigured

\* A failed ConfigurePeer: the bookkeeping is as before, the device may have
\* gained the peer, and apart from deletions that fail no route is gained.
LEMMA ConfigureFailShape ==
  ASSUME NEW d \in DataPlane, NEW k \in Key, NEW C \in SUBSET Cidr,
         NEW e \in ConfigurePeerFail(d, k, C)
  PROVE  /\ e \in DataPlane
         /\ e.peers \in {d.peers, d.peers \cup {k}}
         /\ e.peerRoutes = d.peerRoutes
         /\ e.routes \subseteq d.routes \cup C
         /\ d.routes \ C \subseteq e.routes
         /\ ~LossyDelete => e.routes \subseteq d.routes
<1>1. CASE e = d
  BY <1>1, Zenon
<1>2. CASE e # d
  <2>1. PICK D \in SUBSET C : \E kept \in Undeleted(D) :
            e = rollbackRoutes(InstallRoutes(UpsertPeer(d, k, C), D), D, kept)
    BY <1>2, Zenon DEF ConfigurePeerFail
  <2>2. PICK kept \in Undeleted(D) :
            e = rollbackRoutes(InstallRoutes(UpsertPeer(d, k, C), D), D, kept)
    BY <2>1, Zenon
  <2>3. D \in SUBSET Cidr /\ kept \in SUBSET Cidr /\ kept \subseteq D
        /\ (~LossyDelete => kept = {})
    BY UndeletedShape, Zenon
  <2> DEFINE up == InstallRoutes(UpsertPeer(d, k, C), D)
  <2>4. /\ up \in DataPlane
        /\ up.peers = d.peers \cup {k}
        /\ up.routes = d.routes \cup D
        /\ up.peerRoutes = d.peerRoutes
    <3>1. UpsertPeer(d, k, C) \in DataPlane
      BY UpsertShape, Zenon
    <3> QED
      BY <2>3, <3>1, UpsertShape, InstallShape
  <2>5. e = rollbackRoutes(up, D, kept)
    BY <2>2, Zenon
  <2> HIDE DEF up
  <2>6. /\ e \in DataPlane
        /\ e.peers = d.peers \cup {k}
        /\ e.routes = (d.routes \cup D) \ (D \ kept)
        /\ e.peerRoutes = d.peerRoutes
    BY <2>3, <2>4, <2>5, Zenon DEF rollbackRoutes, DataPlane
  <2> QED
    BY <2>3, <2>6, Zenon
<1> QED
  BY <1>1, <1>2, Zenon

\* A successful RemovePeer: the peer is off the device and out of the bookkeeping,
\* and only routes recorded for it are deleted.
LEMMA RemoveOkShape ==
  ASSUME NEW d \in DataPlane, NEW k \in Key, NEW e \in RemovePeerOk(d, k)
  PROVE  /\ e \in DataPlane
         /\ e.peers = d.peers \ {k}
         /\ e.peerRoutes = [d.peerRoutes EXCEPT ![k] = {}]
         /\ e.routes \subseteq d.routes
         /\ d.routes \ d.peerRoutes[k] \subseteq e.routes
         /\ ~LossyDelete => e.routes \cap d.peerRoutes[k] = {}
<1> DEFINE off == DropPeer(d, k)
           R == d.peerRoutes[k]
           B == [d.peerRoutes EXCEPT ![k] = {}]
<1>1. PICK kept \in Undeleted(R) :
          e = [rollbackRoutes(off, R, kept) EXCEPT !.peerRoutes = B]
  BY Zenon DEF RemovePeerOk
<1>2. R \in SUBSET Cidr /\ kept \in SUBSET Cidr
  BY UndeletedShape DEF DataPlane
<1>3. /\ off \in DataPlane
      /\ off.peers = d.peers \ {k}
      /\ off.routes = d.routes
      /\ off.peerRoutes = d.peerRoutes
  BY DropShape, Zenon
<1> DEFINE r == rollbackRoutes(off, R, kept)
<1> HIDE DEF off, R
<1>4. /\ r \in DataPlane
      /\ r.peers = d.peers \ {k}
      /\ r.routes = d.routes \ (R \ kept)
      /\ r.peerRoutes = d.peerRoutes
  BY <1>2, <1>3, Zenon DEF rollbackRoutes, DataPlane
<1>5. e = [r EXCEPT !.peerRoutes = B] /\ B \in [Key -> SUBSET Cidr]
  BY <1>1, Zenon DEF DataPlane
<1>6. /\ e \in DataPlane
      /\ e.peers = r.peers
      /\ e.routes = r.routes
      /\ e.peerRoutes = B
  <2> HIDE DEF r, B
  <2> QED
    BY <1>4, <1>5, RecordShape
<1> QED
  BY <1>4, <1>6, UndeletedShape DEF R

\* A failed RemovePeer: routes and bookkeeping are as before, the peer may be off
\* the device.
LEMMA RemoveFailShape ==
  ASSUME NEW d \in DataPlane, NEW k \in Key, NEW e \in RemovePeerFail(d, k)
  PROVE  /\ e \in DataPlane
         /\ e.peers \in {d.peers, d.peers \ {k}}
         /\ e.peerRoutes = d.peerRoutes
         /\ e.routes = d.routes
<1>1. e = d \/ e = DropPeer(d, k)
  BY Zenon DEF RemovePeerFail
<1> QED
  BY <1>1, DropShape

\* A ConfigurePeer the process does not survive adds at most the routes of the call.
LEMMA ConfigureTornShape ==
  ASSUME NEW d \in DataPlane, NEW k \in Key, NEW C \in SUBSET Cidr,
         NEW e \in ConfigurePeerTorn(d, k, C)
  PROVE  e \in DataPlane /\ e.routes \subseteq d.routes \cup C
<1> DEFINE stale == staleRoutes(d.peerRoutes[k], C)
           up(D) == InstallRoutes(UpsertPeer(d, k, C), D)
<1>1. \/ \E D \in SUBSET C : e = up(D)
      \/ \E kept \in SUBSET stale : e = rollbackRoutes(up(C), stale, kept)
  BY Zenon DEF ConfigurePeerTorn
<1>2. UpsertPeer(d, k, C) \in DataPlane /\ UpsertPeer(d, k, C).routes = d.routes
  BY UpsertShape, Zenon
<1>3. ASSUME NEW D \in SUBSET C
      PROVE  up(D) \in DataPlane /\ up(D).routes = d.routes \cup D
  <2>1. D \in SUBSET Cidr
    BY Zenon
  <2> QED
    BY <1>2, <2>1, InstallShape
<1>4. up(C) \in DataPlane /\ up(C).routes = d.routes \cup C
  BY <1>3, Zenon
<1>5. stale \in SUBSET Cidr
  BY Zenon DEF staleRoutes, DataPlane
<1> HIDE DEF up, stale
<1>6. ASSUME NEW kept \in SUBSET stale
      PROVE  LET r == rollbackRoutes(up(C), stale, kept) IN
             r \in DataPlane /\ r.routes \subseteq d.routes \cup C
  BY <1>4, <1>5, Zenon DEF rollbackRoutes, DataPlane
<1> QED
  BY <1>1, <1>3, <1>6, UndeletedShape

\* A RemovePeer the process does not survive adds no route.
LEMMA RemoveTornShape ==
  ASSUME NEW d \in DataPlane, NEW k \in Key, NEW e \in RemovePeerTorn(d, k)
  PROVE  e \in DataPlane /\ e.routes \subseteq d.routes
<1> DEFINE off == DropPeer(d, k)
           R == d.peerRoutes[k]
<1>1. PICK kept \in SUBSET R : e = rollbackRoutes(off, R, kept)
  BY Zenon DEF RemovePeerTorn
<1>2. R \in SUBSET Cidr /\ off \in DataPlane /\ off.routes = d.routes
  BY DropShape, Zenon DEF DataPlane
<1> HIDE DEF off, R
<1> QED
  BY <1>1, <1>2, Zenon DEF rollbackRoutes, DataPlane

\* A restart touches the bookkeeping only.
LEMMA RestartedShape ==
  ASSUME NEW d \in DataPlane
  PROVE  /\ Restarted(d) \in DataPlane
         /\ Restarted(d).routes = d.routes
         /\ Restarted(d).peerRoutes = [k \in Key |-> {}]
  BY Zenon DEF Restarted, DataPlane

-----------------------------------------------------------------------------
(***************************************************************************)
(* Types.                                                                  *)
(***************************************************************************)
ApiType == api' \in [Name -> Object \cup {Absent}] /\ fresh' \in [Node -> [Name -> BOOLEAN]]

\* The routes the guard of Partition lets through, and what a step of node n may
\* do to its data plane: gain only such routes.
Permitted ==
    {c \in Cidr : c \in Withheld => RemapPool /\ \E d \in Withheld : c = Virtual[d]}
Allowed(n, dp) == dp \in DataPlane /\ dp.routes \subseteq plane[n].routes \cup Permitted
PlaneStep(n) == \E dp : SetPlane(n, dp) /\ Allowed(n, dp)
UsedType ==
    [edits : 0..MaxEdits, deletes : 0..MaxDeletes,
     restarts : 0..MaxRestarts, faults : 0..MaxFaults]

\* The specs users write have a key and CIDRs.
LEMMA SpecType ==
  ASSUME NEW o \in Object
  PROVE  /\ o.spec.key \in Key
         /\ o.spec.cidrs \in SUBSET Cidr
         /\ o.gen \in Nat \ {0}
         /\ o.status \in Status
         /\ o # Absent
<1>1. PICK p \in Name : o.spec \in PeerSpec[p]
  BY Zenon DEF Object
<1>2. o.spec \in [key : Key, cidrs : SUBSET Cidr]
  BY <1>1, MeshPeerAssumption, Zenon
<1> QED
  BY <1>2, MeshPeerAssumption, Zenon DEF Object

\* A spec is planned onto CIDRs, unless its remap fails.
LEMMA PlanType ==
  ASSUME NEW o \in Object, ~RemapFails(o.spec)
  PROVE  /\ RouteCIDRs(o.spec) \in SUBSET Cidr
         /\ RouteCIDRs(o.spec) \subseteq Permitted
<1>1. o.spec.cidrs \in SUBSET Cidr
  BY SpecType, Zenon
<1>2. CASE ~Remapped(o.spec)
  BY <1>1, <1>2, Zenon DEF RouteCIDRs, Routable, Permitted
<1>3. CASE Remapped(o.spec)
  <2>1. ASSUME NEW v \in RouteVirtual(o.spec)
        PROVE  v \in Cidr /\ \E c \in Withheld : v = Virtual[c]
    <3>1. PICK c \in Parsed(o.spec) : v = Virtual[c]
      BY Zenon DEF RouteVirtual
    <3>2. v # NoCidr
      BY <1>3, <3>1, Zenon DEF RemapFails
    <3>3. c \in Withheld
      BY Zenon DEF Parsed, Conflicts
    <3> QED
      BY <3>1, <3>2, <3>3, MeshPeerAssumption, Zenon
  <2>2. RemapPool
    BY <1>3, Zenon DEF Remapped
  <2> QED
    BY <1>1, <1>3, <2>1, <2>2, Zenon DEF RouteCIDRs, Routable, Permitted
<1> QED
  BY <1>2, <1>3, Zenon

-----------------------------------------------------------------------------
(***************************************************************************)
(* Type correctness.                                                       *)
(***************************************************************************)
\* A write to the API keeps its type.
LEMMA WriteType ==
  ASSUME TypeOK, NEW p \in Name, NEW o \in Object \cup {Absent}, Write(p, o)
  PROVE  ApiType
  BY Zenon DEF Write, TypeOK, ApiType

\* So does the lack of one.
LEMMA NoWriteType ==
  ASSUME TypeOK, NoWrite
  PROVE  ApiType
  BY Zenon DEF NoWrite, TypeOK, ApiType

\* A status patch keeps the API's type.
LEMMA PatchType ==
  ASSUME TypeOK, NEW n \in Node, NEW p \in Name, cache[n][p] # Absent,
         NEW new \in Status, patchStatus(n, p, new)
  PROVE  ApiType
<1>1. cache[n][p] \in Object
  BY DEF TypeOK
<1>2. cache[n][p].status \in Status
  BY <1>1, SpecType, Zenon
<1>3. CASE NoWrite
  BY <1>3, NoWriteType, Zenon
<1>4. CASE ~NoWrite
  <2> DEFINE old == cache[n][p].status
             Merge(f) == IF new[f] # old[f] THEN new[f] ELSE api[p].status[f]
             st == [phase |-> Merge("phase"), handshake |-> Merge("handshake"),
                    observed |-> Merge("observed")]
             o == [api[p] EXCEPT !.status = st]
  <2>1. api[p] # Absent /\ Write(p, o)
    BY <1>4, Zenon DEF patchStatus
  <2>2. api[p] \in Object
    BY <2>1, Zenon DEF TypeOK
  <2>3. st \in Status
    <3>1. api[p].status \in Status
      BY <2>2, SpecType, Zenon
    <3> QED
      BY <1>2, <3>1, Zenon DEF Status
  <2> HIDE DEF st
  <2>4. o \in Object
    BY <2>2, <2>3, Zenon DEF Object
  <2> QED
    BY <2>1, <2>4, WriteType, Zenon
<1> QED
  BY <1>3, <1>4, Zenon

\* A fault is counted within its bound.
LEMMA FaultType ==
  ASSUME TypeOK, Fault
  PROVE  used' \in UsedType
<1>1. used \in UsedType
  BY Zenon DEF TypeOK, UsedType
<1>2. used.faults + 1 \in 0..MaxFaults
  BY <1>1, MeshPeerAssumption DEF Fault, UsedType
<1> QED
  BY <1>1, <1>2, Zenon DEF Fault, UsedType

\* A node's data plane moves from one data plane to another.
LEMMA PlaneType ==
  ASSUME TypeOK, NEW n \in Node, PlaneStep(n)
  PROVE  plane' \in [Node -> DataPlane]
  BY Zenon DEF TypeOK, PlaneStep, Allowed, SetPlane

\* A call for a known key yields a data plane that gained no route but permitted
\* ones.
LEMMA RemoveAllowed ==
  ASSUME TypeOK, NEW n \in Node, NEW k \in Key,
         NEW dp \in RemovePeerOk(plane[n], k) \cup RemovePeerFail(plane[n], k)
  PROVE  Allowed(n, dp)
<1>1. plane[n] \in DataPlane
  BY Zenon DEF TypeOK
<1>2. CASE dp \in RemovePeerOk(plane[n], k)
  <2>1. dp \in DataPlane /\ dp.routes \subseteq plane[n].routes
    BY <1>1, <1>2, RemoveOkShape, Zenon
  <2> QED
    BY <2>1, Zenon DEF Allowed
<1>3. CASE dp \in RemovePeerFail(plane[n], k)
  <2>1. dp \in DataPlane /\ dp.routes = plane[n].routes
    BY <1>1, <1>3, RemoveFailShape
  <2> QED
    BY <2>1, Zenon DEF Allowed
<1> QED
  BY <1>2, <1>3, Zenon

\* Tearing down a rotated key leaves an allowed data plane.
LEMMA RotatedAllowed ==
  ASSUME TypeOK, NEW n \in Node, NEW p \in Name, NEW dp \in RotatedOut(n, p)
  PROVE  Allowed(n, dp)
<1>1. CASE Rotates(n, p)
  <2>1. keyIndex[n][p] \in Key
    BY <1>1 DEF Rotates, TypeOK
  <2>2. dp \in RemovePeerOk(plane[n], keyIndex[n][p])
    BY <1>1, Zenon DEF RotatedOut
  <2> QED
    BY <2>1, <2>2, RemoveAllowed, Zenon
<1>2. CASE ~Rotates(n, p)
  BY <1>2, Zenon DEF RotatedOut, Allowed, TypeOK
<1> QED
  BY <1>1, <1>2, Zenon

\* Programming a planned spec on top of it does too.
LEMMA ConfigureAllowed ==
  ASSUME TypeOK, NEW n \in Node, NEW p \in Name, NEW o \in Object,
         ~RemapFails(o.spec),
         NEW out \in RotatedOut(n, p),
         NEW dp \in ConfigurePeerOk(out, o.spec.key, RouteCIDRs(o.spec))
                 \cup ConfigurePeerFail(out, o.spec.key, RouteCIDRs(o.spec))
  PROVE  Allowed(n, dp)
<1>1. Allowed(n, out)
  BY RotatedAllowed, Zenon
<1>2. o.spec.key \in Key
  BY SpecType, Zenon
<1>3. RouteCIDRs(o.spec) \in SUBSET Cidr /\ RouteCIDRs(o.spec) \subseteq Permitted
  BY PlanType, Zenon
<1>4. dp \in DataPlane /\ dp.routes \subseteq out.routes \cup RouteCIDRs(o.spec)
  <2>1. out \in DataPlane
    BY <1>1, Zenon DEF Allowed
  <2> DEFINE k == o.spec.key
             C == RouteCIDRs(o.spec)
  <2>2. k \in Key /\ C \in SUBSET Cidr
    BY <1>2, <1>3, Zenon
  <2>3. dp \in ConfigurePeerOk(out, k, C) \/ dp \in ConfigurePeerFail(out, k, C)
    BY Zenon
  <2> HIDE DEF k, C
  <2>4. CASE dp \in ConfigurePeerOk(out, k, C)
    <3>1. dp \in DataPlane /\ dp.routes \subseteq out.routes \cup C
      BY <2>1, <2>2, <2>4, ConfigureOkShape, Zenon DEF Reconfigured
    <3> QED
      BY <3>1, Zenon DEF C
  <2>5. CASE dp \in ConfigurePeerFail(out, k, C)
    <3>1. dp \in DataPlane /\ dp.routes \subseteq out.routes \cup C
      BY <2>1, <2>2, <2>5, ConfigureFailShape, Zenon
    <3> QED
      BY <3>1, Zenon DEF C
  <2> QED
    BY <2>3, <2>4, <2>5, Zenon
<1> QED
  BY <1>1, <1>3, <1>4, Zenon DEF Allowed

\* Doing nothing is allowed.
LEMMA SameAllowed ==
  ASSUME TypeOK, NEW n \in Node, UNCHANGED plane
  PROVE  PlaneStep(n)
<1>1. SetPlane(n, plane[n])
  BY Zenon DEF SetPlane, TypeOK
<1> QED
  BY <1>1, Zenon DEF PlaneStep, Allowed, TypeOK

-----------------------------------------------------------------------------
\* What every step of Reconcile must be shown to do.
StepOK(n) ==
    /\ ApiType
    /\ used' \in UsedType
    /\ keyIndex' \in [Node -> [Name -> Key \cup {NoKey}]]
    /\ PlaneStep(n)

\* Recording a key, or none, keeps keyIndex's type.
LEMMA SetKeyType ==
  ASSUME TypeOK, NEW n \in Node, NEW p \in Name, NEW k \in Key \cup {NoKey}, SetKey(n, p, k)
  PROVE  keyIndex' \in [Node -> [Name -> Key \cup {NoKey}]]
  BY Zenon DEF SetKey, TypeOK

\* The NotFound branch.
LEMMA GoneOK ==
  ASSUME TypeOK, NEW n \in Node, NEW p \in Name, ReconcileGone(n, p)
  PROVE  StepOK(n)
<1>1. ApiType
  BY NoWriteType, Zenon DEF ReconcileGone
<1>2. CASE keyIndex[n][p] = NoKey
  <2>1. UNCHANGED <<keyIndex, plane, used>>
    BY <1>2, Zenon DEF ReconcileGone
  <2> QED
    BY <1>1, <2>1, SameAllowed, Zenon DEF StepOK, TypeOK, UsedType
<1>3. CASE keyIndex[n][p] # NoKey
  <2> DEFINE k == keyIndex[n][p]
  <2>1. k \in Key
    BY <1>3, Zenon DEF TypeOK
  <2>2. \/ (\E dp \in RemovePeerOk(plane[n], k) : SetPlane(n, dp))
           /\ SetKey(n, p, NoKey) /\ UNCHANGED used
        \/ Fault /\ (\E dp \in RemovePeerFail(plane[n], k) : SetPlane(n, dp))
           /\ UNCHANGED keyIndex
    BY <1>3, Zenon DEF ReconcileGone
  <2>3. PlaneStep(n)
    BY <2>1, <2>2, RemoveAllowed, Zenon DEF PlaneStep
  <2>4. keyIndex' \in [Node -> [Name -> Key \cup {NoKey}]]
    BY <2>2, SetKeyType, Zenon DEF TypeOK
  <2>5. used' \in UsedType
    BY <2>2, FaultType, Zenon DEF TypeOK, UsedType
  <2> QED
    BY <1>1, <2>3, <2>4, <2>5, Zenon DEF StepOK
<1> QED
  BY <1>2, <1>3, Zenon

\* The finalizer branch.
LEMMA AddFinalizerOK ==
  ASSUME TypeOK, NEW n \in Node, NEW p \in Name, AddFinalizer(n, p)
  PROVE  StepOK(n)
<1>1. cache[n][p] \in Object
  BY DEF AddFinalizer, TypeOK
<1>2. [cache[n][p] EXCEPT !.finalizer = TRUE] \in Object
  BY <1>1, Zenon DEF Object
<1>3. ApiType
  BY <1>2, WriteType, NoWriteType, Zenon DEF AddFinalizer
<1>4. used' \in UsedType
  BY FaultType, Zenon DEF AddFinalizer, TypeOK, UsedType
<1>5. UNCHANGED <<keyIndex, plane>>
  BY Zenon DEF AddFinalizer
<1> QED
  BY <1>3, <1>4, <1>5, SameAllowed, Zenon DEF StepOK, TypeOK

\* A successful reconcileApply.
LEMMA ApplyOkOK ==
  ASSUME TypeOK, NEW n \in Node, NEW p \in Name, ToApply(n, p), ApplyOk(n, p)
  PROVE  StepOK(n)
<1> DEFINE obj == cache[n][p]
<1>1. obj \in Object /\ obj # Absent
  BY Zenon DEF ToApply, TypeOK
<1>2. obj.spec.key \in Key /\ obj.gen \in Nat /\ obj.status \in Status
  BY <1>1, SpecType, Zenon
<1>3. PlaneStep(n)
  <2>1. PICK out \in RotatedOut(n, p) :
          \E dp \in ConfigurePeerOk(out, obj.spec.key, RouteCIDRs(obj.spec)) : SetPlane(n, dp)
    BY ZenonT(30) DEF ApplyOk
  <2>2. ~RemapFails(obj.spec)
    BY Zenon DEF ApplyOk
  <2> QED
    BY <1>1, <2>1, <2>2, ConfigureAllowed, Zenon DEF PlaneStep
<1>4. keyIndex' \in [Node -> [Name -> Key \cup {NoKey}]]
  BY <1>2, SetKeyType, ZenonT(30) DEF ApplyOk
<1>5. used' \in UsedType
  <2>1. UNCHANGED used \/ Fault
    BY Zenon DEF ApplyOk
  <2> QED
    BY <2>1, FaultType, Zenon DEF TypeOK, UsedType
<1>6. ApiType
  <2> DEFINE st(h) == [phase |-> PlanPhase(obj.spec), handshake |-> h, observed |-> obj.gen]
  <2>1. PlanPhase(obj.spec) \in Phase
    BY Zenon DEF PlanPhase, Phase
  <2>2. st(Handshake[n]) \in Status /\ st(obj.status.handshake) \in Status
    BY <1>2, <2>1, MeshPeerAssumption, Zenon DEF Status
  <2>3. \/ patchStatus(n, p, st(Handshake[n]))
        \/ patchStatus(n, p, st(obj.status.handshake))
        \/ NoWrite
    BY Zenon DEF ApplyOk
  <2> HIDE DEF st
  <2> QED
    BY <1>1, <2>2, <2>3, PatchType, NoWriteType, Zenon
<1> QED
  BY <1>3, <1>4, <1>5, <1>6, Zenon DEF StepOK

\* A reconcileApply that fails.
LEMMA ApplyFailOK ==
  ASSUME TypeOK, NEW n \in Node, NEW p \in Name, ToApply(n, p), ApplyFail(n, p)
  PROVE  StepOK(n)
<1> DEFINE obj == cache[n][p]
           st == [phase |-> "Error", handshake |-> obj.status.handshake, observed |-> obj.gen]
<1>1. obj \in Object /\ obj # Absent
  BY Zenon DEF ToApply, TypeOK
<1>2. obj.gen \in Nat /\ obj.status \in Status
  BY <1>1, SpecType, Zenon
<1>3. Fail(n, p)
  BY Zenon DEF ApplyFail
<1>4. ApiType
  <2>1. st \in Status
    BY <1>2, Zenon DEF Status, Phase
  <2>2. patchStatus(n, p, st) \/ NoWrite
    BY <1>3, Zenon DEF Fail
  <2> HIDE DEF st
  <2> QED
    BY <1>1, <2>1, <2>2, PatchType, NoWriteType, Zenon
<1>5. keyIndex' \in [Node -> [Name -> Key \cup {NoKey}]]
  BY <1>3, Zenon DEF Fail, TypeOK
<1>6. used' \in UsedType
  <2>1. UNCHANGED used \/ Fault
    BY Zenon DEF ApplyFail
  <2> QED
    BY <2>1, FaultType, Zenon DEF TypeOK, UsedType
<1>7. PlaneStep(n)
  <2>1. CASE UNCHANGED plane
    BY <2>1, SameAllowed, Zenon
  <2>2. CASE Rotates(n, p) /\ \E dp \in RemovePeerFail(plane[n], keyIndex[n][p]) : SetPlane(n, dp)
    <3>1. keyIndex[n][p] \in Key
      BY <2>2 DEF Rotates, TypeOK
    <3> QED
      BY <2>2, <3>1, RemoveAllowed, Zenon DEF PlaneStep
  <2>3. CASE /\ ~RemapFails(obj.spec)
             /\ \E out \in RotatedOut(n, p) :
                  \E dp \in ConfigurePeerFail(out, obj.spec.key, RouteCIDRs(obj.spec)) :
                      SetPlane(n, dp)
    BY <1>1, <2>3, ConfigureAllowed, Zenon DEF PlaneStep
  <2> QED
    BY <2>1, <2>2, <2>3, ZenonT(30) DEF ApplyFail
<1> QED
  BY <1>4, <1>5, <1>6, <1>7, Zenon DEF StepOK

\* The deletion branch.
LEMMA DeleteOK ==
  ASSUME TypeOK, NEW n \in Node, NEW p \in Name, reconcileDelete(n, p)
  PROVE  StepOK(n)
<1> DEFINE k == cache[n][p].spec.key
<1>1. k \in Key
  BY SpecType DEF reconcileDelete, TypeOK
<1>2. ApiType
  <2>1. Write(p, Absent) \/ NoWrite
    BY Zenon DEF reconcileDelete
  <2> QED
    BY <2>1, WriteType, NoWriteType, Zenon
<1>3. used' \in UsedType
  <2>1. UNCHANGED used \/ Fault
    BY Zenon DEF reconcileDelete
  <2> QED
    BY <2>1, FaultType, Zenon DEF TypeOK, UsedType
<1>4. keyIndex' \in [Node -> [Name -> Key \cup {NoKey}]]
  <2>1. SetKey(n, p, NoKey) \/ UNCHANGED keyIndex
    BY Zenon DEF reconcileDelete
  <2> QED
    BY <2>1, SetKeyType, Zenon DEF TypeOK
<1>5. PlaneStep(n)
  <2>1. \E dp \in RemovePeerOk(plane[n], k) \cup RemovePeerFail(plane[n], k) : SetPlane(n, dp)
    BY ZenonT(30) DEF reconcileDelete
  <2> QED
    BY <1>1, <2>1, RemoveAllowed, Zenon DEF PlaneStep
<1> QED
  BY <1>2, <1>3, <1>4, <1>5, Zenon DEF StepOK

\* Every reconcile keeps the types and the guard.
LEMMA ReconcileOK ==
  ASSUME TypeOK, NEW n \in Node, NEW p \in Name, Reconcile(n, p)
  PROVE  TypeOK' /\ PlaneStep(n)
<1>1. StepOK(n)
  BY GoneOK, AddFinalizerOK, ApplyOkOK, ApplyFailOK, DeleteOK, Zenon DEF Reconcile, reconcileApply
<1>2. UNCHANGED cache
  BY ZenonT(30) DEF Reconcile, ReconcileGone, reconcileDelete, AddFinalizer, reconcileApply
<1>3. Done(n, p) \/ Requeue
  BY ZenonT(30) DEF Reconcile, ReconcileGone, reconcileDelete, AddFinalizer, reconcileApply
<1>4. queue' \in [Node -> SUBSET Name]
  <2>1. queue \in [Node -> SUBSET Name]
    BY Zenon DEF TypeOK
  <2>2. CASE Done(n, p)
    BY ONLY <2>1, <2>2 DEF Done
  <2>3. CASE Requeue
    BY <2>1, <2>3, Zenon DEF Requeue
  <2> QED
    BY <1>3, <2>2, <2>3, Zenon
<1>5. plane' \in [Node -> DataPlane]
  BY <1>1, PlaneType, Zenon DEF StepOK
<1> QED
  BY <1>1, <1>2, <1>4, <1>5, Zenon DEF StepOK, TypeOK, ApiType, UsedType

\* So does an edit by a user, which leaves every data plane alone.
LEMMA UserOK ==
  ASSUME TypeOK, User
  PROVE  TypeOK' /\ UNCHANGED plane
<1>1. PICK p \in Name : (\E s \in PeerSpec[p] : Create(p, s) \/ UpdateSpec(p, s)) \/ Delete(p)
  BY Zenon DEF User
<1>2. used \in UsedType
  BY Zenon DEF TypeOK, UsedType
<1>3. ASSUME NEW s \in PeerSpec[p], Create(p, s)
      PROVE  ApiType /\ UNCHANGED local /\ used' \in UsedType
  <2> DEFINE st == [phase |-> "", handshake |-> 0, observed |-> 0]
             o == [spec |-> s, gen |-> 1, finalizer |-> FALSE, deleting |-> FALSE,
                   status |-> st]
  <2>1. o \in Object
    <3>1. s \in UNION {PeerSpec[q] : q \in Name}
      BY Zenon
    <3>2. st \in Status
      BY Zenon DEF Status, Phase
    <3> HIDE DEF st
    <3> QED
      BY <3>1, <3>2 DEF Object
  <2>2. Write(p, o) /\ UNCHANGED local
    BY <1>3, Zenon DEF Create
  <2>3. used' \in UsedType
    <3>1. used.edits < MaxEdits /\ used' = [used EXCEPT !.edits = used.edits + 1]
      BY <1>3, Zenon DEF Create
    <3>2. used.edits + 1 \in 0..MaxEdits
      BY <1>2, <3>1, MeshPeerAssumption DEF UsedType
    <3> QED
      BY <1>2, <3>1, <3>2, Zenon DEF UsedType
  <2> HIDE DEF o
  <2> QED
    BY <2>1, <2>2, <2>3, WriteType, Zenon
<1>4. ASSUME NEW s \in PeerSpec[p], UpdateSpec(p, s)
      PROVE  ApiType /\ UNCHANGED local /\ used' \in UsedType
  <2> DEFINE o == [api[p] EXCEPT !.spec = s, !.gen = @ + 1]
  <2>1. api[p] \in Object
    BY <1>4, Zenon DEF UpdateSpec, TypeOK
  <2>2. o \in Object
    <3>1. s \in UNION {PeerSpec[q] : q \in Name}
      BY Zenon
    <3>2. api[p].gen + 1 \in Nat \ {0}
      BY <2>1, SpecType
    <3> QED
      BY <2>1, <3>1, <3>2, Zenon DEF Object
  <2>3. Write(p, o) /\ UNCHANGED local
    BY <1>4, Zenon DEF UpdateSpec
  <2>4. used' \in UsedType
    <3>1. used.edits + 1 \in 0..MaxEdits
      BY <1>2, <1>4, MeshPeerAssumption DEF UpdateSpec, UsedType
    <3> QED
      BY <1>2, <1>4, <3>1, Zenon DEF UpdateSpec, UsedType
  <2> HIDE DEF o
  <2> QED
    BY <2>2, <2>3, <2>4, WriteType, Zenon
<1>5. ASSUME Delete(p)
      PROVE  ApiType /\ UNCHANGED local /\ used' \in UsedType
  <2> DEFINE o == IF api[p].finalizer
                  THEN [api[p] EXCEPT !.deleting = TRUE, !.gen = @ + 1] ELSE Absent
  <2>1. api[p] \in Object
    BY <1>5, Zenon DEF Delete, TypeOK
  <2>2. o \in Object \cup {Absent}
    <3>1. api[p].gen + 1 \in Nat \ {0}
      BY <2>1, SpecType
    <3> QED
      BY <2>1, <3>1, Zenon DEF Object
  <2>3. Write(p, o) /\ UNCHANGED local
    BY <1>5, Zenon DEF Delete
  <2>4. used' \in UsedType
    <3>1. used.deletes + 1 \in 0..MaxDeletes
      BY <1>2, <1>5, MeshPeerAssumption DEF Delete, UsedType
    <3> QED
      BY <1>2, <1>5, <3>1, Zenon DEF Delete, UsedType
  <2> HIDE DEF o
  <2> QED
    BY <2>2, <2>3, <2>4, WriteType, Zenon
<1>6. ApiType /\ UNCHANGED local /\ used' \in UsedType
  BY <1>1, <1>3, <1>4, <1>5, Zenon
<1> QED
  BY <1>6, Zenon DEF TypeOK, ApiType, UsedType, local

\* And the delivery of a watch event.
LEMMA DeliverOK ==
  ASSUME TypeOK, NEW n \in Node, NEW p \in Name, Deliver(n, p)
  PROVE  TypeOK' /\ UNCHANGED plane
<1>1. api[p] \in Object \cup {Absent}
  BY Zenon DEF TypeOK
<1>2. cache' \in [Node -> [Name -> Object \cup {Absent}]]
  BY <1>1, Zenon DEF Deliver, TypeOK
<1>3. fresh' \in [Node -> [Name -> BOOLEAN]]
  BY Zenon DEF Deliver, TypeOK
<1>4. queue' \in [Node -> SUBSET Name]
  BY Zenon DEF Deliver, TypeOK
<1>5. UNCHANGED <<api, keyIndex, plane, used>>
  BY Zenon DEF Deliver
<1> QED
  BY <1>2, <1>3, <1>4, <1>5, Zenon DEF TypeOK

\* What a torn reconcile leaves in the data plane is allowed.
LEMMA TornAllowed ==
  ASSUME TypeOK, NEW n \in Node, NEW p \in Name, NEW dp \in Torn(n, p)
  PROVE  Allowed(n, dp)
<1> DEFINE obj == cache[n][p]
<1>1. plane[n] \in DataPlane /\ obj \in Object \cup {Absent}
      /\ keyIndex[n][p] \in Key \cup {NoKey}
  BY DEF TypeOK
<1>2. ASSUME NEW k \in Key, dp \in RemovePeerTorn(plane[n], k)
      PROVE  Allowed(n, dp)
  <2>1. dp \in DataPlane /\ dp.routes \subseteq plane[n].routes
    BY <1>1, <1>2, RemoveTornShape, Zenon
  <2> QED
    BY <2>1, Zenon DEF Allowed
<1>3. CASE obj = Absent
  BY <1>1, <1>2, <1>3, Zenon DEF Torn
<1>4. CASE obj # Absent /\ obj.deleting
  <2>1. obj.spec.key \in Key
    BY <1>1, <1>4, SpecType, Zenon
  <2> QED
    BY <1>2, <1>4, <2>1, Zenon DEF Torn
<1>5. CASE obj # Absent /\ ~obj.deleting
  <2>1. obj \in Object
    BY <1>1, <1>5, Zenon
  <2>2. ~RemapFails(obj.spec)
    BY <1>5, Zenon DEF Torn
  <2>3. \/ Rotates(n, p) /\ dp \in RemovePeerTorn(plane[n], keyIndex[n][p])
        \/ \E out \in RotatedOut(n, p) :
              dp \in ConfigurePeerTorn(out, obj.spec.key, RouteCIDRs(obj.spec))
    BY <1>5, Zenon DEF Torn
  <2>4. CASE Rotates(n, p) /\ dp \in RemovePeerTorn(plane[n], keyIndex[n][p])
    <3>1. keyIndex[n][p] \in Key
      BY <1>1, <2>4, Zenon DEF Rotates
    <3> QED
      BY <1>2, <2>4, <3>1, Zenon
  <2>5. CASE \E out \in RotatedOut(n, p) :
               dp \in ConfigurePeerTorn(out, obj.spec.key, RouteCIDRs(obj.spec))
    <3>1. PICK out \in RotatedOut(n, p) :
               dp \in ConfigurePeerTorn(out, obj.spec.key, RouteCIDRs(obj.spec))
      BY <2>5, Zenon
    <3>2. out \in DataPlane /\ out.routes \subseteq plane[n].routes \cup Permitted
      BY RotatedAllowed, Zenon DEF Allowed
    <3> DEFINE k == obj.spec.key
               C == RouteCIDRs(obj.spec)
    <3>3. k \in Key /\ C \in SUBSET Cidr /\ C \subseteq Permitted
      BY <2>1, <2>2, SpecType, PlanType, Zenon
    <3>4. dp \in ConfigurePeerTorn(out, k, C)
      BY <3>1, Zenon
    <3> HIDE DEF k, C
    <3>5. dp \in DataPlane /\ dp.routes \subseteq out.routes \cup C
      BY <3>2, <3>3, <3>4, ConfigureTornShape, Zenon
    <3> QED
      BY <3>2, <3>3, <3>5, Zenon DEF Allowed
  <2> QED
    BY <2>3, <2>4, <2>5, Zenon
<1> QED
  BY <1>3, <1>4, <1>5, Zenon

\* A restart keeps the types and the guard, wherever the process died.
LEMMA RestartOK ==
  ASSUME TypeOK, NEW n \in Node, StartUp(n),
         NEW dp, Allowed(n, dp), SetPlane(n, Restarted(dp))
  PROVE  TypeOK' /\ PlaneStep(n)
<1>1. Allowed(n, Restarted(dp))
  BY RestartedShape, Zenon DEF Allowed
<1>2. PlaneStep(n)
  BY <1>1, Zenon DEF PlaneStep
<1>3. plane' \in [Node -> DataPlane]
  BY <1>2, PlaneType, Zenon
<1>4. cache' \in [Node -> [Name -> Object \cup {Absent}]]
  BY Zenon DEF StartUp, TypeOK
<1>5. fresh' \in [Node -> [Name -> BOOLEAN]]
  BY Zenon DEF StartUp, TypeOK
<1>6. queue' \in [Node -> SUBSET Name]
  BY Zenon DEF StartUp, TypeOK
<1>7. keyIndex' \in [Node -> [Name -> Key \cup {NoKey}]]
  BY Zenon DEF StartUp, TypeOK
<1>8. used' \in UsedType
  <2>1. used \in UsedType
    BY Zenon DEF TypeOK, UsedType
  <2>2. used.restarts < MaxRestarts /\ used' = [used EXCEPT !.restarts = used.restarts + 1]
    BY Zenon DEF StartUp
  <2>3. used.restarts + 1 \in 0..MaxRestarts
    BY <2>1, <2>2, MeshPeerAssumption DEF UsedType
  <2> QED
    BY <2>1, <2>2, <2>3, Zenon DEF UsedType
<1>9. UNCHANGED api
  BY Zenon DEF StartUp
<1> QED
  BY <1>2, <1>3, <1>4, <1>5, <1>6, <1>7, <1>8, <1>9, Zenon DEF TypeOK, UsedType

\* Every step keeps the types, and leaves the data planes alone or lets one node's
\* gain permitted routes.
LEMMA NextOK ==
  ASSUME TypeOK, Next
  PROVE  TypeOK' /\ (UNCHANGED plane \/ \E n \in Node : PlaneStep(n))
<1>1. CASE User
  BY <1>1, UserOK, Zenon
<1>2. ASSUME NEW n \in Node, NEW p \in Name, Deliver(n, p)
      PROVE  TypeOK' /\ UNCHANGED plane
  BY <1>2, DeliverOK, Zenon
<1>3. ASSUME NEW n \in Node, NEW p \in Name, Reconcile(n, p)
      PROVE  TypeOK' /\ PlaneStep(n)
  BY <1>3, ReconcileOK, Zenon
<1>4. ASSUME NEW n \in Node, NEW p \in Name, TornRestart(n, p)
      PROVE  TypeOK' /\ PlaneStep(n)
  <2>1. PICK dp \in Torn(n, p) : SetPlane(n, Restarted(dp))
    BY <1>4, Zenon DEF TornRestart
  <2>2. Allowed(n, dp)
    BY TornAllowed, Zenon
  <2>3. StartUp(n)
    BY <1>4, Zenon DEF TornRestart
  <2> QED
    BY <2>1, <2>2, <2>3, RestartOK, Zenon
<1>5. ASSUME NEW n \in Node, Restart(n)
      PROVE  TypeOK' /\ PlaneStep(n)
  <2>1. Allowed(n, plane[n])
    BY Zenon DEF Allowed, TypeOK
  <2> QED
    BY <1>5, <2>1, RestartOK, Zenon DEF Restart
<1> QED
  BY <1>1, <1>2, <1>3, <1>4, <1>5, Zenon DEF Next

-----------------------------------------------------------------------------
\* Every state of the MeshPeer life cycle is well typed and within its bounds.
THEOREM TypeCorrect == Spec => []TypeOK
<1>1. Init => TypeOK
  <2> SUFFICES ASSUME Init PROVE TypeOK
    BY Zenon
  <2>1. plane \in [Node -> DataPlane]
    BY EmptyType, Zenon DEF Init
  <2>2. used \in UsedType
    BY MeshPeerAssumption DEF Init, UsedType
  <2> QED
    BY <2>1, <2>2, Zenon DEF Init, TypeOK, UsedType
<1>2. TypeOK /\ [Next]_vars => TypeOK'
  <2>1. TypeOK /\ UNCHANGED vars => TypeOK'
    BY Zenon DEF TypeOK, vars
  <2> QED
    BY <2>1, NextOK, Zenon
<1> QED
  BY <1>1, <1>2, PTL DEF Spec

\* No node ever routes a CIDR Partition refuses into the mesh: not after failed
\* calls, not from a stale cache, not after a crash in the middle of a call.
THEOREM GuardHolds == Spec => []NeverRoutesWithheld
<1> DEFINE Inv == \A n \in Node : plane[n].routes \subseteq Permitted
<1>1. Init => Inv
  BY DEF Init, EmptyDataPlane
<1>2. TypeOK /\ Inv /\ [Next]_vars => Inv'
  <2> SUFFICES ASSUME TypeOK, Inv, [Next]_vars PROVE Inv'
    BY Zenon
  <2>1. CASE UNCHANGED plane
    BY <2>1, Zenon
  <2>2. ASSUME NEW n \in Node, PlaneStep(n)
        PROVE  Inv'
    <3>1. PICK dp : plane' = [plane EXCEPT ![n] = dp]
                    /\ dp.routes \subseteq plane[n].routes \cup Permitted
      BY <2>2, ZenonT(30) DEF PlaneStep, SetPlane, Allowed
    <3> QED
      BY <3>1, Zenon DEF TypeOK
  <2>3. UNCHANGED vars => UNCHANGED plane
    BY Zenon DEF vars
  <2> QED
    BY <2>1, <2>2, <2>3, NextOK, Zenon
<1>3. Inv => NeverRoutesWithheld
  BY Zenon DEF Permitted, NeverRoutesWithheld
<1> QED
  BY <1>1, <1>2, <1>3, TypeCorrect, PTL DEF Spec
-----------------------------------------------------------------------------
(***************************************************************************)
(* The bookkeeping of a node, while nothing fails.                         *)
(***************************************************************************)
\* No call fails and no agent restarts, every object has its own key, and an object
\* keeps its key unless no object is ever deleted.  Without these conditions keyIndex
\* and the device come apart, and what a deleted object had may stay behind.
Undisturbed ==
    /\ MaxFaults = 0 /\ MaxRestarts = 0 /\ ~LossyDelete
    /\ \A p, q \in Name : p # q =>
          \A s \in PeerSpec[p], t \in PeerSpec[q] : s.key # t.key
    /\ \/ \A p \in Name : \A s, t \in PeerSpec[p] : s.key = t.key
       \/ MaxDeletes = 0 /\ \A p \in Name : \A s \in PeerSpec[p] : s.key \notin BadKey

\* The index idx has exactly the keys of the device, each of them one of its object's,
\* and every host route is recorded for such a key and planned from a spec.
Accounted(idx, dp) ==
    /\ \A p \in Name : idx[p] # NoKey => \E s \in PeerSpec[p] : s.key = idx[p]
    /\ dp.peers = {idx[p] : p \in Name} \ {NoKey}
    /\ \A c \in dp.routes : \E k \in Key : c \in dp.peerRoutes[k]
    /\ \A k \in Key : \A c \in dp.peerRoutes[k] :
          \E p \in Name : idx[p] = k /\ \E s \in PeerSpec[p] : c \in RouteCIDRs(s)

\* An object is one of users' making, and deleted only where deletions happen.
Genuine(p, o) ==
    o # Absent => o.spec \in PeerSpec[p] /\ (o.deleting => MaxDeletes # 0)

\* What makes IndexExact and NothingStranded inductive.
ExactInv ==
    /\ \A p \in Name : Genuine(p, api[p])
    /\ \A n \in Node, p \in Name :
          /\ Genuine(p, cache[n][p])
          /\ fresh[n][p] => cache[n][p] = api[p]
          /\ keyIndex[n][p] # NoKey /\ cache[n][p] = Absent => p \in queue[n]
    /\ \A n \in Node : Accounted(keyIndex[n], plane[n])

\* Nothing fails and no agent starts again: the bounds of such steps are zero.
LEMMA NothingFails ==
  ASSUME Undisturbed, TypeOK
  PROVE  ~Fault /\ \A n \in Node : ~StartUp(n)
  BY MeshPeerAssumption DEF Undisturbed, TypeOK, Fault, StartUp

\* A key belongs to one object.
LEMMA OwnKey ==
  ASSUME Undisturbed, NEW p \in Name, NEW q \in Name, p # q,
         NEW s \in PeerSpec[p], NEW t \in PeerSpec[q]
  PROVE  s.key # t.key
  BY Zenon DEF Undisturbed

\* Taking the peer of an object off the device keeps the books right.
LEMMA RemoveAccounted ==
  ASSUME Undisturbed, NEW d \in DataPlane, NEW idx \in [Name -> Key \cup {NoKey}],
         Accounted(idx, d), NEW p \in Name, NEW s \in PeerSpec[p],
         idx[p] \in {NoKey, s.key}, NEW e \in RemovePeerOk(d, s.key)
  PROVE  Accounted([idx EXCEPT ![p] = NoKey], e)
<1> DEFINE k == s.key
           jdx == [idx EXCEPT ![p] = NoKey]
<1>1. k \in Key
  BY MeshPeerAssumption
<1>2. /\ e.peers = d.peers \ {k}
      /\ e.peerRoutes = [d.peerRoutes EXCEPT ![k] = {}]
      /\ e.routes \subseteq d.routes
      /\ e.routes \cap d.peerRoutes[k] = {}
  BY <1>1, RemoveOkShape DEF Undisturbed
<1>3. d.peerRoutes \in [Key -> SUBSET Cidr]
  BY Zenon DEF DataPlane
<1>4. ASSUME NEW q \in Name, q # p
      PROVE  idx[q] # k /\ jdx[q] = idx[q]
  <2>1. idx[q] # NoKey => \E t \in PeerSpec[q] : t.key = idx[q]
    BY Zenon DEF Accounted
  <2> QED
    BY <1>1, <1>4, <2>1, OwnKey, WireGuardAssumption, Zenon
<1>5. jdx[p] = NoKey /\ jdx \in [Name -> Key \cup {NoKey}]
  BY Zenon
<1>6. k # NoKey
  BY <1>1, WireGuardAssumption, Zenon
<1> HIDE DEF jdx, k
<1>7. idx[p] \in {NoKey, k}
  BY Zenon DEF k
<1>8. \A q \in Name : jdx[q] # NoKey => \E t \in PeerSpec[q] : t.key = jdx[q]
  BY <1>4, <1>5 DEF Accounted
<1>9. e.peers = {jdx[q] : q \in Name} \ {NoKey}
  BY <1>2, <1>4, <1>5, <1>6, <1>7 DEF Accounted
<1>10. \A c \in e.routes : \E l \in Key : c \in e.peerRoutes[l]
  BY <1>1, <1>2, <1>3, Zenon DEF Accounted
<1>11. ASSUME NEW l \in Key, NEW c \in e.peerRoutes[l]
       PROVE  \E q \in Name : jdx[q] = l /\ \E t \in PeerSpec[q] : c \in RouteCIDRs(t)
  <2>1. l # k /\ c \in d.peerRoutes[l]
    BY <1>1, <1>2, <1>3, Zenon
  <2>2. PICK q \in Name : idx[q] = l /\ \E t \in PeerSpec[q] : c \in RouteCIDRs(t)
    BY <2>1, Zenon DEF Accounted
  <2>3. q # p
    BY <1>7, <2>1, <2>2, WireGuardAssumption, Zenon
  <2> QED
    BY <1>4, <2>2, <2>3, Zenon
<1> QED
  BY <1>8, <1>9, <1>10, <1>11, Zenon DEF Accounted, jdx

\* So does programming it under the object's current key.
LEMMA ConfigureAccounted ==
  ASSUME Undisturbed, NEW d \in DataPlane, NEW idx \in [Name -> Key \cup {NoKey}],
         Accounted(idx, d), NEW p \in Name, NEW s \in PeerSpec[p],
         idx[p] \in {NoKey, s.key}, RouteCIDRs(s) \in SUBSET Cidr,
         NEW e \in ConfigurePeerOk(d, s.key, RouteCIDRs(s))
  PROVE  Accounted([idx EXCEPT ![p] = s.key], e)
<1> DEFINE k == s.key
           C == RouteCIDRs(s)
           jdx == [idx EXCEPT ![p] = k]
<1>1. k \in Key
  BY MeshPeerAssumption, Zenon
<1>2. C \in SUBSET Cidr /\ e \in ConfigurePeerOk(d, k, C)
  BY Zenon
<1>3. d.peerRoutes \in [Key -> SUBSET Cidr]
  BY Zenon DEF DataPlane
<1>4. ASSUME NEW q \in Name, q # p
      PROVE  idx[q] # k /\ jdx[q] = idx[q]
  <2>1. idx[q] # NoKey => \E t \in PeerSpec[q] : t.key = idx[q]
    BY Zenon DEF Accounted
  <2> QED
    BY <1>1, <1>4, <2>1, OwnKey, WireGuardAssumption, Zenon
<1>5. jdx[p] = k /\ k # NoKey /\ idx[p] \in {NoKey, k}
      /\ \A c \in C : c \in RouteCIDRs(s)
  BY <1>1, WireGuardAssumption, Zenon
<1>6. s.key = k
  BY Zenon
<1> HIDE DEF jdx, k, C
<1>7. /\ e.peers = d.peers \cup {k}
      /\ e.peerRoutes = [d.peerRoutes EXCEPT ![k] = C]
      /\ e.routes \subseteq d.routes \cup C
      /\ e.routes \cap (d.peerRoutes[k] \ C) = {}
  <2>1. Reconfigured(d, k, C, e) /\ ~LossyDelete
    BY <1>1, <1>2, ConfigureOkShape, Zenon DEF Undisturbed
  <2> QED
    BY <2>1, Zenon DEF Reconfigured
<1>8. \A q \in Name : jdx[q] # NoKey => \E t \in PeerSpec[q] : t.key = jdx[q]
  BY <1>4, <1>5, <1>6 DEF Accounted
<1>9. e.peers = {jdx[q] : q \in Name} \ {NoKey}
  BY <1>4, <1>5, <1>7 DEF Accounted
<1>10. \A c \in e.routes : \E l \in Key : c \in e.peerRoutes[l]
  BY <1>1, <1>3, <1>7 DEF Accounted
<1>11. ASSUME NEW l \in Key, NEW c \in e.peerRoutes[l]
       PROVE  \E q \in Name : jdx[q] = l /\ \E t \in PeerSpec[q] : c \in RouteCIDRs(t)
  <2>1. CASE l = k
    BY <1>3, <1>5, <1>7, <2>1, Zenon
  <2>2. CASE l # k
    <3>1. c \in d.peerRoutes[l]
      BY <1>1, <1>3, <1>7, <2>2, Zenon
    <3>2. PICK q \in Name : idx[q] = l /\ \E t \in PeerSpec[q] : c \in RouteCIDRs(t)
      BY <3>1, Zenon DEF Accounted
    <3>3. q # p
      BY <1>5, <2>2, <3>2, WireGuardAssumption, Zenon
    <3> QED
      BY <1>4, <3>2, <3>3, Zenon
  <2> QED
    BY <2>1, <2>2, Zenon
<1> QED
  BY <1>8, <1>9, <1>10, <1>11, Zenon DEF Accounted, jdx, k
-----------------------------------------------------------------------------
\* What a write to the API must be shown to do: objects stay genuine, and a cached
\* copy that is still fresh is of an object nobody wrote.
Published ==
    /\ \A p \in Name : Genuine(p, api'[p])
    /\ \A n \in Node, p \in Name : fresh'[n][p] => fresh[n][p] /\ api'[p] = api[p]

\* What a reconcile of p on n must be shown to do: the books of n stay right, and p
\* keeps a key only while it is cached.
Steady(n, p) ==
    /\ Published
    /\ Accounted(keyIndex'[n], plane'[n])
    /\ keyIndex'[n][p] = NoKey \/ cache[n][p] # Absent
    /\ \A q \in Name \ {p} : keyIndex'[n][q] = keyIndex[n][q]
    /\ \A m \in Node \ {n} : keyIndex'[m] = keyIndex[m] /\ plane'[m] = plane[m]

\* A genuine object is published.
LEMMA WritePublished ==
  ASSUME TypeOK, ExactInv, NEW p \in Name, NEW o, Genuine(p, o), Write(p, o)
  PROVE  Published
<1>1. api' = [api EXCEPT ![p] = o]
  BY Zenon DEF Write
<1>2. \A q \in Name : Genuine(q, api'[q])
  BY <1>1, Zenon DEF TypeOK, ExactInv
<1>3. \A n \in Node, q \in Name : fresh'[n][q] => fresh[n][q] /\ api'[q] = api[q]
  BY Zenon DEF Write, TypeOK
<1> QED
  BY <1>2, <1>3, Zenon DEF Published

\* Writing nothing publishes nothing.
LEMMA NoWritePublished ==
  ASSUME ExactInv, NoWrite
  PROVE  Published
  BY Zenon DEF ExactInv, NoWrite, Published

\* A status patch changes neither the spec nor the deletion mark.
LEMMA PatchPublished ==
  ASSUME TypeOK, ExactInv, NEW n \in Node, NEW p \in Name, NEW new, patchStatus(n, p, new)
  PROVE  Published
<1>1. CASE NoWrite
  BY <1>1, NoWritePublished, Zenon
<1>2. CASE ~NoWrite
  <2> DEFINE old == cache[n][p].status
             Merge(f) == IF new[f] # old[f] THEN new[f] ELSE api[p].status[f]
             st == [phase |-> Merge("phase"), handshake |-> Merge("handshake"),
                    observed |-> Merge("observed")]
             o == [api[p] EXCEPT !.status = st]
  <2>1. api[p] # Absent /\ Write(p, o)
    BY <1>2, Zenon DEF patchStatus
  <2>2. api[p] \in Object
    BY <2>1, Zenon DEF TypeOK
  <2> HIDE DEF st
  <2>3. o.spec = api[p].spec /\ o.deleting = api[p].deleting
    BY <2>2, Zenon DEF Object
  <2>4. Genuine(p, o)
    BY <2>1, <2>3, Zenon DEF ExactInv, Genuine
  <2> QED
    BY <2>1, <2>4, WritePublished, Zenon
<1> QED
  BY <1>1, <1>2, Zenon

\* What the books say of one node.
LEMMA NodeBooks ==
  ASSUME TypeOK, ExactInv, NEW n \in Node
  PROVE  /\ plane[n] \in DataPlane
         /\ keyIndex[n] \in [Name -> Key \cup {NoKey}]
         /\ Accounted(keyIndex[n], plane[n])
  BY Zenon DEF TypeOK, ExactInv

\* A step that leaves keyIndex and the data planes alone is steady.
LEMMA QuietSteady ==
  ASSUME TypeOK, ExactInv, NEW n \in Node, NEW p \in Name, cache[n][p] # Absent,
         Published, UNCHANGED <<keyIndex, plane>>
  PROVE  Steady(n, p)
  BY NodeBooks, Zenon DEF Steady

\* So is one that gives p a key, or none, and the node a data plane that agree.
LEMMA RekeySteady ==
  ASSUME TypeOK, NEW n \in Node, NEW p \in Name, NEW k, NEW dp, SetKey(n, p, k), SetPlane(n, dp),
         Accounted([keyIndex[n] EXCEPT ![p] = k], dp), k = NoKey \/ cache[n][p] # Absent,
         Published
  PROVE  Steady(n, p)
<1>1. keyIndex'[n] = [keyIndex[n] EXCEPT ![p] = k] /\ plane'[n] = dp
  BY Zenon DEF SetKey, SetPlane, TypeOK
<1>2. keyIndex'[n][p] = k /\ \A q \in Name \ {p} : keyIndex'[n][q] = keyIndex[n][q]
  BY <1>1, Zenon DEF TypeOK
<1>3. \A m \in Node \ {n} : keyIndex'[m] = keyIndex[m] /\ plane'[m] = plane[m]
  BY Zenon DEF SetKey, SetPlane, TypeOK
<1> QED
  BY <1>1, <1>2, <1>3, Zenon DEF Steady

\* NotFound: keyIndex names one of the object's keys, which comes off.
LEMMA GoneSteady ==
  ASSUME Undisturbed, TypeOK, ExactInv, NEW n \in Node, NEW p \in Name, ReconcileGone(n, p)
  PROVE  Steady(n, p)
<1>1. Published
  BY NoWritePublished, Zenon DEF ReconcileGone
<1>2. CASE keyIndex[n][p] = NoKey
  <2>1. UNCHANGED <<keyIndex, plane>>
    BY <1>2, Zenon DEF ReconcileGone
  <2> QED
    BY <1>1, <1>2, <2>1, NodeBooks, Zenon DEF Steady
<1>3. CASE keyIndex[n][p] # NoKey
  <2>1. PICK dp \in RemovePeerOk(plane[n], keyIndex[n][p]) : SetPlane(n, dp) /\ SetKey(n, p, NoKey)
    BY <1>3, NothingFails, Zenon DEF ReconcileGone
  <2>2. PICK s \in PeerSpec[p] : s.key = keyIndex[n][p]
    BY <1>3, NodeBooks, Zenon DEF Accounted
  <2>3. Accounted([keyIndex[n] EXCEPT ![p] = NoKey], dp)
    BY <2>1, <2>2, NodeBooks, RemoveAccounted, Zenon
  <2> QED
    BY <1>1, <2>1, <2>3, RekeySteady, Zenon
<1> QED
  BY <1>2, <1>3, Zenon

\* The finalizer: the object is written back as it was cached.
LEMMA AddFinalizerSteady ==
  ASSUME TypeOK, ExactInv, NEW n \in Node, NEW p \in Name, AddFinalizer(n, p)
  PROVE  Steady(n, p)
<1> DEFINE o == [cache[n][p] EXCEPT !.finalizer = TRUE]
<1>1. cache[n][p] \in Object /\ cache[n][p] # Absent
  BY DEF AddFinalizer, TypeOK
<1>2. o.spec = cache[n][p].spec /\ o.deleting = cache[n][p].deleting
  BY <1>1, Zenon DEF Object
<1>3. Genuine(p, o)
  BY <1>1, <1>2, Zenon DEF ExactInv, Genuine
<1>4. Write(p, o) \/ NoWrite
  BY Zenon DEF AddFinalizer
<1>5. Published
  <2> HIDE DEF o
  <2> QED
    BY <1>3, <1>4, WritePublished, NoWritePublished, Zenon
<1> QED
  BY <1>1, <1>5, QuietSteady, Zenon DEF AddFinalizer

\* Unless an object may rotate, keyIndex has its one key or none.
LEMMA StableKey ==
  ASSUME Undisturbed, TypeOK, ExactInv, NEW n \in Node, NEW p \in Name, NEW s \in PeerSpec[p],
         MaxDeletes # 0 \/ s.key \in BadKey
  PROVE  keyIndex[n][p] \in {NoKey, s.key}
<1>1. \A q \in Name : \A r, t \in PeerSpec[q] : r.key = t.key
  BY Zenon DEF Undisturbed
<1> QED
  BY <1>1, NodeBooks DEF Accounted

\* A deletion: with deletions about, the object has had one key only.
LEMMA DeleteSteady ==
  ASSUME Undisturbed, TypeOK, ExactInv, NEW n \in Node, NEW p \in Name, reconcileDelete(n, p)
  PROVE  Steady(n, p)
<1> DEFINE s == cache[n][p].spec
<1>1. cache[n][p] # Absent /\ s \in PeerSpec[p] /\ MaxDeletes # 0
  BY ZenonT(30) DEF reconcileDelete, ExactInv, Genuine
<1>2. keyIndex[n][p] \in {NoKey, s.key}
  BY <1>1, StableKey, Zenon
<1>3. Published
  <2>1. Genuine(p, Absent)
    BY Zenon DEF Genuine
  <2>2. Write(p, Absent) \/ NoWrite
    BY Zenon DEF reconcileDelete
  <2> QED
    BY <2>1, <2>2, WritePublished, NoWritePublished, Zenon
<1>4. CASE SetKey(n, p, NoKey) /\ \E dp \in RemovePeerOk(plane[n], s.key) : SetPlane(n, dp)
  <2>1. PICK dp \in RemovePeerOk(plane[n], s.key) : SetPlane(n, dp)
    BY <1>4, Zenon
  <2>2. Accounted([keyIndex[n] EXCEPT ![p] = NoKey], dp)
    <3> HIDE DEF s
    <3> QED
      BY <1>1, <1>2, NodeBooks, RemoveAccounted, Zenon
  <2> QED
    BY <1>3, <1>4, <2>1, <2>2, RekeySteady, Zenon
<1>5. CASE /\ s.key \in BadKey /\ UNCHANGED keyIndex
           /\ \E dp \in RemovePeerFail(plane[n], s.key) : SetPlane(n, dp)
  <2>1. SetPlane(n, plane[n])
    BY <1>5, Zenon DEF RemovePeerFail
  <2>2. UNCHANGED plane
    BY <2>1, Zenon DEF SetPlane, TypeOK
  <2> QED
    BY <1>1, <1>3, <1>5, <2>2, QuietSteady, Zenon
<1> QED
  BY <1>4, <1>5, NothingFails, ZenonT(30) DEF reconcileDelete

\* A successful apply: a key the object had before comes off, its current one goes on.
LEMMA ApplyOkSteady ==
  ASSUME Undisturbed, TypeOK, ExactInv, NEW n \in Node, NEW p \in Name,
         ToApply(n, p), ApplyOk(n, p)
  PROVE  Steady(n, p)
<1> DEFINE s == cache[n][p].spec
           idx == keyIndex[n]
<1>1. cache[n][p] \in Object /\ cache[n][p] # Absent /\ s \in PeerSpec[p]
  BY DEF ToApply, TypeOK, ExactInv, Genuine
<1>2. Published
  BY PatchPublished, NoWritePublished, ZenonT(30) DEF ApplyOk
<1>3. RouteCIDRs(s) \in SUBSET Cidr
  BY <1>1, PlanType, ZenonT(30) DEF ApplyOk
<1>4. PICK out \in RotatedOut(n, p) :
          \E dp \in ConfigurePeerOk(out, s.key, RouteCIDRs(s)) : SetPlane(n, dp)
  BY Zenon DEF ApplyOk
<1>5. PICK dp \in ConfigurePeerOk(out, s.key, RouteCIDRs(s)) : SetPlane(n, dp)
  BY <1>4, Zenon
<1>6. SetKey(n, p, s.key)
  BY ZenonT(30) DEF ApplyOk
<1>7. out \in DataPlane
  BY RotatedAllowed, Zenon DEF Allowed
<1>8. Accounted([idx EXCEPT ![p] = s.key], dp)
  <2>1. CASE ~Rotates(n, p)
    <3>1. out = plane[n] /\ idx[p] \in {NoKey, s.key}
      BY <2>1, ZenonT(30) DEF RotatedOut, Rotates
    <3> HIDE DEF s, idx
    <3>2. idx \in [Name -> Key \cup {NoKey}] /\ Accounted(idx, out)
      BY <3>1, NodeBooks, Zenon DEF idx
    <3> QED
      BY <1>1, <1>3, <1>5, <1>7, <3>1, <3>2, ConfigureAccounted, ZenonT(30)
  <2>2. CASE Rotates(n, p)
    <3> DEFINE jdx == [idx EXCEPT ![p] = NoKey]
    <3>1. idx[p] # NoKey /\ out \in RemovePeerOk(plane[n], idx[p])
      BY <2>2, Zenon DEF RotatedOut, Rotates
    <3>2. PICK t \in PeerSpec[p] : t.key = idx[p]
      BY <3>1, NodeBooks, Zenon DEF Accounted
    <3>3. Accounted(jdx, out)
      BY <3>1, <3>2, NodeBooks, RemoveAccounted, Zenon
    <3>4. jdx \in [Name -> Key \cup {NoKey}] /\ jdx[p] = NoKey
      BY NodeBooks, Zenon
    <3>5. [jdx EXCEPT ![p] = s.key] = [idx EXCEPT ![p] = s.key]
      BY NodeBooks, Zenon
    <3> HIDE DEF s, idx, jdx
    <3>6. Accounted([jdx EXCEPT ![p] = s.key], dp)
      BY <1>1, <1>3, <1>5, <1>7, <3>3, <3>4, ConfigureAccounted, ZenonT(30)
    <3> QED
      BY <3>5, <3>6, Zenon
  <2> QED
    BY <2>1, <2>2, Zenon
<1> QED
  BY <1>1, <1>2, <1>5, <1>6, <1>8, RekeySteady, ZenonT(30)

\* An apply fails only over its plan or its key, before it touches anything.
LEMMA ApplyFailSteady ==
  ASSUME Undisturbed, TypeOK, ExactInv, NEW n \in Node, NEW p \in Name,
         ToApply(n, p), ApplyFail(n, p)
  PROVE  Steady(n, p)
<1> DEFINE s == cache[n][p].spec
<1>1. cache[n][p] # Absent /\ s \in PeerSpec[p]
  BY Zenon DEF ToApply, ExactInv, Genuine
<1>2. Published /\ UNCHANGED keyIndex
  BY PatchPublished, NoWritePublished, Zenon DEF ApplyFail, Fail
<1>3. UNCHANGED plane
  <2>1. CASE RemapFails(s)
    BY <2>1, Zenon DEF ApplyFail
  <2>2. CASE ~RemapFails(s)
    <3>1. /\ s.key \in BadKey
          /\ \E out \in RotatedOut(n, p) :
                \E dp \in ConfigurePeerFail(out, s.key, RouteCIDRs(s)) : SetPlane(n, dp)
      BY <2>2, NothingFails, ZenonT(30) DEF ApplyFail
    <3>2. RotatedOut(n, p) = {plane[n]}
      BY <1>1, <3>1, StableKey, ZenonT(30) DEF RotatedOut, Rotates
    <3>3. ConfigurePeerFail(plane[n], s.key, RouteCIDRs(s)) = {plane[n]}
      BY <3>1, ZenonT(30) DEF ConfigurePeerFail
    <3> QED
      BY <3>1, <3>2, <3>3 DEF SetPlane, TypeOK
  <2> QED
    BY <2>1, <2>2, Zenon
<1> QED
  BY <1>1, <1>2, <1>3, QuietSteady, Zenon
\* A reconcile keeps the books.
LEMMA ReconcileExact ==
  ASSUME Undisturbed, TypeOK, ExactInv, NEW n \in Node, NEW p \in Name, Reconcile(n, p)
  PROVE  ExactInv'
<1>1. Steady(n, p)
  BY GoneSteady, AddFinalizerSteady, ApplyOkSteady, ApplyFailSteady, DeleteSteady
     DEF Reconcile, reconcileApply
<1>2. UNCHANGED cache
  BY ZenonT(30) DEF Reconcile, ReconcileGone, reconcileDelete, AddFinalizer, reconcileApply
<1>3. Done(n, p) \/ Requeue
  BY ZenonT(30) DEF Reconcile, ReconcileGone, reconcileDelete, AddFinalizer, reconcileApply
<1>4. ASSUME NEW m \in Node, NEW q \in Name, m # n \/ q # p
      PROVE  q \in queue[m] => q \in queue'[m]
  BY <1>3, <1>4 DEF Done, Requeue, TypeOK
<1>5. ASSUME NEW m \in Node, NEW q \in Name
      PROVE  /\ Genuine(q, cache'[m][q])
             /\ fresh'[m][q] => cache'[m][q] = api'[q]
             /\ keyIndex'[m][q] # NoKey /\ cache'[m][q] = Absent => q \in queue'[m]
  <2>1. Genuine(q, cache[m][q]) /\ (fresh[m][q] => cache[m][q] = api[q])
        /\ (keyIndex[m][q] # NoKey /\ cache[m][q] = Absent => q \in queue[m])
    BY Zenon DEF ExactInv
  <2>2. fresh'[m][q] => fresh[m][q] /\ api'[q] = api[q]
    BY <1>1, Zenon DEF Steady, Published
  <2>3. CASE m = n /\ q = p
    BY <1>1, <1>2, <2>1, <2>2, <2>3, Zenon DEF Steady
  <2>4. CASE m # n \/ q # p
    <3>1. keyIndex'[m][q] = keyIndex[m][q]
      BY <1>1, <2>4, Zenon DEF Steady
    <3> QED
      BY <1>2, <1>4, <2>1, <2>2, <2>4, <3>1, ZenonT(30)
  <2> QED
    BY <2>3, <2>4, Zenon
<1>6. ASSUME NEW m \in Node
      PROVE  Accounted(keyIndex'[m], plane'[m])
  <2>1. CASE m = n
    BY <1>1, <2>1, Zenon DEF Steady
  <2>2. CASE m # n
    BY <1>1, <2>2, NodeBooks, Zenon DEF Steady
  <2> QED
    BY <2>1, <2>2, Zenon
<1>7. \A q \in Name : Genuine(q, api'[q])
  BY <1>1, Zenon DEF Steady, Published
<1>8. ExactInv' <=>
        /\ \A q \in Name : Genuine(q, api'[q])
        /\ \A m \in Node, q \in Name :
              /\ Genuine(q, cache'[m][q])
              /\ fresh'[m][q] => cache'[m][q] = api'[q]
              /\ keyIndex'[m][q] # NoKey /\ cache'[m][q] = Absent => q \in queue'[m]
        /\ \A m \in Node : Accounted(keyIndex'[m], plane'[m])
  BY Zenon DEF ExactInv, Genuine, Accounted
<1> QED
  BY <1>5, <1>6, <1>7, <1>8, ZenonT(30)

\* A user writes genuine objects only.
LEMMA UserPublishes ==
  ASSUME TypeOK, ExactInv, User
  PROVE  Published /\ UNCHANGED local
<1>1. PICK p \in Name : (\E s \in PeerSpec[p] : Create(p, s) \/ UpdateSpec(p, s)) \/ Delete(p)
  BY Zenon DEF User
<1>2. ASSUME NEW s \in PeerSpec[p], Create(p, s)
      PROVE  Published /\ UNCHANGED local
  <2> DEFINE st == [phase |-> "", handshake |-> 0, observed |-> 0]
             o == [spec |-> s, gen |-> 1, finalizer |-> FALSE, deleting |-> FALSE,
                   status |-> st]
  <2>1. Genuine(p, o)
    BY Zenon DEF Genuine
  <2>2. Write(p, o) /\ UNCHANGED local
    BY <1>2, Zenon DEF Create
  <2> HIDE DEF o
  <2> QED
    BY <2>1, <2>2, WritePublished, Zenon
<1>3. ASSUME NEW s \in PeerSpec[p], UpdateSpec(p, s)
      PROVE  Published /\ UNCHANGED local
  <2> DEFINE o == [api[p] EXCEPT !.spec = s, !.gen = @ + 1]
  <2>1. api[p] \in Object /\ api[p] # Absent
    BY <1>3, Zenon DEF UpdateSpec, TypeOK
  <2>2. o.spec = s /\ o.deleting = api[p].deleting
    BY <2>1, Zenon DEF Object
  <2>3. Genuine(p, o)
    BY <2>1, <2>2, Zenon DEF Genuine, ExactInv
  <2>4. Write(p, o) /\ UNCHANGED local
    BY <1>3, Zenon DEF UpdateSpec
  <2> HIDE DEF o
  <2> QED
    BY <2>3, <2>4, WritePublished, Zenon
<1>4. ASSUME Delete(p)
      PROVE  Published /\ UNCHANGED local
  <2> DEFINE d == [api[p] EXCEPT !.deleting = TRUE, !.gen = @ + 1]
             o == IF api[p].finalizer THEN d ELSE Absent
  <2>1. api[p] \in Object /\ api[p] # Absent
    BY <1>4, Zenon DEF Delete, TypeOK
  <2>2. d.spec = api[p].spec
    BY <2>1, Zenon DEF Object
  <2>3. MaxDeletes # 0
    BY <1>4, MeshPeerAssumption DEF Delete, TypeOK
  <2>4. Write(p, o) /\ UNCHANGED local
    BY <1>4, Zenon DEF Delete
  <2> HIDE DEF d
  <2>5. Genuine(p, o)
    BY <2>1, <2>2, <2>3, Zenon DEF Genuine, ExactInv
  <2> HIDE DEF o
  <2> QED
    BY <2>4, <2>5, WritePublished, Zenon
<1> QED
  BY <1>1, <1>2, <1>3, <1>4, Zenon

\* The books stay right under every step.
LEMMA NextExact ==
  ASSUME Undisturbed, TypeOK, ExactInv, Next
  PROVE  ExactInv'
<1>1. CASE User
  <2>1. Published /\ UNCHANGED local
    BY <1>1, UserPublishes, Zenon
  <2> QED
    BY ONLY <2>1, ExactInv, SMTT(30) DEF ExactInv, Published, local
<1>2. ASSUME NEW n \in Node, NEW p \in Name, Deliver(n, p)
      PROVE  ExactInv'
  <2>1. /\ cache' = [cache EXCEPT ![n][p] = api[p]]
        /\ fresh' = [fresh EXCEPT ![n][p] = TRUE]
        /\ queue' = [queue EXCEPT ![n] = queue[n] \cup {p}]
        /\ UNCHANGED <<api, keyIndex, plane>>
    BY <1>2, Zenon DEF Deliver
  <2>2. ASSUME NEW m \in Node, NEW q \in Name
        PROVE  /\ Genuine(q, cache[m][q])'
               /\ fresh'[m][q] => cache'[m][q] = api'[q]
               /\ keyIndex'[m][q] # NoKey /\ cache'[m][q] = Absent => q \in queue'[m]
    <3>1. CASE m = n /\ q = p
      BY <2>1, <3>1, ZenonT(30) DEF TypeOK, ExactInv, Genuine
    <3>2. CASE m # n \/ q # p
      <4>1. cache'[m][q] = cache[m][q] /\ fresh'[m][q] = fresh[m][q]
            /\ (q \in queue[m] => q \in queue'[m])
        BY <2>1, <3>2, ZenonT(30) DEF TypeOK
      <4> QED
        BY <2>1, <4>1, Zenon DEF ExactInv, Genuine
    <3> QED
      BY <3>1, <3>2, Zenon
  <2> QED
    BY <2>1, <2>2 DEF ExactInv, Accounted, Genuine
<1>3. ASSUME NEW n \in Node, NEW p \in Name, Reconcile(n, p)
      PROVE  ExactInv'
  BY <1>3, ReconcileExact, Zenon
<1>4. \A n \in Node : ~Restart(n) /\ \A p \in Name : ~TornRestart(n, p)
  BY NothingFails, Zenon DEF Restart, TornRestart
<1> QED
  BY <1>1, <1>2, <1>3, <1>4, Zenon DEF Next

\* The books are right in every state.
LEMMA BooksExact ==
  ASSUME Undisturbed
  PROVE  Spec => []ExactInv
<1>1. Init => ExactInv
  BY DEF Init, ExactInv, Genuine, Accounted, EmptyDataPlane
<1>2. TypeOK /\ ExactInv /\ [Next]_vars => ExactInv'
  <2>1. ExactInv /\ UNCHANGED vars => ExactInv'
    BY DEF ExactInv, Genuine, Accounted, vars
  <2> QED
    BY <2>1, NextExact, Zenon
<1> QED
  BY <1>1, <1>2, TypeCorrect, PTL DEF Spec

\* While nothing fails, keyIndex names exactly the peers on every node's device,
\* through any number of edits, key rotations and stale reads: no peer is there that
\* NotFound could not tear down.
THEOREM IndexIsExact ==
  ASSUME Undisturbed
  PROVE  Spec => []IndexExact
<1>1. ExactInv => IndexExact
  BY Zenon DEF ExactInv, Accounted, IndexExact
<1> QED
  BY <1>1, BooksExact, PTL

\* While nothing fails, a node that is done with a deleted MeshPeer has no WireGuard
\* peer and no host route left of it, whichever node took the finalizer off.
THEOREM NothingIsStranded ==
  ASSUME Undisturbed
  PROVE  Spec => []NothingStranded
<1>1. ASSUME ExactInv, TypeOK
      PROVE  NothingStranded
  <2> SUFFICES ASSUME NEW n \in Node
      PROVE LET rest == {p \in Name : ~Finished(n, p)} IN
        /\ \A k \in plane[n].peers : \E p \in rest : \E s \in PeerSpec[p] : s.key = k
        /\ \A c \in plane[n].routes : \E p \in rest : \E s \in PeerSpec[p] : c \in RouteCIDRs(s)
    BY Zenon DEF NothingStranded
  <2> DEFINE rest == {p \in Name : ~Finished(n, p)}
  <2>1. \A p \in Name : keyIndex[n][p] # NoKey => p \in rest
    BY <1>1, Zenon DEF ExactInv, Finished
  <2> HIDE DEF rest
  <2>2. Accounted(keyIndex[n], plane[n])
    BY <1>1, NodeBooks, Zenon
  <2>3. \A k \in plane[n].peers : \E p \in rest : \E s \in PeerSpec[p] : s.key = k
    <3> SUFFICES ASSUME NEW k \in plane[n].peers
                 PROVE  \E p \in rest : \E s \in PeerSpec[p] : s.key = k
      BY Zenon
    <3>1. PICK p \in Name : keyIndex[n][p] = k /\ k # NoKey
      BY <2>2 DEF Accounted
    <3>2. p \in rest /\ \E s \in PeerSpec[p] : s.key = k
      BY <2>1, <2>2, <3>1, Zenon DEF Accounted
    <3> QED
      BY <3>2, Zenon
  <2>4. \A c \in plane[n].routes : \E p \in rest : \E s \in PeerSpec[p] : c \in RouteCIDRs(s)
    BY <2>1, <2>2, WireGuardAssumption DEF Accounted
  <2> QED
    BY <2>3, <2>4, Zenon DEF rest
<1> QED
  BY <1>1, BooksExact, TypeCorrect, PTL
=============================================================================
