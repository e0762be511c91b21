--------------------------- MODULE ServicesProofs ---------------------------
(***************************************************************************)
(* Proofs about service discovery, for any number of nodes, clusters and   *)
(* services: what the ServiceExport controllers publish once they rest,    *)
(* that a deleted export is withdrawn first, and that the import of a      *)
(* service that is exported all the time is never deleted.                 *)
(***************************************************************************)
EXTENDS Services, TLAPS

-----------------------------------------------------------------------------
(***************************************************************************)
(* Types, and the caches.                                                  *)
(***************************************************************************)
ExportDo == {"finalizer", "publish", "withdraw", "valid"}
ImportDo == {"import", "status", "unimport", "slices", "put", "drop"}
Do(ctl) == IF ctl = "export" THEN ExportDo ELSE ImportDo

\* A reconcile in progress has calls to make.
IsList(t) == t \in Seq(Range(t))
CallOK(c, do) ==
    c.do \in do /\ (c.do = "finalizer" => IsExport(c.obj)) /\ (c.do = "import" => IsImport(c.obj))
TodoOK(t, do) == IsList(t) /\ \A i \in 1..Len(t) : CallOK(t[i], do)
RunOK(r, do) ==
    /\ DOMAIN r = {"key", "todo"} /\ TodoOK(r.todo, do)
    /\ r # Idle => r.key \in Key /\ r.todo # <<>>

WorkOK ==
    /\ DOMAIN queue = Node /\ DOMAIN run = Node
    /\ \A n \in Node : DOMAIN queue[n] = Ctl /\ DOMAIN run[n] = Ctl
    /\ \A n \in Node, ctl \in Ctl : RunOK(run[n][ctl], Do(ctl))

TypeOK ==
    /\ \A S \in SUBSET SliceName : Listing(S) \in Seq(S)
    /\ WellFormed(store)
    /\ DOMAIN cache = Node /\ \A n \in Node : WellFormed(cache[n])
    /\ DOMAIN stale = Node /\ \A n \in Node : \A x \in stale[n] : x = <<x[1], x[2]>>
    /\ WorkOK /\ crossed \in BOOLEAN

\* Only a running controller works, and a copy that is not outdated is the object.
Local(s, k) == s.ee[<<ClusterID, k>>]
CopyOK(s, copy, outdated, k) ==
    /\ <<"svc", k>> \notin outdated => copy.svc[k] = s.svc[k]
    /\ <<"exp", k>> \notin outdated => copy.exp[k] = s.exp[k]
    /\ <<"ee", <<ClusterID, k>>>> \notin outdated => Local(copy, k) = Local(s, k)
CacheOK ==
    /\ \A n \in Node : "export" \notin Running(n) => run[n]["export"] = Idle /\ queue[n]["export"] = {}
    /\ \A n \in Node, k \in Key : "export" \in Running(n) => CopyOK(store, cache[n], stale[n], k)

-----------------------------------------------------------------------------
(***************************************************************************)
(* Calls and writes.                                                       *)
(***************************************************************************)
\* The reconcile q goes on from r after its first call, which adds the calls of more.
Continues(r, q, more) ==
    IF Len(more) + Len(r.todo) = 1 THEN q = Idle
    ELSE /\ q # Idle /\ DOMAIN q = {"key", "todo"} /\ q.key = r.key
         /\ IsList(q.todo) /\ q.todo # <<>>
         /\ Len(q.todo) = Len(more) + Len(r.todo) - 1
         /\ \A i \in 1..Len(more) : q.todo[i] = more[i]
         /\ \A i \in (Len(more) + 1)..Len(q.todo) : q.todo[i] = r.todo[i - Len(more) + 1]

\* The other reconciles and requests are left alone.
Others(n, ctl) ==
    /\ DOMAIN queue' = Node /\ DOMAIN run' = Node
    /\ \A m \in Node : DOMAIN queue'[m] = Ctl /\ DOMAIN run'[m] = Ctl
    /\ \A m \in Node, d \in Ctl : <<m, d>> # <<n, ctl>> =>
          run'[m][d] = run[m][d] /\ queue'[m][d] = queue[m][d]
Went(n, ctl, more) ==
    Others(n, ctl) /\ queue' = queue /\ Continues(run[n][ctl], run'[n][ctl], more)
Failed(n, ctl) ==
    /\ Others(n, ctl)
    /\ run'[n][ctl] = Idle /\ queue'[n][ctl] = queue[n][ctl] \cup {run[n][ctl].key}

\* The empty list, and a list of one call.
LEMMA ShortLists ==
  /\ Len(<<>>) = 0 /\ IsList(<<>>) /\ \A do : TodoOK(<<>>, do) /\ RunOK(Idle, do)
  /\ \A c : Len(<<c>>) = 1 /\ IsList(<<c>>) /\ <<c>>[1] = c
<1>1. Len(<<>>) = 0 /\ IsList(<<>>) /\ \A do : TodoOK(<<>>, do)
  BY DEF TodoOK, IsList
<1>2. ASSUME NEW c PROVE Len(<<c>>) = 1 /\ IsList(<<c>>) /\ <<c>>[1] = c
  BY DEF Range, IsList
<1>3. \A do : RunOK(Idle, do)
  BY <1>1, Zenon DEF RunOK, Idle
<1> QED
  BY <1>1, <1>2, <1>3, Zenon

\* A reconcile that goes on and adds no call has the rest of its calls before it.
LEMMA GoesOn ==
  ASSUME NEW r, NEW q, Len(r.todo) \in Nat \ {0}, Continues(r, q, <<>>)
  PROVE  \/ Len(r.todo) = 1 /\ q = Idle
         \/ /\ Len(r.todo) > 1 /\ Len(r.todo) # 1 /\ q # Idle /\ q.key = r.key
            /\ IsList(q.todo) /\ Len(q.todo) = Len(r.todo) - 1
            /\ \A i \in 1..Len(q.todo) : q.todo[i] = r.todo[i + 1]
<1>1. PICK a, z : a = Len(r.todo) /\ z = Len(<<>>)
  BY Zenon
<1>2. a \in Nat \ {0} /\ z = 0
  BY <1>1, ShortLists, Zenon
<1>3. CASE a = 1
  <2>1. z + a = 1
    BY ONLY <1>2, <1>3
  <2> QED
    BY <1>1, <1>3, <2>1, Zenon DEF Continues
<1>4. CASE a # 1
  <2>1. z + a # 1 /\ a > 1 /\ z + a - 1 = a - 1 /\ z + 1 = 1 /\ \A i \in Int : i - z + 1 = i + 1
    BY ONLY <1>2, <1>4
  <2>2. /\ q # Idle /\ q.key = r.key /\ IsList(q.todo) /\ Len(q.todo) = a - 1
        /\ \A i \in 1..Len(q.todo) : q.todo[i] = r.todo[i - z + 1]
    BY <1>1, <2>1, Zenon DEF Continues
  <2>3. \A i \in 1..Len(q.todo) : i \in Int
    BY ONLY TRUE
  <2> QED
    BY <1>1, <1>4, <2>1, <2>2, <2>3, Zenon
<1> QED
  BY <1>3, <1>4, Zenon

\* A reconcile whose next call changes the finalizer is an update.
LEMMA NextUpdates ==
  ASSUME NEW r, IsList(r.todo), Len(r.todo) \in Nat \ {0}, r.todo[1].do = "finalizer"
  PROVE  Updates(r)
<1>1. 1 \in DOMAIN r.todo
  BY DEF IsList
<1> QED
  BY <1>1, Zenon DEF Updates

\* A call that succeeds, and one that fails.
LEMMA Calls ==
  ASSUME TypeOK, NEW n \in Node, NEW ctl \in Ctl, run[n][ctl] # Idle
  PROVE  /\ Error(n, ctl) => Failed(n, ctl)
         /\ \A more : IsList(more) /\ Next1(n, ctl, more) => Went(n, ctl, more)
<1>1. WorkOK
  BY Zenon DEF TypeOK
<1>2. ASSUME Error(n, ctl) PROVE Failed(n, ctl)
  BY <1>1, <1>2, Zenon DEF Error, Failed, Others, WorkOK
<1>3. ASSUME NEW m, IsList(m), Next1(n, ctl, m) PROVE Went(n, ctl, m)
  <2> DEFINE r == run[n][ctl]
             S == Range(m) \cup Range(r.todo)
             v == Tail(r.todo)
             u == m \o v
             q == IF u = <<>> THEN Idle ELSE [r EXCEPT !.todo = u]
  <2>1. IsList(r.todo) /\ r.todo # <<>> /\ DOMAIN r = {"key", "todo"}
    BY <1>1, Zenon DEF WorkOK, RunOK, TodoOK
  <2>2. run' = [run EXCEPT ![n][ctl] = q] /\ queue' = queue
    BY <1>3, Zenon DEF Next1
  <2>3. run'[n][ctl] = q /\ Others(n, ctl)
    BY <1>1, <2>2, Zenon DEF WorkOK, Others
  <2>4. m \in Seq(S) /\ r.todo \in Seq(S)
    BY <1>3, <2>1 DEF IsList
  <2> HIDE DEF r, S
  <2>5. /\ Len(m) \in Nat /\ Len(r.todo) \in Nat \ {0} /\ v \in Seq(S) /\ Len(v) = Len(r.todo) - 1
        /\ \A i \in 1..Len(v) : v[i] = r.todo[i + 1]
    BY <2>1, <2>4
  <2> HIDE DEF v
  <2>u. u = m \o v
    BY Zenon
  <2> HIDE DEF u
  <2>6. u \in Seq(S) /\ Len(u) = Len(m) + Len(v)
    <3>1. m \in Seq(S) /\ v \in Seq(S)
      BY <2>4, <2>5, Zenon
    <3> QED
      BY ONLY <3>1, <2>u
  <2>7. /\ \A i \in 1..Len(m) : u[i] = m[i]
        /\ \A i \in (Len(m) + 1)..Len(u) : u[i] = v[i - Len(m)]
    BY <2>4, <2>5, <2>6, <2>u
  <2>8. IsList(u)
    BY <2>6 DEF IsList, Range
  <2>e. u = <<>> <=> Len(u) = 0
    BY <2>6
  <2>9. Continues(r, q, m)
    <3>1. CASE u = <<>>
      BY <2>5, <2>6, <2>e, <3>1 DEF Continues
    <3>2. CASE u # <<>>
      <4>1. Len(m) + Len(r.todo) # 1 /\ Len(u) = Len(m) + Len(r.todo) - 1
        BY <2>5, <2>6, <2>e, <3>2
      <4>2. q.todo = u /\ q.key = r.key /\ DOMAIN q = {"key", "todo"} /\ q # Idle
        BY <2>1, <3>2, Zenon DEF Idle
      <4>3. ASSUME NEW i \in (Len(m) + 1)..Len(u) PROVE u[i] = r.todo[i - Len(m) + 1]
        <5>1. i - Len(m) \in 1..Len(v) /\ (i - Len(m)) + 1 = i - Len(m) + 1
          BY <2>5, <2>6
        <5>2. v[i - Len(m)] = r.todo[(i - Len(m)) + 1]
          BY <2>5, <5>1, Zenon
        <5> QED
          BY <2>7, <5>1, <5>2, Zenon
      <4> HIDE DEF q
      <4> QED
        BY <2>7, <2>8, <3>2, <4>1, <4>2, <4>3, Zenon DEF Continues
    <3> QED
      BY <3>1, <3>2, Zenon
  <2> HIDE DEF q
  <2> QED
    BY <2>2, <2>3, <2>9, Zenon DEF Went, r
<1> QED
  BY <1>2, <1>3, Zenon

\* An object that may be written there.
Fits(kind, id, obj) ==
    \/ kind = "svc" /\ id \in Key
    \/ kind = "exp" /\ id \in Key /\ (obj # None => IsExport(obj))
    \/ kind = "si" /\ id \in Key /\ (obj # None => IsImport(obj))
    \/ kind = "sl"
    \/ kind = "ee" /\ id \in Cluster \X Key
Wrote(kind, id, obj) == Fits(kind, id, obj) /\ Write(kind, id, obj)
At(kind, id, obj, x, y, old) == IF kind = x /\ id = y THEN obj ELSE old

Affects(kind, id, obj, k) ==
    /\ store'.svc[k] = At(kind, id, obj, "svc", k, store.svc[k])
    /\ store'.exp[k] = At(kind, id, obj, "exp", k, store.exp[k])
    /\ store'.si[k] = At(kind, id, obj, "si", k, store.si[k])
    /\ Local(store', k) = At(kind, id, obj, "ee", <<ClusterID, k>>, Local(store, k))
Outdates(kind, id, obj, n) ==
    /\ stale[n] \subseteq stale'[n] /\ stale'[n] \subseteq stale[n] \cup {<<kind, id>>}
    /\ obj = store[kind][id] => stale'[n] = stale[n]
    /\ obj # store[kind][id] /\ kind \in Watched(n) => <<kind, id>> \in stale'[n]

\* What a write does to the objects, and that who watches the kind has an outdated copy.
LEMMA Effect ==
  ASSUME TypeOK, NEW kind, NEW id, NEW obj, Wrote(kind, id, obj)
  PROVE  /\ WellFormed(store)' /\ DOMAIN stale' = Node
         /\ \A k \in Key : Affects(kind, id, obj, k)
         /\ \A n \in Node : Outdates(kind, id, obj, n)
<1>1. /\ DOMAIN store = Kind /\ DOMAIN store.svc = Key /\ DOMAIN store.exp = Key
      /\ DOMAIN store.si = Key /\ DOMAIN store.ee = Cluster \X Key
      /\ \A k \in Key : /\ store.exp[k] # None => IsExport(store.exp[k])
                        /\ store.si[k] # None => IsImport(store.si[k])
  BY Zenon DEF TypeOK, WellFormed
<1>2. store' = [store EXCEPT ![kind][id] = obj] /\ Fits(kind, id, obj) /\ kind \in Kind
  BY Zenon DEF Wrote, Write, Fits, Kind
<1>3. DOMAIN store' = Kind /\ \A x \in Kind : DOMAIN store'[x] = DOMAIN store[x]
  BY <1>1, <1>2, Zenon
<1>4. \A x \in Kind : \A y \in DOMAIN store[x] : store'[x][y] = At(kind, id, obj, x, y, store[x][y])
  BY <1>1, <1>2, Zenon DEF At
<1>5. ASSUME NEW k \in Key PROVE Affects(kind, id, obj, k)
  <2>1. <<ClusterID, k>> \in Cluster \X Key
    BY ServicesAssumption, Zenon
  <2>2. "svc" \in Kind /\ "exp" \in Kind /\ "si" \in Kind /\ "ee" \in Kind
    BY Zenon DEF Kind
  <2> QED
    BY <1>1, <1>4, <2>1, <2>2, Zenon DEF Local, Affects
<1>6. WellFormed(store)'
  <2>1. ASSUME NEW k \in Key
        PROVE  /\ store'.exp[k] # None => IsExport(store'.exp[k])
               /\ store'.si[k] # None => IsImport(store'.si[k])
    <3>1. kind = "exp" => (obj # None => IsExport(obj))
      BY <1>2, Zenon DEF Fits
    <3>2. kind = "si" => (obj # None => IsImport(obj))
      BY <1>2, Zenon DEF Fits
    <3> QED
      BY <1>1, <1>5, <3>1, <3>2, Zenon DEF At, Affects
  <2>2. /\ DOMAIN store'.svc = Key /\ DOMAIN store'.exp = Key
        /\ DOMAIN store'.si = Key /\ DOMAIN store'.ee = Cluster \X Key
    BY <1>1, <1>3, Zenon DEF Kind
  <2> QED
    BY <1>3, <2>1, <2>2, Zenon DEF WellFormed
<1>7. DOMAIN stale' = Node /\ \A n \in Node : Outdates(kind, id, obj, n)
  BY Zenon DEF Wrote, Write, TypeOK, Outdates
<1> QED
  BY <1>5, <1>6, <1>7, Zenon
-----------------------------------------------------------------------------
(***************************************************************************)
(* How a call ends.                                                        *)
(***************************************************************************)
Calling(n, ctl, r, c, k) ==
    /\ r = run[n][ctl] /\ r # Idle /\ c = r.todo[1] /\ k = r.key /\ k \in Key /\ CallOK(c, Do(ctl))
    /\ IsList(r.todo) /\ Len(r.todo) \in Nat \ {0}
    /\ Versions /\ UNCHANGED <<cache, active>> /\ (crossed => crossed') /\ crossed' \in BOOLEAN

ExportDone(n, k, c) ==
    \/ Failed(n, "export") /\ NoWrite
    \/ /\ Went(n, "export", <<>>)
       /\ \/ /\ c.do = "finalizer" /\ n \notin lapsed
             /\ Wrote("exp", k, IF c.on THEN [c.obj EXCEPT !.finalizer = TRUE] ELSE None)
          \/ /\ c.do = "publish" /\ (~Guarded(k) => crossed')
             /\ \/ Wrote("ee", <<ClusterID, k>>, c.obj)
                \/ /\ Local(cache[n], k) = c.obj /\ NoWrite
                   /\ <<"ee", <<ClusterID, k>>>> \in stale[n] => crossed'
          \/ c.do = "withdraw" /\ Wrote("ee", <<ClusterID, k>>, None)
          \/ /\ c.do = "valid" /\ store.exp[k] # None
             /\ Wrote("exp", k, [store.exp[k] EXCEPT !.valid = c.to])

\* A call of the ServiceExport controller fails, or goes on after a write.
LEMMA ExportEnds ==
  ASSUME TypeOK, NEW n \in Node, Call(n, "export") \/ CallFails(n, "export")
  PROVE  \E r, c, k : Calling(n, "export", r, c, k) /\ ExportDone(n, k, c)
<1>1. PICK r, c, k : r = run[n]["export"] /\ c = r.todo[1] /\ k = r.key
  BY Zenon
<1>2. "export" \in Ctl /\ Do("export") = ExportDo /\ crossed \in BOOLEAN /\ WellFormed(store) /\ r # Idle
      /\ RunOK(r, ExportDo) /\ Versions /\ UNCHANGED <<cache, active>>
  <2>1. "export" \in Ctl /\ Do("export") = ExportDo
    BY Zenon DEF Ctl, Do
  <2> QED
    BY <1>1, <2>1, Zenon DEF Call, CallFails, TypeOK, WorkOK, history
<1>3. k \in Key /\ IsList(r.todo) /\ r.todo # <<>>
  BY <1>1, <1>2, Zenon DEF RunOK, TodoOK
<1>4. Len(r.todo) \in Nat \ {0} /\ Head(r.todo) = c
  BY <1>1, <1>3 DEF IsList
<1>5. CallOK(c, ExportDo)
  BY <1>1, <1>2, <1>4 DEF RunOK, TodoOK
<1>6. \/ c.do = "finalizer" /\ UpdateExport(n, k, c)
      \/ c.do = "publish" /\ publishEndpointExport(n, k, c)
      \/ c.do = "withdraw" /\ withdrawEndpointExport(n, k)
      \/ c.do = "valid" /\ patchValid(n, k, c)
      \/ CallFails(n, "export")
  BY <1>1, <1>4, <1>5, Zenon DEF Call, CallOK, ExportDo
<1>7. /\ Error(n, "export") => Failed(n, "export")
      /\ Next1(n, "export", <<>>) => Went(n, "export", <<>>)
  BY <1>1, <1>2, Calls, ShortLists, Zenon
<1>8. ASSUME crossed => crossed', crossed' \in BOOLEAN, ExportDone(n, k, c)
      PROVE  \E x, y, z : Calling(n, "export", x, y, z) /\ ExportDone(n, z, y)
  BY <1>1, <1>2, <1>3, <1>4, <1>5, <1>8, Zenon DEF Calling
<1>9. Fits("exp", k, None) /\ \A obj : Fits("ee", <<ClusterID, k>>, obj)
  BY <1>3, ServicesAssumption, Zenon DEF Fits
<1>10. ASSUME NEW e, IsExport(e) PROVE Fits("exp", k, e)
  BY <1>3, <1>10, Zenon DEF Fits
<1>11. CASE c.do = "finalizer" /\ UpdateExport(n, k, c)
  <2>1. IsExport([c.obj EXCEPT !.finalizer = TRUE])
    BY <1>5, <1>11, Zenon DEF CallOK, IsExport
  <2> QED
    BY <1>2, <1>7, <1>8, <1>9, <1>10, <1>11, <2>1, Zenon DEF UpdateExport, ExportDone, Wrote
<1>12. CASE c.do = "publish" /\ publishEndpointExport(n, k, c)
  <2>1. /\ crossed' \in BOOLEAN /\ (crossed => crossed') /\ (~Guarded(k) => crossed')
        /\ Trusts(n, "ee", <<ClusterID, k>>, c.obj) => crossed'
    BY <1>2, <1>12, Zenon DEF publishEndpointExport
  <2>2. \/ Write("ee", <<ClusterID, k>>, c.obj) /\ Next1(n, "export", <<>>)
        \/ cache[n].ee[<<ClusterID, k>>] = c.obj /\ NoWrite /\ Next1(n, "export", <<>>)
        \/ NoWrite /\ Error(n, "export")
    BY <1>12, Zenon DEF publishEndpointExport, CreateOrUpdate
  <2> QED
    BY <1>7, <1>8, <1>9, <1>12, <2>1, <2>2, Zenon DEF ExportDone, Trusts, Wrote, Local
<1>13. CASE c.do = "withdraw" /\ withdrawEndpointExport(n, k)
  BY <1>2, <1>7, <1>8, <1>9, <1>13, Zenon DEF withdrawEndpointExport, ExportDone, Wrote
<1>14. CASE c.do = "valid" /\ patchValid(n, k, c)
  <2>1. store.exp[k] # None => IsExport([store.exp[k] EXCEPT !.valid = c.to])
    BY <1>2, <1>3, Zenon DEF WellFormed, IsExport
  <2> QED
    BY <1>2, <1>7, <1>8, <1>10, <1>14, <2>1, Zenon DEF patchValid, ExportDone, Wrote
<1>15. CASE CallFails(n, "export")
  BY <1>2, <1>7, <1>8, <1>15, Zenon DEF CallFails, NoWrite, history, ExportDone
<1> QED
  BY <1>6, <1>11, <1>12, <1>13, <1>14, <1>15, Zenon

ImportDone(n, k, c) ==
    \/ Failed(n, "import") /\ NoWrite
    \/ \E more :
          /\ Went(n, "import", more) /\ TodoOK(more, ImportDo)
          /\ \A i \in 1..Len(more) : more[i].do # "unimport"
          /\ \/ NoWrite
             \/ \E id, obj : Wrote("sl", id, obj)
             \/ \E obj : Wrote("si", k, obj) /\ (obj = None => c.do = "unimport")

\* A call of the ServiceImport controller fails, or goes on after it wrote the import or
\* a slice; only deleteServiceImport deletes the import.
LEMMA ImportEnds ==
  ASSUME TypeOK, NEW n \in Node, Call(n, "import") \/ CallFails(n, "import")
  PROVE  \E r, c, k : Calling(n, "import", r, c, k) /\ ImportDone(n, k, c)
<1>1. PICK r, c, k : r = run[n]["import"] /\ c = r.todo[1] /\ k = r.key
  BY Zenon
<1>2. "import" \in Ctl /\ Do("import") = ImportDo /\ crossed \in BOOLEAN /\ WellFormed(store) /\ r # Idle
      /\ RunOK(r, ImportDo) /\ Versions /\ UNCHANGED <<cache, active>> /\ WellFormed(cache[n])
  <2>1. "import" \in Ctl /\ Do("import") = ImportDo
    BY Zenon DEF Ctl, Do
  <2> QED
    BY <1>1, <2>1, Zenon DEF Call, CallFails, TypeOK, WorkOK, history
<1>3. k \in Key /\ IsList(r.todo) /\ r.todo # <<>>
  BY <1>1, <1>2, Zenon DEF RunOK, TodoOK
<1>4. Len(r.todo) \in Nat \ {0} /\ Head(r.todo) = c
  BY <1>1, <1>3 DEF IsList
<1>5. CallOK(c, ImportDo)
  BY <1>1, <1>2, <1>4 DEF RunOK, TodoOK
<1>6. \/ c.do = "import" /\ applyServiceImport(n, k, c)
      \/ c.do = "status" /\ patchClusters(n, k, c)
      \/ c.do = "unimport" /\ deleteServiceImport(n, k)
      \/ c.do = "slices" /\ reconcileMirrorSlices(n, k, c)
      \/ c.do = "put" /\ applyMirrorSlice(n, c)
      \/ c.do = "drop" /\ pruneSlice(n, c)
      \/ CallFails(n, "import")
  BY <1>1, <1>4, <1>5, Zenon DEF Call, CallOK, ImportDo
<1>7. /\ Error(n, "import") => Failed(n, "import")
      /\ \A more : TodoOK(more, ImportDo) /\ Next1(n, "import", more) => Went(n, "import", more)
  BY <1>1, <1>2, Calls, Zenon DEF TodoOK
<1>8. ASSUME crossed => crossed', crossed' \in BOOLEAN, ImportDone(n, k, c)
      PROVE  \E x, y, z : Calling(n, "import", x, y, z) /\ ImportDone(n, z, y)
  BY <1>1, <1>2, <1>3, <1>4, <1>5, <1>8, Zenon DEF Calling
<1>9. ASSUME NEW t, t = <<>> \/ \E x : t = <<x>> /\ CallOK(x, ImportDo) /\ x.do # "unimport"
      PROVE  TodoOK(t, ImportDo) /\ \A i \in 1..Len(t) : t[i].do # "unimport"
  <2>1. CASE t = <<>>
    BY <2>1, ShortLists
  <2>2. ASSUME NEW x, t = <<x>>, CallOK(x, ImportDo), x.do # "unimport"
        PROVE  TodoOK(t, ImportDo) /\ \A i \in 1..Len(t) : t[i].do # "unimport"
    BY <2>2, ShortLists DEF TodoOK
  <2> QED
    BY <1>9, <2>1, <2>2, Zenon
<1>10. ASSUME NEW e, IsImport(e) PROVE Fits("si", k, e) /\ e # None
  <2>1. DOMAIN None = {"none"} /\ DOMAIN e = {"spec", "clusters"}
    BY <1>10, Zenon DEF None, IsImport
  <2> QED
    BY <1>3, <1>10, <2>1, Zenon DEF Fits
<1>11. Fits("si", k, None) /\ \A id, obj : Fits("sl", id, obj)
  BY <1>3, Zenon DEF Fits
<1>12. CASE c.do = "import" /\ applyServiceImport(n, k, c)
  <2> DEFINE old == cache[n].si[k]
             x == [do |-> "status", clusters |-> c.clusters]
  <2>1. PICK obj : obj = IF old = None THEN c.obj ELSE [old EXCEPT !.spec = c.obj.spec]
    BY Zenon
  <2>2. PICK t : t = IF obj.clusters = c.clusters THEN <<>> ELSE <<x>>
    BY Zenon
  <2>3. /\ UNCHANGED crossed
        /\ \/ NoWrite /\ Error(n, "import")
           \/ CreateOrUpdate(n, "import", "si", k, obj, t)
    BY <1>12, <2>1, <2>2, Zenon DEF applyServiceImport
  <2>4. IsImport(obj)
    <3>1. IsImport(c.obj) /\ (old # None => IsImport(old))
      BY <1>2, <1>3, <1>5, <1>12, Zenon DEF CallOK, WellFormed
    <3> HIDE DEF old
    <3> QED
      BY <2>1, <3>1, Zenon DEF IsImport
  <2>5. CallOK(x, ImportDo) /\ x.do # "unimport"
    BY Zenon DEF CallOK, ImportDo
  <2> HIDE DEF x
  <2>6. TodoOK(t, ImportDo) /\ \A i \in 1..Len(t) : t[i].do # "unimport"
    BY <1>9, <2>2, <2>5, Zenon
  <2>7. \/ NoWrite /\ Error(n, "import")
        \/ Next1(n, "import", t) /\ (NoWrite \/ Write("si", k, obj))
    BY <2>3, Zenon DEF CreateOrUpdate
  <2> QED
    BY <1>2, <1>7, <1>8, <1>10, <2>3, <2>4, <2>6, <2>7, Zenon DEF ImportDone, Wrote
<1>13. TodoOK(<<>>, ImportDo) /\ \A i \in 1..Len(<<>>) : <<>>[i].do # "unimport"
  BY <1>9, Zenon
<1>14. CASE c.do = "status" /\ patchClusters(n, k, c)
  <2>1. store.si[k] # None => IsImport([store.si[k] EXCEPT !.clusters = c.clusters])
    BY <1>2, <1>3, Zenon DEF WellFormed, IsImport
  <2> QED
    BY <1>2, <1>7, <1>8, <1>10, <1>13, <1>14, <2>1, Zenon DEF patchClusters, ImportDone, Wrote
<1>15. CASE c.do = "unimport" /\ deleteServiceImport(n, k)
  BY <1>2, <1>7, <1>8, <1>11, <1>13, <1>15, Zenon DEF deleteServiceImport, ImportDone, Wrote
<1>16. CASE c.do = "slices" /\ reconcileMirrorSlices(n, k, c)
  <2> DEFINE mine == {name \in SliceName : name[1] = k}
             have == {name \in mine : cache[n].sl[name] # None}
             wanted == {name \in mine : \E s \in c.want : s.name = name}
             puts == Listing(wanted)
             drops == Listing(have \ wanted)
             P == [i \in DOMAIN puts |-> [do |-> "put", obj |-> CHOOSE s \in c.want : s.name = puts[i]]]
             D == [i \in DOMAIN drops |-> [do |-> "drop", name |-> drops[i]]]
             more == P \o D
             C == {x \in Range(P) \cup Range(D) : CallOK(x, ImportDo) /\ x.do # "unimport"}
  <2>1. Next1(n, "import", more) /\ NoWrite /\ crossed' \in BOOLEAN /\ (crossed => crossed')
    BY <1>2, <1>16, Zenon DEF reconcileMirrorSlices
  <2>2. puts \in Seq(wanted) /\ drops \in Seq(have \ wanted)
    BY Zenon DEF TypeOK
  <2>3. P \in Seq(C)
    <3>1. ASSUME NEW i \in DOMAIN puts PROVE P[i] \in C
      <4> DEFINE x == CHOOSE s \in c.want : s.name = puts[i]
      <4>1. P[i] = [do |-> "put", obj |-> x] /\ P[i] \in Range(P)
        BY Zenon DEF Range
      <4> HIDE DEF x, P
      <4> QED
        BY <4>1 DEF CallOK, ImportDo
    <3>2. DOMAIN P = DOMAIN puts /\ DOMAIN puts = 1..Len(puts) /\ Len(puts) \in Nat /\ P = [i \in DOMAIN puts |-> P[i]]
      BY <2>2
    <3> HIDE DEF P, C, puts
    <3> QED
      BY <3>1, <3>2
  <2>4. D \in Seq(C)
    <3>1. ASSUME NEW i \in DOMAIN drops PROVE D[i] \in C
      <4>1. D[i] = [do |-> "drop", name |-> drops[i]] /\ D[i] \in Range(D)
        BY Zenon DEF Range
      <4> HIDE DEF D
      <4> QED
        BY <4>1 DEF CallOK, ImportDo
    <3>2. DOMAIN D = DOMAIN drops /\ DOMAIN drops = 1..Len(drops) /\ Len(drops) \in Nat /\ D = [i \in DOMAIN drops |-> D[i]]
      BY <2>2
    <3> HIDE DEF D, C, drops
    <3> QED
      BY <3>1, <3>2
  <2> HIDE DEF P, D, C
  <2>5. more \in Seq(C)
    BY <2>3, <2>4
  <2> HIDE DEF more
  <2>6. IsList(more) /\ \A i \in 1..Len(more) : more[i] \in C
    BY <2>5 DEF IsList, Range
  <2>7. TodoOK(more, ImportDo) /\ \A i \in 1..Len(more) : more[i].do # "unimport"
    BY <2>6, Zenon DEF TodoOK, C
  <2> QED
    BY <1>7, <1>8, <2>1, <2>7, Zenon DEF ImportDone
<1>17. CASE c.do = "put" /\ applyMirrorSlice(n, c)
  <2>1. /\ crossed' \in BOOLEAN /\ (crossed => crossed')
        /\ \/ Write("sl", c.obj.name, c.obj) /\ Next1(n, "import", <<>>)
           \/ NoWrite /\ Next1(n, "import", <<>>)
           \/ NoWrite /\ Error(n, "import")
    BY <1>2, <1>17, Zenon DEF applyMirrorSlice, CreateOrUpdate
  <2> QED
    BY <1>7, <1>8, <1>11, <1>13, <2>1, Zenon DEF ImportDone, Wrote
<1>18. CASE c.do = "drop" /\ pruneSlice(n, c)
  BY <1>2, <1>7, <1>8, <1>11, <1>13, <1>18, Zenon DEF pruneSlice, ImportDone, Wrote
<1>19. CASE CallFails(n, "import")
  BY <1>2, <1>7, <1>8, <1>19, Zenon DEF CallFails, NoWrite, history, ImportDone
<1> QED
  BY <1>6, <1>12, <1>14, <1>15, <1>16, <1>17, <1>18, <1>19, Zenon
-----------------------------------------------------------------------------
(***************************************************************************)
(* What a reconcile plans.                                                 *)
(***************************************************************************)
Truthful(s, k, valid) == (valid[1] = "Exported") = (s.svc[k] # None)
Announced(s, k) ==
    IF s.svc[k] = None THEN None
    ELSE BuildExportedEndpoint(ClusterID, s.svc[k], s.exp[k].time)
CallRight(s, k, c) ==
    \/ c.do = "publish" /\ c.obj = Announced(s, k)
    \/ c.do = "withdraw" /\ s.svc[k] = None
    \/ c.do = "valid" /\ Truthful(s, k, c.to)

ExportPlanned(s, k, t, e) ==
    /\ TodoOK(t, ExportDo)
    /\ t = <<>> <=> e = None \/ (e.deleting /\ ~e.finalizer)
    /\ e # None /\ ~e.deleting /\ ~e.finalizer =>
          Len(t) = 1 /\ t[1] = [do |-> "finalizer", obj |-> e, on |-> TRUE]
    /\ e # None /\ e.deleting /\ e.finalizer =>
          /\ Len(t) = 2 /\ t[1] = [do |-> "withdraw"]
          /\ t[2] = [do |-> "finalizer", obj |-> e, on |-> FALSE]
    /\ e # None /\ ~e.deleting /\ e.finalizer =>
          /\ \A i \in 1..Len(t) : CallRight(s, k, t[i])
          /\ t[1].do \in {"publish", "withdraw"}
          /\ Truthful(s, k, e.valid) \/ t[Len(t)].do = "valid"

\* What the ServiceExport controller does about an export it reads.
LEMMA ExportPlan ==
  ASSUME NEW s, WellFormed(s), NEW k \in Key
  PROVE  ExportPlanned(s, k, ExportCalls(s, k), s.exp[k])
<1>p. PICK t, e : t = ExportCalls(s, k) /\ e = s.exp[k]
  BY Zenon
<1> SUFFICES ExportPlanned(s, k, t, e)
  BY <1>p, Zenon
<1>1. CASE e = None
  <2>1. t = <<>>
    BY <1>p, <1>1, Zenon DEF ExportCalls
  <2> QED
    BY <1>1, <2>1, ShortLists, Zenon DEF ExportPlanned
<1>2. CASE e # None
  <2> DEFINE f == [do |-> "finalizer", obj |-> e, on |-> TRUE]
             g == [do |-> "finalizer", obj |-> e, on |-> FALSE]
             w == [do |-> "withdraw"]
  <2>1. IsExport(e) /\ e.deleting \in BOOLEAN /\ e.finalizer \in BOOLEAN
    BY <1>p, <1>2, Zenon DEF WellFormed, IsExport
  <2>2. CallOK(f, ExportDo) /\ CallOK(g, ExportDo) /\ CallOK(w, ExportDo) /\ w.do = "withdraw"
    BY <2>1, Zenon DEF CallOK, ExportDo
  <2>3. CASE e.deleting
    <3>1. CASE e.finalizer
      <4>1. t = <<w, g>>
        BY <1>p, <1>2, <2>3, <3>1, Zenon DEF ExportCalls, reconcileDeletion
      <4> HIDE DEF w, g
      <4>2. IsList(t) /\ Len(t) = 2 /\ t[1] = w /\ t[2] = g /\ t # <<>>
        BY <4>1 DEF Range, IsList
      <4>3. TodoOK(t, ExportDo)
        BY <2>2, <4>2 DEF TodoOK
      <4> QED
        BY <1>2, <2>3, <3>1, <4>2, <4>3, Zenon DEF w, g, ExportPlanned
    <3>2. CASE ~e.finalizer
      <4>1. t = <<>>
        BY <1>p, <1>2, <2>3, <3>2, Zenon DEF ExportCalls
      <4> QED
        BY <1>2, <2>3, <3>2, <4>1, ShortLists, Zenon DEF ExportPlanned
    <3> QED
      BY <3>1, <3>2, Zenon
  <2>4. CASE ~e.deleting /\ ~e.finalizer
    <3>1. t = <<f>>
      BY <1>p, <1>2, <2>4, Zenon DEF ExportCalls
    <3> HIDE DEF f
    <3>2. TodoOK(t, ExportDo) /\ Len(t) = 1 /\ t[1] = f /\ t # <<>>
      BY <2>2, <3>1, ShortLists DEF TodoOK
    <3> QED
      BY <1>2, <2>4, <3>2, Zenon DEF ExportPlanned, f
  <2>5. CASE ~e.deleting /\ e.finalizer
    <3> DEFINE svc == s.svc[k]
               b == BuildExportedEndpoint(ClusterID, svc, e.time)
               p == [do |-> "publish", obj |-> b]
               to == IF svc = None THEN <<"ServiceNotFound">>
                     ELSE <<"Exported", b.type, Cardinality(b.ports)>>
               v == [do |-> "valid", to |-> to]
               h == IF svc = None THEN w ELSE p
    <3>1. Truthful(s, k, to)
      BY Zenon DEF Truthful
    <3>2. CallOK(v, ExportDo) /\ CallRight(s, k, v) /\ v.do = "valid"
      <4> HIDE DEF to
      <4> QED
        BY <3>1, Zenon DEF CallOK, CallRight, ExportDo
    <3>3. CallOK(h, ExportDo) /\ CallRight(s, k, h) /\ h.do \in {"publish", "withdraw"}
      <4>1. CASE svc = None
        BY <4>1, <2>2, Zenon DEF CallRight
      <4>2. CASE svc # None
        <5>1. b = Announced(s, k)
          BY <1>p, <4>2, Zenon DEF Announced
        <5> HIDE DEF b
        <5> QED
          BY <4>2, <5>1, Zenon DEF CallOK, CallRight, ExportDo
      <4> QED
        BY <4>1, <4>2, Zenon
    <3> DEFINE m == IF e.valid = to THEN <<>> ELSE <<v>>
    <3>4. t = <<h>> \o m
      <4>1. t = reconcileExport(e, svc)
        BY <1>p, <1>2, <2>5, Zenon DEF ExportCalls
      <4>2. CASE svc = None
        BY <4>1, <4>2, Zenon DEF reconcileExport, setValidCondition
      <4>3. CASE svc # None
        BY <4>1, <4>3, Zenon DEF reconcileExport, setValidCondition
      <4> QED
        BY <4>2, <4>3, Zenon
    <3> HIDE DEF h, v, to
    <3>5. m \in Seq({h, v}) /\ Len(m) = (IF e.valid = to THEN 0 ELSE 1) /\ (e.valid # to => m[1] = v)
      <4>1. CASE e.valid = to
        <5>1. m = <<>>
          BY <4>1, Zenon
        <5> QED
          BY <4>1, <5>1
      <4>2. CASE e.valid # to
        <5>1. m = <<v>>
          BY <4>2, Zenon
        <5> QED
          BY <4>2, <5>1
      <4> QED
        BY <4>1, <4>2, Zenon
    <3> HIDE DEF m
    <3>6. /\ t \in Seq({h, v}) /\ Len(t) = 1 + Len(m) /\ t[1] = h /\ t # <<>>
          /\ e.valid # to => t[2] = v
      BY <3>4, <3>5
    <3>7. IsList(t) /\ \A i \in 1..Len(t) : t[i] \in {h, v}
      BY <3>6 DEF IsList, Range
    <3>8. TodoOK(t, ExportDo) /\ \A i \in 1..Len(t) : CallRight(s, k, t[i])
      BY <3>2, <3>3, <3>7, Zenon DEF TodoOK
    <3>9. Truthful(s, k, e.valid) \/ t[Len(t)].do = "valid"
      BY <3>1, <3>2, <3>5, <3>6
    <3> QED
      BY <1>2, <2>5, <3>3, <3>6, <3>8, <3>9, Zenon DEF ExportPlanned
  <2> QED
    BY <2>1, <2>3, <2>4, <2>5, Zenon
<1> QED
  BY <1>1, <1>2, Zenon

Planned(n, ctl, k, t) ==
    /\ TodoOK(t, Do(ctl))
    /\ ctl = "export" => ExportPlanned(cache[n], k, t, cache[n].exp[k])
    /\ ctl = "import" /\ Exports(cache[n], k) # {} => \A i \in 1..Len(t) : t[i].do # "unimport"
Begins(n, ctl, k, t) ==
    /\ Planned(n, ctl, k, t) /\ Others(n, ctl)
    /\ run[n][ctl] = Idle /\ run'[n][ctl] = IF t = <<>> THEN Idle ELSE [key |-> k, todo |-> t]
    /\ k \in queue[n][ctl] /\ queue'[n][ctl] = queue[n][ctl] \ {k}
    /\ lapsed' = IF Updates(run'[n]["export"]) /\ ctl = "export" /\ <<"exp", k>> \in stale[n]
                 THEN lapsed \cup {n} ELSE lapsed
    /\ NoWrite /\ UNCHANGED <<cache, active, crossed>>

\* A reconcile that begins has its plan before it.
LEMMA Reconciles ==
  ASSUME TypeOK, NEW n \in Node, NEW ctl \in Ctl, NEW k \in Key, Reconcile(n, ctl, k)
  PROVE  \E t : Begins(n, ctl, k, t)
<1> DEFINE s == cache[n]
<1>p. PICK t : t = IF ctl = "export" THEN ExportCalls(s, k) ELSE ImportCalls(s, k)
  BY Zenon
<1>0. WorkOK /\ WellFormed(s)
  BY Zenon DEF TypeOK
<1>1. /\ run[n][ctl] = Idle /\ k \in queue[n][ctl] /\ queue' = [queue EXCEPT ![n][ctl] = @ \ {k}]
      /\ run' = [run EXCEPT ![n][ctl] = IF t = <<>> THEN Idle ELSE [key |-> k, todo |-> t]]
      /\ lapsed' = IF Updates(run'[n]["export"]) /\ ctl = "export" /\ <<"exp", k>> \in stale[n]
                   THEN lapsed \cup {n} ELSE lapsed
      /\ NoWrite /\ UNCHANGED <<cache, active, crossed>>
  BY <1>p, Zenon DEF Reconcile, Taken, NoWrite, history
<1>2. ASSUME ctl = "export" PROVE Planned(n, ctl, k, t)
  <2>1. ExportPlanned(s, k, t, s.exp[k])
    BY <1>p, <1>0, <1>2, ExportPlan, Zenon
  <2> QED
    <3>1. Do(ctl) = ExportDo /\ ctl # "import"
      BY <1>2, Zenon DEF Do
    <3> QED
      BY <2>1, <3>1, Zenon DEF Planned, ExportPlanned
<1>3. ASSUME ctl = "import" PROVE Planned(n, ctl, k, t)
  <2>1. PICK a, b : /\ t = <<a, b>> /\ CallOK(a, ImportDo) /\ CallOK(b, ImportDo)
                    /\ Exports(s, k) # {} => a.do # "unimport" /\ b.do # "unimport"
    <3>1. CASE Exports(s, k) = {}
      <4> DEFINE a == [do |-> "slices", want |-> {}]
                 b == [do |-> "unimport"]
      <4>1. t = <<a, b>>
        BY <1>p, <1>3, <3>1, Zenon DEF ImportCalls
      <4>2. CallOK(a, ImportDo) /\ CallOK(b, ImportDo)
        BY Zenon DEF CallOK, ImportDo
      <4> HIDE DEF a, b
      <4> QED
        BY <3>1, <4>1, <4>2, ZenonT(30)
    <3>2. CASE Exports(s, k) # {}
      <4> DEFINE plan == PlanServiceImport(Exports(s, k))
                 vips == allocateVIPs(s, k, plan)
                 a == [do |-> "import", ok |-> vips.ok, obj |-> Import(plan, vips.ips),
                       clusters |-> plan.clusters]
                 b == [do |-> "slices", want |-> Mirrored(s, k)]
      <4>1. t = <<a, b>>
        BY <1>p, <1>3, <3>2, Zenon DEF ImportCalls
      <4>2. CallOK(a, ImportDo) /\ CallOK(b, ImportDo) /\ a.do # "unimport" /\ b.do # "unimport"
        <5> HIDE DEF plan, vips
        <5> QED
          BY Zenon DEF CallOK, ImportDo, Import, IsImport
      <4> HIDE DEF a, b
      <4> QED
        BY <4>1, <4>2, ZenonT(30)
    <3> QED
      BY <3>1, <3>2, Zenon
  <2>2. IsList(t) /\ Len(t) = 2 /\ t[1] = a /\ t[2] = b
    BY <2>1 DEF Range, IsList
  <2> QED
    <3>1. TodoOK(t, ImportDo) /\ (Exports(s, k) # {} => \A i \in 1..Len(t) : t[i].do # "unimport")
      BY <2>1, <2>2 DEF TodoOK
    <3>2. Do(ctl) = ImportDo /\ ctl # "export"
      BY <1>3, Zenon DEF Do
    <3> QED
      BY <3>1, <3>2, Zenon DEF Planned
<1>4. Planned(n, ctl, k, t)
  <2>1. ctl = "export" \/ ctl = "import"
    BY Zenon DEF Ctl
  <2> QED
    BY <1>2, <1>3, <2>1, Zenon
<1>5. Others(n, ctl) /\ queue'[n][ctl] = queue[n][ctl] \ {k}
  BY <1>0, <1>1, Zenon DEF WorkOK, Others
<1>6. run'[n][ctl] = IF t = <<>> THEN Idle ELSE [key |-> k, todo |-> t]
  BY <1>0, <1>1, Zenon DEF WorkOK
<1> QED
  BY <1>1, <1>4, <1>5, <1>6, Zenon DEF Begins
-----------------------------------------------------------------------------
(***************************************************************************)
(* The steps, and what the caches are worth.                               *)
(***************************************************************************)
\* A write of a user, or of the other clusters.
Outside(kind, id, obj) ==
    /\ Wrote(kind, id, obj) /\ obj # store[kind][id]
    /\ UNCHANGED <<cache, queue, run, active, crossed>> /\ Versions
    /\ kind \in {"svc", "exp"} => \E n \in Node : "export" \in Running(n)
    /\ \/ kind = "svc"
       \/ kind = "ee" /\ id[1] # ClusterID
       \/ /\ kind = "exp" /\ store.exp[id] = None
          /\ obj # None /\ ~obj.deleting /\ ~obj.finalizer
       \/ /\ kind = "exp" /\ store.exp[id] # None /\ store.exp[id].finalizer
          /\ obj # None /\ obj.deleting /\ obj.finalizer
       \/ /\ kind = "exp" /\ store.exp[id] # None /\ ~store.exp[id].finalizer /\ obj = None

ExportStep(n) == \E r, c, k : Calling(n, "export", r, c, k) /\ ExportDone(n, k, c)
ImportStep(n) == \E r, c, k : Calling(n, "import", r, c, k) /\ ImportDone(n, k, c)
Step ==
    \/ \E kind, id, obj : Outside(kind, id, obj)
    \/ \E n \in Node, kind \in Kind : Deliver(n, kind)
    \/ \E n \in Node, ctl \in Ctl, k \in Key : \E t : Begins(n, ctl, k, t)
    \/ \E n \in Node : ExportStep(n) \/ ImportStep(n) \/ Restart(n)
    \/ UNCHANGED vars

\* Every step is one of these.
LEMMA Steps ==
  ASSUME TypeOK, [Next]_vars
  PROVE  Step
<1>1. ASSUME NEW k \in LocalKey, NEW svc \in ServiceSpecs \cup {None}, WriteService(k, svc)
      PROVE  Step
  <2>1. Fits("svc", k, svc)
    BY ServicesAssumption, Zenon DEF Fits
  <2>2. Outside("svc", k, svc)
    BY <1>1, <2>1, Zenon DEF WriteService, FromOutside, agents, Outside, Wrote
  <2> QED
    BY <2>2, Zenon DEF Step
<1>n. ASSUME NEW e, IsExport(e) PROVE e # None
  <2>1. DOMAIN None = {"none"} /\ DOMAIN e = {"time", "finalizer", "deleting", "valid"}
    BY <1>n, Zenon DEF None, IsExport
  <2> QED
    BY <2>1, Zenon
<1>2. ASSUME NEW k \in LocalKey, NEW t \in ExportTimes, CreateExport(k, t)
      PROVE  Step
  <2> DEFINE obj == [time |-> t, finalizer |-> FALSE, deleting |-> FALSE, valid |-> <<>>]
  <2>1. IsExport(obj) /\ ~obj.deleting /\ ~obj.finalizer
    BY Zenon DEF IsExport
  <2>2. store.exp[k] = None /\ Write("exp", k, obj) /\ FromOutside("export")
    BY <1>2, Zenon DEF CreateExport
  <2> HIDE DEF obj
  <2>3. obj # None
    BY <2>1, <1>n, Zenon
  <2>4. Fits("exp", k, obj)
    BY <2>1, ServicesAssumption, Zenon DEF Fits
  <2>5. Outside("exp", k, obj)
    BY <2>1, <2>2, <2>3, <2>4, Zenon DEF FromOutside, agents, Outside, Wrote
  <2> QED
    BY <2>5, Zenon DEF Step
<1>3. ASSUME NEW k \in LocalKey, DeleteExport(k)
      PROVE  Step
  <2> DEFINE e == store.exp[k]
             d == [e EXCEPT !.deleting = TRUE]
  <2>1. e # None /\ ~e.deleting /\ Write("exp", k, IF e.finalizer THEN d ELSE None) /\ FromOutside("export")
    BY <1>3, Zenon DEF DeleteExport
  <2>2. k \in Key /\ IsExport(e)
    BY <2>1, ServicesAssumption, Zenon DEF TypeOK, WellFormed
  <2> HIDE DEF e
  <2>3. CASE e.finalizer
    <3>1. IsExport(d) /\ d.deleting /\ d.finalizer
      BY <2>2, <2>3, Zenon DEF IsExport
    <3> HIDE DEF d
    <3>2. d # None /\ d # e /\ Wrote("exp", k, d)
      BY <2>1, <2>2, <2>3, <3>1, <1>n, Zenon DEF Fits, Wrote
    <3>3. Outside("exp", k, d)
      BY <2>1, <2>3, <3>1, <3>2, Zenon DEF FromOutside, agents, Outside, e
    <3> QED
      BY <3>3, Zenon DEF Step
  <2>4. CASE ~e.finalizer
    <3>1. Wrote("exp", k, None)
      BY <2>1, <2>2, <2>4, Zenon DEF Fits, Wrote
    <3>2. Outside("exp", k, None)
      BY <2>1, <2>4, <3>1, Zenon DEF FromOutside, agents, Outside, e
    <3> QED
      BY <3>2, Zenon DEF Step
  <2> QED
    BY <2>3, <2>4, Zenon
<1>4. ASSUME NEW c \in Cluster, NEW m \in Mirrors, Mirror(c, m[1], m[2])
      PROVE  Step
  <2>1. /\ c # ClusterID /\ m[2] # store.ee[<<c, m[1]>>]
        /\ Write("ee", <<c, m[1]>>, m[2]) /\ FromOutside("import")
    BY <1>4, Zenon DEF Mirror
  <2>2. Fits("ee", <<c, m[1]>>, m[2]) /\ <<c, m[1]>>[1] = c /\ "ee" \notin {"svc", "exp"}
    BY <2>1, ServicesAssumption, Zenon DEF Fits
  <2>3. Outside("ee", <<c, m[1]>>, m[2])
    BY <2>1, <2>2, Zenon DEF FromOutside, agents, Outside, Wrote
  <2> QED
    BY <2>3, Zenon DEF Step
<1>5. ASSUME NEW n \in Node, NEW ctl \in Ctl, Call(n, ctl) \/ CallFails(n, ctl)
      PROVE  Step
  <2>1. ctl = "export" \/ ctl = "import"
    BY Zenon DEF Ctl
  <2> QED
    BY <1>5, <2>1, ExportEnds, ImportEnds, Zenon DEF Step, ExportStep, ImportStep
<1> QED
  BY <1>1, <1>2, <1>3, <1>4, <1>5, Reconciles, Zenon DEF Next, Step

\* The types, and what an outdated copy is, are kept.
LEMMA BaseStep ==
  ASSUME TypeOK, CacheOK, [Next]_vars
  PROVE  TypeOK' /\ CacheOK'
<1>t. /\ \A S \in SUBSET SliceName : Listing(S) \in Seq(S)
      /\ WellFormed(store) /\ DOMAIN cache = Node /\ DOMAIN stale = Node
      /\ \A n \in Node : WellFormed(cache[n]) /\ \A x \in stale[n] : x = <<x[1], x[2]>>
      /\ WorkOK /\ crossed \in BOOLEAN
  BY Zenon DEF TypeOK
<1>d. DOMAIN queue = Node /\ DOMAIN run = Node /\ \A n \in Node : DOMAIN queue[n] = Ctl /\ DOMAIN run[n] = Ctl
  BY <1>t, Zenon DEF WorkOK
<1>e. "export" \in Ctl
  BY Zenon DEF Ctl
<1>r. \A n \in Node : "export" \notin Running(n) => run[n]["export"] = Idle /\ queue[n]["export"] = {}
  BY Zenon DEF CacheOK
<1>c. ASSUME active' = active,
             \A n \in Node : "export" \notin Running(n) => run'[n]["export"] = Idle /\ queue'[n]["export"] = {},
             \A n \in Node, k \in Key : "export" \in Running(n) => CopyOK(store', cache'[n], stale'[n], k)
      PROVE  CacheOK'
  BY <1>c, Zenon DEF CacheOK, Running
<1>1. ASSUME UNCHANGED <<cache, active>>, NoWrite \/ \E kind, id, obj : Wrote(kind, id, obj),
             WorkOK', crossed' \in BOOLEAN,
             \A n \in Node : "export" \notin Running(n) => run'[n]["export"] = Idle /\ queue'[n]["export"] = {}
      PROVE  TypeOK' /\ CacheOK'
  <2>1. CASE NoWrite
    <3>1. TypeOK'
      BY <1>t, <1>1, <2>1, Zenon DEF NoWrite, TypeOK
    <3> QED
      BY <1>c, <1>1, <2>1, <3>1, Zenon DEF NoWrite, CacheOK
  <2>2. ASSUME NEW kind, NEW id, NEW obj, Wrote(kind, id, obj)
        PROVE  TypeOK' /\ CacheOK'
    <3>1. /\ WellFormed(store)' /\ DOMAIN stale' = Node
          /\ \A k \in Key : Affects(kind, id, obj, k)
          /\ \A n \in Node : Outdates(kind, id, obj, n)
      BY <2>2, Effect, Zenon
    <3>2. \A n \in Node : \A x \in stale'[n] : x = <<x[1], x[2]>>
      BY <1>t, <3>1 DEF Outdates
    <3>3. TypeOK'
      BY <1>t, <1>1, <3>1, <3>2, Zenon DEF TypeOK
    <3>4. ASSUME NEW n \in Node, "export" \in Running(n), NEW k \in Key
          PROVE  CopyOK(store', cache[n], stale'[n], k)
      <4>1. /\ <<"svc", k>> \notin stale[n] => cache[n].svc[k] = store.svc[k]
            /\ <<"exp", k>> \notin stale[n] => cache[n].exp[k] = store.exp[k]
            /\ <<"ee", <<ClusterID, k>>>> \notin stale[n] => Local(cache[n], k) = Local(store, k)
        BY <3>4, Zenon DEF CacheOK, CopyOK
      <4>2. {"svc", "exp", "ee"} \subseteq Watched(n)
        BY <3>4, <1>e DEF Watched, Reads
      <4>3. /\ <<"svc", k>> \notin stale'[n] => cache[n].svc[k] = store'.svc[k]
            /\ <<"exp", k>> \notin stale'[n] => cache[n].exp[k] = store'.exp[k]
        BY <3>1, <4>1, <4>2, Zenon DEF At, Affects, Outdates
      <4>4. <<"ee", <<ClusterID, k>>>> \notin stale'[n] => Local(cache[n], k) = Local(store', k)
        BY <3>1, <4>1, <4>2, Zenon DEF At, Local, Affects, Outdates
      <4> QED
        BY <4>3, <4>4, Zenon DEF CopyOK
    <3>5. \A n \in Node, k \in Key : "export" \in Running(n) => CopyOK(store', cache'[n], stale'[n], k)
      BY <1>1, <3>4, Zenon
    <3> QED
      BY <1>c, <1>1, <3>3, <3>5, Zenon
  <2> QED
    BY <1>1, <2>1, <2>2, Zenon
<1>2. ASSUME NEW kind, NEW id, NEW obj, Outside(kind, id, obj) PROVE TypeOK' /\ CacheOK'
  BY <1>1, <1>2, <1>r, <1>t, Zenon DEF Outside, WorkOK
<1>3. CASE UNCHANGED vars
  BY <1>1, <1>3, <1>r, <1>t, Zenon DEF vars, NoWrite, WorkOK
\* the requests and reconciles after a call, or when a reconcile begins
<1>4. ASSUME NEW n \in Node, NEW ctl \in Ctl, Others(n, ctl), RunOK(run'[n][ctl], Do(ctl)),
             run[n][ctl] # Idle \/ queue[n][ctl] # {}
      PROVE  /\ WorkOK'
             /\ \A m \in Node : "export" \notin Running(m) => run'[m]["export"] = Idle /\ queue'[m]["export"] = {}
  <2>1. \A m \in Node, d \in Ctl : RunOK(run'[m][d], Do(d))
    BY <1>t, <1>4, Zenon DEF Others, WorkOK
  <2>2. \A m \in Node : "export" \notin Running(m) => run'[m]["export"] = Idle /\ queue'[m]["export"] = {}
    BY <1>r, <1>e, <1>4, ZenonT(30) DEF Others
  <2> QED
    BY <1>4, <2>1, <2>2, Zenon DEF WorkOK, Others
<1>5. ASSUME NEW n \in Node, NEW ctl \in Ctl, NEW k \in Key, NEW t, Begins(n, ctl, k, t)
      PROVE  TypeOK' /\ CacheOK'
  <2>1. RunOK(run'[n][ctl], Do(ctl))
    <3>1. TodoOK(t, Do(ctl)) /\ run'[n][ctl] = IF t = <<>> THEN Idle ELSE [key |-> k, todo |-> t]
      BY <1>5, Zenon DEF Begins, Planned
    <3>2. CASE t = <<>>
      BY <3>1, <3>2, ShortLists, Zenon
    <3>3. CASE t # <<>>
      BY <3>1, <3>3 DEF RunOK
    <3> QED
      BY <3>2, <3>3, Zenon
  <2> QED
    BY <1>1, <1>4, <1>5, <1>t, <2>1, Zenon DEF Begins
\* a call
<1>6. ASSUME NEW n \in Node, NEW ctl \in Ctl, NEW r, NEW c, NEW k, Calling(n, ctl, r, c, k), Others(n, ctl),
             NoWrite \/ \E kind, id, obj : Wrote(kind, id, obj),
             Failed(n, ctl) \/ \E more : Went(n, ctl, more) /\ TodoOK(more, Do(ctl))
      PROVE  TypeOK' /\ CacheOK'
  <2> DEFINE q == run'[n][ctl]
             do == Do(ctl)
  <2>1. RunOK(r, do) /\ r # Idle /\ r = run[n][ctl] /\ Len(r.todo) \in Nat \ {0} /\ r.key \in Key
    BY <1>t, <1>6, Zenon DEF WorkOK, Calling
  <2>2. CASE q = Idle
    BY <1>1, <1>4, <1>6, <2>1, <2>2, ShortLists, Zenon DEF Calling
  <2>3. ASSUME NEW more, Went(n, ctl, more), TodoOK(more, do), q # Idle PROVE TypeOK' /\ CacheOK'
    <3> HIDE DEF do, q
    <3>1. Len(more) \in Nat
      BY <2>3 DEF TodoOK, IsList
    <3>2. /\ DOMAIN q = {"key", "todo"} /\ q.key = r.key /\ IsList(q.todo) /\ q.todo # <<>>
          /\ Len(q.todo) = Len(more) + Len(r.todo) - 1
          /\ \A i \in 1..Len(more) : q.todo[i] = more[i]
          /\ \A i \in (Len(more) + 1)..Len(q.todo) : q.todo[i] = r.todo[i - Len(more) + 1]
      BY <2>1, <2>3, Zenon DEF Went, Continues, q
    <3>3. ASSUME NEW i \in 1..Len(q.todo) PROVE CallOK(q.todo[i], do)
      <4>1. CASE i \in 1..Len(more)
        BY <2>3, <3>2, <4>1, Zenon DEF TodoOK
      <4>2. CASE i \in (Len(more) + 1)..Len(q.todo)
        <5>1. i - Len(more) + 1 \in 1..Len(r.todo)
          BY <2>1, <3>1, <3>2, <4>2
        <5> QED
          BY <2>1, <3>2, <4>2, <5>1, Zenon DEF RunOK, TodoOK
      <4> QED
        BY <3>1, <4>1, <4>2
    <3>4. RunOK(q, do)
      BY <2>1, <3>2, <3>3, Zenon DEF RunOK, TodoOK
    <3> QED
      BY <1>1, <1>4, <1>6, <2>1, <3>4, Zenon DEF Calling, q, do
  <2> QED
    BY <1>6, <2>2, <2>3, Zenon DEF Failed
<1>7. ASSUME NEW n \in Node, ExportStep(n) PROVE TypeOK' /\ CacheOK'
  <2>1. Do("export") = ExportDo /\ TodoOK(<<>>, ExportDo)
    BY ShortLists, Zenon DEF Do
  <2> QED
    BY <1>6, <1>7, <1>e, <2>1, Zenon DEF ExportStep, ExportDone, Failed, Went
<1>8. ASSUME NEW n \in Node, ImportStep(n) PROVE TypeOK' /\ CacheOK'
  <2>1. Do("import") = ImportDo /\ "import" \in Ctl
    BY Zenon DEF Do, Ctl
  <2> QED
    BY <1>6, <1>8, <2>1, Zenon DEF ImportStep, ImportDone, Failed, Went
<1>9. ASSUME NEW n \in Node, Restart(n) PROVE TypeOK' /\ CacheOK'
  <2>1. /\ cache' = [cache EXCEPT ![n] = store] /\ stale' = [stale EXCEPT ![n] = {}]
        /\ run' = [run EXCEPT ![n] = [ctl \in Ctl |-> Idle]]
        /\ queue' = [queue EXCEPT ![n] =
                        [ctl \in Ctl |-> IF ctl \in Running(n) THEN Present(store)[ctl] ELSE {}]]
        /\ UNCHANGED <<store, active, crossed>>
    BY <1>9, Zenon DEF Restart, history
  <2>2. WorkOK'
    BY <1>t, <1>d, <2>1, ShortLists, Zenon DEF WorkOK
  <2>3. \A m \in Node : m # n => run'[m] = run[m] /\ queue'[m] = queue[m] /\ stale'[m] = stale[m] /\ cache'[m] = cache[m]
    BY <1>d, <1>t, <2>1, Zenon
  <2>4. run'[n]["export"] = Idle /\ ("export" \notin Running(n) => queue'[n]["export"] = {}) /\ cache'[n] = store /\ stale'[n] = {}
    BY <1>d, <1>t, <1>e, <2>1, Zenon
  <2>5. CacheOK'
    <3>1. \A k \in Key : CopyOK(store, store, {}, k)
      BY Zenon DEF CopyOK
    <3> QED
      <4>1. \A m \in Node : "export" \notin Running(m) => run'[m]["export"] = Idle /\ queue'[m]["export"] = {}
        BY <1>r, <2>3, <2>4, Zenon
      <4>2. \A m \in Node, k \in Key : "export" \in Running(m) => CopyOK(store', cache'[m], stale'[m], k)
        <5>1. ASSUME NEW k \in Key PROVE CopyOK(store', cache'[n], stale'[n], k)
          BY <2>1, <2>4, <3>1, Zenon
        <5>2. ASSUME NEW m \in Node, m # n, NEW k \in Key, "export" \in Running(m)
              PROVE  CopyOK(store', cache'[m], stale'[m], k)
          BY <2>1, <2>3, <5>2, Zenon DEF CacheOK
        <5> QED
          BY <5>1, <5>2, Zenon
      <4> QED
        BY <1>c, <2>1, <4>1, <4>2, Zenon
  <2>6. DOMAIN cache' = Node /\ DOMAIN stale' = Node /\ \A m \in Node : WellFormed(cache'[m]) /\ \A x \in stale'[m] : x = <<x[1], x[2]>>
    BY <1>t, <2>1, <2>3, <2>4, Zenon
  <2> QED
    BY <1>t, <2>1, <2>2, <2>5, <2>6, Zenon DEF TypeOK
<1>10. ASSUME NEW n \in Node, NEW kind \in Kind, Deliver(n, kind) PROVE TypeOK' /\ CacheOK'
  <2> DEFINE news == {x \in stale[n] : x[1] = kind}
  <2>1. /\ cache' = [cache EXCEPT ![n][kind] = store[kind]]
        /\ stale' = [stale EXCEPT ![n] = @ \ news]
        /\ queue' = [queue EXCEPT ![n] = [ctl \in Ctl |->
                        IF ctl \in Running(n)
                        THEN @[ctl] \cup UNION {requests(ctl, x[1], x[2]) : x \in news}
                        ELSE {}]]
        /\ UNCHANGED <<store, run, active, crossed>>
    BY <1>10, Zenon DEF Deliver, history
  <2>2. WorkOK'
    <3>1. DOMAIN queue' = Node /\ \A m \in Node : DOMAIN queue'[m] = Ctl
      BY <1>d, <2>1, Zenon
    <3> QED
      BY <1>t, <2>1, <3>1, Zenon DEF WorkOK
  <2>3. /\ \A m \in Node : m # n => cache'[m] = cache[m] /\ stale'[m] = stale[m] /\ queue'[m] = queue[m]
        /\ DOMAIN cache' = Node /\ DOMAIN stale' = Node /\ stale'[n] = stale[n] \ news
        /\ "export" \notin Running(n) => queue'[n]["export"] = {}
        /\ cache'[n] = [cache[n] EXCEPT ![kind] = store[kind]]
    BY <1>d, <1>t, <1>e, <2>1, Zenon
  <2>4. DOMAIN cache'[n] = Kind /\ \A x \in Kind : cache'[n][x] = IF x = kind THEN store[x] ELSE cache[n][x]
    BY <1>t, <2>3, Zenon DEF WellFormed
  <2>5. WellFormed(cache'[n])
    <3>1. cache'[n].svc \in {store.svc, cache[n].svc} /\ cache'[n].exp \in {store.exp, cache[n].exp}
      BY <2>4, Zenon DEF Kind
    <3>2. cache'[n].ee \in {store.ee, cache[n].ee} /\ cache'[n].si \in {store.si, cache[n].si}
      BY <2>4, Zenon DEF Kind
    <3> QED
      BY <1>t, <2>4, <3>1, <3>2, Zenon DEF WellFormed
  <2>6. TypeOK'
    <3>1. \A m \in Node : WellFormed(cache'[m]) /\ \A x \in stale'[m] : x = <<x[1], x[2]>>
      BY <1>t, <2>3, <2>5, Zenon
    <3> QED
      BY <1>t, <2>1, <2>2, <2>3, <3>1, Zenon DEF TypeOK
  <2>7. ASSUME NEW k \in Key, "export" \in Running(n)
        PROVE  CopyOK(store, cache'[n], stale'[n], k)
    <3>1. /\ <<"svc", k>> \notin stale[n] => cache[n].svc[k] = store.svc[k]
          /\ <<"exp", k>> \notin stale[n] => cache[n].exp[k] = store.exp[k]
          /\ <<"ee", <<ClusterID, k>>>> \notin stale[n] => Local(cache[n], k) = Local(store, k)
      BY <2>7, Zenon DEF CacheOK, CopyOK
    <3>2. \A x \in Kind : \A y : <<x, y>> \notin stale'[n] => x = kind \/ <<x, y>> \notin stale[n]
      BY <2>3, Zenon
    <3>3. "svc" \in Kind /\ "exp" \in Kind /\ "ee" \in Kind
      BY Zenon DEF Kind
    <3> QED
      BY <2>4, <3>1, <3>2, <3>3, Zenon DEF Local, CopyOK
  <2>8. CacheOK'
    <3>1. \A m \in Node : "export" \notin Running(m) => run'[m]["export"] = Idle /\ queue'[m]["export"] = {}
      BY <1>r, <2>1, <2>3, Zenon
    <3>2. \A m \in Node, k \in Key : "export" \in Running(m) => CopyOK(store', cache'[m], stale'[m], k)
      BY <2>1, <2>3, <2>7, Zenon DEF CacheOK
    <3> QED
      BY <1>c, <2>1, <3>1, <3>2, Zenon
  <2> QED
    BY <2>6, <2>8, Zenon
<1> QED
  BY Steps, <1>2, <1>3, <1>5, <1>7, <1>8, <1>9, <1>10, ZenonT(30) DEF Step
-----------------------------------------------------------------------------
(***************************************************************************)
(* The import of a service that is exported all the time is kept.          *)
(***************************************************************************)
\* An agent that is about to delete an import is not about to delete that of a service
\* that was exported all the time, and no cache ever lacked such a service.
Spares(n) ==
    LET r == run[n]["import"] IN
    r # Idle /\ r.key \in steady => \A i \in 1..Len(r.todo) : r.todo[i].do # "unimport"
SteadyInv ==
    /\ steady \subseteq Keys(store)
    /\ \A n \in Node : steady \subseteq Keys(cache[n]) /\ Spares(n)
Spared == \A k \in steady' : store.si[k] # None => store'.si[k] # None

\* Every step keeps that, and the import.
LEMMA SteadyStep ==
  ASSUME TypeOK, SteadyInv, [Next]_vars
  PROVE  SteadyInv' /\ Spared
<1>i. "import" \in Ctl /\ "export" # "import"
  BY Zenon DEF Ctl
<1>k. steady \subseteq Key
  BY Zenon DEF SteadyInv, Keys
<1>s. steady \subseteq Keys(store) /\ \A n \in Node : steady \subseteq Keys(cache[n]) /\ Spares(n)
  BY Zenon DEF SteadyInv
\* what the steps have in common
<1>1. ASSUME steady' \subseteq steady, steady' \subseteq Keys(store'), Spared,
             \A n \in Node : steady \subseteq Keys(cache'[n]),
             \A n \in Node : Spares(n)' \/ run'[n]["import"] \in {run[n]["import"], Idle}
      PROVE  SteadyInv' /\ Spared
  <2>1. \A n \in Node : Spares(n)'
    BY <1>s, <1>1, Zenon DEF Spares
  <2> QED
    BY <1>1, <2>1, Zenon DEF SteadyInv
<1>2. ASSUME NEW kind, NEW id, NEW obj, Wrote(kind, id, obj)
      PROVE  steady' \subseteq steady /\ steady' \subseteq Keys(store') /\ \A k \in steady' : Affects(kind, id, obj, k)
  <2>1. steady' = steady \cap Keys(store')
    BY <1>2, Zenon DEF Wrote, Write
  <2> QED
    BY <1>2, <1>k, <2>1, Effect, Zenon
<1>3. ASSUME NoWrite
      PROVE  steady' \subseteq steady /\ steady' \subseteq Keys(store') /\ Spared
  BY <1>3, <1>s, Zenon DEF NoWrite, Spared
<1>4. ASSUME NEW kind, NEW id, NEW obj, Outside(kind, id, obj)
      PROVE  SteadyInv' /\ Spared
  <2>1. Wrote(kind, id, obj) /\ kind # "si" /\ cache' = cache /\ run' = run
    BY <1>4, Zenon DEF Outside
  <2>2. Spared
    BY <1>2, <2>1 DEF Affects, At, Spared
  <2> QED
    BY <1>1, <1>2, <1>s, <2>1, <2>2, Zenon
<1>5. ASSUME NEW n \in Node, NEW kind \in Kind, Deliver(n, kind)
      PROVE  SteadyInv' /\ Spared
  <2>1. UNCHANGED <<store, run, steady>> /\ cache' = [cache EXCEPT ![n][kind] = store[kind]]
    BY <1>5, Zenon DEF Deliver, history
  <2>2. Spared
    BY <2>1, Zenon DEF Spared
  <2>3. \A m \in Node : cache'[m].ee = cache[m].ee \/ cache'[m].ee = store.ee
    <3>1. DOMAIN cache = Node /\ DOMAIN cache[n] = Kind /\ "ee" \in Kind
      BY Zenon DEF TypeOK, WellFormed, Kind
    <3> QED
      BY <2>1, <3>1, Zenon
  <2>4. \A m \in Node : Keys(cache'[m]) = Keys(cache[m]) \/ Keys(cache'[m]) = Keys(store)
    BY <2>3, ZenonT(30) DEF Keys, Exports
  <2> QED
    BY <1>1, <1>s, <2>1, <2>2, <2>4, Zenon
<1>6. ASSUME NEW n \in Node, NEW ctl \in Ctl, NEW j \in Key, NEW t, Begins(n, ctl, j, t)
      PROVE  SteadyInv' /\ Spared
  <2>1. /\ Planned(n, ctl, j, t) /\ Others(n, ctl) /\ NoWrite /\ cache' = cache
        /\ run'[n][ctl] = IF t = <<>> THEN Idle ELSE [key |-> j, todo |-> t]
    BY <1>6, Zenon DEF Begins
  <2>2. \A m \in Node : <<m, "import">> # <<n, ctl>> => run'[m]["import"] = run[m]["import"]
    BY <1>i, <2>1, Zenon DEF Others
  <2>3. ctl = "import" => Spares(n)'
    <3> SUFFICES ASSUME ctl = "import", run'[n]["import"] # Idle, run'[n]["import"].key \in steady'
                 PROVE  \A i \in 1..Len(run'[n]["import"].todo) : run'[n]["import"].todo[i].do # "unimport"
      BY Zenon DEF Spares
    <3>1. run'[n]["import"] = [key |-> j, todo |-> t]
      BY <2>1, Zenon
    <3>2. j \in steady
      BY <2>1, <3>1 DEF NoWrite
    <3>3. Exports(cache[n], j) # {}
      BY <1>s, <3>2, Zenon DEF Keys
    <3>4. \A i \in 1..Len(t) : t[i].do # "unimport"
      BY <2>1, <3>3, Zenon DEF Planned
    <3> QED
      BY <3>1, <3>4
  <2>4. \A m \in Node : Spares(m)' \/ run'[m]["import"] \in {run[m]["import"], Idle}
    BY <2>2, <2>3, Zenon
  <2> QED
    BY <1>1, <1>3, <1>s, <2>1, <2>4, Zenon
<1>7. ASSUME NEW n \in Node, ExportStep(n)
      PROVE  SteadyInv' /\ Spared
  <2>1. PICK r, c, j : Calling(n, "export", r, c, j) /\ ExportDone(n, j, c)
    BY <1>7, Zenon DEF ExportStep
  <2>2. Others(n, "export") /\ cache' = cache
        /\ (NoWrite \/ \E kind \in {"exp", "ee"} : \E id, obj : Wrote(kind, id, obj))
    BY <2>1, Zenon DEF Calling, ExportDone, Failed, Went
  <2>3. \A m \in Node : run'[m]["import"] = run[m]["import"]
    BY <1>i, <2>2, Zenon DEF Others
  <2>4. steady' \subseteq steady /\ steady' \subseteq Keys(store') /\ Spared
    <3>1. ASSUME NEW kind \in {"exp", "ee"}, NEW id, NEW obj, Wrote(kind, id, obj)
          PROVE  Spared
      BY <1>2, <3>1 DEF Affects, At, Spared
    <3> QED
      BY <1>2, <1>3, <2>2, <3>1, Zenon
  <2> QED
    BY <1>1, <1>s, <2>2, <2>3, <2>4, Zenon
<1>8. ASSUME NEW n \in Node, ImportStep(n)
      PROVE  SteadyInv' /\ Spared
  <2>1. PICK r, c, j : Calling(n, "import", r, c, j) /\ ImportDone(n, j, c)
    BY <1>8, Zenon DEF ImportStep
  <2>2. /\ r = run[n]["import"] /\ r # Idle /\ c = r.todo[1] /\ j = r.key /\ cache' = cache
        /\ Len(r.todo) \in Nat \ {0} /\ Others(n, "import")
    BY <2>1, Zenon DEF Calling, ImportDone, Failed, Went
  <2>3. \A m \in Node : m # n => run'[m]["import"] = run[m]["import"]
    BY <1>i, <2>2, Zenon DEF Others
  <2>4. j \in steady => c.do # "unimport" /\ \A i \in 1..Len(r.todo) : r.todo[i].do # "unimport"
    BY <1>s, <2>2 DEF Spares
  <2>5. steady' \subseteq steady /\ steady' \subseteq Keys(store') /\ Spared
    <3>1. ASSUME NEW id, NEW obj, Wrote("sl", id, obj) PROVE Spared
      BY <1>2, <3>1 DEF Affects, At, Spared
    <3>2. ASSUME NEW obj, Wrote("si", j, obj), obj = None => c.do = "unimport" PROVE Spared
      BY <1>2, <2>4, <3>2 DEF Affects, At, Spared
    <3> QED
      BY <1>2, <1>3, <2>1, <3>1, <3>2, Zenon DEF ImportDone
  <2>6. Spares(n)' \/ run'[n]["import"] = Idle
    <3>1. CASE Failed(n, "import")
      BY <3>1, Zenon DEF Failed
    <3>2. ASSUME NEW more, Went(n, "import", more), TodoOK(more, ImportDo),
                 \A i \in 1..Len(more) : more[i].do # "unimport"
          PROVE  Spares(n)' \/ run'[n]["import"] = Idle
      <4>q. PICK q : q = run'[n]["import"]
        BY Zenon
      <4> SUFFICES ASSUME q # Idle, q.key \in steady'
                   PROVE  \A i \in 1..Len(q.todo) : q.todo[i].do # "unimport"
        BY <4>q, Zenon DEF Spares
      <4>1. /\ q.key = r.key
            /\ Len(q.todo) = Len(more) + Len(r.todo) - 1
            /\ \A i \in 1..Len(more) : q.todo[i] = more[i]
            /\ \A i \in (Len(more) + 1)..Len(q.todo) : q.todo[i] = r.todo[i - Len(more) + 1]
        BY <2>2, <3>2, <4>q, ZenonT(30) DEF Went, Continues
      <4>2. \A i \in 1..Len(r.todo) : r.todo[i].do # "unimport"
        BY <2>2, <2>4, <2>5, <4>1, ZenonT(30)
      <4>3. Len(more) \in Nat
        BY <3>2 DEF TodoOK, IsList
      <4>4. TAKE i \in 1..Len(q.todo)
      <4>5. i \in 1..Len(more) \/ (i \in (Len(more) + 1)..Len(q.todo) /\ i - Len(more) + 1 \in 1..Len(r.todo))
        <5>1. PICK a, b, d : a = Len(more) /\ b = Len(r.todo) /\ d = Len(q.todo)
          BY Zenon
        <5>2. a \in Nat /\ b \in Nat \ {0} /\ d = a + b - 1 /\ i \in 1..d
          BY <2>2, <4>1, <4>3, <4>4, <5>1, Zenon
        <5>3. i \in 1..a \/ (i \in (a + 1)..d /\ i - a + 1 \in 1..b)
          BY ONLY <5>2
        <5> QED
          BY <5>1, <5>3, Zenon
      <4> QED
        BY <3>2, <4>1, <4>2, <4>5, Zenon
    <3> QED
      BY <2>1, <3>1, <3>2, Zenon DEF ImportDone
  <2>7. \A m \in Node : Spares(m)' \/ run'[m]["import"] \in {run[m]["import"], Idle}
    BY <2>3, <2>6, Zenon
  <2> QED
    BY <1>1, <1>s, <2>2, <2>5, <2>7, Zenon
<1>9. ASSUME NEW n \in Node, Restart(n)
      PROVE  SteadyInv' /\ Spared
  <2>1. UNCHANGED <<store, steady>>
    BY <1>9, Zenon DEF Restart, history
  <2>2. Spared
    BY <2>1, Zenon DEF Spared
  <2>3. \A m \in Node : cache'[m] \in {cache[m], store} /\ run'[m]["import"] \in {run[m]["import"], Idle}
    BY <1>9, <1>i, Zenon DEF Restart, TypeOK, WorkOK
  <2> QED
    BY <1>1, <1>s, <2>1, <2>2, <2>3, Zenon
<1>10. ASSUME UNCHANGED vars PROVE SteadyInv' /\ Spared
  BY <1>1, <1>10, <1>s, Zenon DEF vars, Spared
<1> QED
  BY Steps, <1>4, <1>5, <1>6, <1>7, <1>8, <1>9, <1>10, Zenon DEF Step-----------------------------------------------------------------------------
(***************************************************************************)
(* A deleted export is withdrawn first.                                    *)
(***************************************************************************)
\* Without the finalizer nothing is published.
GuardOK(k) ==
    LET exp == store.exp[k] IN
    /\ exp # None /\ exp.deleting => exp.finalizer
    /\ exp = None \/ ~exp.finalizer => Local(store, k) = None \/ crossed

\* An update that will be accepted is of the latest version, and what is removed
\* was withdrawn.
UpdateOK(n) ==
    LET r == run[n]["export"]
        c == r.todo[Len(r.todo)]
        exp == store.exp[r.key]
    IN  Updates(r) /\ n \notin lapsed =>
            /\ Len(r.todo) \in 1..2 /\ (Len(r.todo) = 2 => r.todo[1].do = "withdraw")
            /\ c.do = "finalizer" /\ c.obj = exp /\ exp # None
            /\ c.on \in BOOLEAN
            /\ IF c.on THEN ~exp.deleting /\ ~exp.finalizer
               ELSE /\ exp.deleting /\ exp.finalizer
                    /\ Len(r.todo) = 1 => Local(store, r.key) = None \/ crossed

WithdrawInv ==
    /\ \A k \in Key : GuardOK(k)
    /\ \A n \in Node : UpdateOK(n)

\* An update that will be accepted would have been before.
Fresh(n) ==
    LET r == run'[n]["export"] IN
    Updates(r) /\ n \notin lapsed' => n \notin lapsed /\ store'.exp[r.key] = store.exp[r.key]

Gone(k) == store.exp[k] # None /\ store'.exp[k] = None => Local(store, k) = None \/ crossed
\* Nothing happens to the export of k; or it goes on rightly, and what was withdrawn
\* when it is deleted stays away.
Quiet(k) == store'.exp[k] = store.exp[k] /\ Local(store', k) = Local(store, k)
Guards(k) ==
    /\ GuardOK(k)' /\ Gone(k)
    /\ store.exp[k] # None /\ store.exp[k].deleting /\ (Local(store, k) = None \/ crossed) =>
          Local(store', k) = None \/ crossed'

\* What the steps have in common.
LEMMA WithdrawKept ==
  ASSUME TypeOK, WithdrawInv, crossed => crossed', \A k \in Key : Quiet(k) \/ Guards(k),
         \A n \in Node : \/ UpdateOK(n)'
                         \/ Fresh(n) /\ run'[n]["export"] \in {run[n]["export"], Idle}
  PROVE  WithdrawInv' /\ \A k \in Key : Gone(k)
<1>1. ASSUME NEW k \in Key PROVE Guards(k)
  <2>1. CASE Quiet(k)
    BY <2>1, Zenon DEF WithdrawInv, GuardOK, Guards, Gone, Quiet
  <2> QED
    BY <2>1, Zenon
<1>2. ASSUME NEW n \in Node, Fresh(n), run'[n]["export"] \in {run[n]["export"], Idle}
      PROVE  UpdateOK(n)'
  <2> DEFINE r == run[n]["export"]
  <2>1. ~Updates(Idle)
    BY DEF Updates, Idle
  <2>2. CASE run'[n]["export"] = Idle \/ ~(Updates(r) /\ n \notin lapsed')
    BY <1>2, <2>1, <2>2, Zenon DEF UpdateOK
  <2>3. CASE run'[n]["export"] = r /\ r # Idle /\ Updates(r) /\ n \notin lapsed'
    <3>1. r.key \in Key
      BY <2>3, Zenon DEF TypeOK, WorkOK, RunOK, Ctl
    <3>2. n \notin lapsed /\ store'.exp[r.key] = store.exp[r.key] /\ UpdateOK(n)
      BY <1>2, <2>3, Zenon DEF Fresh, WithdrawInv
    <3> QED
      BY <1>1, <2>3, <3>1, <3>2, Zenon DEF UpdateOK, Guards
  <2> QED
    BY <1>2, <2>2, <2>3, Zenon
<1> QED
  BY <1>1, <1>2, Zenon DEF WithdrawInv, Guards

\* A reconcile that begins reads the latest version, or will be refused.
LEMMA UpdateBegins ==
  ASSUME TypeOK, CacheOK, NEW n \in Node, NEW k \in Key, NEW t, Begins(n, "export", k, t)
  PROVE  UpdateOK(n)'
<1> DEFINE q == run'[n]["export"]
<1>e. PICK e : e = cache[n].exp[k]
  BY Zenon
<1>1. /\ q = (IF t = <<>> THEN Idle ELSE [key |-> k, todo |-> t])
      /\ lapsed' = IF Updates(q) /\ <<"exp", k>> \in stale[n] THEN lapsed \cup {n} ELSE lapsed
      /\ store' = store /\ queue[n]["export"] # {} /\ ExportPlanned(cache[n], k, t, e)
  BY <1>e, Zenon DEF Begins, Planned, NoWrite
<1> SUFFICES ASSUME Updates(q), n \notin lapsed'
             PROVE  UpdateOK(n)'
  BY ZenonT(30) DEF UpdateOK
<1>2. t # <<>> /\ q.key = k /\ q.todo = t
  <2>1. ~Updates(Idle)
    BY DEF Updates, Idle
  <2> QED
    BY <1>1, <2>1
<1>4. e = store.exp[k]
  BY <1>e, <1>1, Zenon DEF CacheOK, CopyOK
<1> HIDE DEF q
<1>6. CASE e.deleting
  <2>1. e # None /\ e.finalizer
    BY <1>1, <1>2, <1>6, Zenon DEF ExportPlanned
  <2>2. /\ Len(t) = 2 /\ t[1] = [do |-> "withdraw"]
        /\ t[2] = [do |-> "finalizer", obj |-> e, on |-> FALSE]
    BY <1>1, <1>6, <2>1, ZenonT(30) DEF ExportPlanned
  <2>3. /\ Len(t) = 2 /\ Len(t) \in 1..2 /\ Len(t) # 1
        /\ t[1].do = "withdraw" /\ t[Len(t)].do = "finalizer" /\ t[Len(t)].obj = e
        /\ t[Len(t)].on = FALSE /\ t[Len(t)].on \in BOOLEAN
    BY <2>2
  <2> QED
    BY <1>1, <1>2, <1>4, <1>6, <2>1, <2>3, Zenon DEF UpdateOK, q
<1>7. CASE ~e.deleting /\ ~e.finalizer
  <2>1. e # None
    BY <1>1, <1>2, Zenon DEF ExportPlanned
  <2>2. Len(t) = 1 /\ t[1] = [do |-> "finalizer", obj |-> e, on |-> TRUE]
    BY <1>1, <1>7, <2>1, Zenon DEF ExportPlanned
  <2>3. /\ Len(t) = 1 /\ Len(t) \in 1..2 /\ Len(t) # 2
        /\ t[Len(t)].do = "finalizer" /\ t[Len(t)].obj = e
        /\ t[Len(t)].on = TRUE /\ t[Len(t)].on \in BOOLEAN
    BY <2>2
  <2> QED
    BY <1>1, <1>2, <1>4, <1>7, <2>1, <2>3, Zenon DEF UpdateOK, q
<1>8. CASE ~e.deleting /\ e.finalizer
  <2>1. \A i \in 1..Len(t) : CallRight(cache[n], k, t[i])
    BY <1>1, <1>2, <1>8, ZenonT(30) DEF ExportPlanned
  <2>2. \A i \in 1..Len(t) : t[i].do # "finalizer"
    BY <2>1, Zenon DEF CallRight
  <2>3. DOMAIN t = 1..Len(t)
    BY <1>1 DEF ExportPlanned, TodoOK, IsList
  <2> QED
    BY <1>2, <2>2, <2>3, Zenon DEF Updates
<1> QED
  BY <1>6, <1>7, <1>8, Zenon

\* A call of the ServiceExport controller keeps the invariant.
LEMMA WithdrawCall ==
  ASSUME TypeOK, WithdrawInv, NEW n \in Node, ExportStep(n)
  PROVE  WithdrawInv' /\ \A k \in Key : Gone(k)
<1>1. PICK r, c, j : Calling(n, "export", r, c, j) /\ ExportDone(n, j, c)
  BY Zenon DEF ExportStep
<1> DEFINE q == run'[n]["export"]
<1>e. PICK e : e = store.exp[j]
  BY Zenon
<1>j. r = run[n]["export"] /\ j = r.key /\ c = r.todo[1]
  BY <1>1, Zenon DEF Calling
<1>2. /\ r # Idle /\ IsList(r.todo) /\ Len(r.todo) \in Nat \ {0} /\ j \in Key /\ (crossed => crossed')
      /\ Others(n, "export") /\ \A m \in Node : Fresh(m)
  BY <1>1, Zenon DEF Calling, ExportDone, Failed, Went, Versions, Fresh
<1>3. GuardOK(j) /\ UpdateOK(n) /\ (e # None => IsExport(e))
  BY <1>2, <1>e, Zenon DEF WithdrawInv, TypeOK, WellFormed
<1>4. \A m \in Node : m # n => run'[m]["export"] = run[m]["export"]
  <2>1. "export" \in Ctl
    BY Zenon DEF Ctl
  <2> QED
    BY <1>2, <2>1, Zenon DEF Others
<1>5. ASSUME \A k \in Key : Quiet(k) \/ Guards(k), UpdateOK(n)' \/ run'[n]["export"] \in {r, Idle}
      PROVE  WithdrawInv' /\ \A k \in Key : Gone(k)
  <2>1. \A m \in Node : \/ UpdateOK(m)'
                        \/ Fresh(m) /\ run'[m]["export"] \in {run[m]["export"], Idle}
    BY <1>2, <1>4, <1>5, <1>j, Zenon
  <2> QED
    BY <1>2, <1>5, <2>1, WithdrawKept, Zenon
<1>7. CASE Failed(n, "export") /\ NoWrite
  <2>1. \A k \in Key : Quiet(k)
    BY <1>7, Zenon DEF NoWrite, Quiet
  <2> QED
    BY <1>5, <1>7, <2>1, Zenon DEF Failed
<1>8. ASSUME Went(n, "export", <<>>), c.do = "withdraw" => Local(store', j) = None
      PROVE  UpdateOK(n)'
  <2> SUFFICES ASSUME Updates(q), n \notin lapsed' PROVE UpdateOK(n)'
    BY Zenon DEF UpdateOK
  <2>1. q # Idle
    BY DEF Updates, Idle
  <2>2. /\ Len(r.todo) # 1 /\ q.key = j /\ Len(q.todo) = Len(r.todo) - 1 /\ IsList(q.todo)
        /\ \A i \in 1..Len(q.todo) : q.todo[i] = r.todo[i + 1]
    BY <1>2, <1>8, <1>j, <2>1, GoesOn, ZenonT(30) DEF Went
  <2> HIDE DEF q
  <2>3. Updates(r)
    <3>1. DOMAIN q.todo = 1..Len(q.todo) /\ DOMAIN r.todo = 1..Len(r.todo)
      BY <1>2, <2>2 DEF IsList
    <3>2. PICK i \in 1..Len(q.todo) : q.todo[i].do = "finalizer"
      BY <3>1, Zenon DEF Updates
    <3>3. i + 1 \in DOMAIN r.todo /\ r.todo[i + 1].do = "finalizer"
      BY <1>2, <2>2, <3>1, <3>2
    <3> QED
      BY <3>3, Zenon DEF Updates
  <2>5. n \notin lapsed /\ store'.exp[j] = e
    BY <1>2, <1>e, <2>2, Zenon DEF Fresh, q
  <2>6. Len(r.todo) \in 1..2 /\ (Len(r.todo) = 2 => c.do = "withdraw")
    BY <1>3, <1>j, <2>3, <2>5, Zenon DEF UpdateOK
  <2>7. Len(r.todo) = 2 /\ Len(q.todo) = 1
    <3>1. Len(r.todo) \in 1..2 /\ Len(r.todo) # 1 /\ Len(q.todo) = Len(r.todo) - 1
      BY <2>2, <2>6, Zenon
    <3> QED
      BY ONLY <3>1
  <2>8. q.todo[Len(q.todo)] = r.todo[Len(r.todo)] /\ Len(q.todo) \in 1..2 /\ Len(q.todo) # 2
    BY <2>2, <2>7
  <2> QED
    BY <1>3, <1>8, <1>e, <1>j, <2>2, <2>3, <2>5, <2>6, <2>7, <2>8, ZenonT(30) DEF UpdateOK, q
<1>9. ASSUME Went(n, "export", <<>>), Quiet(j) \/ Guards(j),
             \A k \in Key : k # j => Quiet(k), c.do = "withdraw" => Local(store', j) = None
      PROVE  WithdrawInv' /\ \A k \in Key : Gone(k)
  BY <1>5, <1>8, <1>9, Zenon
<1> HIDE DEF q
<1>10. ASSUME NEW obj, Wrote("exp", j, obj)
       PROVE  store'.exp[j] = obj /\ Local(store', j) = Local(store, j) /\ \A k \in Key : k # j => Quiet(k)
  <2>1. ASSUME NEW k \in Key
        PROVE  Affects("exp", j, obj, k)
    BY <1>10, Effect, Zenon
  <2> QED
    BY <1>2, <2>1, Zenon DEF Quiet, At, Affects
<1>11. ASSUME NEW obj, Wrote("ee", <<ClusterID, j>>, obj)
       PROVE  store'.exp[j] = e /\ Local(store', j) = obj /\ \A k \in Key : k # j => Quiet(k)
  <2>1. ASSUME NEW k \in Key
        PROVE  Affects("ee", <<ClusterID, j>>, obj, k)
    BY <1>11, Effect, Zenon
  <2> QED
    BY <1>2, <1>e, <2>1, Zenon DEF Quiet, At, Affects
<1>12. DOMAIN None = {"none"}
  BY Zenon DEF None
<1>14. ASSUME Went(n, "export", <<>>), c.do = "finalizer", n \notin lapsed,
              Wrote("exp", j, IF c.on THEN [c.obj EXCEPT !.finalizer = TRUE] ELSE None)
       PROVE  WithdrawInv' /\ \A k \in Key : Gone(k)
  <2> DEFINE f == [e EXCEPT !.finalizer = TRUE]
  <2>1. Updates(r)
    BY <1>2, <1>14, <1>j, NextUpdates, Zenon
  <2>2. /\ Len(r.todo) = 1 /\ c.obj = e /\ e # None /\ c.on \in BOOLEAN
        /\ IF c.on THEN ~e.deleting /\ ~e.finalizer ELSE Local(store, j) = None \/ crossed
    <3>1. Len(r.todo) \in 1..2 /\ (Len(r.todo) = 2 => c.do = "withdraw")
      BY <1>3, <1>14, <1>j, <2>1, Zenon DEF UpdateOK
    <3>2. Len(r.todo) = 1
      BY <1>14, <3>1
    <3> QED
      BY <1>3, <1>14, <1>e, <1>j, <2>1, <3>2, Zenon DEF UpdateOK
  <2>3. CASE c.on
    <3>1. f.finalizer /\ f.deleting = e.deleting /\ f # None
      BY <1>3, <1>12, <2>2, Zenon DEF IsExport
    <3> HIDE DEF f
    <3>2. Wrote("exp", j, f)
      BY <1>14, <2>2, <2>3, Zenon DEF f
    <3>3. store'.exp[j] = f /\ \A k \in Key : k # j => Quiet(k)
      BY <1>10, <3>2, Zenon
    <3>4. Guards(j)
      BY <1>e, <2>2, <2>3, <3>1, <3>3, Zenon DEF GuardOK, Gone, Guards
    <3>5. c.do # "withdraw"
      BY <1>14, Zenon
    <3> QED
      BY <1>9, <1>14, <3>3, <3>4, <3>5, Zenon
  <2>4. CASE ~c.on
    <3>1. store'.exp[j] = None /\ Local(store', j) = Local(store, j) /\ \A k \in Key : k # j => Quiet(k)
      BY <1>10, <1>14, <2>4, Zenon
    <3>2. Guards(j)
      BY <1>2, <2>2, <2>4, <3>1, Zenon DEF GuardOK, Gone, Guards
    <3>3. c.do # "withdraw"
      BY <1>14, Zenon
    <3> QED
      BY <1>9, <1>14, <3>1, <3>2, <3>3, Zenon
  <2> QED
    BY <2>3, <2>4, Zenon
<1>15. ASSUME Went(n, "export", <<>>), c.do = "publish", ~Guarded(j) => crossed',
              NoWrite \/ Wrote("ee", <<ClusterID, j>>, c.obj)
       PROVE  WithdrawInv' /\ \A k \in Key : Gone(k)
  <2>1. c.do # "withdraw"
    BY <1>15, Zenon
  <2>2. store'.exp[j] = e /\ \A k \in Key : k # j => Quiet(k)
    BY <1>11, <1>15, <1>e, Zenon DEF NoWrite, Quiet
  <2>3. Guards(j)
    BY <1>2, <1>3, <1>15, <1>e, <2>2, Zenon DEF GuardOK, Gone, Guards, Guarded
  <2> QED
    BY <1>9, <1>15, <2>1, <2>2, <2>3, Zenon
<1>16. ASSUME Went(n, "export", <<>>), c.do = "withdraw", Wrote("ee", <<ClusterID, j>>, None)
       PROVE  WithdrawInv' /\ \A k \in Key : Gone(k)
  <2>1. store'.exp[j] = e /\ Local(store', j) = None /\ \A k \in Key : k # j => Quiet(k)
    BY <1>11, <1>16, Zenon
  <2>2. Guards(j)
    BY <1>3, <1>e, <2>1, Zenon DEF GuardOK, Gone, Guards
  <2> QED
    BY <1>9, <1>16, <2>1, <2>2, Zenon
<1>17. ASSUME Went(n, "export", <<>>), c.do = "valid", e # None,
              Wrote("exp", j, [e EXCEPT !.valid = c.to])
       PROVE  WithdrawInv' /\ \A k \in Key : Gone(k)
  <2> DEFINE f == [e EXCEPT !.valid = c.to]
  <2>1. f.finalizer = e.finalizer /\ f.deleting = e.deleting /\ f # None /\ c.do # "withdraw"
    BY <1>3, <1>12, <1>17, Zenon DEF IsExport
  <2>2. Wrote("exp", j, f)
    BY <1>17, Zenon
  <2> HIDE DEF f
  <2>3. store'.exp[j] = f /\ Local(store', j) = Local(store, j) /\ \A k \in Key : k # j => Quiet(k)
    BY <1>10, <2>2, Zenon
  <2>4. Guards(j)
    BY <1>2, <1>3, <1>17, <1>e, <2>1, <2>3, Zenon DEF GuardOK, Gone, Guards
  <2> QED
    BY <1>9, <1>17, <2>1, <2>3, <2>4, Zenon
<1> QED
  BY <1>1, <1>7, <1>14, <1>15, <1>16, <1>17, <1>e, Zenon DEF ExportDone

\* Every step keeps the invariant.
LEMMA WithdrawStep ==
  ASSUME TypeOK, CacheOK, WithdrawInv, [Next]_vars
  PROVE  WithdrawInv' /\ \A k \in Key : Gone(k)
<1>v. Versions => \A n \in Node : Fresh(n)
  BY Zenon DEF Versions, Fresh
<1>s. ASSUME store' = store, crossed => crossed',
             \A n \in Node : \/ UpdateOK(n)'
                             \/ Fresh(n) /\ run'[n]["export"] \in {run[n]["export"], Idle}
      PROVE  WithdrawInv' /\ \A k \in Key : Gone(k)
  <2>1. \A k \in Key : Quiet(k)
    BY <1>s, Zenon DEF Quiet
  <2> QED
    BY <1>s, <2>1, WithdrawKept, Zenon
<1>1. ASSUME NEW kind, NEW id, NEW obj, Outside(kind, id, obj)
      PROVE  WithdrawInv' /\ \A k \in Key : Gone(k)
  <2>1. Wrote(kind, id, obj) /\ crossed' = crossed /\ \A n \in Node : Fresh(n) /\ run'[n] = run[n]
    BY <1>1, <1>v, Zenon DEF Outside
  <2>2. ASSUME NEW k \in Key PROVE Quiet(k) \/ Guards(k)
    <3>1. Affects(kind, id, obj, k)
      BY <2>1, Effect, Zenon
    <3>2. GuardOK(k)
      BY Zenon DEF WithdrawInv
    <3>3. CASE kind = "exp" /\ id = k
      <4>1. store'.exp[k] = obj /\ Local(store', k) = Local(store, k)
        BY <3>1, <3>3, Zenon DEF At, Affects
      <4>2. \/ store.exp[k] = None /\ obj # None /\ ~obj.deleting /\ ~obj.finalizer
            \/ store.exp[k] # None /\ store.exp[k].finalizer /\ obj # None /\ obj.deleting /\ obj.finalizer
            \/ store.exp[k] # None /\ ~store.exp[k].finalizer /\ obj = None
        BY <1>1, <3>3, Zenon DEF Outside
      <4> QED
        BY <2>1, <3>2, <4>1, <4>2, ZenonT(30) DEF GuardOK, Gone, Guards
    <3>4. CASE ~(kind = "exp" /\ id = k)
      <4>1. ~(kind = "ee" /\ id = <<ClusterID, k>>)
        BY <1>1 DEF Outside
      <4> QED
        BY <3>1, <3>4, <4>1, Zenon DEF At, Quiet, Affects
    <3> QED
      BY <3>3, <3>4, Zenon
  <2> QED
    BY <2>1, <2>2, WithdrawKept, Zenon
<1>2. ASSUME NEW n \in Node, NEW kind, Deliver(n, kind)
      PROVE  WithdrawInv' /\ \A k \in Key : Gone(k)
  BY <1>2, <1>s, Zenon DEF Deliver, Fresh, history
<1>3. ASSUME NEW n \in Node, NEW ctl \in Ctl, NEW k \in Key, NEW t, Begins(n, ctl, k, t)
      PROVE  WithdrawInv' /\ \A j \in Key : Gone(j)
  <2>1. store' = store /\ crossed' = crossed /\ lapsed \subseteq lapsed' /\ Others(n, ctl)
    BY <1>3, Zenon DEF Begins, NoWrite
  <2>2. \A m \in Node : Fresh(m)
    BY <2>1, Zenon DEF Fresh
  <2>3. "export" \in Ctl
    BY Zenon DEF Ctl
  <2>4. ctl = "export" => UpdateOK(n)'
    BY <1>3, UpdateBegins, Zenon
  <2>5. \A m \in Node : <<m, "export">> # <<n, ctl>> => run'[m]["export"] = run[m]["export"]
    BY <2>1, <2>3, ZenonT(30) DEF Others
  <2> QED
    BY <1>s, <2>1, <2>2, <2>4, <2>5, Zenon
<1>4. ASSUME NEW n \in Node, ImportStep(n)
      PROVE  WithdrawInv' /\ \A k \in Key : Gone(k)
  <2>1. PICK r, c, j : Calling(n, "import", r, c, j) /\ ImportDone(n, j, c)
    BY <1>4, Zenon DEF ImportStep
  <2>2. (crossed => crossed') /\ Others(n, "import") /\ \A m \in Node : Fresh(m)
    BY <2>1, <1>v, Zenon DEF Calling, ImportDone, Failed, Went
  <2>3. \A m \in Node : run'[m]["export"] = run[m]["export"]
    <3>1. "export" \in Ctl /\ "export" # "import"
      BY Zenon DEF Ctl
    <3> QED
      BY <2>2, <3>1, Zenon DEF Others
  <2>4. NoWrite \/ \E kind \in {"si", "sl"} : \E id, obj : Wrote(kind, id, obj)
    BY <2>1, Zenon DEF ImportDone
  <2>5. ASSUME NEW kind \in {"si", "sl"}, NEW id, NEW obj, Wrote(kind, id, obj), NEW k \in Key
        PROVE  Quiet(k)
    <3>1. Affects(kind, id, obj, k)
      BY <2>5, Effect, Zenon
    <3> QED
      BY <3>1, Zenon DEF At, Quiet, Affects
  <2>6. \A k \in Key : Quiet(k)
    BY <2>4, <2>5, Zenon DEF NoWrite, Quiet
  <2> QED
    BY <2>2, <2>3, <2>6, WithdrawKept, Zenon
<1>5. ASSUME NEW n \in Node, Restart(n)
      PROVE  WithdrawInv' /\ \A k \in Key : Gone(k)
  <2>1. store' = store /\ crossed' = crossed /\ \A m \in Node : Fresh(m)
    BY <1>5, <1>v, Zenon DEF Restart, history
  <2>2. \A m \in Node : run'[m]["export"] \in {run[m]["export"], Idle}
    BY <1>5, Zenon DEF Restart, TypeOK, WorkOK, Ctl
  <2> QED
    BY <1>s, <2>1, <2>2, Zenon
<1>6. CASE UNCHANGED vars
  BY <1>6, <1>s, Zenon DEF vars, Fresh
<1> QED
  BY Steps, WithdrawCall, <1>1, <1>2, <1>3, <1>4, <1>5, <1>6, ZenonT(30) DEF Step
-----------------------------------------------------------------------------
(***************************************************************************)
(* What is published is right.                                             *)
(***************************************************************************)
\* n has seen all there is about the export of k, and has no request for it.
Seen(n, k) ==
    /\ <<"svc", k>> \notin stale[n] /\ <<"exp", k>> \notin stale[n]
    /\ k \notin queue[n]["export"]
Unseen(k) == \E n \in Node : "export" \in Running(n) /\ ~Seen(n, k)
Works(n, k) == run[n]["export"] # Idle /\ run[n]["export"].key = k

\* What an agent that has seen all is about to do is right.
RunRight(n, k) ==
    LET t == run[n]["export"].todo IN
    Works(n, k) /\ Seen(n, k) /\ store.exp[k] # None =>
        IF Guarded(k) THEN \A i \in 1..Len(t) : CallRight(store, k, t[i])
        ELSE t[Len(t)].do = "finalizer"

\* Some agent has yet to look at the export of k, or is working on it, or it is right.
PendingOK(k) ==
    store.exp[k] # None =>
        \/ Unseen(k)
        \/ ~Guarded(k) /\ \E n \in Node : Works(n, k)
        \/ /\ Guarded(k)
           /\ \/ Local(store, k) = Announced(store, k) \/ crossed
              \/ \E n \in Node : Works(n, k) /\ run[n]["export"].todo[1].do \in {"publish", "withdraw"}
           /\ \/ Truthful(store, k, store.exp[k].valid)
              \/ \E n \in Node : /\ Works(n, k)
                                 /\ run[n]["export"].todo[Len(run[n]["export"].todo)].do = "valid"

PublishOK(k) == PendingOK(k) /\ \A n \in Node : RunRight(n, k)

SameExport(k) == store'.exp[k] = store.exp[k] /\ store'.svc[k] = store.svc[k]
RunKept(n, k) ==
    Works(n, k)' /\ Seen(n, k)' => run'[n]["export"] = run[n]["export"] /\ Seen(n, k)
Untouched(k) ==
    /\ SameExport(k) /\ Local(store', k) = Local(store, k)
    /\ \A n \in Node : /\ RunKept(n, k)
                       /\ Works(n, k) => run'[n]["export"] = run[n]["export"]
                       /\ "export" \in Running(n) /\ ~Seen(n, k) => ~Seen(n, k)'

\* What the steps have in common: all agents, or one, have something to look at; or
\* nothing happens to the export of k.
LEMMA PublishKept ==
  ASSUME UNCHANGED active, crossed => crossed', CacheOK', NEW k \in Key, PublishOK(k)
  PROVE  /\ \A n \in Node : SameExport(k) /\ RunKept(n, k) => RunRight(n, k)'
         /\ /\ \E n \in Node : "export" \in Running(n)
            /\ \A n \in Node : "export" \in Running(n) => ~Seen(n, k)'
            => PublishOK(k)'
         /\ SameExport(k) /\ (\A n \in Node : RunKept(n, k)) /\ Unseen(k)' => PublishOK(k)'
         /\ Untouched(k) => PublishOK(k)'
<1>1. ASSUME NEW n \in Node, SameExport(k), RunKept(n, k) PROVE RunRight(n, k)'
  <2> SUFFICES ASSUME Works(n, k)', Seen(n, k)', store'.exp[k] # None
               PROVE  IF Guarded(k)' THEN \A i \in 1..Len(run'[n]["export"].todo) :
                                            CallRight(store', k, run'[n]["export"].todo[i])
                      ELSE run'[n]["export"].todo[Len(run'[n]["export"].todo)].do = "finalizer"
    BY Zenon DEF RunRight
  <2>1. run'[n]["export"] = run[n]["export"] /\ Seen(n, k) /\ Works(n, k) /\ RunRight(n, k)
    BY <1>1, Zenon DEF RunKept, Works, PublishOK
  <2>2. (Guarded(k)' <=> Guarded(k)) /\ \A c : CallRight(store, k, c) => CallRight(store', k, c)
    BY <1>1, Zenon DEF SameExport, Guarded, CallRight, Announced, Truthful
  <2> QED
    BY <1>1, <2>1, <2>2, Zenon DEF RunRight, SameExport
<1>2. Unseen(k)' <=> \E n \in Node : "export" \in Running(n) /\ ~Seen(n, k)'
  BY Zenon DEF Unseen, Running
<1>3. ASSUME \E n \in Node : "export" \in Running(n),
             \A n \in Node : "export" \in Running(n) => ~Seen(n, k)'
      PROVE  PublishOK(k)'
  <2>1. ASSUME NEW n \in Node PROVE ~(Works(n, k)' /\ Seen(n, k)')
    BY <1>3, Zenon DEF CacheOK, Running, Works
  <2> QED
    BY <1>2, <1>3, <2>1, Zenon DEF PublishOK, PendingOK, RunRight
<1>4. ASSUME SameExport(k), \A n \in Node : RunKept(n, k), Unseen(k)' PROVE PublishOK(k)'
  BY <1>1, <1>4, Zenon DEF PublishOK, PendingOK
<1>5. ASSUME Untouched(k) PROVE PublishOK(k)'
  <2>1. SameExport(k) /\ Local(store', k) = Local(store, k)
    BY <1>5, Zenon DEF Untouched
  <2>2. \A n \in Node : RunRight(n, k)'
    BY <1>1, <1>5, Zenon DEF Untouched
  <2>3. Unseen(k) => Unseen(k)'
    BY <1>2, <1>5, Zenon DEF Untouched, Unseen
  <2>4. \A n \in Node : Works(n, k) => Works(n, k)' /\ run'[n]["export"] = run[n]["export"]
    BY <1>5, Zenon DEF Untouched, Works
  <2>5. /\ store'.exp[k] = store.exp[k] /\ (Guarded(k)' <=> Guarded(k))
        /\ Announced(store', k) = Announced(store, k)
        /\ \A v : Truthful(store', k, v) <=> Truthful(store, k, v)
    BY <2>1, Zenon DEF SameExport, Guarded, Announced, Truthful
  <2>6. PendingOK(k)'
    <3> SUFFICES ASSUME store'.exp[k] # None, ~Unseen(k)' PROVE PendingOK(k)'
      BY Zenon DEF PendingOK
    <3>1. \/ ~Guarded(k) /\ \E n \in Node : Works(n, k)
          \/ /\ Guarded(k)
             /\ \/ Local(store, k) = Announced(store, k) \/ crossed
                \/ \E n \in Node : Works(n, k) /\ run[n]["export"].todo[1].do \in {"publish", "withdraw"}
             /\ \/ Truthful(store, k, store.exp[k].valid)
                \/ \E n \in Node : /\ Works(n, k)
                                   /\ run[n]["export"].todo[Len(run[n]["export"].todo)].do = "valid"
      BY <2>3, <2>5, Zenon DEF PublishOK, PendingOK
    <3>2. Guarded(k) => (Local(store, k) = Announced(store, k) \/ crossed => Local(store', k) = Announced(store', k) \/ crossed')
      BY <2>1, <2>5, Zenon
    <3>3. (\E n \in Node : Works(n, k) /\ run[n]["export"].todo[1].do \in {"publish", "withdraw"}) =>
            \E n \in Node : Works(n, k)' /\ run'[n]["export"].todo[1].do \in {"publish", "withdraw"}
      BY <2>4, Zenon
    <3>4. (\E n \in Node : Works(n, k) /\ run[n]["export"].todo[Len(run[n]["export"].todo)].do = "valid") =>
            \E n \in Node : Works(n, k)' /\ run'[n]["export"].todo[Len(run'[n]["export"].todo)].do = "valid"
      BY <2>4, Zenon
    <3> QED
      BY <2>4, <2>5, <3>1, <3>2, <3>3, <3>4, Zenon DEF PendingOK
  <2> QED
    BY <2>2, <2>6, ZenonT(30) DEF PublishOK
<1> QED
  BY <1>1, <1>3, <1>4, <1>5, Zenon
\* A reconcile that begins does what is right, or there is more to see.
LEMMA PublishBegins ==
  ASSUME TypeOK, CacheOK, CacheOK', WithdrawInv, NEW n \in Node, NEW k \in Key, NEW t,
         Begins(n, "export", k, t), PublishOK(k)
  PROVE  PublishOK(k)'
<1> DEFINE q == run'[n]["export"]
           s == cache[n]
<1>e. PICK e : e = store.exp[k]
  BY Zenon
<1>1. /\ q = (IF t = <<>> THEN Idle ELSE [key |-> k, todo |-> t])
      /\ UNCHANGED <<store, stale, active, crossed>> /\ Others(n, "export")
      /\ queue[n]["export"] # {} /\ ExportPlanned(s, k, t, s.exp[k])
  BY Zenon DEF Begins, Planned, NoWrite
<1>2. "export" \in Running(n) /\ CopyOK(store, s, stale[n], k)
  BY <1>1, Zenon DEF CacheOK
<1>3. SameExport(k) /\ "export" \in Ctl
  BY <1>1, ZenonT(30) DEF SameExport, Ctl
<1>4. \A m \in Node : m # n => RunKept(m, k)
  BY <1>1, <1>3, Zenon DEF RunKept, Works, Seen, Others
<1>5. CASE ~Seen(n, k)'
  <2>1. RunKept(n, k) /\ Unseen(k)'
    BY <1>1, <1>2, <1>5, Zenon DEF RunKept, Unseen, Running
  <2> QED
    BY <1>1, <1>3, <1>4, <2>1, PublishKept, Zenon
<1>6. CASE Seen(n, k)'
  <2>1. s.exp[k] = e /\ s.svc[k] = store.svc[k] /\ store'.exp[k] = e
    BY <1>1, <1>2, <1>6, <1>e, Zenon DEF Seen, CopyOK
  <2>2. \A c : CallRight(s, k, c) => CallRight(store', k, c)
    BY <1>1, <1>e, <2>1, Zenon DEF CallRight, Announced, Truthful
  <2>3. \A v : Truthful(s, k, v) => Truthful(store', k, v)
    BY <1>1, <2>1, Zenon DEF Truthful
  <2>4. \A m \in Node : m # n => RunRight(m, k)'
    BY <1>1, <1>3, <1>4, PublishKept, Zenon
  <2>5. CASE e = None
    BY <2>1, <2>4, <2>5, Zenon DEF PublishOK, PendingOK, RunRight
  <2>6. CASE e # None
    <3>1. t # <<>> /\ (e.deleting => e.finalizer)
      BY <1>1, <1>e, <2>1, <2>6, ZenonT(30) DEF ExportPlanned, WithdrawInv, GuardOK
    <3>2. q # Idle /\ q.key = k /\ q.todo = t /\ Works(n, k)'
      BY <1>1, <3>1 DEF Idle, Works
    <3>3. Guarded(k)' <=> e.finalizer /\ ~e.deleting
      BY <2>1, <2>6, Zenon DEF Guarded
    <3> HIDE DEF q
    <3>4. CASE ~(e.finalizer /\ ~e.deleting)
      <4>1. t[Len(t)].do = "finalizer"
        <5>1. CASE e.deleting
          <6>1. Len(t) = 2 /\ t[2] = [do |-> "finalizer", obj |-> e, on |-> FALSE]
            BY <1>1, <2>1, <2>6, <3>1, <5>1, ZenonT(30) DEF ExportPlanned
          <6> QED
            BY <6>1
        <5>2. CASE ~e.deleting
          <6>1. Len(t) = 1 /\ t[1] = [do |-> "finalizer", obj |-> e, on |-> TRUE]
            BY <1>1, <2>1, <2>6, <3>4, <5>2, Zenon DEF ExportPlanned
          <6> QED
            BY <6>1
        <5> QED
          BY <5>1, <5>2, Zenon
      <4>2. RunRight(n, k)'
        BY <3>2, <3>3, <3>4, <4>1, Zenon DEF RunRight, q
      <4>3. PendingOK(k)'
        BY <3>2, <3>3, <3>4, Zenon DEF PendingOK
      <4> QED
        BY <2>4, <4>2, <4>3, ZenonT(30) DEF PublishOK
    <3>5. CASE e.finalizer /\ ~e.deleting
      <4>1. /\ \A i \in 1..Len(t) : CallRight(s, k, t[i])
            /\ t[1].do \in {"publish", "withdraw"}
            /\ Truthful(s, k, e.valid) \/ t[Len(t)].do = "valid"
        BY <1>1, <2>1, <2>6, <3>5, Zenon DEF ExportPlanned
      <4>2. RunRight(n, k)'
        BY <2>2, <3>2, <3>3, <3>5, <4>1, Zenon DEF RunRight, q
      <4>3. PendingOK(k)'
        BY <2>1, <2>3, <3>2, <3>3, <3>5, <4>1, Zenon DEF PendingOK, q
      <4> QED
        BY <2>4, <4>2, <4>3, Zenon DEF PublishOK
    <3> QED
      BY <3>4, <3>5, Zenon
  <2> QED
    BY <2>5, <2>6, Zenon
<1> QED
  BY <1>5, <1>6, Zenon

\* A call of the ServiceExport controller does what is right, or there is more to see.
LEMMA PublishCall ==
  ASSUME TypeOK, CacheOK, CacheOK', WithdrawInv, \A k \in Key : PublishOK(k), NEW n \in Node, ExportStep(n)
  PROVE  \A k \in Key : PublishOK(k)'
<1>1. PICK r, c, j : Calling(n, "export", r, c, j) /\ ExportDone(n, j, c)
  BY Zenon DEF ExportStep
<1>e. PICK e, q : e = store.exp[j] /\ q = run'[n]["export"]
  BY Zenon
<1>2. /\ r = run[n]["export"] /\ j = r.key /\ c = r.todo[1] /\ r # Idle /\ Len(r.todo) \in Nat \ {0} /\ j \in Key
      /\ (crossed => crossed') /\ UNCHANGED active /\ Others(n, "export")
  BY <1>1, ZenonT(30) DEF Calling, ExportDone, Failed, Went
<1>3. "export" \in Running(n) /\ "export" \in Ctl
  BY <1>2, Zenon DEF CacheOK, Ctl
<1>4. \A m \in Node : m # n => run'[m]["export"] = run[m]["export"] /\ queue'[m]["export"] = queue[m]["export"]
  BY <1>2, <1>3, Zenon DEF Others
<1>5. /\ q = Idle \/ q.key = j
      /\ queue'[n]["export"] = queue[n]["export"] \/ queue'[n]["export"] = queue[n]["export"] \cup {j}
  BY <1>1, <1>2, <1>e, Zenon DEF ExportDone, Failed, Went, Continues
\* the other exports
<1>6. ASSUME NEW k \in Key, k # j, \A m \in Node : Seen(m, k)' => Seen(m, k), SameExport(k),
             Local(store', k) = Local(store, k)
      PROVE  PublishOK(k)'
  <2>1. ~Works(n, k) /\ ~Works(n, k)'
    BY <1>2, <1>5, <1>6, <1>e, Zenon DEF Works
  <2>2. Untouched(k)
    BY <1>4, <1>6, <2>1, ZenonT(30) DEF Untouched, RunKept
  <2> QED
    BY <1>2, <2>2, PublishKept, Zenon
<1>7. \A m \in Node, k \in Key : k # j \/ queue' = queue => (k \notin queue'[m]["export"] => k \notin queue[m]["export"])
  BY <1>4, <1>5, Zenon
<1>8. CASE Failed(n, "export") /\ NoWrite
  <2>1. UNCHANGED <<store, stale>> /\ q = Idle /\ j \in queue'[n]["export"]
    BY <1>2, <1>8, <1>e, Zenon DEF Failed, NoWrite
  <2>2. \A k \in Key : SameExport(k) /\ Local(store', k) = Local(store, k)
    BY <2>1, Zenon DEF SameExport
  <2>3. \A k \in Key : k # j => PublishOK(k)'
    BY <1>6, <1>7, <2>1, <2>2, Zenon DEF Seen
  <2>4. Unseen(j)'
    BY <1>2, <1>3, <2>1, Zenon DEF Unseen, Running, Seen
  <2>5. \A m \in Node : RunKept(m, j)
    <3>1. \A m \in Node : j \notin queue'[m]["export"] => j \notin queue[m]["export"]
      BY <1>4, <1>5, Zenon
    <3> QED
      BY <1>4, <1>e, <2>1, <3>1, ZenonT(30) DEF RunKept, Works, Seen
  <2>6. PublishOK(j)'
    BY <1>2, <2>2, <2>4, <2>5, PublishKept, Zenon
  <2> QED
    BY <2>3, <2>6, Zenon
\* a write of the export itself: everyone has to look
<1>9. ASSUME queue' = queue, NEW obj, Wrote("exp", j, obj), obj # e
      PROVE  \A k \in Key : PublishOK(k)'
  <2>1. ASSUME NEW k \in Key PROVE Affects("exp", j, obj, k)
    BY <1>9, Effect, Zenon
  <2>2. ASSUME NEW m \in Node PROVE Outdates("exp", j, obj, m)
    BY <1>9, Effect, ZenonT(30)
  <2>3. \A k \in Key : k # j => SameExport(k) /\ Local(store', k) = Local(store, k)
    BY <2>1, Zenon DEF Affects, At, SameExport
  <2>4. \A m \in Node, k \in Key : Seen(m, k)' => Seen(m, k)
    BY <1>9, <2>2, Zenon DEF Seen, Outdates
  <2>5. ASSUME NEW m \in Node, "export" \in Running(m) PROVE ~Seen(m, j)'
    <3>1. "exp" \in Watched(m)
      BY <1>3, <2>5 DEF Watched, Reads
    <3> QED
      BY <1>9, <1>e, <2>2, <3>1, ZenonT(30) DEF Seen, Outdates
  <2>6. PublishOK(j)'
    BY <1>2, <1>3, <2>5, PublishKept, Zenon
  <2> QED
    BY <1>6, <2>3, <2>4, <2>6, Zenon
\* a call that succeeds and leaves the export as it is
<1>10. ASSUME Went(n, "export", <<>>), \A k \in Key : SameExport(k),
              \A k \in Key : k # j => Local(store', k) = Local(store, k),
              \A m \in Node, k \in Key : Seen(m, k)' <=> Seen(m, k), c.do # "finalizer",
              c.do = "valid" => Local(store', j) = Local(store, j) /\ (e # None => e.valid = c.to),
              c.do # "valid" /\ CallRight(store, j, c) => Local(store', j) = Announced(store, j) \/ crossed'
       PROVE  \A k \in Key : PublishOK(k)'
  <2>1. \A k \in Key : k # j => PublishOK(k)'
    BY <1>6, <1>10, Zenon
  <2>2. PublishOK(j) /\ RunRight(n, j) /\ Works(n, j)
    BY <1>2, Zenon DEF PublishOK, Works
  <2>3. CASE ~Seen(n, j)
    <3>1. Unseen(j)' /\ ~Seen(n, j)'
      BY <1>2, <1>3, <1>10, <2>3, Zenon DEF Unseen, Running
    <3>2. \A m \in Node : RunKept(m, j)
      BY <1>2, <1>4, <1>10, <3>1, Zenon DEF RunKept
    <3>3. PublishOK(j)'
      BY <1>2, <1>10, <3>1, <3>2, PublishKept, Zenon
    <3> QED
      BY <2>1, <3>3, Zenon
  <2>4. CASE e = None
    <3>1. store'.exp[j] = None
      BY <1>2, <1>10, <1>e, <2>4, Zenon DEF SameExport
    <3>2. PublishOK(j)'
      BY <3>1, Zenon DEF PublishOK, PendingOK, RunRight
    <3> QED
      BY <2>1, <3>2, Zenon
  <2>5. CASE Seen(n, j) /\ e # None
    <3>1. /\ store'.exp[j] = e /\ (Guarded(j)' <=> Guarded(j)) /\ Announced(store', j) = Announced(store, j)
          /\ \A v : Truthful(store', j, v) <=> Truthful(store, j, v)
          /\ \A x : CallRight(store, j, x) => CallRight(store', j, x)
      BY <1>2, <1>10, <1>e, Zenon DEF SameExport, Guarded, Announced, Truthful, CallRight
    <3>2. IF Guarded(j) THEN \A i \in 1..Len(r.todo) : CallRight(store, j, r.todo[i])
          ELSE r.todo[Len(r.todo)].do = "finalizer"
      BY <1>2, <1>e, <2>2, <2>5, ZenonT(30) DEF RunRight
    <3>3. \/ Len(r.todo) = 1 /\ q = Idle
          \/ /\ q # Idle /\ q.key = j /\ Len(q.todo) = Len(r.todo) - 1 /\ Len(r.todo) > 1
             /\ \A i \in 1..Len(q.todo) : q.todo[i] = r.todo[i + 1]
      <4>1. Continues(r, q, <<>>)
        BY <1>2, <1>10, <1>e, Zenon DEF Went
      <4> QED
        BY <1>2, <4>1, GoesOn, ZenonT(30)
    <3>4. Len(r.todo) > 1 => q.todo[Len(q.todo)] = r.todo[Len(r.todo)] /\ Works(n, j)'
      <4>0. SUFFICES ASSUME Len(r.todo) > 1 PROVE q.todo[Len(q.todo)] = r.todo[Len(r.todo)] /\ Works(n, j)'
        BY Zenon
      <4>1. q # Idle /\ q.key = j /\ Len(q.todo) \in 1..Len(q.todo) /\ Len(q.todo) + 1 = Len(r.todo)
        <5>1. Len(r.todo) # 1
          <6>1. Len(r.todo) \in Nat \ {0}
            BY <1>2, Zenon
          <6>2. \A len \in Nat : len > 1 => len # 1
            OBVIOUS
          <6> QED
            BY <4>0, <6>1, <6>2, ZenonT(30)
        <5>2. q # Idle /\ q.key = j /\ Len(q.todo) = Len(r.todo) - 1 /\ Len(r.todo) > 1 /\ Len(r.todo) \in Nat
          BY <1>2, <3>3, <5>1, Zenon
        <5> QED
          BY <5>2
      <4>2. q.todo[Len(q.todo)] = r.todo[Len(q.todo) + 1]
        <5>1. \A i \in 1..Len(q.todo) : q.todo[i] = r.todo[i + 1]
          BY <3>3, <4>1, ZenonT(30)
        <5> QED
          BY <4>1, <5>1, Zenon
      <4> QED
        BY <1>e, <4>1, <4>2, Zenon DEF Works
    <3>5. r.todo[Len(r.todo)].do # c.do => Len(r.todo) > 1
      BY <1>2
    <3>6. \A m \in Node : m # n => /\ RunRight(m, j)'
                                   /\ Works(m, j) => Works(m, j)' /\ run'[m]["export"] = run[m]["export"]
      <4>1. \A m \in Node : m # n => RunKept(m, j)
        BY <1>2, <1>4, <1>10, Zenon DEF RunKept
      <4>2. \A m \in Node : m # n => RunRight(m, j)'
        BY <1>2, <1>10, <4>1, PublishKept, Zenon
      <4> QED
        BY <1>4, <4>2, Zenon DEF Works
    <3>7. RunRight(n, j)'
      <4>1. CASE q = Idle
        BY <1>e, <4>1, Zenon DEF RunRight, Works
      <4>2. CASE q # Idle /\ Guarded(j)
        <5>1. \A i \in 1..Len(q.todo) : CallRight(store', j, q.todo[i])
          <6> SUFFICES ASSUME NEW i \in 1..Len(q.todo) PROVE CallRight(store', j, q.todo[i])
            BY Zenon
          <6>1. i + 1 \in 1..Len(r.todo) /\ q.todo[i] = r.todo[i + 1]
            BY <1>2, <3>3, <4>2
          <6> QED
            BY <3>1, <3>2, <4>2, <6>1, ZenonT(30)
        <5> QED
          BY <1>e, <3>1, <4>2, <5>1, Zenon DEF RunRight
      <4>3. CASE q # Idle /\ ~Guarded(j)
        BY <1>e, <3>1, <3>2, <3>3, <3>4, <4>3, ZenonT(30) DEF RunRight
      <4> QED
        BY <4>1, <4>2, <4>3, Zenon
    <3>8. PendingOK(j)'
      <4> SUFFICES ASSUME ~Unseen(j)' PROVE PendingOK(j)'
        BY Zenon DEF PendingOK
      <4>1. ~Unseen(j)
        BY <1>2, <1>10, Zenon DEF Unseen, Running
      <4>2. CASE ~Guarded(j)
        BY <1>10, <3>1, <3>2, <3>4, <3>5, <4>2, ZenonT(30) DEF PendingOK
      <4>3. CASE Guarded(j)
        <5>1. CallRight(store, j, c)
          <6>1. 1 \in 1..Len(r.todo)
            BY <1>2
          <6> QED
            BY <1>2, <3>2, <4>3, <6>1, ZenonT(30)
        <5>2. /\ \/ Local(store, j) = Announced(store, j) \/ crossed
                 \/ \E m \in Node : Works(m, j) /\ run[m]["export"].todo[1].do \in {"publish", "withdraw"}
              /\ \/ Truthful(store, j, e.valid)
                 \/ \E m \in Node : /\ Works(m, j)
                                    /\ run[m]["export"].todo[Len(run[m]["export"].todo)].do = "valid"
          BY <1>e, <2>2, <2>5, <4>1, <4>3, ZenonT(30) DEF PublishOK, PendingOK
        <5>3. \/ Local(store', j) = Announced(store', j) \/ crossed'
              \/ \E m \in Node : Works(m, j)' /\ run'[m]["export"].todo[1].do \in {"publish", "withdraw"}
          <6>1. CASE c.do # "valid"
            BY <1>10, <3>1, <5>1, <6>1, Zenon
          <6>2. CASE c.do = "valid"
            <7>1. r.todo[1].do \notin {"publish", "withdraw"}
              BY <1>2, <6>2, Zenon
            <7> QED
              BY <1>2, <1>10, <3>1, <3>6, <5>2, <6>2, <7>1, ZenonT(30)
          <6> QED
            BY <6>1, <6>2, Zenon
        <5>4. \/ Truthful(store', j, e.valid)
              \/ \E m \in Node : /\ Works(m, j)'
                                 /\ run'[m]["export"].todo[Len(run'[m]["export"].todo)].do = "valid"
          <6>1. CASE c.do # "valid"
            BY <1>2, <1>e, <3>1, <3>4, <3>5, <3>6, <5>2, <6>1, ZenonT(30)
          <6>2. CASE c.do = "valid"
            <7>1. Truthful(store, j, c.to)
              BY <5>1, <6>2, Zenon DEF CallRight
            <7> QED
              BY <1>10, <2>5, <3>1, <6>2, <7>1, ZenonT(30)
          <6> QED
            BY <6>1, <6>2, Zenon
        <5> QED
          BY <3>1, <4>3, <5>3, <5>4, Zenon DEF PendingOK
      <4> QED
        BY <4>2, <4>3, Zenon
    <3>9. PublishOK(j)'
      BY <3>6, <3>7, <3>8, ZenonT(30) DEF PublishOK
    <3> QED
      BY <2>1, <3>9, Zenon
  <2> QED
    BY <2>3, <2>4, <2>5, Zenon
<1>11. DOMAIN None = {"none"} /\ (e # None => IsExport(e)) /\ UpdateOK(n) /\ IsList(r.todo)
  BY <1>1, <1>2, <1>e, ZenonT(30) DEF None, TypeOK, WellFormed, WithdrawInv, Calling
<1>12. Went(n, "export", <<>>) => queue' = queue
  BY Zenon DEF Went
<1>13. ASSUME Went(n, "export", <<>>), c.do = "finalizer", n \notin lapsed,
              Wrote("exp", j, IF c.on THEN [c.obj EXCEPT !.finalizer = TRUE] ELSE None)
       PROVE  \A k \in Key : PublishOK(k)'
  <2> DEFINE f == [e EXCEPT !.finalizer = TRUE]
  <2>1. Updates(r)
    BY <1>2, <1>11, <1>13, NextUpdates, Zenon
  <2>2. Len(r.todo) = 1
    <3>1. Len(r.todo) \in 1..2 /\ (Len(r.todo) = 2 => c.do = "withdraw")
      BY <1>2, <1>11, <1>13, <2>1, Zenon DEF UpdateOK
    <3> QED
      BY <1>13, <3>1
  <2>3. c.obj = e /\ e # None /\ (c.on => ~e.finalizer)
    BY <1>2, <1>11, <1>13, <1>e, <2>1, <2>2, Zenon DEF UpdateOK
  <2>4. CASE c.on
    <3>1. f.finalizer
      BY <1>11, <2>3, Zenon DEF IsExport
    <3>2. Wrote("exp", j, f)
      BY <1>13, <2>3, <2>4, Zenon
    <3> HIDE DEF f
    <3> QED
      BY <1>9, <1>12, <1>13, <2>3, <2>4, <3>1, <3>2, Zenon
  <2>5. CASE ~c.on
    BY <1>9, <1>12, <1>13, <2>3, <2>5, Zenon
  <2> QED
    BY <2>4, <2>5, Zenon
\* what is published, or not
<1>14. ASSUME Went(n, "export", <<>>), c.do \in {"publish", "withdraw"},
              NEW obj, Wrote("ee", <<ClusterID, j>>, obj) \/ (NoWrite /\ (Local(store, j) = obj \/ crossed')),
              CallRight(store, j, c) => obj = Announced(store, j)
       PROVE  \A k \in Key : PublishOK(k)'
  <2>1. /\ \A k \in Key : SameExport(k) /\ (k # j => Local(store', k) = Local(store, k))
        /\ Local(store', j) = obj \/ crossed'
        /\ \A m \in Node, k \in Key : Seen(m, k)' <=> Seen(m, k)
    <3>1. CASE NoWrite /\ (Local(store, j) = obj \/ crossed')
      BY <1>12, <1>14, <3>1, ZenonT(30) DEF NoWrite, SameExport, Seen
    <3>2. CASE Wrote("ee", <<ClusterID, j>>, obj)
      <4>1. ASSUME NEW k \in Key PROVE Affects("ee", <<ClusterID, j>>, obj, k)
        BY <3>2, Effect, Zenon
      <4>2. ASSUME NEW m \in Node PROVE Outdates("ee", <<ClusterID, j>>, obj, m)
        BY <3>2, Effect, ZenonT(30)
      <4>3. \A k \in Key : SameExport(k) /\ (k # j => Local(store', k) = Local(store, k))
        BY <4>1, Zenon DEF Affects, At, SameExport
      <4>4. Local(store', j) = obj
        BY <1>2, <4>1, Zenon DEF Affects, At
      <4>5. \A m \in Node, k \in Key : Seen(m, k)' <=> Seen(m, k)
        BY <1>12, <1>14, <4>2, Zenon DEF Seen, Outdates
      <4> QED
        BY <4>3, <4>4, <4>5, Zenon
    <3> QED
      BY <1>14, <3>1, <3>2, Zenon
  <2>2. c.do # "finalizer" /\ c.do # "valid"
    BY <1>14, Zenon
  <2> QED
    BY <1>10, <1>14, <2>1, <2>2, ZenonT(30)
<1>15. ASSUME Went(n, "export", <<>>), c.do = "publish",
              \/ Wrote("ee", <<ClusterID, j>>, c.obj)
              \/ /\ Local(cache[n], j) = c.obj /\ NoWrite
                 /\ <<"ee", <<ClusterID, j>>>> \in stale[n] => crossed'
       PROVE  \A k \in Key : PublishOK(k)'
  <2>1. c.do \in {"publish", "withdraw"} /\ (CallRight(store, j, c) => c.obj = Announced(store, j))
    BY <1>15, Zenon DEF CallRight
  <2>2. CopyOK(store, cache[n], stale[n], j)
    BY <1>2, <1>3, Zenon DEF CacheOK
  <2> QED
    BY <1>14, <1>15, <2>1, <2>2, ZenonT(30) DEF CopyOK
<1>16. ASSUME Went(n, "export", <<>>), c.do = "withdraw", Wrote("ee", <<ClusterID, j>>, None)
       PROVE  \A k \in Key : PublishOK(k)'
  <2>1. c.do \in {"publish", "withdraw"} /\ (CallRight(store, j, c) => None = Announced(store, j))
    BY <1>16, Zenon DEF CallRight, Announced
  <2> QED
    BY <1>14, <1>16, <2>1, ZenonT(30)
<1>17. ASSUME Went(n, "export", <<>>), c.do = "valid", e # None,
              Wrote("exp", j, [e EXCEPT !.valid = c.to])
       PROVE  \A k \in Key : PublishOK(k)'
  <2> DEFINE f == [e EXCEPT !.valid = c.to]
  <2>1. f.valid = c.to /\ c.do # "finalizer"
    BY <1>11, <1>17, Zenon DEF IsExport
  <2>2. Wrote("exp", j, f)
    BY <1>17, Zenon
  <2> HIDE DEF f
  <2>3. CASE f # e
    BY <1>9, <1>12, <1>17, <2>2, <2>3, Zenon
  <2>4. CASE f = e
    <3>1. ASSUME NEW k \in Key PROVE Affects("exp", j, f, k)
      BY <2>2, Effect, Zenon
    <3>2. ASSUME NEW m \in Node PROVE Outdates("exp", j, f, m)
      BY <2>2, Effect, ZenonT(30)
    <3>3. \A k \in Key : SameExport(k) /\ Local(store', k) = Local(store, k)
      BY <1>e, <2>4, <3>1, Zenon DEF Affects, At, SameExport
    <3>4. \A m \in Node : stale'[m] = stale[m]
      BY <1>e, <2>4, <3>2, Zenon DEF Outdates
    <3>5. \A m \in Node, k \in Key : Seen(m, k)' <=> Seen(m, k)
      BY <1>12, <1>17, <3>4, Zenon DEF Seen
    <3> QED
      BY <1>2, <1>10, <1>17, <2>1, <2>4, <3>3, <3>5, ZenonT(30)
  <2> QED
    BY <2>3, <2>4, Zenon
<1> QED
  BY <1>1, <1>8, <1>13, <1>15, <1>16, <1>17, <1>e, Zenon DEF ExportDone
\* Every step keeps what is published right.
LEMMA PublishStep ==
  ASSUME TypeOK, CacheOK, CacheOK', WithdrawInv, \A k \in Key : PublishOK(k), [Next]_vars
  PROVE  \A k \in Key : PublishOK(k)'
<1>e. "export" \in Ctl /\ "import" # "export"
  BY Zenon DEF Ctl
<1>1. ASSUME NEW kind, NEW id, NEW obj, Outside(kind, id, obj), NEW k \in Key PROVE PublishOK(k)'
  <2>1. Wrote(kind, id, obj) /\ obj # store[kind][id] /\ UNCHANGED <<queue, run, active, crossed>>
    BY <1>1, Zenon DEF Outside
  <2>2. Affects(kind, id, obj, k)
    BY <2>1, Effect, Zenon
  <2>3. ASSUME NEW n \in Node PROVE Outdates(kind, id, obj, n)
    BY <2>1, Effect, Zenon
  <2>4. CASE kind \in {"svc", "exp"} /\ id = k
    <3>1. \E n \in Node : "export" \in Running(n)
      BY <1>1, <2>4, ZenonT(30) DEF Outside
    <3>2. ASSUME NEW n \in Node, "export" \in Running(n) PROVE ~Seen(n, k)'
      <4>1. kind \in Watched(n)
        BY <1>e, <2>4, <3>2 DEF Watched, Reads
      <4> QED
        BY <2>1, <2>3, <2>4, <4>1, Zenon DEF Seen, Outdates
    <3> QED
      BY <2>1, <3>1, <3>2, PublishKept, Zenon
  <2>5. CASE ~(kind \in {"svc", "exp"} /\ id = k)
    <3>1. ~(kind = "ee" /\ id = <<ClusterID, k>>)
      BY <1>1 DEF Outside
    <3>2. SameExport(k) /\ Local(store', k) = Local(store, k)
      BY <2>2, <2>5, <3>1, Zenon DEF Affects, At, SameExport
    <3>3. \A n \in Node : Seen(n, k)' => Seen(n, k)
      BY <2>1, <2>3, Zenon DEF Seen, Outdates
    <3>4. Untouched(k)
      BY <2>1, <3>2, <3>3, Zenon DEF Untouched, RunKept
    <3> QED
      BY <2>1, <3>4, PublishKept, ZenonT(30)
  <2> QED
    BY <2>4, <2>5, Zenon
<1>2. ASSUME NEW n \in Node, NEW kind \in Kind, Deliver(n, kind), NEW k \in Key PROVE PublishOK(k)'
  <2> DEFINE news == {x \in stale[n] : x[1] = kind}
  <2>1. UNCHANGED <<store, run, active, crossed>>
    BY <1>2, Zenon DEF Deliver, history
  <2>2. \A m \in Node : m # n => stale'[m] = stale[m] /\ queue'[m] = queue[m]
    BY <1>2, Zenon DEF Deliver, TypeOK, WorkOK
  <2>3. stale'[n] = stale[n] \ news
    BY <1>2, Zenon DEF Deliver, TypeOK
  <2>4. "export" \in Running(n) =>
          queue'[n]["export"] = queue[n]["export"] \cup UNION {requests("export", x[1], x[2]) : x \in news}
    BY <1>2, <1>e, Zenon DEF Deliver, TypeOK, WorkOK
  <2>5. ASSUME "export" \in Running(n), Seen(n, k)' PROVE Seen(n, k)
    <3>1. ASSUME NEW x \in {"svc", "exp"}, <<x, k>> \in news PROVE FALSE
      <4>1. requests("export", x, k) = {k} /\ <<x, k>>[1] = x /\ <<x, k>>[2] = k
        BY Zenon DEF requests
      <4>2. k \in UNION {requests("export", y[1], y[2]) : y \in news}
        BY <3>1, <4>1, Zenon
      <4> QED
        BY <2>4, <2>5, <4>2, Zenon DEF Seen
    <3> QED
      BY <2>3, <2>4, <2>5, <3>1, Zenon DEF Seen
  <2>6. \A m \in Node : Works(m, k) \/ Works(m, k)' => "export" \in Running(m)
    BY <2>1, Zenon DEF CacheOK, Works
  <2>7. Untouched(k)
    <3>1. SameExport(k) /\ Local(store', k) = Local(store, k)
      BY <2>1, Zenon DEF SameExport
    <3>2. ASSUME NEW m \in Node, "export" \in Running(m) PROVE Seen(m, k)' => Seen(m, k)
      BY <2>2, <2>5, <3>2, Zenon DEF Seen
    <3> QED
      BY <2>1, <2>6, <3>1, <3>2, ZenonT(30) DEF Untouched, RunKept
  <2> QED
    BY <2>1, <2>7, PublishKept, Zenon
\* the exports that a step is not about
<1>3. ASSUME NEW k \in Key, SameExport(k), Local(store', k) = Local(store, k), UNCHANGED active, crossed => crossed',
             \A n \in Node : /\ stale[n] \subseteq stale'[n]
                             /\ k \in queue[n]["export"] => k \in queue'[n]["export"]
                             /\ \/ run'[n]["export"] = run[n]["export"]
                                \/ ~Works(n, k) /\ ~Works(n, k)'
      PROVE  PublishOK(k)'
  <2>1. \A n \in Node : Seen(n, k)' => Seen(n, k)
    BY <1>3, Zenon DEF Seen
  <2>2. Untouched(k)
    BY <1>3, <2>1, Zenon DEF Untouched, RunKept
  <2> QED
    BY <1>3, <2>2, PublishKept, ZenonT(30)
<1>4. ASSUME NEW n \in Node, NEW ctl \in Ctl, NEW j \in Key, NEW t, Begins(n, ctl, j, t), NEW k \in Key
      PROVE  PublishOK(k)'
  <2>1. /\ UNCHANGED <<store, stale, active, crossed>> /\ Others(n, ctl) /\ run[n][ctl] = Idle
        /\ queue'[n][ctl] = queue[n][ctl] \ {j}
        /\ run'[n][ctl] = IF t = <<>> THEN Idle ELSE [key |-> j, todo |-> t]
    BY <1>4, Zenon DEF Begins, NoWrite
  <2>2. CASE ctl = "export" /\ k = j
    BY <1>4, <2>2, PublishBegins, Zenon
  <2>3. CASE ~(ctl = "export" /\ k = j)
    <3>1. SameExport(k) /\ Local(store', k) = Local(store, k)
      BY <2>1, Zenon DEF SameExport
    <3>2. \A m \in Node : <<m, "export">> # <<n, ctl>> =>
             run'[m]["export"] = run[m]["export"] /\ queue'[m]["export"] = queue[m]["export"]
      BY <1>e, <2>1, Zenon DEF Others
    <3>3. ctl = "export" => ~Works(n, k) /\ ~Works(n, k)' /\ (k \in queue[n]["export"] => k \in queue'[n]["export"])
      BY <2>1, <2>3 DEF Works
    <3>4. \A m \in Node : /\ stale[m] \subseteq stale'[m]
                          /\ k \in queue[m]["export"] => k \in queue'[m]["export"]
                          /\ \/ run'[m]["export"] = run[m]["export"]
                             \/ ~Works(m, k) /\ ~Works(m, k)'
      BY <2>1, <3>2, <3>3, Zenon
    <3> QED
      BY <1>3, <2>1, <3>1, <3>4, ZenonT(30)
  <2> QED
    BY <2>2, <2>3, Zenon
<1>5. ASSUME NEW n \in Node, ImportStep(n), NEW k \in Key PROVE PublishOK(k)'
  <2>1. PICK r, c, j : Calling(n, "import", r, c, j) /\ ImportDone(n, j, c)
    BY <1>5, Zenon DEF ImportStep
  <2>2. (crossed => crossed') /\ UNCHANGED active /\ Others(n, "import")
        /\ (NoWrite \/ \E kind \in {"si", "sl"} : \E id, obj : Wrote(kind, id, obj))
    BY <2>1, ZenonT(30) DEF Calling, ImportDone, Failed, Went
  <2>3. \A m \in Node : run'[m]["export"] = run[m]["export"] /\ queue'[m]["export"] = queue[m]["export"]
    BY <1>e, <2>2, Zenon DEF Others
  <2>4. SameExport(k) /\ Local(store', k) = Local(store, k) /\ \A m \in Node : stale[m] \subseteq stale'[m]
    <3>1. ASSUME NEW kind \in {"si", "sl"}, NEW id, NEW obj, Wrote(kind, id, obj)
          PROVE  SameExport(k) /\ Local(store', k) = Local(store, k) /\ \A m \in Node : stale[m] \subseteq stale'[m]
      <4>1. Affects(kind, id, obj, k) /\ \A m \in Node : Outdates(kind, id, obj, m)
        BY <3>1, Effect, Zenon
      <4> QED
        BY <4>1, Zenon DEF Affects, At, SameExport, Outdates
    <3> QED
      BY <2>2, <3>1, Zenon DEF NoWrite, SameExport
  <2> QED
    BY <1>3, <2>2, <2>3, <2>4, Zenon
<1>6. ASSUME NEW n \in Node, Restart(n), NEW k \in Key PROVE PublishOK(k)'
  <2>1. UNCHANGED <<store, active, crossed>>
    BY <1>6, ZenonT(30) DEF Restart, history
  <2>2. \A m \in Node : m # n => run'[m] = run[m] /\ queue'[m] = queue[m] /\ stale'[m] = stale[m]
    BY <1>6, Zenon DEF Restart, TypeOK, WorkOK
  <2>3. run'[n]["export"] = Idle
    BY <1>6, <1>e, Zenon DEF Restart, TypeOK, WorkOK
  <2>4. "export" \in Running(n) => queue'[n]["export"] = Present(store)["export"]
    BY <1>6, <1>e, Zenon DEF Restart, TypeOK, WorkOK
  <2>5. SameExport(k) /\ Local(store', k) = Local(store, k)
    BY <2>1, Zenon DEF SameExport
  <2>6. \A m \in Node : RunKept(m, k)
    BY <2>2, <2>3, Zenon DEF RunKept, Works, Seen
  <2>7. CASE "export" \in Running(n) /\ store.exp[k] # None
    <3>1. k \in queue'[n]["export"]
      BY <2>4, <2>7, Zenon DEF Present
    <3>2. Unseen(k)'
      BY <2>1, <2>7, <3>1, Zenon DEF Unseen, Running, Seen
    <3> QED
      BY <2>1, <2>5, <2>6, <3>2, PublishKept, ZenonT(30)
  <2>8. CASE "export" \notin Running(n)
    <3>1. ~Works(n, k)
      BY <2>8, Zenon DEF CacheOK, Works
    <3>2. Untouched(k)
      BY <2>2, <2>5, <2>6, <2>8, <3>1, Zenon DEF Untouched, Seen
    <3> QED
      BY <2>1, <3>2, PublishKept, ZenonT(30)
  <2>9. CASE store.exp[k] = None
    <3>1. \A m \in Node : RunRight(m, k)'
      BY <2>1, <2>5, <2>6, PublishKept, ZenonT(30)
    <3> QED
      BY <2>1, <2>9, <3>1, Zenon DEF PublishOK, PendingOK
  <2> QED
    BY <2>7, <2>8, <2>9, ZenonT(30)
<1>7. ASSUME UNCHANGED vars, NEW k \in Key PROVE PublishOK(k)'
  BY <1>3, <1>7, Zenon DEF vars, SameExport
<1> QED
  BY Steps, PublishCall, <1>1, <1>2, <1>4, <1>5, <1>6, <1>7, Zenon DEF Step-----------------------------------------------------------------------------
(***************************************************************************)
(* The theorems.                                                           *)
(***************************************************************************)
\* At first the agents rest, and what is published is right.
LEMMA Initially ==
  ASSUME Init, \A S \in SUBSET SliceName : Listing(S) \in Seq(S)
  PROVE  TypeOK /\ CacheOK /\ WithdrawInv /\ (\A k \in Key : PublishOK(k)) /\ SteadyInv
<1>1. /\ store \in Objects /\ cache = [n \in Node |-> store] /\ stale = [n \in Node |-> {}]
      /\ queue = [n \in Node |-> [ctl \in Ctl |-> {}]] /\ run = [n \in Node |-> [ctl \in Ctl |-> Idle]]
      /\ crossed = FALSE /\ steady = Keys(store)
  BY Zenon DEF Init
<1>2. WellFormed(store) /\ \A k \in Key : PublishedIn(store, k)
  BY <1>1, ServicesAssumption, Zenon
<1>3. \A n \in Node, ctl \in Ctl : run[n][ctl] = Idle /\ queue[n][ctl] = {}
  BY <1>1, Zenon
<1>4. "export" \in Ctl /\ "import" \in Ctl
  BY Zenon DEF Ctl
<1>6. TypeOK
  <2>1. WorkOK
    BY <1>1, <1>3, ShortLists, ZenonT(30) DEF WorkOK, RunOK
  <2> QED
    BY <1>1, <1>2, <2>1, ZenonT(30) DEF TypeOK
<1>7. CacheOK
  BY <1>1, <1>3, <1>4, Zenon DEF CacheOK, CopyOK
<1>8. WithdrawInv
  <2>1. ASSUME NEW k \in Key PROVE GuardOK(k)
    BY <1>2, Zenon DEF GuardOK, PublishedIn, Local
  <2>2. ASSUME NEW n \in Node PROVE UpdateOK(n)
    <3>1. ~Updates(run[n]["export"])
      <4>1. run[n]["export"].todo = <<>> /\ DOMAIN <<>> = {}
        BY <1>3, <1>4 DEF Idle
      <4> QED
        BY <4>1, Zenon DEF Updates
    <3> QED
      BY <3>1, Zenon DEF UpdateOK
  <2> QED
    BY <2>1, <2>2, Zenon DEF WithdrawInv
<1>9. ASSUME NEW k \in Key PROVE PublishOK(k)
  <2>1. \A n \in Node : ~Works(n, k)
    BY <1>3, <1>4, Zenon DEF Works
  <2>2. store.exp[k] # None => /\ Guarded(k) /\ Local(store, k) = Announced(store, k)
                               /\ Truthful(store, k, store.exp[k].valid)
    BY <1>2, ZenonT(30) DEF PublishedIn, Guarded, Local, Announced, Truthful
  <2> QED
    BY <2>1, <2>2, Zenon DEF PublishOK, PendingOK, RunRight
<1>10. SteadyInv
  BY <1>1, <1>3, <1>4, Zenon DEF SteadyInv, Spares
<1> QED
  BY <1>6, <1>7, <1>8, <1>9, <1>10, Zenon

\* The types, the caches, the guard of the finalizer, what is published and what is
\* imported, together.
Inv ==
    /\ TypeOK /\ CacheOK /\ WithdrawInv
    /\ \A k \in Key : PublishOK(k)
    /\ SteadyInv

\* It is inductive, and a step neither lets an export go before what it published is
\* withdrawn nor deletes the import of a service that is exported.
LEMMA InvStep ==
  ASSUME Inv, [Next]_vars
  PROVE  Inv' /\ (\A k \in Key : Gone(k)) /\ Spared
<1>1. TypeOK /\ CacheOK /\ WithdrawInv /\ (\A k \in Key : PublishOK(k)) /\ SteadyInv
  BY Zenon DEF Inv
<1>2. TypeOK' /\ CacheOK'
  BY <1>1, BaseStep, Zenon
<1>3. WithdrawInv' /\ \A k \in Key : Gone(k)
  BY <1>1, <1>2, WithdrawStep, Zenon
<1>4. \A k \in Key : PublishOK(k)'
  BY <1>1, <1>2, PublishStep, Zenon
<1>5. SteadyInv' /\ Spared
  BY <1>1, SteadyStep, Zenon
<1> QED
  BY <1>2, <1>3, <1>4, <1>5, Zenon DEF Inv

\* When every agent rests, no export waits for anything.
LEMMA InvPublished == Inv => PublishedRight
<1> SUFFICES ASSUME Inv, Settled, ~crossed, NEW k \in LocalKey PROVE PublishedIn(store, k)
  BY Zenon DEF PublishedRight
<1>1. k \in Key /\ "export" \in Ctl
  BY ServicesAssumption, Zenon DEF Ctl
<1>2. ~Unseen(k) /\ \A n \in Node : ~Works(n, k)
  BY <1>1, Zenon DEF Settled, Unseen, Seen, Works
<1>3. GuardOK(k) /\ PendingOK(k)
  BY <1>1, Zenon DEF Inv, WithdrawInv, PublishOK
<1> QED
  BY <1>2, <1>3, Zenon DEF PublishedIn, GuardOK, PendingOK, Guarded, Local, Announced, Truthful

INSTANCE FiniteSetTheorems

\* The slices of a service can be listed, as there are finitely many.
LEMMA SlicesListed == \A S \in SUBSET SliceName : Listing(S) \in Seq(S)
<1> TAKE S \in SUBSET SliceName
<1> DEFINE n == Cardinality(S)
<1>1. IsFiniteSet(S)
  BY ServicesAssumption, FS_Subset, Zenon
<1>2. n \in Nat /\ ExistsBijection(1..n, S)
  BY <1>1, FS_CardinalityType, Zenon
<1>3. \E f \in [1..n -> S] : Range(f) = S
  BY <1>2 DEF ExistsBijection, Bijection, Surjection, Injection, Range
<1>4. Listing(S) \in [1..n -> S]
  BY <1>3, Zenon DEF Listing
<1> QED
  BY <1>2, <1>4

\* The invariant holds always.
LEMMA Invariance == Spec => []Inv
<1>1. Init => Inv
  BY Initially, SlicesListed, Zenon DEF Inv
<1>2. Inv /\ [Next]_vars => Inv'
  BY InvStep, Zenon
<1> QED
  BY <1>1, <1>2, PTL DEF Spec

\* Whatever the agents have in their caches, and whichever calls fail, the finalizer
\* goes only after the EndpointExport did, unless an agent crossed another one.
THEOREM WithdrawnBeforeGone == Spec => WithdrawnFirst
<1>1. Inv /\ [Next]_vars =>
        [\A k \in LocalKey : (store.exp[k] # None /\ store'.exp[k] = None)
             => store.ee[<<ClusterID, k>>] = None \/ crossed]_vars
  BY InvStep, ServicesAssumption, Zenon DEF Gone, Local
<1> QED
  BY <1>1, Invariance, PTL DEF Spec, WithdrawnFirst

\* The import of a service that some cluster exports all the time is never deleted.
THEOREM ExportedStaysImported == Spec => ImportKept
<1>1. Inv /\ [Next]_vars => [\A k \in steady' : store.si[k] # None => store'.si[k] # None]_vars
  BY InvStep, Zenon DEF Spared
<1> QED
  BY <1>1, Invariance, PTL DEF Spec, ImportKept

\* When every agent rests and none crossed another one, an EndpointExport is there
\* exactly for an export whose Service exists, and says what that Service says.
THEOREM RestIsPublished == Spec => []PublishedRight
BY InvPublished, Invariance, PTL
=============================================================================
