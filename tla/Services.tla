------------------------------ MODULE Services ------------------------------
(***************************************************************************)
(* Service discovery in one cluster: on every node an agent runs the       *)
(* ServiceExport and the ServiceImport controller, with no leader, on      *)
(* informer caches of its own.  A user writes Services and ServiceExports; *)
(* EndpointExports of other clusters are mirrored in and out at any time.  *)
(*                                                                         *)
(* A reconcile is the reading of the cache and then one step per call to   *)
(* the API.  A call that goes through CreateOrUpdate reads the cache once  *)
(* more.  stale[n] has the objects whose version in the cache of n is not  *)
(* the API's, so an update of one of them is refused.  An informer may lag *)
(* by any number of events, and the events of one kind are delivered       *)
(* together.                                                               *)
(***************************************************************************)
EXTENDS ServicePlan

CONSTANTS
    Node, Cluster, ClusterID,
    Key, LocalKey,            \* the services; those with a Service here
    Size4, Size6,             \* addresses in the ClusterSet ranges; 0: no range
    SliceName,                \* <<service, cluster, family, chunk>>
    ServiceSpecs, Mirrors,    \* the Services; the <<service, export>> of other clusters
    ExportTimes,              \* creation times of a ServiceExport
    Objects,                  \* the objects there may be at first
    Scenarios                 \* [on, writes, trouble]: the <<node, controller>> running, and
                              \* bounds on writes from outside, and on failed calls and restarts

None == [none |-> TRUE]
Kind == {"svc", "exp", "ee", "si", "sl"}
Ctl == {"export", "import"}
Reads == [export |-> {"svc", "exp", "ee"}, import |-> {"ee", "si", "sl"}]
Idle == [key |-> 0, todo |-> <<>>]

VARIABLES
    store,    \* store[kind][id]: the API's object or None; an EndpointExport is <<c, k>>
    cache,    \* cache[n][kind][id]: the copy the informer of n has
    stale,    \* stale[n]: the <<kind, id>> whose copy is outdated
    queue,    \* queue[n][ctl]: the services with a request
    run,      \* run[n][ctl]: the reconcile in progress
    lapsed,   \* the nodes about to update a ServiceExport that was written since it was read
    active,   \* the controllers that are running
    crossed,  \* history: a write relied on an outdated copy of an EndpointExport or slice
    moved,    \* history: the services whose address a change of other services moved
    steady,   \* history: the services that were exported all the time
    left      \* how much of each bound is left

vars == <<store, cache, stale, queue, run, lapsed, active, crossed, moved, steady, left>>
history == <<active, crossed, moved, steady>>
agents == <<cache, queue, run>>

Spend(what) ==
    /\ left[what] > 0
    /\ left' = [left EXCEPT ![what] = @ - 1]

-----------------------------------------------------------------------------
(***************************************************************************)
(* What the controllers read.                                              *)
(***************************************************************************)
\* GroupExports.
Exports(view, k) == {view.ee[<<c, k>>] : c \in Cluster} \ {None}
Keys(view) == {k \in Key : Exports(view, k) # {}}

keysWithIPv6Backends(view) ==
    {k \in Keys(view) : \E e \in Exports(view, k) : Of(6, e.ips) # {}}

\* allocateVIPs; [ok |-> FALSE] is an error.
allocateVIPs(view, k, plan) ==
    LET v4 == AllocateClusterSetIPs(Size4, Keys(view))
        keys6 == keysWithIPv6Backends(view)
        dual == Size6 > 0 /\ k \in keys6
        v6 == IF dual THEN AllocateClusterSetIPs(Size6, keys6) ELSE NoIPs
    IN  IF plan.type # "ClusterSetIP" THEN [ok |-> TRUE, ips |-> {}]
        ELSE [ok |-> v4 # NoIPs /\ (dual => v6 # NoIPs),
              ips |-> (IF v4 # NoIPs THEN {[fam |-> 4, host |-> v4[k]]} ELSE {})
                      \cup (IF v6 # NoIPs THEN {[fam |-> 6, host |-> v6[k]]} ELSE {})]

Import(plan, ips) ==
    [spec |-> [type |-> plan.type, ports |-> plan.ports, ips |-> ips], clusters |-> {}]
\* endpoints to mirror
Mirrored(view, k) ==
    IF Exports(view, k) # {} /\ PlanServiceImport(Exports(view, k)).type = "Headless"
    THEN PlanEndpointSlices(k, Exports(view, k)) ELSE {}

\* LookupClusterSet, in the DNS server of an agent.
LookupClusterSet(view, k) ==
    CASE view.si[k] = None -> {}
      [] view.si[k] # None /\ view.si[k].spec.type = "Headless" ->
             UNION {e.ips : e \in Exports(view, k)}
      [] OTHER -> view.si[k].spec.ips

-----------------------------------------------------------------------------
(***************************************************************************)
(* The API server and the informers.                                       *)
(***************************************************************************)
Running(n) == {ctl \in Ctl : <<n, ctl>> \in active}
Watched(n) == UNION {Reads[ctl] : ctl \in Running(n)}
VIPs(s, k) == allocateVIPs(s, k, PlanServiceImport(Exports(s, k)))

Write(kind, id, obj) ==
    /\ store' = [store EXCEPT ![kind][id] = obj]
    /\ stale' = IF obj = store[kind][id] THEN stale
                ELSE [n \in Node |-> IF kind \in Watched(n) THEN stale[n] \cup {<<kind, id>>}
                                     ELSE stale[n]]
    /\ moved' = IF kind # "ee" THEN moved
                ELSE moved \cup {k \in (Keys(store) \cap Keys(store')) \ {id[2]} :
                                     VIPs(store, k) # VIPs(store', k)}
    /\ steady' = steady \cap Keys(store')
NoWrite == UNCHANGED <<store, stale, moved, steady>>

\* r.Update of a ServiceExport is refused if the version that was read is not the
\* latest any more, even if the object has become the same again.
Updates(r) == \E i \in DOMAIN r.todo : r.todo[i].do = "finalizer"
Versions ==
    lapsed' = {n \in Node :
                  LET r == run'[n]["export"] IN
                  /\ Updates(r)
                  /\ n \in lapsed \/ store'.exp[r.key] # store.exp[r.key]}

\* The services an event is about, for each controller.
requests(ctl, kind, id) ==
    CASE kind \in {"svc", "exp"} -> IF ctl = "export" THEN {id} ELSE {}
      [] kind = "ee" -> IF ctl = "import" THEN {id[2]} ELSE {}
      [] kind = "si" -> IF ctl = "import" THEN {id} ELSE {}
      [] kind = "sl" -> {}

Deliver(n, kind) ==
    LET news == {x \in stale[n] : x[1] = kind} IN
    /\ news # {}
    /\ cache' = [cache EXCEPT ![n][kind] = store[kind]]
    /\ stale' = [stale EXCEPT ![n] = @ \ news]
    /\ queue' = [queue EXCEPT ![n] = [ctl \in Ctl |->
                    IF ctl \in Running(n)
                    THEN @[ctl] \cup UNION {requests(ctl, x[1], x[2]) : x \in news}
                    ELSE {}]]
    /\ UNCHANGED <<store, run, lapsed, history, left>>

\* A write that concerns one of the running controllers.
FromOutside(ctl) ==
    /\ \E n \in Node : ctl \in Running(n)
    /\ UNCHANGED <<agents, active, crossed>>
    /\ Versions
    /\ Spend("writes")

WriteService(k, svc) ==
    /\ svc # store.svc[k]
    /\ Write("svc", k, svc) /\ FromOutside("export")

CreateExport(k, t) ==
    /\ store.exp[k] = None
    /\ Write("exp", k, [time |-> t, finalizer |-> FALSE, deleting |-> FALSE, valid |-> <<>>])
    /\ FromOutside("export")

DeleteExport(k) ==
    /\ store.exp[k] # None /\ ~store.exp[k].deleting
    /\ Write("exp", k, IF store.exp[k].finalizer THEN [store.exp[k] EXCEPT !.deleting = TRUE]
                       ELSE None)
    /\ FromOutside("export")

Mirror(c, k, e) ==
    /\ c # ClusterID
    /\ e # store.ee[<<c, k>>] /\ (e # None => e.cluster = c)
    /\ Write("ee", <<c, k>>, e) /\ FromOutside("import")

-----------------------------------------------------------------------------
(***************************************************************************)
(* A reconcile reads the cache and makes its list of calls.                *)
(***************************************************************************)
\* Mutant: the finalizer goes before the EndpointExport.
reconcileDeletionEarly(exp) == <<[do |-> "finalizer", obj |-> exp, on |-> FALSE], [do |-> "withdraw"]>>
reconcileDeletion(exp) ==
    <<[do |-> "withdraw"], [do |-> "finalizer", obj |-> exp, on |-> FALSE]>>

setValidCondition(exp, to) == IF exp.valid = to THEN <<>> ELSE <<[do |-> "valid", to |-> to]>>

\* Mutant: what was published stays when the Service is gone.
reconcileExportKeeps(exp, svc) ==
    IF svc = None THEN setValidCondition(exp, <<"ServiceNotFound">>)
    ELSE LET e == BuildExportedEndpoint(ClusterID, svc, exp.time) IN
         <<[do |-> "publish", obj |-> e]>>
         \o setValidCondition(exp, <<"Exported", e.type, Cardinality(e.ports)>>)
reconcileExport(exp, svc) ==
    IF svc = None
    THEN <<[do |-> "withdraw"]>> \o setValidCondition(exp, <<"ServiceNotFound">>)
    ELSE LET e == BuildExportedEndpoint(ClusterID, svc, exp.time) IN
         <<[do |-> "publish", obj |-> e]>>
         \o setValidCondition(exp, <<"Exported", e.type, Cardinality(e.ports)>>)

ExportCalls(view, k) ==
    LET exp == view.exp[k] IN
    CASE exp = None -> <<>>
      [] exp # None /\ exp.deleting -> IF exp.finalizer THEN reconcileDeletion(exp) ELSE <<>>
      [] exp # None /\ ~exp.deleting /\ ~exp.finalizer ->
             <<[do |-> "finalizer", obj |-> exp, on |-> TRUE]>>
      [] OTHER -> reconcileExport(exp, view.svc[k])

\* Mutant: an import is replaced rather than updated.
ImportCallsReplace(view, k) ==
    IF Exports(view, k) = {} THEN <<[do |-> "slices", want |-> {}], [do |-> "unimport"]>>
    ELSE LET plan == PlanServiceImport(Exports(view, k))
             vips == allocateVIPs(view, k, plan)
         IN  <<[do |-> "unimport"],
               [do |-> "import", ok |-> vips.ok, obj |-> Import(plan, vips.ips),
                clusters |-> plan.clusters],
               [do |-> "slices", want |-> Mirrored(view, k)]>>
ImportCalls(view, k) ==
    IF Exports(view, k) = {} THEN <<[do |-> "slices", want |-> {}], [do |-> "unimport"]>>
    ELSE LET plan == PlanServiceImport(Exports(view, k))
             vips == allocateVIPs(view, k, plan)
         IN  <<[do |-> "import", ok |-> vips.ok, obj |-> Import(plan, vips.ips),
                clusters |-> plan.clusters],
               [do |-> "slices", want |-> Mirrored(view, k)]>>

Taken(n, ctl, k) ==
    /\ run[n][ctl] = Idle
    /\ k \in queue[n][ctl]
    /\ queue' = [queue EXCEPT ![n][ctl] = @ \ {k}]
Reconcile(n, ctl, k) ==
    /\ Taken(n, ctl, k)
    /\ LET calls == IF ctl = "export" THEN ExportCalls(cache[n], k) ELSE ImportCalls(cache[n], k)
       IN  run' = [run EXCEPT ![n][ctl] =
                      IF calls = <<>> THEN Idle ELSE [key |-> k, todo |-> calls]]
    /\ lapsed' = IF Updates(run'[n]["export"]) /\ ctl = "export" /\ <<"exp", k>> \in stale[n]
                 THEN lapsed \cup {n} ELSE lapsed
    /\ UNCHANGED <<store, cache, stale, history, left>>

-----------------------------------------------------------------------------
(***************************************************************************)
(* The calls.  Each one writes, or does not, and says how it went.         *)
(***************************************************************************)
Next1(n, ctl, more) ==
    /\ run' = [run EXCEPT ![n][ctl] =
                  LET todo == more \o Tail(@.todo) IN
                  IF todo = <<>> THEN Idle ELSE [@ EXCEPT !.todo = todo]]
    /\ UNCHANGED queue
Error(n, ctl) ==
    /\ run' = [run EXCEPT ![n][ctl] = Idle]
    /\ queue' = [queue EXCEPT ![n][ctl] = @ \cup {run[n][ctl].key}]

\* controllerutil.CreateOrUpdate: obj is the copy in the cache, with the fields set.
CreateOrUpdate(n, ctl, kind, id, obj, more) ==
    LET old == cache[n][kind][id]
        outdated == <<kind, id>> \in stale[n]
    IN  \/ /\ IF old = None THEN store[kind][id] = None ELSE old # obj /\ ~outdated
           /\ Write(kind, id, obj) /\ Next1(n, ctl, more)
        \/ old = obj /\ NoWrite /\ Next1(n, ctl, more)
        \/ /\ IF old = None THEN store[kind][id] # None ELSE old # obj /\ outdated
           /\ NoWrite /\ Error(n, ctl)
\* An outdated copy already is as it should be.
Trusts(n, kind, id, obj) == cache[n][kind][id] = obj /\ <<kind, id>> \in stale[n]

\* r.Update of the export that was read.
UpdateExport(n, k, c) ==
    /\ IF n \notin lapsed
       THEN /\ Write("exp", k, IF c.on THEN [c.obj EXCEPT !.finalizer = TRUE] ELSE None)
            /\ Next1(n, "export", <<>>)
       ELSE NoWrite /\ Error(n, "export")
    /\ UNCHANGED crossed

\* To publish what is on its way out, or not yet guarded, is a crossing too.
Guarded(k) == store.exp[k] # None /\ store.exp[k].finalizer /\ ~store.exp[k].deleting
publishEndpointExport(n, k, c) ==
    /\ CreateOrUpdate(n, "export", "ee", <<ClusterID, k>>, c.obj, <<>>)
    /\ crossed' = \/ crossed
                  \/ Trusts(n, "ee", <<ClusterID, k>>, c.obj)
                  \/ ~Guarded(k)

withdrawEndpointExport(n, k) ==
    /\ Write("ee", <<ClusterID, k>>, None)
    /\ Next1(n, "export", <<>>)
    /\ UNCHANGED crossed

\* A merge patch of the status, of whatever version the export has.
patchValid(n, k, c) ==
    /\ IF store.exp[k] # None
       THEN Write("exp", k, [store.exp[k] EXCEPT !.valid = c.to]) /\ Next1(n, "export", <<>>)
       ELSE NoWrite /\ Error(n, "export")
    /\ UNCHANGED crossed

\* The spec, then the status if that is not as it should be.
applyServiceImport(n, k, c) ==
    LET old == cache[n].si[k]
        obj == IF old = None THEN c.obj ELSE [old EXCEPT !.spec = c.obj.spec]
        status == IF obj.clusters = c.clusters THEN <<>>
                  ELSE <<[do |-> "status", clusters |-> c.clusters]>>
    IN  /\ IF c.ok THEN CreateOrUpdate(n, "import", "si", k, obj, status)
           ELSE NoWrite /\ Error(n, "import")
        /\ UNCHANGED crossed

patchClusters(n, k, c) ==
    /\ IF store.si[k] # None
       THEN Write("si", k, [store.si[k] EXCEPT !.clusters = c.clusters]) /\ Next1(n, "import", <<>>)
       ELSE NoWrite /\ Error(n, "import")
    /\ UNCHANGED crossed

deleteServiceImport(n, k) ==
    /\ IF cache[n].si[k] = None THEN NoWrite ELSE Write("si", k, None)
    /\ Next1(n, "import", <<>>)
    /\ UNCHANGED crossed

\* The slices are listed, the wanted ones applied, the others deleted.
reconcileMirrorSlices(n, k, c) ==
    LET mine == {name \in SliceName : name[1] = k}
        have == {name \in mine : cache[n].sl[name] # None}
        wanted == {name \in mine : \E s \in c.want : s.name = name}
        puts == Listing(wanted)
        drops == Listing(have \ wanted)
    IN  /\ Next1(n, "import",
                 [i \in DOMAIN puts |-> [do |-> "put", obj |-> CHOOSE s \in c.want : s.name = puts[i]]]
                 \o [i \in DOMAIN drops |-> [do |-> "drop", name |-> drops[i]]])
        /\ NoWrite
        /\ crossed' = (crossed \/ \E name \in mine : <<"sl", name>> \in stale[n])

applyMirrorSlice(n, c) ==
    /\ CreateOrUpdate(n, "import", "sl", c.obj.name, c.obj, <<>>)
    /\ crossed' = (crossed \/ Trusts(n, "sl", c.obj.name, c.obj))

pruneSlice(n, c) ==
    /\ Write("sl", c.name, None)
    /\ Next1(n, "import", <<>>)
    /\ UNCHANGED crossed

Call(n, ctl) ==
    /\ run[n][ctl] # Idle
    /\ LET c == Head(run[n][ctl].todo)
           k == run[n][ctl].key
       IN  \/ c.do = "finalizer" /\ UpdateExport(n, k, c)
           \/ c.do = "publish" /\ publishEndpointExport(n, k, c)
           \/ c.do = "withdraw" /\ withdrawEndpointExport(n, k)
           \/ c.do = "valid" /\ patchValid(n, k, c)
           \/ c.do = "import" /\ applyServiceImport(n, k, c)
           \/ c.do = "status" /\ patchClusters(n, k, c)
           \/ c.do = "unimport" /\ deleteServiceImport(n, k)
           \/ c.do = "slices" /\ reconcileMirrorSlices(n, k, c)
           \/ c.do = "put" /\ applyMirrorSlice(n, c)
           \/ c.do = "drop" /\ pruneSlice(n, c)
    /\ Versions
    /\ UNCHANGED <<cache, active, left>>

CallFails(n, ctl) ==
    /\ Spend("trouble")
    /\ run[n][ctl] # Idle
    /\ Error(n, ctl)
    /\ UNCHANGED <<store, cache, stale, history>>
    /\ Versions

\* Every object there is, is listed and enqueued when an agent starts.
Present(s) ==
    [export |-> {k \in Key : s.exp[k] # None \/ s.svc[k] # None},
     import |-> Keys(s) \cup {k \in Key : s.si[k] # None}]
Restart(n) ==
    /\ Spend("trouble")
    /\ cache' = [cache EXCEPT ![n] = store]
    /\ stale' = [stale EXCEPT ![n] = {}]
    /\ queue' = [queue EXCEPT ![n] = [ctl \in Ctl |-> IF ctl \in Running(n) THEN Present(store)[ctl] ELSE {}]]
    /\ run' = [run EXCEPT ![n] = [ctl \in Ctl |-> Idle]]
    /\ UNCHANGED <<store, history>>
    /\ Versions

-----------------------------------------------------------------------------
\* At first the objects are as agents leave them that have nothing more to do.
IsExport(e) ==
    /\ DOMAIN e = {"time", "finalizer", "deleting", "valid"}
    /\ e.finalizer \in BOOLEAN /\ e.deleting \in BOOLEAN
IsImport(si) == DOMAIN si = {"spec", "clusters"}
WellFormed(s) ==
    /\ DOMAIN s = Kind
    /\ DOMAIN s.svc = Key /\ DOMAIN s.exp = Key /\ DOMAIN s.si = Key /\ DOMAIN s.ee = Cluster \X Key
    /\ \A k \in Key : /\ s.exp[k] # None => IsExport(s.exp[k])
                      /\ s.si[k] # None => IsImport(s.si[k])

\* What is published is what the Service says.
PublishedIn(s, k) ==
    LET exp == s.exp[k] IN
    /\ exp # None => exp.finalizer /\ ~exp.deleting
    /\ s.ee[<<ClusterID, k>>] =
          IF exp = None \/ s.svc[k] = None THEN None
          ELSE BuildExportedEndpoint(ClusterID, s.svc[k], exp.time)
    /\ exp # None => (exp.valid[1] = "Exported") = (s.svc[k] # None)

ASSUME ServicesAssumption ==
    /\ ClusterID \in Cluster /\ LocalKey \subseteq Key /\ IsFiniteSet(SliceName)
    /\ \A m \in Mirrors : m[1] \in Key
    /\ \A s \in Objects : WellFormed(s) /\ \A k \in Key : PublishedIn(s, k)

Init ==
    /\ store \in Objects
    /\ cache = [n \in Node |-> store]
    /\ stale = [n \in Node |-> {}]
    /\ queue = [n \in Node |-> [ctl \in Ctl |-> {}]]
    /\ run = [n \in Node |-> [ctl \in Ctl |-> Idle]]
    /\ lapsed = {}
    /\ \E s \in Scenarios :
          active = s.on /\ left = [writes |-> s.writes, trouble |-> s.trouble]
    /\ crossed = FALSE /\ moved = {} /\ steady = Keys(store)

Next ==
    \/ \E k \in LocalKey, svc \in ServiceSpecs \cup {None} : WriteService(k, svc)
    \/ \E k \in LocalKey, t \in ExportTimes : CreateExport(k, t)
    \/ \E k \in LocalKey : DeleteExport(k)
    \/ \E c \in Cluster, m \in Mirrors : Mirror(c, m[1], m[2])
    \/ \E n \in Node, kind \in Kind : Deliver(n, kind)
    \/ \E n \in Node, ctl \in Ctl, k \in Key : Reconcile(n, ctl, k)
    \/ \E n \in Node, ctl \in Ctl : Call(n, ctl) \/ CallFails(n, ctl)
    \/ \E n \in Node : Restart(n)

Spec == Init /\ [][Next]_vars

-----------------------------------------------------------------------------
(***************************************************************************)
(* Properties.                                                             *)
(***************************************************************************)

Settled ==
    \A n \in Node : /\ stale[n] = {}
                    /\ \A ctl \in Ctl : queue[n][ctl] = {} /\ run[n][ctl] = Idle
Importing == \E n \in Node : "import" \in Running(n)

\* Once every agent has seen everything and is idle, an EndpointExport of this cluster
\* is there exactly for an export whose Service exists, it says what that Service
\* says, and no deleted export is left behind, unless an agent crossed another one.
PublishedRight ==
    (Settled /\ ~crossed) =>
        \A k \in LocalKey : PublishedIn(store, k)

\* Once everything is idle there is one import for each service that a cluster
\* exports, and it follows the oldest export, whichever of the agents wrote last and
\* with whatever it had in its cache: it has that export's type, names the clusters
\* of that type and no other, and has each of their ports once.  Its addresses are
\* those that every other cluster computes, unless other services moved them.
ImportsRight ==
    (Settled /\ Importing) =>
        \A k \in Key :
            LET exports == Exports(store, k)
                si == store.si[k]
                alike == {e \in exports : e.type = si.spec.type}
            IN  IF exports = {} THEN si = None
                ELSE /\ si # None
                     /\ \E e \in alike : \A f \in exports \ {e} : Older(e, f)
                     /\ si.clusters = {e.cluster : e \in alike}
                     /\ {portKey(p) : p \in si.spec.ports} = {portKey(p) : p \in UNION {e.ports : e \in alike}}
                     /\ \A p, q \in si.spec.ports : portKey(p) = portKey(q) => p = q
                     /\ k \in moved \/ si.spec.ips = VIPs(store, k).ips

\* Once everything is idle, the slices of a headless import hold the addresses of each
\* cluster's export, every address in one slice, no slice empty or too large; no other
\* service has slices; and every agent's DNS server answers with the same addresses.
SlicesRight ==
    (Settled /\ Importing /\ ~crossed) =>
        \A k \in Key :
            LET headless == store.si[k] # None /\ store.si[k].spec.type = "Headless"
                mine == {store.sl[name] : name \in {x \in SliceName : x[1] = k}} \ {None}
                held(e, fam) == {s.ips : s \in {x \in mine : x.name[2] = e.cluster /\ x.name[3] = fam}}
            IN  /\ \A s \in mine : headless /\ Cardinality(s.ips) \in 1..maxEndpointsPerSlice
                /\ headless =>
                      /\ \A e \in Exports(store, k), fam \in {4, 6} :
                            /\ UNION held(e, fam) = Of(fam, e.ips)
                            /\ \A a, b \in held(e, fam) : a = b \/ a \cap b = {}
                      /\ \A n \in Node : "import" \in Running(n) =>
                            LookupClusterSet(cache[n], k) = UNION {s.ips : s \in mine}

\* The finalizer "guarantees the controller can withdraw the published EndpointExport
\* before the ServiceExport disappears".
WithdrawnFirst ==
    [][\A k \in LocalKey :
          (store.exp[k] # None /\ store'.exp[k] = None)
              => store.ee[<<ClusterID, k>>] = None \/ crossed]_vars

\* The import of a service that some cluster exports all the time is never deleted,
\* whichever exports come and go and however far the agents' caches are behind.
ImportKept ==
    [][\A k \in steady' : store.si[k] # None => store'.si[k] # None]_vars
=============================================================================
