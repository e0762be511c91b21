------------------------------ MODULE MeshPeer ------------------------------
(***************************************************************************)
(* The life of MeshPeer objects: the API server, and on every node an      *)
(* informer cache, a work queue, the MeshPeerReconciler with its keyIndex  *)
(* (pkg/controllers/meshpeer_controller.go) and the WireGuard data plane   *)
(* (module WireGuard).  There is no leader election: every node reconciles *)
(* every object.                                                           *)
(*                                                                         *)
(* A call of Reconcile is one step of its node.  It reads the cached       *)
(* object first, works on the node's own data plane and writes to the API  *)
(* last, so a write by another process in between is the same as the cache *)
(* having been stale at the read: fresh says whether the cached copy has   *)
(* the API's resourceVersion, which is what an Update compares.  A process *)
(* that dies inside the call is TornRestart.                               *)
(***************************************************************************)
EXTENDS Naturals, WireGuard

CONSTANTS
    Node,        \* the nodes that run the agent
    Name,        \* names of MeshPeer objects
    PeerSpec,    \* PeerSpec[p]: the specs users write for p, records [key, cidrs]
    Withheld,    \* CIDRs Partition refuses: overlapping, dangerous or malformed
    Malformed,   \* those of them that do not parse
    RemapPool,   \* TRUE iff an overlap remap pool is configured
    Local,       \* the local ranges
    Overlap,     \* Overlap[c]: the local ranges a refused CIDR overlaps
    Virtual,     \* Virtual[r]: the virtual range of such a range, or NoCidr
    NoCidr,
    Handshake,   \* Handshake[n]: the handshake time node n reads for a peer
    Absent,      \* no object
    MaxEdits, MaxDeletes,    \* bounds: spec writes and deletions by users
    MaxRestarts, MaxFaults   \* bounds: agent restarts, failed calls

Phase == {"", "Connected", "Error"}
Status == [phase : Phase, handshake : Nat, observed : Nat]
Object ==
    [spec : UNION {PeerSpec[p] : p \in Name}, gen : Nat \ {0},
     finalizer : BOOLEAN, deleting : BOOLEAN, status : Status]

ASSUME MeshPeerAssumption ==
    /\ \A p \in Name : PeerSpec[p] \subseteq [key : Key, cidrs : SUBSET Cidr]
    /\ Malformed \subseteq Withheld
    /\ Withheld \subseteq Cidr
    /\ NoCidr \notin Cidr
    /\ Local \cap Cidr = {}
    /\ Overlap \in [Withheld -> SUBSET Local]
    /\ Virtual \in [Withheld \cup Local -> Cidr \cup {NoCidr}]
    /\ RemapPool \in BOOLEAN
    /\ Handshake \in [Node -> Nat]
    /\ Absent \notin Object
    /\ {MaxEdits, MaxDeletes, MaxRestarts, MaxFaults} \subseteq Nat

VARIABLES
    api,       \* api[p]: the object, or Absent
    cache,     \* cache[n][p]: node n's informer copy
    fresh,     \* fresh[n][p]: that copy has the API's resourceVersion
    queue,     \* queue[n]: names waiting to be reconciled on n
    keyIndex,  \* keyIndex[n][p]: key last programmed for p by n, or NoKey
    plane,     \* plane[n]: the WireGuard data plane of n
    used       \* how much of each bound is spent

vars == <<api, cache, fresh, queue, keyIndex, plane, used>>
local == <<cache, queue, keyIndex, plane>>

Init ==
    /\ api = [p \in Name |-> Absent]
    /\ cache = [n \in Node |-> [p \in Name |-> Absent]]
    /\ fresh = [n \in Node |-> [p \in Name |-> TRUE]]
    /\ queue = [n \in Node |-> {}]
    /\ keyIndex = [n \in Node |-> [p \in Name |-> NoKey]]
    /\ plane = [n \in Node |-> EmptyDataPlane]
    /\ used = [edits |-> 0, deletes |-> 0, restarts |-> 0, faults |-> 0]

-----------------------------------------------------------------------------
(***************************************************************************)
(* The API server.                                                         *)
(***************************************************************************)
Write(p, obj) ==
    /\ api' = [api EXCEPT ![p] = obj]
    /\ fresh' = IF obj = api[p] THEN fresh
                ELSE [n \in Node |-> [fresh[n] EXCEPT ![p] = FALSE]]

NoWrite == UNCHANGED <<api, fresh>>

Create(p, s) ==
    /\ used.edits < MaxEdits
    /\ api[p] = Absent
    /\ Write(p, [spec |-> s, gen |-> 1, finalizer |-> FALSE, deleting |-> FALSE,
                 status |-> [phase |-> "", handshake |-> 0, observed |-> 0]])
    /\ used' = [used EXCEPT !.edits = @ + 1]
    /\ UNCHANGED local

UpdateSpec(p, s) ==
    /\ used.edits < MaxEdits
    /\ api[p] # Absent
    /\ s # api[p].spec
    /\ Write(p, [api[p] EXCEPT !.spec = s, !.gen = @ + 1])
    /\ used' = [used EXCEPT !.edits = @ + 1]
    /\ UNCHANGED local

\* An object with a finalizer is only marked; one without is gone at once.
Delete(p) ==
    /\ used.deletes < MaxDeletes
    /\ api[p] # Absent
    /\ ~api[p].deleting
    /\ Write(p, IF api[p].finalizer
                THEN [api[p] EXCEPT !.deleting = TRUE, !.gen = @ + 1]
                ELSE Absent)
    /\ used' = [used EXCEPT !.deletes = @ + 1]
    /\ UNCHANGED local

\* The watch brings the node's cache up to date and enqueues the object.
Deliver(n, p) ==
    /\ ~fresh[n][p]
    /\ cache' = [cache EXCEPT ![n][p] = api[p]]
    /\ fresh' = [fresh EXCEPT ![n][p] = TRUE]
    /\ queue' = [queue EXCEPT ![n] = @ \cup {p}]
    /\ UNCHANGED <<api, keyIndex, plane, used>>

-----------------------------------------------------------------------------
(***************************************************************************)
(* Planning.                                                               *)
(***************************************************************************)
\* Mutant: the overlap guard is not applied.
RoutableUnchecked(s) == s.cidrs
Routable(s) == s.cidrs \ Withheld
Conflicts(s) == s.cidrs \cap Withheld
Remapped(s) == RemapPool /\ Conflicts(s) # {}

\* PlanRemap: a malformed conflict is skipped; every other one, and every local
\* range it overlaps, gets a virtual range, and no two may share one.
Parsed(s) == Conflicts(s) \ Malformed
RouteVirtual(s) == {Virtual[c] : c \in Parsed(s)}
\* Mutant: an error of VirtualCIDR is not looked at.
RemapFailsIgnored(s) == FALSE
RemapFails(s) ==
    /\ Remapped(s)
    /\ LET claims == Parsed(s) \cup UNION {Overlap[c] : c \in Parsed(s)} IN
       \E c \in claims :
           Virtual[c] = NoCidr \/ \E d \in claims \ {c} : Virtual[d] = Virtual[c]

RouteCIDRs(s) == Routable(s) \cup (IF Remapped(s) THEN RouteVirtual(s) ELSE {})
PlanPhase(s) == IF Remapped(s) \/ Conflicts(s) = {} THEN "Connected" ELSE "Error"
-----------------------------------------------------------------------------
(***************************************************************************)
(* Reconcile.  A call that returns an error leaves the name in the queue   *)
(* (rate-limited retry), and so does RequeueAfter; Done takes it out.      *)
(***************************************************************************)
Fault ==
    /\ used.faults < MaxFaults
    /\ used' = [used EXCEPT !.faults = @ + 1]

Done(n, p) == queue' = [queue EXCEPT ![n] = @ \ {p}]
Requeue == UNCHANGED queue

SetPlane(n, dp) == plane' = [plane EXCEPT ![n] = dp]
SetKey(n, p, k) == keyIndex' = [keyIndex EXCEPT ![n][p] = k]

\* Mutant: NotFound is a plain no-op.
ReconcileGoneIgnored(n, p) ==
    /\ cache[n][p] = Absent
    /\ Done(n, p)
    /\ NoWrite
    /\ UNCHANGED <<cache, keyIndex, plane, used>>

\* Get returns NotFound: tear down what keyIndex remembers.
ReconcileGone(n, p) ==
    /\ cache[n][p] = Absent
    /\ \/ /\ keyIndex[n][p] = NoKey
          /\ Done(n, p)
          /\ UNCHANGED <<keyIndex, plane, used>>
       \/ /\ keyIndex[n][p] # NoKey
          /\ \E dp \in RemovePeerOk(plane[n], keyIndex[n][p]) : SetPlane(n, dp)
          /\ SetKey(n, p, NoKey)
          /\ Done(n, p)
          /\ UNCHANGED used
       \/ /\ keyIndex[n][p] # NoKey
          /\ Fault
          /\ \E dp \in RemovePeerFail(plane[n], keyIndex[n][p]) : SetPlane(n, dp)
          /\ Requeue
          /\ UNCHANGED keyIndex
    /\ NoWrite
    /\ UNCHANGED cache

\* The finalizer goes on before any kernel state; its event re-triggers.
AddFinalizer(n, p) ==
    /\ cache[n][p] # Absent
    /\ ~cache[n][p].deleting
    /\ ~cache[n][p].finalizer
    /\ \/ /\ fresh[n][p]
          /\ Write(p, [cache[n][p] EXCEPT !.finalizer = TRUE])
          /\ Done(n, p)
          /\ UNCHANGED used
       \/ /\ ~fresh[n][p]        \* conflict
          /\ NoWrite
          /\ Requeue
          /\ UNCHANGED used
       \/ /\ Fault
          /\ NoWrite
          /\ Requeue
    /\ UNCHANGED <<cache, keyIndex, plane>>

\* Mutant: the early return does not compare the generation.
patchStatusSkips(n, p, new) ==
    LET old == cache[n][p].status IN
    IF (new.phase = old.phase /\ new.handshake = old.handshake) \/ api[p] = Absent
    THEN NoWrite
    ELSE Write(p, [api[p] EXCEPT !.status = new])

\* patchStatus sends the fields that differ from the cached copy; there is no
\* resourceVersion in the patch, so it applies to whatever object is there.
patchStatus(n, p, new) ==
    LET old == cache[n][p].status
        Merge(f) == IF new[f] # old[f] THEN new[f] ELSE api[p].status[f]
    IN  IF new = old \/ api[p] = Absent THEN NoWrite
        ELSE Write(p, [api[p] EXCEPT !.status =
                 [phase |-> Merge("phase"), handshake |-> Merge("handshake"),
                  observed |-> Merge("observed")]])

\* fail: publish Error and return an error, whether or not the patch went through.
Fail(n, p) ==
    /\ \/ patchStatus(n, p, [phase |-> "Error",
                             handshake |-> cache[n][p].status.handshake,
                             observed |-> cache[n][p].gen])
       \/ NoWrite
    /\ UNCHANGED keyIndex

ToApply(n, p) ==
    /\ cache[n][p] # Absent
    /\ ~cache[n][p].deleting
    /\ cache[n][p].finalizer

\* The data plane once a key this name had before is torn down.
Rotates(n, p) == keyIndex[n][p] \notin {NoKey, cache[n][p].spec.key}
\* Mutant: the old key stays on the device.
RotatedOutKept(n, p) == {plane[n]}
RotatedOut(n, p) ==
    IF Rotates(n, p) THEN RemovePeerOk(plane[n], keyIndex[n][p]) ELSE {plane[n]}

ApplyOk(n, p) ==
    LET obj == cache[n][p] IN
    /\ ~RemapFails(obj.spec)
    /\ \E out \in RotatedOut(n, p) :
          \E dp \in ConfigurePeerOk(out, obj.spec.key, RouteCIDRs(obj.spec)) :
              SetPlane(n, dp)
    /\ SetKey(n, p, obj.spec.key)
    /\ \/ /\ patchStatus(n, p, [phase |-> PlanPhase(obj.spec),
                                handshake |-> Handshake[n], observed |-> obj.gen])
          /\ UNCHANGED used
       \/ /\ Fault         \* the handshake cannot be read: the last one is kept
          /\ patchStatus(n, p, [phase |-> PlanPhase(obj.spec),
                                handshake |-> obj.status.handshake, observed |-> obj.gen])
       \/ /\ Fault         \* the patch fails
          /\ NoWrite

ApplyFail(n, p) ==
    LET obj == cache[n][p] IN
    /\ \/ /\ RemapFails(obj.spec)
          /\ UNCHANGED <<plane, used>>
       \/ /\ ~RemapFails(obj.spec)
          /\ Rotates(n, p)
          /\ Fault
          /\ \E dp \in RemovePeerFail(plane[n], keyIndex[n][p]) : SetPlane(n, dp)
       \/ /\ ~RemapFails(obj.spec)
          /\ \E out \in RotatedOut(n, p) :
                \E dp \in ConfigurePeerFail(out, obj.spec.key, RouteCIDRs(obj.spec)) :
                    SetPlane(n, dp)
          /\ IF obj.spec.key \in BadKey THEN UNCHANGED used ELSE Fault
    /\ Fail(n, p)

\* Mutant: no RequeueAfter, and a failure is not retried.
reconcileApplyOnce(n, p) ==
    /\ ToApply(n, p)
    /\ ApplyOk(n, p) \/ ApplyFail(n, p)
    /\ Done(n, p)
    /\ UNCHANGED cache

reconcileApply(n, p) ==
    /\ ToApply(n, p)
    /\ ApplyOk(n, p) \/ ApplyFail(n, p)
    /\ Requeue
    /\ UNCHANGED cache

\* Mutant: an object this process never programmed is left alone.
reconcileDeleteKnown(n, p) ==
    /\ cache[n][p] # Absent
    /\ cache[n][p].deleting
    /\ IF keyIndex[n][p] = NoKey
       THEN NoWrite /\ UNCHANGED <<keyIndex, plane>>
       ELSE /\ \E dp \in RemovePeerOk(plane[n], keyIndex[n][p]) : SetPlane(n, dp)
            /\ SetKey(n, p, NoKey)
            /\ IF fresh[n][p] THEN Write(p, Absent) ELSE NoWrite
    /\ Done(n, p)
    /\ UNCHANGED <<cache, used>>

\* The object goes away with its last finalizer, and no other controller adds
\* one, so a deleting object has ours.  keyIndex is forgotten before the Update,
\* which fails on a conflict or an API error.
reconcileDelete(n, p) ==
    LET k == cache[n][p].spec.key IN
    /\ cache[n][p] # Absent
    /\ cache[n][p].deleting
    /\ cache[n][p].finalizer
    /\ \/ /\ \E dp \in RemovePeerOk(plane[n], k) : SetPlane(n, dp)
          /\ SetKey(n, p, NoKey)
          /\ \/ fresh[n][p] /\ Write(p, Absent) /\ Done(n, p) /\ UNCHANGED used
             \/ ~fresh[n][p] /\ NoWrite /\ Requeue /\ UNCHANGED used
             \/ Fault /\ NoWrite /\ Requeue
       \/ /\ IF k \in BadKey THEN UNCHANGED used ELSE Fault
          /\ \E dp \in RemovePeerFail(plane[n], k) : SetPlane(n, dp)
          /\ NoWrite
          /\ Requeue
          /\ UNCHANGED keyIndex
    /\ UNCHANGED cache

Reconcile(n, p) ==
    /\ p \in queue[n]
    /\ \/ ReconcileGone(n, p)
       \/ reconcileDelete(n, p)
       \/ AddFinalizer(n, p)
       \/ reconcileApply(n, p)
-----------------------------------------------------------------------------
(***************************************************************************)
(* The agent dies and comes back.  The kernel keeps its state; keyIndex    *)
(* and the routes' bookkeeping are lost; the informer lists what exists    *)
(* and enqueues it.  The time the agent is down is the time its cache was  *)
(* stale before this step.                                                 *)
(***************************************************************************)
\* Mutant: what exists is not enqueued when the informer starts.
StartUpQuiet(n) ==
    /\ used.restarts < MaxRestarts
    /\ used' = [used EXCEPT !.restarts = @ + 1]
    /\ cache' = [cache EXCEPT ![n] = api]
    /\ fresh' = [fresh EXCEPT ![n] = [p \in Name |-> TRUE]]
    /\ queue' = [queue EXCEPT ![n] = {}]
    /\ keyIndex' = [keyIndex EXCEPT ![n] = [p \in Name |-> NoKey]]
    /\ UNCHANGED api

StartUp(n) ==
    /\ used.restarts < MaxRestarts
    /\ used' = [used EXCEPT !.restarts = @ + 1]
    /\ cache' = [cache EXCEPT ![n] = api]
    /\ fresh' = [fresh EXCEPT ![n] = [p \in Name |-> TRUE]]
    /\ queue' = [queue EXCEPT ![n] = {p \in Name : api[p] # Absent}]
    /\ keyIndex' = [keyIndex EXCEPT ![n] = [p \in Name |-> NoKey]]
    /\ UNCHANGED api

Restart(n) ==
    /\ StartUp(n)
    /\ SetPlane(n, Restarted(plane[n]))

\* What a reconcile of p that never finishes can leave in the data plane.
Torn(n, p) ==
    LET obj == cache[n][p]
        k   == keyIndex[n][p]
    IN  IF obj = Absent
        THEN IF k = NoKey THEN {} ELSE RemovePeerTorn(plane[n], k)
        ELSE IF obj.deleting THEN RemovePeerTorn(plane[n], obj.spec.key)
        ELSE IF ~obj.finalizer \/ RemapFails(obj.spec) THEN {}
        ELSE (IF Rotates(n, p) THEN RemovePeerTorn(plane[n], k) ELSE {})
             \cup UNION {ConfigurePeerTorn(out, obj.spec.key, RouteCIDRs(obj.spec)) :
                             out \in RotatedOut(n, p)}

TornRestart(n, p) ==
    /\ p \in queue[n]
    /\ StartUp(n)
    /\ \E dp \in Torn(n, p) : SetPlane(n, Restarted(dp))

-----------------------------------------------------------------------------
User ==
    \E p \in Name :
        \/ \E s \in PeerSpec[p] : Create(p, s) \/ UpdateSpec(p, s)
        \/ Delete(p)

Next ==
    \/ User
    \/ \E n \in Node, p \in Name : Deliver(n, p) \/ Reconcile(n, p) \/ TornRestart(n, p)
    \/ \E n \in Node : Restart(n)

Spec == Init /\ [][Next]_vars

\* The watch and the work queue of every node keep running: an event is
\* eventually delivered, a queued name eventually reconciled.
FairSpec ==
    /\ Spec
    /\ \A n \in Node, p \in Name : WF_vars(Deliver(n, p)) /\ WF_vars(Reconcile(n, p))

-----------------------------------------------------------------------------
(***************************************************************************)
(* Properties.                                                             *)
(***************************************************************************)
\* Every variable stays in its type, and no counter passes its bound.
TypeOK ==
    /\ api \in [Name -> Object \cup {Absent}]
    /\ cache \in [Node -> [Name -> Object \cup {Absent}]]
    /\ fresh \in [Node -> [Name -> BOOLEAN]]
    /\ queue \in [Node -> SUBSET Name]
    /\ keyIndex \in [Node -> [Name -> Key \cup {NoKey}]]
    /\ plane \in [Node -> DataPlane]
    /\ used \in [edits : 0..MaxEdits, deletes : 0..MaxDeletes,
                 restarts : 0..MaxRestarts, faults : 0..MaxFaults]

\* The critical guard of Partition: whatever the specs, failures and restarts,
\* no host route steers a refused CIDR (local, dangerous or malformed) into the
\* mesh, unless remap chose that very range as a virtual one.
NeverRoutesWithheld ==
    \A n \in Node :
        plane[n].routes \cap Withheld \subseteq
            IF RemapPool THEN {Virtual[c] : c \in Withheld} ELSE {}

\* Node n is done with p: the object is gone, n has seen it and has nothing to do.
Finished(n, p) == api[p] = Absent /\ fresh[n][p] /\ p \notin queue[n]

\* What the finalizer and keyIndex are for: once a node is done with a deleted
\* MeshPeer, no WireGuard peer and no host route is left on it, except those
\* other MeshPeers account for.
NothingStranded ==
    \A n \in Node :
        LET rest == {p \in Name : ~Finished(n, p)} IN
        /\ \A k \in plane[n].peers : \E p \in rest : \E s \in PeerSpec[p] : s.key = k
        /\ \A c \in plane[n].routes : \E p \in rest : \E s \in PeerSpec[p] : c \in RouteCIDRs(s)

\* keyIndex names exactly the peers on the device: a peer it misses cannot be
\* torn down once the object is gone.
IndexExact ==
    \A n \in Node : plane[n].peers = {keyIndex[n][p] : p \in Name} \ {NoKey}

\* A MeshPeer a node can program.
Live(p) == api[p] # Absent /\ ~api[p].deleting /\ ~RemapFails(api[p].spec)

\* The CIDRs of p no other live MeshPeer claims.
OwnCIDRs(p) ==
    RouteCIDRs(api[p].spec) \
        UNION {RouteCIDRs(api[q].spec) : q \in {q \in Name \ {p} : Live(q)}}

Programmed(n, p) ==
    LET k == api[p].spec.key IN
    /\ k \in plane[n].peers
    /\ \A c \in OwnCIDRs(p) : c \in plane[n].routes /\ plane[n].allowed[c] = k

\* Once users stop editing, every node ends up with every live peer programmed as
\* its spec says, whatever went wrong on the way: a CIDR that moved between two
\* peers, a route rolled back, a process that died inside a call.
Converges ==
    <>[](\A n \in Node, p \in Name : Live(p) => Programmed(n, p))

\* A deleted MeshPeer really goes away.
DeletionCompletes ==
    \A p \in Name : (api[p] # Absent /\ api[p].deleting) ~> (api[p] = Absent)

\* Every node patches the one status, from its own cached copy and without a version.
\* Once users stop editing, the status still comes to rest (patchStatus writes only
\* when something changed), and where it rests it speaks for the current generation
\* of every live peer.
StatusConverges ==
    /\ \A p \in Name : <>[][api'[p] = api[p]]_vars
    /\ <>[](\A p \in Name : Live(p) =>
               /\ api[p].status.observed = api[p].gen
               /\ api[p].status.phase = PlanPhase(api[p].spec))
=============================================================================
