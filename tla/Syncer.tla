------------------------------- MODULE Syncer -------------------------------
(***************************************************************************)
(* The topology syncer of the premium tier (pkg/syncer): every agent polls *)
(* the control plane and turns the topology it gets into MeshPeer objects. *)
(* There is no leader: all agents write the same objects, through caches   *)
(* of their own.  What the MeshPeer controllers do with an object (module  *)
(* MeshPeer) is here only their finalizer.                                 *)
(*                                                                         *)
(* A pass of syncOnce is several steps: the fetch, one CreateOrUpdate per  *)
(* peer, the listing of prune and one Delete per stale peer.  A call to    *)
(* the API reads the cache and writes at once; fresh is as in MeshPeer.    *)
(***************************************************************************)
EXTENDS Naturals

CONSTANTS
    Agent,           \* the agents
    Cluster,         \* cluster IDs, LocalClusterID among them
    LocalClusterID,
    Name,            \* names of MeshPeer objects
    SanitizeName,    \* SanitizeName[c]: the name of the object for cluster c
    Config,          \* what a topology says of a cluster: key, endpoint, CIDRs
    Peers,           \* Peers[r]: the peers revision r may have, functions from Cluster
    Absent,          \* no object; not part of the topology
    MaxRevision,     \* bound: topologies
    MaxTrouble       \* bound: failed calls and restarts

Topology == UNION {[revision : {r}, peers : Peers[r]] : r \in 1..MaxRevision}
Object ==
    [cluster : Cluster, config : Config,
     managed : BOOLEAN, finalizer : BOOLEAN, deleting : BOOLEAN]

ASSUME SyncerAssumption ==
    /\ LocalClusterID \in Cluster
    /\ SanitizeName \in [Cluster -> Name]
    /\ Absent \notin Config \cup Object
    /\ {MaxRevision, MaxTrouble} \subseteq Nat
    /\ Peers \in [1..MaxRevision -> SUBSET [Cluster -> Config \cup {Absent}]]

Pass ==
    [pc : {"idle", "upsert", "prune"}, got : Topology \cup {Absent}, todo : SUBSET Cluster,
     ok : BOOLEAN, desired : SUBSET Name, stale : SUBSET Name,
     lastRevision : 0..MaxRevision, applied : BOOLEAN]

VARIABLES
    topology,  \* what the control plane serves
    stamped,   \* whether the control plane stamps a revision on it
    api,       \* api[p]: the MeshPeer object, or Absent
    cache,     \* cache[n][p]: the copy agent n reads
    fresh,     \* fresh[n][p]: that copy has the API's resourceVersion
    sync,      \* sync[n]: the pass agent n is in, and what it remembers
    constant,  \* history: the clusters every topology so far has had
    crossed,   \* history: a pass trusted a stale read, upserted an object on its way out
    troubles   \* failed calls and restarts so far

syncerVars == <<topology, stamped, api, cache, fresh, sync, constant, crossed, troubles>>
world == <<topology, stamped, constant>>

Advertised(t) == {c \in Cluster : t.peers[c] # Absent}

IdlePass(rev, done) ==
    [pc |-> "idle", got |-> Absent, todo |-> {}, ok |-> TRUE, desired |-> {}, stale |-> {},
     lastRevision |-> rev, applied |-> done]

\* A MeshPeer a person or a GitOps pipeline authored.
Authored(c) ==
    {Absent} \cup [cluster : {c}, config : Config, managed : {FALSE},
                   finalizer : {FALSE}, deleting : {FALSE}]

SyncerInit ==
    /\ topology \in {t \in Topology : t.revision = 1}
    /\ stamped \in BOOLEAN
    /\ api \in [Name -> UNION {Authored(c) : c \in Cluster \ {LocalClusterID}}]
    /\ \A p \in Name : api[p] # Absent => SanitizeName[api[p].cluster] = p
    /\ cache = [n \in Agent |-> api]
    /\ fresh = [n \in Agent |-> [p \in Name |-> TRUE]]
    /\ sync = [n \in Agent |-> IdlePass(0, FALSE)]
    /\ constant = Advertised(topology)
    /\ crossed = {}
    /\ troubles = 0

Trouble ==
    /\ troubles < MaxTrouble
    /\ troubles' = troubles + 1

-----------------------------------------------------------------------------
(***************************************************************************)
(* The control plane, the API server and the MeshPeer controllers.         *)
(***************************************************************************)
Publish(t) ==
    /\ t.revision = topology.revision + 1
    /\ topology' = t
    /\ constant' = constant \cap Advertised(t)
    /\ UNCHANGED <<stamped, api, cache, fresh, sync, crossed, troubles>>

Write(p, obj) ==
    /\ api' = [api EXCEPT ![p] = obj]
    /\ fresh' = IF obj = api[p] THEN fresh
                ELSE [n \in Agent |-> [fresh[n] EXCEPT ![p] = FALSE]]
NoWrite == UNCHANGED <<api, fresh>>

Delete(p) ==
    IF api[p] = Absent THEN NoWrite
    ELSE Write(p, IF api[p].finalizer THEN [api[p] EXCEPT !.deleting = TRUE] ELSE Absent)

Deliver(n, p) ==
    /\ ~fresh[n][p]
    /\ cache' = [cache EXCEPT ![n][p] = api[p]]
    /\ fresh' = [fresh EXCEPT ![n][p] = TRUE]
    /\ UNCHANGED <<world, api, sync, crossed, troubles>>

\* The MeshPeer controllers: the finalizer goes on, and off when they are done.
Finalizer(p) ==
    /\ api[p] # Absent
    /\ \/ ~api[p].deleting /\ ~api[p].finalizer /\ Write(p, [api[p] EXCEPT !.finalizer = TRUE])
       \/ api[p].deleting /\ Write(p, Absent)
    /\ UNCHANGED <<world, cache, sync, crossed, troubles>>

-----------------------------------------------------------------------------
(***************************************************************************)
(* syncOnce.                                                               *)
(***************************************************************************)
\* The pass ends without having applied its topology.
GiveUp(n) == sync' = [sync EXCEPT ![n] = IdlePass(@.lastRevision, @.applied)]

\* The control plane's revision; 0 is the empty one.
Revision(t) == IF stamped THEN t.revision ELSE 0

\* A fetch that fails, or that brings the revision applied last, changes nothing.
fetch(n) ==
    LET s == sync[n] IN
    /\ s.pc = "idle"
    /\ ~(s.applied /\ stamped /\ s.lastRevision = topology.revision)
    /\ sync' = [sync EXCEPT ![n].pc = "upsert", ![n].got = topology, ![n].ok = TRUE,
                             ![n].desired = {},
                             ![n].todo = Advertised(topology) \ {LocalClusterID}]
    /\ UNCHANGED <<world, api, cache, fresh, crossed, troubles>>

\* controllerutil.CreateOrUpdate: an object that already is as it should be, in the
\* cache, is not written; one that is not in the cache must not exist; an update
\* must be of the current version.
Wanted(n, c) ==
    LET obj == cache[n][SanitizeName[c]]
        cfg == sync[n].got.peers[c]
    IN  IF obj = Absent
        THEN [cluster |-> c, config |-> cfg, managed |-> TRUE,
              finalizer |-> FALSE, deleting |-> FALSE]
        ELSE [obj EXCEPT !.managed = TRUE, !.cluster = c, !.config = cfg]
UpToDate(n, c) == cache[n][SanitizeName[c]] = Wanted(n, c)
Conflict(n, c) ==
    LET p == SanitizeName[c] IN
    IF cache[n][p] = Absent THEN api[p] # Absent ELSE ~fresh[n][p]

\* Mutant: a failed upsert does not hold back the prune.
upsertFailsPrunes(n, c) ==
    /\ c \in sync[n].todo
    /\ ~UpToDate(n, c)
    /\ IF Conflict(n, c) THEN UNCHANGED troubles ELSE Trouble
    /\ sync' = [sync EXCEPT ![n].todo = @ \ {c}]
    /\ UNCHANGED <<world, api, cache, fresh, crossed>>

\* An error of the API server, or a conflict with another writer.
upsertFails(n, c) ==
    /\ c \in sync[n].todo
    /\ ~UpToDate(n, c)
    /\ IF Conflict(n, c) THEN UNCHANGED troubles ELSE Trouble
    /\ sync' = [sync EXCEPT ![n].todo = @ \ {c}, ![n].ok = FALSE]
    /\ UNCHANGED <<world, api, cache, fresh, crossed>>

upsert(n, c) ==
    LET p == SanitizeName[c] IN
    /\ c \in sync[n].todo
    /\ IF UpToDate(n, c) THEN NoWrite ELSE ~Conflict(n, c) /\ Write(p, Wanted(n, c))
    /\ sync' = [sync EXCEPT ![n].todo = @ \ {c}, ![n].desired = @ \cup {p}]
    /\ crossed' = crossed \cup (IF fresh[n][p] THEN {} ELSE {"stale read"})
                          \cup (IF api[p] # Absent /\ api[p].deleting THEN {"deletion"} ELSE {})
    /\ UNCHANGED <<world, cache, troubles>>

\* All peers are done: give up if one failed, or list what prune is to delete.
upsertDesired(n) ==
    LET s == sync[n] IN
    /\ s.pc = "upsert"
    /\ s.todo = {}
    /\ \/ ~s.ok /\ GiveUp(n) /\ UNCHANGED <<crossed, troubles>>
       \/ s.ok /\ Trouble /\ GiveUp(n) /\ UNCHANGED crossed
       \/ /\ s.ok
          /\ sync' = [sync EXCEPT ![n].pc = "prune", ![n].stale =
                 {p \in Name \ s.desired : /\ cache[n][p] # Absent
                                           /\ cache[n][p].managed
                                           /\ ~cache[n][p].deleting}]
          /\ crossed' = crossed \cup (IF \A p \in Name : fresh[n][p] THEN {} ELSE {"stale read"})
          /\ UNCHANGED troubles
    /\ UNCHANGED <<world, api, cache, fresh>>

\* Mutant: the revision is recorded although the prune failed.
pruneRecords(n) ==
    LET s == sync[n] IN
    /\ s.pc = "prune"
    /\ \/ /\ \E p \in s.stale : Delete(p) /\ sync' = [sync EXCEPT ![n].stale = @ \ {p}]
          /\ UNCHANGED troubles
       \/ /\ IF s.stale # {} THEN Trouble ELSE UNCHANGED troubles
          /\ sync' = [sync EXCEPT ![n] = IdlePass(Revision(s.got), TRUE)]
          /\ NoWrite
    /\ UNCHANGED <<world, cache, crossed>>

\* prune deletes one after the other; the first error ends the pass.  Only a pass
\* that went through to the end records its revision.
prune(n) ==
    LET s == sync[n] IN
    /\ s.pc = "prune"
    /\ \/ /\ \E p \in s.stale : Delete(p) /\ sync' = [sync EXCEPT ![n].stale = @ \ {p}]
          /\ UNCHANGED troubles
       \/ s.stale # {} /\ Trouble /\ GiveUp(n) /\ NoWrite
       \/ /\ s.stale = {}
          /\ sync' = [sync EXCEPT ![n] = IdlePass(Revision(s.got), TRUE)]
          /\ NoWrite
          /\ UNCHANGED troubles
    /\ UNCHANGED <<world, cache, crossed>>

Restart(n) ==
    /\ Trouble
    /\ sync' = [sync EXCEPT ![n] = IdlePass(0, FALSE)]
    /\ cache' = [cache EXCEPT ![n] = api]
    /\ fresh' = [fresh EXCEPT ![n] = [p \in Name |-> TRUE]]
    /\ UNCHANGED <<world, api, crossed>>

-----------------------------------------------------------------------------
syncOnce(n) ==
    \/ fetch(n) \/ upsertDesired(n) \/ prune(n)
    \/ \E c \in Cluster : upsert(n, c) \/ upsertFails(n, c)

SyncerNext ==
    \/ \E t \in Topology : Publish(t)
    \/ \E p \in Name : Finalizer(p)
    \/ \E n \in Agent : syncOnce(n) \/ Restart(n) \/ \E p \in Name : Deliver(n, p)

SyncerSpec == SyncerInit /\ [][SyncerNext]_syncerVars

\* The ticker of every agent, its watch and the MeshPeer controllers keep running.
SyncerFairSpec ==
    /\ SyncerSpec
    /\ \A n \in Agent : WF_syncerVars(syncOnce(n))
    /\ \A n \in Agent, p \in Name : WF_syncerVars(Deliver(n, p))
    /\ \A p \in Name : WF_syncerVars(Finalizer(p))

-----------------------------------------------------------------------------
(***************************************************************************)
(* Properties.                                                             *)
(***************************************************************************)

\* Pruning must not "delete a live peer whose update merely failed": a cluster that
\* has been in every topology keeps its MeshPeer, whatever fails and however many
\* agents write.
LivePeerKept ==
    [][\A c \in constant' \ {LocalClusterID} :
          LET p == SanitizeName[c] IN
          api[p] # Absent => api'[p] # Absent /\ ~api'[p].deleting]_syncerVars

\* Cluster c is a MeshPeer exactly as the topology has it; other objects of the
\* syncer are gone.
Mirrored ==
    /\ \A c \in Advertised(topology) \ {LocalClusterID} :
          LET obj == api[SanitizeName[c]] IN
          /\ obj # Absent
          /\ obj.cluster = c /\ obj.config = topology.peers[c] /\ ~obj.deleting
    /\ \A p \in Name : api[p] # Absent /\ api[p].managed =>
          p \in {SanitizeName[c] : c \in Advertised(topology) \ {LocalClusterID}}

\* Once the topology rests, the MeshPeers mirror it, unless the control plane
\* stamps revisions and some pass crossed a deletion or trusted a stale read:
\* without a revision to compare, every pass runs in full again.
ConvergesUncrossed == <>[]((stamped /\ crossed # {}) \/ Mirrored)
=============================================================================
