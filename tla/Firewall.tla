------------------------------ MODULE Firewall ------------------------------
(***************************************************************************)
(* The mesh firewall of one node: the MeshNetworkPolicyReconciler          *)
(* (pkg/controllers/meshnetworkpolicy_controller.go) over the iptables     *)
(* manager (pkg/meshfw/manager.go).  go-iptables has no transactions:      *)
(* every command is a step of its own, packets arrive between any two of   *)
(* them, each may fail, and the agent may die after each.                  *)
(***************************************************************************)
EXTENDS Naturals, FirewallPlan

CONSTANTS
    Policy,      \* names of MeshNetworkPolicy objects
    PolicySpec,  \* the specs users write
    Cluster,     \* remote cluster IDs
    PeerCIDRs,   \* the sets of CIDRs the MeshPeers of a cluster may advertise
    NoObject,    \* no object
    MaxWrites, MaxFaults, MaxCrashes  \* bounds: user writes, failed calls, crashes

\* The jumps and chains ensureInfra installs, in its order.
Infra == <<"FWChain", "FWChainGuard", "DROP", "FORWARD", "INPUT">>
Hook == {"FORWARD", "INPUT"}
First(S) == IF "FORWARD" \in S THEN "FORWARD" ELSE "INPUT"

Object ==
    [spec : PolicySpec, gen : 1..MaxWrites,
     phase : {"", "Ready", "Error"}, observed : 0..MaxWrites]

VARIABLES
    policies, peers,          \* the API: objects by name, CIDRs by cluster
    seenPolicies, seenPeers,  \* the agent's informer caches
    queue,                    \* policy names waiting to be reconciled
    infra,                    \* how much of Infra the kernel has
    fw,                       \* the rules in FWChain
    guard,                    \* guard[h]: jumps to the guard chain at the top of h
    pc, target, items, req,   \* the reconcile in progress: step, ruleset, list, name
    applied,                  \* history: the last ruleset FWChain held completely
    used                      \* how much of each bound is spent

api == <<policies, peers>>
seen == <<seenPolicies, seenPeers>>
kernel == <<infra, fw, guard>>
firewallVars == <<api, seen, queue, kernel, pc, target, items, req, applied, used>>

Specs(P) == {P[p].spec : p \in {q \in Policy : P[q] # NoObject}}
None == [p \in Policy |-> NoObject]

FirewallInit ==
    /\ policies = None /\ seenPolicies = None /\ items = None
    /\ peers = [c \in Cluster |-> {}] /\ seenPeers = peers
    /\ queue = {}
    /\ infra = 0 /\ fw = <<>> /\ guard = [h \in Hook |-> 0]
    /\ pc = "boot" /\ target = <<>> /\ req = NoObject
    /\ applied = <<>>
    /\ used = [writes |-> 0, faults |-> 0, crashes |-> 0]

Spend(what, max) ==
    /\ used[what] < max
    /\ used' = [used EXCEPT ![what] = @ + 1]
Fault == Spend("faults", MaxFaults)

-----------------------------------------------------------------------------
(***************************************************************************)
(* Users and the API server; the informers.                                *)
(***************************************************************************)
CreatePolicy(p, s) ==
    /\ Spend("writes", MaxWrites)
    /\ policies[p] = NoObject
    /\ policies' = [policies EXCEPT ![p] =
                       [spec |-> s, gen |-> 1, phase |-> "", observed |-> 0]]
    /\ UNCHANGED <<peers, seen, queue, kernel, pc, target, items, req, applied>>

UpdatePolicy(p, s) ==
    /\ Spend("writes", MaxWrites)
    /\ policies[p] # NoObject
    /\ s # policies[p].spec
    /\ policies' = [policies EXCEPT ![p].spec = s, ![p].gen = @ + 1]
    /\ UNCHANGED <<peers, seen, queue, kernel, pc, target, items, req, applied>>

DeletePolicy(p) ==
    /\ policies[p] # NoObject
    /\ policies' = [policies EXCEPT ![p] = NoObject]
    /\ UNCHANGED <<peers, seen, queue, kernel, pc, target, items, req, applied, used>>

WritePeers(c, C) ==
    /\ Spend("writes", MaxWrites)
    /\ peers' = [peers EXCEPT ![c] = C]
    /\ UNCHANGED <<policies, seen, queue, kernel, pc, target, items, req, applied>>

DeliverPolicy(p) ==
    /\ pc # "boot"
    /\ seenPolicies[p] # policies[p]
    /\ seenPolicies' = [seenPolicies EXCEPT ![p] = policies[p]]
    /\ queue' = queue \cup {p}
    /\ UNCHANGED <<api, seenPeers, kernel, pc, target, items, req, applied, used>>

\* Mutant: the controller does not watch MeshPeers.
enqueueNone == {}
enqueueAllPolicies == {p \in Policy : seenPolicies[p] # NoObject}

DeliverPeers(c) ==
    /\ pc # "boot"
    /\ seenPeers[c] # peers[c]
    /\ seenPeers' = [seenPeers EXCEPT ![c] = peers[c]]
    /\ queue' = queue \cup enqueueAllPolicies
    /\ UNCHANGED <<api, seenPolicies, kernel, pc, target, items, req, applied, used>>

-----------------------------------------------------------------------------
(***************************************************************************)
(* Reconcile and SyncFirewall.  A command that is skipped because Exists   *)
(* says so leaves no trace, so ensureInfra goes on with the first element  *)
(* of Infra that is missing, engageGuard with the first hook.              *)
(***************************************************************************)
Reconcile(p) ==
    /\ pc = "idle"
    /\ p \in queue
    /\ queue' = queue \ {p}
    /\ req' = p
    /\ items' = seenPolicies
    /\ target' = BuildFirewall(Specs(seenPolicies), seenPeers)
    /\ pc' = "infra"
    /\ UNCHANGED <<api, seen, kernel, applied, used>>

Goto(step) ==
    /\ pc' = step
    /\ UNCHANGED <<api, seen, queue, target, items, req, used>>

ensureInfra ==
    /\ pc \in {"boot", "infra"}
    /\ IF infra < Len(Infra)
       THEN infra' = infra + 1 /\ Goto(pc)
       ELSE UNCHANGED infra /\ Goto(IF pc = "boot" THEN "idle" ELSE "engage")
    /\ UNCHANGED <<fw, guard, applied>>

engageGuard ==
    LET open == {h \in Hook : guard[h] = 0} IN
    /\ pc = "engage"
    /\ IF open # {}
       THEN guard' = [guard EXCEPT ![First(open)] = 1] /\ Goto("engage")
       ELSE UNCHANGED guard /\ Goto("clear")
    /\ UNCHANGED <<infra, fw, applied>>

ClearChain ==
    /\ pc = "clear"
    /\ fw' = <<>>
    /\ Goto("append")
    /\ UNCHANGED <<infra, guard, applied>>

AppendRules ==
    /\ pc = "append"
    /\ IF fw # target
       THEN fw' = Append(fw, target[Len(fw) + 1]) /\ UNCHANGED applied /\ Goto("append")
       ELSE UNCHANGED fw /\ applied' = target /\ Goto("lift")
    /\ UNCHANGED <<infra, guard>>

disengageGuard ==
    LET closed == {h \in Hook : guard[h] > 0} IN
    /\ pc = "lift"
    /\ IF closed # {}
       THEN guard' = [guard EXCEPT ![First(closed)] = @ - 1] /\ Goto("lift")
       ELSE UNCHANGED guard /\ Goto("patch")
    /\ UNCHANGED <<infra, fw, applied>>

\* patchAll: every listed policy whose listed status differs is patched, and the
\* patch applies to whatever object has the name now.  Those in lost fail, which
\* is only logged.
patchAll(phase, lost) ==
    policies' = [p \in Policy |->
        IF \/ policies[p] = NoObject \/ items[p] = NoObject \/ p \in lost
           \/ items[p].phase = phase /\ items[p].observed = items[p].gen
        THEN policies[p]
        ELSE [policies[p] EXCEPT
                 !.phase    = IF items[p].phase = phase THEN @ ELSE phase,
                 !.observed = IF items[p].observed = items[p].gen THEN @ ELSE items[p].gen]]

Return(retry) ==
    /\ pc' = "idle"
    /\ queue' = queue \cup retry
    /\ req' = NoObject /\ target' = <<>> /\ items' = None
    /\ UNCHANGED <<peers, seen, infra, fw, applied>>

\* Mutant: a successful reconcile asks to be run again.
SucceedRequeues ==
    /\ pc = "patch"
    /\ patchAll("Ready", {}) /\ UNCHANGED used
    /\ UNCHANGED guard
    /\ Return({req})

Succeed ==
    /\ pc = "patch"
    /\ \/ patchAll("Ready", {}) /\ UNCHANGED used
       \/ Fault /\ \E lost \in SUBSET Policy : patchAll("Ready", lost)
    /\ UNCHANGED guard
    /\ Return({})

\* Mutant: the guard is lifted by a defer, also when the rebuild failed.
SyncFailsLifts ==
    /\ pc \in {"infra", "engage", "clear", "append", "lift"}
    /\ Fault
    /\ guard' = [h \in Hook |-> 0]
    /\ \E lost \in SUBSET Policy : patchAll("Error", lost)
    /\ Return({req})

\* A command fails: the guard stays as it is, and the request is retried.
SyncFails ==
    /\ pc \in {"infra", "engage", "clear", "append", "lift"}
    /\ Fault
    /\ \E lost \in SUBSET Policy : patchAll("Error", lost)
    /\ UNCHANGED guard
    /\ Return({req})

\* The agent dies; the new process opens the manager, and its informers list what
\* exists.  The time it is down is the time its caches were stale before.
Crash ==
    /\ Spend("crashes", MaxCrashes)
    /\ pc' = "boot"
    /\ seenPolicies' = policies /\ seenPeers' = peers
    /\ queue' = {p \in Policy : policies[p] # NoObject}
    /\ req' = NoObject /\ target' = <<>> /\ items' = None
    /\ UNCHANGED <<api, kernel, applied>>

-----------------------------------------------------------------------------
User ==
    \/ \E p \in Policy :
           \/ DeletePolicy(p)
           \/ \E s \in PolicySpec : CreatePolicy(p, s) \/ UpdatePolicy(p, s)
    \/ \E c \in Cluster, C \in PeerCIDRs : WritePeers(c, C)

Deliver ==
    \/ \E p \in Policy : DeliverPolicy(p)
    \/ \E c \in Cluster : DeliverPeers(c)

SyncFirewall ==
    \/ ensureInfra \/ engageGuard \/ ClearChain \/ AppendRules \/ disengageGuard
    \/ Succeed

FirewallNext ==
    \/ User \/ Deliver \/ SyncFirewall \/ SyncFails \/ Crash
    \/ \E p \in Policy : Reconcile(p)

FirewallSpec == FirewallInit /\ [][FirewallNext]_firewallVars

\* The watches and the work queue keep running, and so does a started sync.
FirewallFairSpec ==
    /\ FirewallSpec
    /\ WF_firewallVars(Deliver) /\ WF_firewallVars(SyncFirewall)
    /\ WF_firewallVars(\E p \in Policy : Reconcile(p))

-----------------------------------------------------------------------------
(***************************************************************************)
(* Properties.                                                             *)
(***************************************************************************)

\* Whether a mesh packet that comes to hook h gets through.
Hooked(h) == \E i \in 1..infra : Infra[i] = h
LetsThrough(h, pkt) == guard[h] = 0 /\ (Hooked(h) => Passes(fw, pkt))

\* "Fail CLOSED": whatever command fails and wherever the agent dies, no packet
\* gets through that the last complete ruleset would not let through.
FailsClosed ==
    \A h \in Hook, pkt \in Packet : LetsThrough(h, pkt) => Passes(applied, pkt)

HasPolicy == \E p \in Policy : policies[p] # NoObject
Enforces(h) ==
    \A pkt \in Packet : LetsThrough(h, pkt) <=> Allowed(Specs(policies), peers, pkt)

\* Once users stop, both hooks decide every packet as the policies and the peers
\* they name mean it, whatever failed on the way: the guard is lifted again, and a
\* peer that changed its CIDRs is followed.  (After a crash: while a policy exists.)
PoliciesEnforced ==
    <>[](HasPolicy \/ used.crashes = 0 => \A h \in Hook : Enforces(h))

\* patchAll patches "only those that actually changed to avoid reconcile churn":
\* the controller comes to rest.
ReconcilerRests == <>[](pc = "idle" /\ queue = {})

\* "With no policies present the firewall is a no-op (all mesh traffic allowed)".
NoPolicyNoEffect ==
    <>[](~HasPolicy => \A h \in Hook, pkt \in Packet : LetsThrough(h, pkt))
=============================================================================
