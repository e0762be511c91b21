------------------------------ MODULE WireGuard ------------------------------
(***************************************************************************)
(* The calls of WireGuardManager (pkg/wg/wireguard.go) as operators on one *)
(* node's data plane: what the kernel holds (peers, allowed, routes) and   *)
(* what the manager remembers (peerRoutes).  Every call runs under m.mu,   *)
(* so a call is one step; what a process crash can leave behind half way   *)
(* through a call is given by the ...Torn operators.                       *)
(*                                                                         *)
(* A CIDR stands for the canonical form net.ParseCIDR returns.  A peer     *)
(* that peerRoutes does not know and one it knows with no route both have  *)
(* the empty set.                                                          *)
(***************************************************************************)
CONSTANTS
    Key,        \* WireGuard public keys, as written in a MeshPeer
    BadKey,     \* those of them wgtypes.ParseKey rejects
    NoKey,      \* no key
    Cidr,       \* CIDRs a peer can be given
    LossyDelete \* TRUE iff a RouteDel may fail; the failure is only logged

ASSUME WireGuardAssumption ==
    /\ BadKey \subseteq Key
    /\ NoKey \notin Key
    /\ LossyDelete \in BOOLEAN

DataPlane ==
    [peers      : SUBSET Key,
     allowed    : [Cidr -> Key \cup {NoKey}],
     routes     : SUBSET Cidr,
     peerRoutes : [Key -> SUBSET Cidr]]

EmptyDataPlane ==
    [peers      |-> {},
     allowed    |-> [c \in Cidr |-> NoKey],
     routes     |-> {},
     peerRoutes |-> [k \in Key |-> {}]]

(***************************************************************************)
(* The kernel's cryptokey routing table.  An allowed IP belongs to one     *)
(* peer, so giving it to k takes it from whoever had it; ReplaceAllowedIPs *)
(* drops what k had before.                                                *)
(***************************************************************************)

UpsertPeer(dp, k, C) ==
    [dp EXCEPT !.peers   = dp.peers \cup {k},
               !.allowed = [c \in Cidr |-> IF c \in C THEN k
                                           ELSE IF dp.allowed[c] = k THEN NoKey
                                           ELSE dp.allowed[c]]]

DropPeer(dp, k) ==
    [dp EXCEPT !.peers   = dp.peers \ {k},
               !.allowed = [c \in Cidr |-> IF dp.allowed[c] = k THEN NoKey
                                           ELSE dp.allowed[c]]]

\* The sets of routes a best-effort deletion of the routes S may leave behind.
Undeleted(S) == IF LossyDelete THEN SUBSET S ELSE {{}}

\* rollbackRoutesLocked, when the deletions in kept fail.
rollbackRoutes(dp, S, kept) == [dp EXCEPT !.routes = dp.routes \ (S \ kept)]

\* Mutant: routes a peer no longer has are not withdrawn.
staleRoutesNone(old, current) == {}
staleRoutes(old, current) == old \ current

InstallRoutes(dp, C) == [dp EXCEPT !.routes = dp.routes \cup C]

(***************************************************************************)
(* ConfigurePeer.  It succeeds, or fails before the device is touched      *)
(* (parsing, resolving the endpoint, the link, the device), or fails on a  *)
(* route after the routes D were installed: D is rolled back, the device   *)
(* keeps the peer and the bookkeeping keeps its old entry.                 *)
(***************************************************************************)
ConfigurePeerOk(dp, k, C) ==
    IF k \in BadKey THEN {}
    ELSE LET up    == InstallRoutes(UpsertPeer(dp, k, C), C)
             stale == staleRoutes(dp.peerRoutes[k], C)
         IN  {[rollbackRoutes(up, stale, kept) EXCEPT
                   !.peerRoutes = [dp.peerRoutes EXCEPT ![k] = C]] :
                  kept \in Undeleted(stale)}

ConfigurePeerFail(dp, k, C) ==
    {dp} \cup
    IF k \in BadKey THEN {}
    ELSE UNION {{rollbackRoutes(InstallRoutes(UpsertPeer(dp, k, C), D), D, kept) :
                     kept \in Undeleted(D)} : D \in (SUBSET C) \ {C}}

(***************************************************************************)
(* RemovePeer.  A key that does not parse is an error before anything is   *)
(* done; removing the peer from the device may fail; once it is removed,   *)
(* looking up the link may fail, and the bookkeeping survives.             *)
(***************************************************************************)
RemovePeerOk(dp, k) ==
    IF k \in BadKey THEN {}
    ELSE {[rollbackRoutes(DropPeer(dp, k), dp.peerRoutes[k], kept) EXCEPT
               !.peerRoutes = [dp.peerRoutes EXCEPT ![k] = {}]] :
              kept \in Undeleted(dp.peerRoutes[k])}

RemovePeerFail(dp, k) ==
    {dp} \cup
    IF k \in BadKey \/ dp.peerRoutes[k] = {} THEN {} ELSE {DropPeer(dp, k)}

(***************************************************************************)
(* What the kernel holds when the process dies inside a call, and what is  *)
(* left after a restart: kernel state persists (see Close), the            *)
(* bookkeeping is gone.                                                    *)
(***************************************************************************)
ConfigurePeerTorn(dp, k, C) ==
    IF k \in BadKey THEN {}
    ELSE LET stale == staleRoutes(dp.peerRoutes[k], C)
         IN  {InstallRoutes(UpsertPeer(dp, k, C), D) : D \in SUBSET C}
             \cup {rollbackRoutes(InstallRoutes(UpsertPeer(dp, k, C), C), stale, kept) :
                       kept \in SUBSET stale}

RemovePeerTorn(dp, k) ==
    IF k \in BadKey THEN {}
    ELSE {rollbackRoutes(DropPeer(dp, k), dp.peerRoutes[k], kept) :
              kept \in SUBSET dp.peerRoutes[k]}

Restarted(dp) == [dp EXCEPT !.peerRoutes = [k \in Key |-> {}]]
=============================================================================
