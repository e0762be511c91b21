------------------------------- MODULE Health -------------------------------
(***************************************************************************)
(* What is concluded from the status of a MeshPeer: by the prober          *)
(* (pkg/probe), by failover (servicenat_controller.go) and by the read     *)
(* surfaces (pkg/verify, pkg/slo).  A status is a record [phase,           *)
(* handshake, attempt, success]; the last three are times, 0 is never.     *)
(***************************************************************************)
EXTENDS Integers

CONSTANTS
    StaleSeconds,         \* StaleHandshakeSeconds, failoverStaleDefault
    probeStatusRefresh    \* probeStatusRefreshSeconds

ASSUME StaleAssumption == StaleSeconds \in Nat /\ probeStatusRefresh \in Nat

Unset == ""    \* a field that is not set
Status(T) ==
    [phase : {Unset, "Pending", "Connected", "Error"}, handshake : T, attempt : T, success : T]
Within(now, t) == now - t <= StaleSeconds

-----------------------------------------------------------------------------
(***************************************************************************)
(* The prober.  A dial ends with the cluster whose responder answered, or  *)
(* with no usable answer (an error, not a 200, not a probe envelope).      *)
(***************************************************************************)
NoAnswer == "none"

PlanTargets(peers) == {c \in DOMAIN peers : peers[c].phase = "Connected"}

\* Mutant: any responder is a good responder.
ClassifyAnyone(c, answer, now) == [cluster |-> c, ok |-> answer # NoAnswer, at |-> now]
Classify(c, answer, now) == [cluster |-> c, ok |-> answer = c, at |-> now]

\* Mutant: a result is worth a write only when the verdict flips.
NextProbeStatusFlips(cur, r) ==
    LET wasHealthy == cur.attempt > 0 /\ cur.success = cur.attempt IN
    [next |-> [cur EXCEPT !.attempt = r.at, !.success = IF r.ok THEN r.at ELSE @],
     persist |-> wasHealthy # r.ok \/ cur.attempt = 0]
NextProbeStatus(cur, r) ==
    LET wasHealthy == cur.attempt > 0 /\ cur.success = cur.attempt IN
    [next |-> [cur EXCEPT !.attempt = r.at, !.success = IF r.ok THEN r.at ELSE @],
     persist |-> \/ wasHealthy # r.ok
                 \/ cur.attempt = 0
                 \/ r.at - cur.attempt >= probeStatusRefresh]

-----------------------------------------------------------------------------
(***************************************************************************)
(* Health-gated failover.                                                  *)
(***************************************************************************)
Probed(st, now) == now > 0 /\ st.attempt > 0 /\ Within(now, st.attempt)

\* Mutant: the handshake is asked whatever the prober found.
clusterDownByHandshake(st, now) ==
    \/ st.phase = "Error"
    \/ st.handshake > 0 /\ ~Within(now, st.handshake)
clusterDown(st, now) ==
    \/ st.phase = "Error"
    \/ Probed(st, now) /\ ~(st.success > 0 /\ Within(now, st.success))
    \/ ~Probed(st, now) /\ st.handshake > 0 /\ ~Within(now, st.handshake)

DownClusters(peers, now) == {c \in DOMAIN peers : clusterDown(peers[c], now)}

\* An import is [key, type, ips, ports], an export [key, cluster, type, ips].
BuildServiceDNAT(imports, exports, down) ==
    LET used == {e \in exports : e.type = "ClusterSetIP" /\ e.cluster \notin down}
        backends(key) == UNION {e.ips : e \in {f \in used : f.key = key}}
    IN  {[key |-> im.key, vip |-> im.ips[1], ports |-> im.ports, backends |-> backends(im.key)] :
            im \in {i \in imports : /\ i.type = "ClusterSetIP" /\ i.ips # <<>>
                                    /\ backends(i.key) # {}}}

-----------------------------------------------------------------------------
(***************************************************************************)
(* The snapshot of a peer, and what verify, diagnose and slo say of it.    *)
(***************************************************************************)
handshakeAge(now, last) ==
    IF now <= 0 \/ last <= 0 THEN -1 ELSE IF now > last THEN now - last ELSE 0

PeerSnapshot(st, now) ==
    [phase |-> st.phase, handshake |-> st.handshake,
     handshakeAge |-> handshakeAge(now, st.handshake),
     probed |-> Probed(st, now), probeAge |-> handshakeAge(now, st.success)]

live(age) == age >= 0 /\ age <= StaleSeconds

\* slo.FromSnapshot: the probe is authoritative, the handshake stands in for it.
TunnelLive(p) == live(IF p.probed THEN p.probeAge ELSE p.handshakeAge)

\* signalFor: what is expected of a cluster against what is observed.
signalFor(expected, alive) ==
    CASE expected = "Degraded" -> "Degraded"
      [] expected = "Blocked" -> "Blocked"
      [] expected = "Reachable" -> IF alive THEN "Healthy" ELSE "Impaired"
      [] OTHER -> "Down"

staleTunnel(p) == p.handshake <= 0 \/ p.handshakeAge > StaleSeconds
=============================================================================
