---------------------------- MODULE ControlPlane ----------------------------
(***************************************************************************)
(* The managed control plane as the agents meet it: the retries and the    *)
(* token refresh of EnterpriseControlPlaneClient (pkg/client), and the     *)
(* evidence reporter that shares the client with the topology syncer       *)
(* (pkg/evidence).  What the syncer does with a topology is in Syncer.     *)
(*                                                                         *)
(* The goroutines of an agent are threads: "boot" authenticates and, when  *)
(* it succeeds, starts "sync" and "evidence".  They share c.token without  *)
(* a lock: a read that races a store, or a store that races another, may   *)
(* yield a token nobody issued.                                            *)
(***************************************************************************)
EXTENDS Naturals

CONSTANTS
    Node,
    Syncing,              \* the agents whose syncer is followed
    MaxAttempts, BaseDelay, MaxDelay,   \* the RetryPolicy
    MaxDuration,          \* the largest time.Duration
    MaxEvents             \* how often, in all, the credential is replaced, the
                          \* evidence changes, a request fails or a process dies

ASSUME RetryAssumption ==
    /\ {BaseDelay, MaxDelay, MaxAttempts, MaxDuration, MaxEvents} \subseteq Nat
    /\ Syncing \subseteq Node

VARIABLES
    valid,      \* the token the control plane accepts
    source,     \* source[n]: what the token loader of n returns
    token,      \* token[n]: c.token
    call,       \* call[n][g]: the call thread g of n is in
    last,       \* last[n]: lastHash and pushed of the reporter
    mesh,       \* what a snapshot of the mesh shows
    report,     \* the report the control plane holds
    late,       \* reports posted and given up by the client, still to arrive
    used        \* how many of these happened
vars == <<valid, source, token, call, last, mesh, report, late, used>>

NoToken == 0
Torn == MaxEvents + 2     \* a rotation makes one token more
Threads(n) == {"boot", "evidence"} \cup (IF n \in Syncing THEN {"sync"} ELSE {})

Never == [content |-> "none", at |-> 0]

Event == used < MaxEvents /\ used' = used + 1

-----------------------------------------------------------------------------
(***************************************************************************)
(* RetryPolicy.                                                            *)
(***************************************************************************)
attempts == IF MaxAttempts < 1 THEN 1 ELSE MaxAttempts

\* The delay doubles until it reaches MaxDelay, if there is one, or overflows.
backoff[attempt \in Nat] ==
    IF attempt = 0
    THEN IF MaxDelay > 0 /\ BaseDelay > MaxDelay THEN MaxDelay ELSE BaseDelay
    ELSE LET d == 2 * backoff[attempt - 1] IN
         IF (MaxDelay > 0 /\ d >= MaxDelay) \/ d > MaxDuration THEN MaxDelay ELSE d

\* What the loop sleeps before an attempt, without jitter.
Wait(attempt) == IF attempt > 0 THEN backoff[attempt - 1] ELSE 0

\* Mutant: a refresh is free, however often it happens.
isRefreshAlways(c) == TRUE
isRefresh(c) == ~c.refreshed

-----------------------------------------------------------------------------
(***************************************************************************)
(* A call of authorizedDo: [pc, attempt, refreshed, sent, slept, load,     *)
(* body].  "ready" is before a request, "store" between the load of a      *)
(* token and its store.  sent counts the requests before the one it is at, *)
(* slept adds up the back-off without jitter.                              *)
(***************************************************************************)
Calling(body) ==
    [pc |-> "ready", attempt |-> 0, refreshed |-> FALSE, sent |-> 0, slept |-> 0,
     load |-> NoToken, body |-> body]
Off == [Calling(Never) EXCEPT !.pc = "off"]
Idle == [Calling(Never) EXCEPT !.pc = "idle"]

Init ==
    /\ valid = 1
    /\ source = [n \in Node |-> 1]
    /\ token = [n \in Node |-> NoToken]
    /\ call = [n \in Node |-> [g \in Threads(n) |-> Off]]
    /\ last = [n \in Node |-> Never]
    /\ mesh = "up"
    /\ report = Never
    /\ late = {}
    /\ used = 0

\* What the token that is written may be while another thread stores its own.
Racing(n, g, t) ==
    \E h \in Threads(n) \ {g} : call[n][h].pc = "store" /\ call[n][h].load # t
ReadToken(n, g) == {token[n]} \cup (IF Racing(n, g, token[n]) THEN {Torn} ELSE {})

\* The loop goes round: the back-off comes before every attempt but the first.
Again(c, attempt) ==
    [c EXCEPT !.pc = "ready", !.attempt = attempt, !.sent = @ + 1,
              !.slept = @ + Wait(attempt)]

Put(n, g, c) == call' = [call EXCEPT ![n][g] = c]

\* A process that exits, or is killed: the next one starts from nothing.
Exit(n) ==
    /\ call' = [call EXCEPT ![n] = [g \in Threads(n) |-> Off]]
    /\ token' = [token EXCEPT ![n] = NoToken]
    /\ last' = [last EXCEPT ![n] = Never]

\* The call returns an error: fatal at boot, else logged until the next tick.
Fail(n, g) ==
    IF g = "boot" THEN Exit(n) ELSE Put(n, g, Idle) /\ UNCHANGED <<token, last>>

\* The call returns a response the caller likes.
Succeed(n, g) ==
    /\ call' = IF g = "boot" THEN [call EXCEPT ![n] = [h \in Threads(n) |->
                                       IF h = "boot" THEN Off ELSE Idle]]
               ELSE [call EXCEPT ![n][g] = Idle]
    /\ last' = IF g = "evidence" THEN [last EXCEPT ![n] = call[n][g].body] ELSE last
    /\ UNCHANGED token

\* actionRetry: until the attempts are used up.
Retry(n, g) ==
    LET c == call[n][g] IN
    IF c.attempt + 1 < attempts THEN Put(n, g, Again(c, c.attempt + 1)) /\ UNCHANGED <<token, last>>
    ELSE Fail(n, g)

\* The control plane upserts a report that is posted.
Upsert(g, body) == report' = IF g = "evidence" THEN body ELSE report

-----------------------------------------------------------------------------
(***************************************************************************)
(* The steps of a thread.                                                  *)
(***************************************************************************)
\* Authenticate loads the token; without one the agent exits and starts again.
Boot(n) ==
    /\ \A g \in Threads(n) : call[n][g] = Off
    /\ source[n] # NoToken
    /\ token' = [token EXCEPT ![n] = source[n]]
    /\ Put(n, "boot", Calling(Never))
    /\ UNCHANGED <<valid, source, last, mesh, report, late, used>>

\* Start of the syncer's pass: FetchTopologyWithRevision.
FetchTopologyWithRevision(n) ==
    /\ n \in Syncing /\ call[n]["sync"] = Idle
    /\ Put(n, "sync", Calling(Never))
    /\ UNCHANGED <<valid, source, token, last, mesh, report, late, used>>

\* Mutant: the report is not stamped.
BuildEvidenceUnstamped(n) == [content |-> mesh, at |-> 1]
\* Now is another second in every pass of a reporter than in the one it last sent.
BuildEvidence(n) == [content |-> mesh, at |-> 1 - last[n].at]

\* A snapshot that cannot be gathered ends the pass and changes nothing.
reportOnce(n) ==
    /\ call[n]["evidence"] = Idle
    /\ BuildEvidence(n) # last[n]
    /\ Put(n, "evidence", Calling(BuildEvidence(n)))
    /\ UNCHANGED <<valid, source, token, last, mesh, report, late, used>>

\* The request is accepted.
Accepted(n, g) ==
    /\ call[n][g].pc = "ready"
    /\ valid \in ReadToken(n, g)
    /\ Upsert(g, call[n][g].body)
    /\ Succeed(n, g)
    /\ UNCHANGED <<valid, source, mesh, late, used>>

\* 401 or 403: the token is loaded again, once in a call.
Rejected(n, g) ==
    LET c == call[n][g] IN
    /\ c.pc = "ready"
    /\ \E t \in ReadToken(n, g) : t # valid
    /\ IF isRefresh(c)
       THEN /\ Put(n, g, [c EXCEPT !.pc = "store", !.refreshed = TRUE, !.load = source[n]])
            /\ UNCHANGED <<token, last>>
       ELSE Fail(n, g)
    /\ UNCHANGED <<valid, source, mesh, report, late, used>>

\* Mutant: the token is never replaced.
StoredNothing(n, g) == {token[n]}
\* Mutant: whatever the loader returns is stored.
StoredAnyway(n, g) ==
    IF Racing(n, g, call[n][g].load) THEN {call[n][g].load, Torn} ELSE {call[n][g].load}
Stored(n, g) ==
    LET load == call[n][g].load IN
    IF load = NoToken THEN {token[n]}
    ELSE IF Racing(n, g, load) THEN {load, Torn} ELSE {load}

\* c.token is written and the attempt repeated.
Store(n, g) ==
    /\ call[n][g].pc = "store"
    /\ \E t \in Stored(n, g) : token' = [token EXCEPT ![n] = t]
    /\ Put(n, g, Again([call[n][g] EXCEPT !.load = NoToken], call[n][g].attempt))
    /\ UNCHANGED <<valid, source, last, mesh, report, late, used>>

\* A transport error, 429 or 5xx.  A report may have been taken although the
\* client was not told, or be taken only after the client has given up.
Transient(n, g) ==
    LET body == call[n][g].body
        arrives == g = "evidence" /\ token[n] = valid
    IN  /\ call[n][g].pc = "ready"
        /\ Event
        /\ \/ UNCHANGED <<report, late>>
           \/ arrives /\ report' = body /\ UNCHANGED late
           \/ arrives /\ late' = late \cup {body} /\ UNCHANGED report
        /\ Retry(n, g)
        /\ UNCHANGED <<valid, source, mesh>>

\* Another status, or an answer that does not decode.
Refused(n, g) ==
    /\ call[n][g].pc = "ready"
    /\ Event
    /\ Fail(n, g)
    /\ UNCHANGED <<valid, source, mesh, report, late>>

-----------------------------------------------------------------------------
(***************************************************************************)
(* The surroundings.                                                       *)
(***************************************************************************)
\* The credential is replaced; the agents of N have none until it is issued.
Rotate(N) ==
    /\ Event
    /\ valid' = valid + 1
    /\ source' = [n \in Node |-> IF n \in N THEN NoToken ELSE source[n]]
    /\ UNCHANGED <<token, call, last, mesh, report, late>>
Issue(n) ==
    /\ source[n] # valid
    /\ source' = [source EXCEPT ![n] = valid]
    /\ UNCHANGED <<valid, token, call, last, mesh, report, late, used>>

Change ==
    /\ Event
    /\ mesh' = IF mesh = "up" THEN "down" ELSE "up"
    /\ UNCHANGED <<valid, source, token, call, last, report, late>>

LateArrival(r) ==
    /\ report' = r /\ late' = late \ {r}
    /\ UNCHANGED <<valid, source, token, call, last, mesh, used>>

\* Also the boot context that expires, and a panic of the jitter that is shared.
Die(n) ==
    /\ \E g \in Threads(n) : call[n][g] # Off
    /\ Event
    /\ Exit(n)
    /\ UNCHANGED <<valid, source, mesh, report, late>>

Thread(n, g) == Accepted(n, g) \/ Rejected(n, g) \/ Store(n, g) \/ Transient(n, g) \/ Refused(n, g)

Next ==
    \/ \E n \in Node :
        \/ Boot(n) \/ FetchTopologyWithRevision(n) \/ reportOnce(n) \/ Issue(n) \/ Die(n)
        \/ \E g \in Threads(n) : Thread(n, g)
    \/ \E N \in SUBSET Node : Rotate(N)
    \/ Change
    \/ \E r \in late : LateArrival(r)

\* Tickers tick, requests time out, the kubelet restarts a process that exited
\* and the identity provider issues the token that is valid.
Spec == Init /\ [][Next]_vars
FairSpec ==
    /\ Spec
    /\ \A n \in Node :
        /\ WF_vars(Boot(n)) /\ WF_vars(Issue(n))
        /\ WF_vars(FetchTopologyWithRevision(n)) /\ WF_vars(reportOnce(n))
        /\ \A g \in Threads(n) : WF_vars(Thread(n, g))

-----------------------------------------------------------------------------
(***************************************************************************)
(* Properties.                                                             *)
(***************************************************************************)
\* The back-off of a call that makes attempts 0..k, each of them once.
Schedule[k \in Nat] == IF k = 0 THEN 0 ELSE Schedule[k - 1] + Wait(k)

\* "a single token refresh re-reading the credential via the token loader [...]
\* with one more attempt": whatever the other threads do to the token, a call
\* sends at most one request more than the policy allows, and sleeps before at
\* most one attempt twice.
CallBounded ==
    \A n \in Node : \A g \in Threads(n) :
        /\ call[n][g].sent <= attempts
        /\ \E k \in 0..attempts - 1 :
              call[n][g].slept <= Schedule[attempts - 1] + Wait(k)

\* "tok != \"\"": a thread that runs has a token, also while the loader has none;
\* FetchTopologyWithRevision and PushEvidence never have to authenticate again.
Authenticated ==
    \A n \in Node : (\E g \in Threads(n) : call[n][g] # Off) => token[n] # NoToken

\* "A token that rotates mid-run recovers without a process restart": when the
\* loaders return the new token, every agent comes to use it and stays with it,
\* in spite of stores of old and of torn tokens.
TokenRecovers == <>[](\A n \in Node : token[n] = valid)

\* "a dropped push self-heals", "concurrent reporters on every node converge
\* harmlessly": in the end the control plane has what the mesh is like, also
\* after reports that were lost, came late or were older than another agent's.
ReportCatchesUp == <>[](report.content = mesh)
=============================================================================
