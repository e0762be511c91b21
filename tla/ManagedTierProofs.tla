------------------------- MODULE ManagedTierProofs --------------------------
(***************************************************************************)
(* The agents of the managed tier.  A call to the control plane stays      *)
(* within its budget, and a thread that calls has a token, for every retry *)
(* policy and any number of agents.  However many agents mirror the        *)
(* topology, whatever they have in their caches and whatever fails, none   *)
(* of them prunes a live peer.                                             *)
(***************************************************************************)
EXTENDS Syncer, ControlPlane, NaturalsInduction, WellFoundedInduction, TLAPS

-----------------------------------------------------------------------------
(***************************************************************************)
(* Functions defined by recursion on a number.                             *)
(***************************************************************************)
\* A non-empty set of numbers has a least one.
LEMMA LeastNumber ==
  ASSUME NEW S, S \subseteq Nat, S # {}
  PROVE  \E i \in S : \A j \in S : i <= j
<1>1. PICK i \in S : \A j \in S : ~(<<j, i>> \in OpToRel(<, Nat))
  BY NatLessThanWellFounded, WFMin, Zenon
<1>2. ASSUME NEW j \in S PROVE i <= j
  <2>1. <<j, i>> \in Nat \X Nat
    BY Zenon
  <2>2. ~(<<j, i>>[1] < <<j, i>>[2])
    BY <1>1, <2>1, Zenon DEF OpToRel
  <2> QED
    BY <2>2
<1> QED
  BY <1>2, Zenon

\* Induction over a set of numbers: what starts at 0 and goes on reaches every number.
LEMMA Induction ==
  ASSUME NEW S, 0 \in S, \A n \in Nat : n \in S => n + 1 \in S
  PROVE  Nat \subseteq S
<1> SUFFICES ASSUME Nat \ S # {} PROVE FALSE
  BY Zenon
<1>1. PICK i \in Nat \ S : \A j \in Nat \ S : i <= j
  BY LeastNumber, Zenon
<1>2. i # 0 /\ i - 1 \in Nat /\ i - 1 \in S
  BY <1>1
<1> QED
  BY <1>1, <1>2

\* The first k + 1 values of the function with first value v and step s.
Begins(V, v, s, k) ==
    {f \in [0..k -> V] : f[0] = v /\ \A i \in 0..k - 1 : f[i + 1] = s[i][f[i]]}

\* All of its values.
Iterates(V, v, s) ==
    {f \in [Nat -> V] : f[0] = v /\ \A n \in Nat : f[n + 1] = s[n][f[n]]}

\* There is such a function.
LEMMA Iteration ==
  ASSUME NEW V, NEW v \in V, NEW s \in [Nat -> [V -> V]]
  PROVE  \E f : f \in Iterates(V, v, s)
<1> DEFINE B(k) == Begins(V, v, s, k)
<1>1. \A k \in Nat : B(k) # {}
  <2> DEFINE S == {k \in Nat : B(k) # {}}
  <2>1. 0 \in S
    <3>1. [i \in 0..0 |-> v] \in B(0)
      BY DEF Begins
    <3> QED
      BY <3>1, Zenon
  <2>2. ASSUME NEW k \in S PROVE k + 1 \in S
    <3>1. PICK f \in [0..k -> V] : f[0] = v /\ \A i \in 0..k - 1 : f[i + 1] = s[i][f[i]]
      BY <2>2, Zenon DEF Begins
    <3> DEFINE g == [i \in 0..k + 1 |-> IF i = k + 1 THEN s[k][f[k]] ELSE f[i]]
    <3>2. g \in [0..k + 1 -> V] /\ g[0] = v
      BY <3>1
    <3>3. \A i \in 0..(k + 1) - 1 : g[i + 1] = s[i][g[i]]
      BY <3>1
    <3> HIDE DEF g
    <3>4. g \in B(k + 1)
      BY <3>2, <3>3, Zenon DEF Begins
    <3> QED
      BY <3>4
  <2> HIDE DEF S
  <2>3. Nat \subseteq S
    BY <2>1, <2>2, Induction, Zenon
  <2> QED
    BY <2>3, Zenon DEF S
<1>2. \A k \in Nat : \A f \in B(k), g \in B(k + 1) : f[k] = g[k]
  <2> SUFFICES ASSUME NEW k \in Nat, NEW f \in B(k), NEW g \in B(k + 1) PROVE f[k] = g[k]
    BY Zenon
  <2> DEFINE S == {i \in Nat : i <= k => f[i] = g[i]}
  <2>1. 0 \in S
    BY Zenon DEF Begins
  <2>2. ASSUME NEW i \in S PROVE i + 1 \in S
    BY <2>2 DEF Begins
  <2> HIDE DEF S
  <2>3. Nat \subseteq S
    BY <2>1, <2>2, Induction, Zenon
  <2> QED
    BY <2>3 DEF S
<1> DEFINE c == [k \in Nat |-> CHOOSE f : f \in B(k)]
           h == [k \in Nat |-> c[k][k]]
<1>3. \A k \in Nat : c[k] \in B(k)
  BY <1>1, Zenon
<1> HIDE DEF c
<1>4. h \in [Nat -> V] /\ h[0] = v
  BY <1>3 DEF Begins
<1>5. ASSUME NEW n \in Nat PROVE h[n + 1] = s[n][h[n]]
  <2>1. c[n] \in B(n) /\ c[n + 1] \in B(n + 1)
    BY <1>3
  <2>2. c[n][n] = c[n + 1][n]
    BY <1>2, <2>1, Zenon
  <2>3. c[n + 1][n + 1] = s[n][c[n + 1][n]]
    BY <2>1 DEF Begins
  <2> QED
    BY <2>2, <2>3
<1> HIDE DEF h
<1>6. h \in Iterates(V, v, s)
  BY <1>4, <1>5, Zenon DEF Iterates
<1> QED
  BY <1>6, Zenon

-----------------------------------------------------------------------------
(***************************************************************************)
(* The back-off.                                                           *)
(***************************************************************************)
\* Durations; a name that keeps the provers from computing with them.
Duration == Nat

\* One doubling of the delay.
Doubled(b) ==
    IF (MaxDelay > 0 /\ 2 * b >= MaxDelay) \/ 2 * b > MaxDuration THEN MaxDelay ELSE 2 * b

\* RetryPolicy.backoff returns a delay for every attempt, at most MaxDelay when
\* there is one.
LEMMA BackoffCapped ==
  /\ backoff \in [Nat -> Nat]
  /\ MaxDelay > 0 => \A i \in Nat : backoff[i] <= MaxDelay
<1> DEFINE first == IF MaxDelay > 0 /\ BaseDelay > MaxDelay THEN MaxDelay ELSE BaseDelay
           step == [n \in Nat |-> [b \in Nat |-> Doubled(b)]]
           D(f) == [i \in Nat |-> IF i = 0 THEN first ELSE Doubled(f[i - 1])]
<1>1. first \in Nat /\ step \in [Nat -> [Nat -> Nat]]
  BY RetryAssumption DEF Doubled
<1>11. first \in Duration /\ step \in [Nat -> [Duration -> Duration]]
  BY <1>1, Zenon DEF Duration
<1> HIDE DEF first, step
<1>2. PICK f \in [Nat -> Duration] : f[0] = first /\ \A n \in Nat : f[n + 1] = step[n][f[n]]
  <2>1. PICK f : f \in Iterates(Duration, first, step)
    BY <1>11, Iteration, Zenon
  <2> QED
    BY <2>1, Zenon DEF Iterates
<1> USE DEF first, step, Duration
<1>3. f = D(f)
  <2>1. ASSUME NEW i \in Nat PROVE f[i] = D(f)[i]
    <3>1. CASE i = 0
      BY <3>1, <1>2, Zenon
    <3>2. CASE i # 0
      <4>1. i - 1 \in Nat /\ i = (i - 1) + 1
        BY <3>2
      <4>2. f[i] = step[i - 1][f[i - 1]]
        BY <1>2, <4>1, Zenon
      <4> QED
        BY <1>2, <3>2, <4>1, <4>2, Zenon
    <3> QED
      BY <3>1, <3>2, Zenon
  <2> QED
    BY <2>1, <1>2, Zenon
<1>4. backoff = CHOOSE g : g = D(g)
  BY Zenon DEF backoff, Doubled
<1>5. backoff = D(backoff)
  BY <1>3, <1>4, Zenon
<1>6. /\ backoff[0] = first
      /\ \A n \in Nat : backoff[n + 1] = Doubled(backoff[n])
  BY <1>5
<1> DEFINE S == {i \in Nat : backoff[i] \in Nat /\ (MaxDelay > 0 => backoff[i] <= MaxDelay)}
<1>7. 0 \in S
  BY <1>1, <1>6, RetryAssumption
<1>8. ASSUME NEW n \in S PROVE n + 1 \in S
  BY <1>6, <1>8, RetryAssumption DEF Doubled
<1> HIDE DEF S, D
<1>9. Nat \subseteq S
  BY <1>7, <1>8, Induction, Zenon
<1>10. backoff = [i \in Nat |-> backoff[i]]
  BY <1>5, Zenon DEF D
<1> QED
  BY <1>9, <1>10, Zenon DEF S

\* The schedule adds up, and never shrinks.
LEMMA ScheduleGrows ==
  /\ \A k \in Nat : Schedule[k] \in Nat /\ Wait(k) \in Nat
  /\ Schedule[0] = 0
  /\ \A k \in Nat : Schedule[k + 1] = Schedule[k] + Wait(k + 1)
  /\ \A k, m \in Nat : k <= m => Schedule[k] <= Schedule[m]
<1> DEFINE step == [n \in Nat |-> [b \in Nat |-> b + Wait(n + 1)]]
           D(f) == [k \in Nat |-> IF k = 0 THEN 0 ELSE f[k - 1] + Wait(k)]
<1>1. \A k \in Nat : Wait(k) \in Nat
  BY BackoffCapped DEF Wait
<1>2. step \in [Nat -> [Nat -> Nat]]
  BY <1>1
<1>10. 0 \in Duration /\ step \in [Nat -> [Duration -> Duration]]
  BY <1>2, Zenon DEF Duration
<1> HIDE DEF step
<1>3. PICK f \in [Nat -> Duration] : f[0] = 0 /\ \A n \in Nat : f[n + 1] = step[n][f[n]]
  <2>1. PICK f : f \in Iterates(Duration, 0, step)
    BY <1>10, Iteration, Zenon
  <2> QED
    BY <2>1, Zenon DEF Iterates
<1> USE DEF step, Duration
<1>4. f = D(f)
  <2>1. ASSUME NEW i \in Nat PROVE f[i] = D(f)[i]
    <3>1. CASE i = 0
      BY <3>1, <1>3, Zenon
    <3>2. CASE i # 0
      <4>1. i - 1 \in Nat /\ i = (i - 1) + 1
        BY <3>2
      <4>2. f[i] = step[i - 1][f[i - 1]]
        BY <1>3, <4>1, Zenon
      <4> QED
        BY <1>3, <3>2, <4>1, <4>2, Zenon
    <3> QED
      BY <3>1, <3>2, Zenon
  <2> QED
    BY <2>1, <1>3, Zenon
<1>5. Schedule = CHOOSE g : g = D(g)
  BY Zenon DEF Schedule
<1>6. Schedule = D(Schedule)
  BY <1>4, <1>5, Zenon
<1>7. Schedule[0] = 0 /\ \A n \in Nat : Schedule[n + 1] = Schedule[n] + Wait(n + 1)
  BY <1>6
<1> HIDE DEF D
<1>8. \A k \in Nat : Schedule[k] \in Nat
  <2> DEFINE S == {k \in Nat : Schedule[k] \in Nat}
  <2>1. 0 \in S /\ \A n \in Nat : n \in S => n + 1 \in S
    BY <1>1, <1>7
  <2> HIDE DEF S
  <2>2. Nat \subseteq S
    BY <2>1, Induction, Zenon
  <2> QED
    BY <2>2, Zenon DEF S
<1>9. ASSUME NEW k \in Nat PROVE \A m \in Nat : k <= m => Schedule[k] <= Schedule[m]
  <2> DEFINE S == {m \in Nat : k <= m => Schedule[k] <= Schedule[m]}
  <2>1. 0 \in S
    BY <1>8
  <2>2. ASSUME NEW m \in S PROVE m + 1 \in S
    <3>1. /\ Schedule[m + 1] = Schedule[m] + Wait(m + 1)
          /\ Wait(m + 1) \in Nat /\ Schedule[m] \in Nat /\ Schedule[k] \in Nat
      BY <1>1, <1>7, <1>8
    <3> QED
      BY <3>1
  <2> HIDE DEF S
  <2>3. Nat \subseteq S
    BY <2>1, <2>2, Induction, Zenon
  <2> QED
    BY <2>3, Zenon DEF S
<1> QED
  BY <1>1, <1>7, <1>8, <1>9, Zenon

-----------------------------------------------------------------------------
(***************************************************************************)
(* The invariant.                                                          *)
(***************************************************************************)
Body == [content : {"none", "up", "down"}, at : {0, 1}]
Call ==
    [pc : {"off", "idle", "ready", "store"}, attempt : Nat, refreshed : BOOLEAN,
     sent : Nat, slept : Nat, load : Nat, body : Body]

\* What a call has used of its budget: every attempt so far once, and the one it
\* was at when it refreshed the token twice.
Budget(c) ==
    /\ c.attempt < attempts
    /\ c.pc = "store" => c.refreshed
    /\ IF c.refreshed /\ c.pc # "store"
       THEN /\ c.sent = c.attempt + 1
            /\ \E k \in 0..c.attempt : c.slept = Schedule[c.attempt] + Wait(k)
       ELSE c.sent = c.attempt /\ c.slept = Schedule[c.attempt]

\* The calls of every thread are within their budget.
Calls ==
    /\ call = [n \in Node |-> call[n]]
    /\ \A n \in Node : call[n] \in [Threads(n) -> Call]
    /\ \A n \in Node : \A g \in Threads(n) : Budget(call[n][g])

Values ==
    /\ valid \in Nat
    /\ source \in [Node -> Nat]
    /\ token \in [Node -> Nat]
    /\ last \in [Node -> Body]
    /\ mesh \in {"up", "down"}

\* What makes CallBounded and Authenticated inductive.
CallInv == Calls /\ Values /\ Authenticated

LEMMA Attempts == attempts \in Nat /\ attempts > 0
  BY RetryAssumption DEF attempts

\* A call that starts, and the two records of a thread that is in none.
LEMMA Fresh ==
  /\ \A b \in Body : Calling(b) \in Call /\ Budget(Calling(b))
  /\ Never \in Body
  /\ Off \in Call /\ Budget(Off)
  /\ Idle \in Call /\ Budget(Idle)
<1>1. Never \in Body
  BY Zenon DEF Never, Body
<1>3. ASSUME NEW b \in Body, NEW pc \in {"off", "idle", "ready"}
      PROVE  /\ [Calling(b) EXCEPT !.pc = pc] \in Call
             /\ Budget([Calling(b) EXCEPT !.pc = pc])
  <2> DEFINE d == [Calling(b) EXCEPT !.pc = pc]
  <2>1. /\ d \in Call /\ d.pc = pc /\ d.attempt = 0 /\ ~d.refreshed
        /\ d.sent = 0 /\ d.slept = 0
    BY Zenon DEF Calling, Call, NoToken
  <2> HIDE DEF d
  <2>2. Budget(d)
    BY <2>1, Attempts, ScheduleGrows, Zenon DEF Budget
  <2> QED
    BY <2>1, <2>2, Zenon DEF d
<1>4. ASSUME NEW b \in Body PROVE Calling(b) \in Call /\ Budget(Calling(b))
  <2>1. /\ Calling(b) \in Call /\ Calling(b).pc = "ready" /\ Calling(b).attempt = 0
        /\ ~Calling(b).refreshed /\ Calling(b).sent = 0 /\ Calling(b).slept = 0
    BY Zenon DEF Calling, Call, NoToken
  <2> QED
    BY <2>1, Attempts, ScheduleGrows, Zenon DEF Budget
<1> QED
  BY <1>1, <1>3, <1>4, Zenon DEF Off, Idle

\* The record of a call that goes round again.
LEMMA AgainCall ==
  ASSUME NEW c \in Call, NEW attempt \in Nat
  PROVE  /\ Again(c, attempt) \in Call
         /\ Again(c, attempt).pc = "ready"
         /\ Again(c, attempt).attempt = attempt
         /\ Again(c, attempt).refreshed = c.refreshed
         /\ Again(c, attempt).sent = c.sent + 1
         /\ Again(c, attempt).slept = c.slept + Wait(attempt)
<1> DEFINE m == c.sent + 1
           w == c.slept + Wait(attempt)
<1>1. m \in Nat /\ w \in Nat
  <2>1. c.sent \in Nat /\ c.slept \in Nat
    BY Zenon DEF Call
  <2>2. Wait(attempt) \in Nat
    BY ScheduleGrows, Zenon
  <2> QED
    BY <2>1, <2>2
<1>2. Again(c, attempt) =
        [c EXCEPT !.pc = "ready", !.attempt = attempt, !.sent = m, !.slept = w]
  BY Zenon DEF Again
<1> HIDE DEF m, w
<1>3. /\ Again(c, attempt) \in Call
      /\ Again(c, attempt).pc = "ready"
      /\ Again(c, attempt).attempt = attempt
      /\ Again(c, attempt).refreshed = c.refreshed
      /\ Again(c, attempt).sent = m
      /\ Again(c, attempt).slept = w
  BY <1>1, <1>2, ZenonT(30) DEF Call
<1> QED
  BY <1>3, Zenon DEF m, w

\* A call that fails for the time being has one attempt less.
LEMMA RetryBudget ==
  ASSUME NEW c \in Call, Budget(c), c.pc = "ready", c.attempt + 1 < attempts
  PROVE  Again(c, c.attempt + 1) \in Call /\ Budget(Again(c, c.attempt + 1))
<1>1. c.attempt \in Nat /\ c.sent \in Nat /\ c.slept \in Nat
  BY Zenon DEF Call
<1> DEFINE next == c.attempt + 1
           d == Again(c, next)
<1>2. /\ Schedule[next] = Schedule[c.attempt] + Wait(next)
      /\ Wait(next) \in Nat /\ Schedule[c.attempt] \in Nat /\ \A k \in Nat : Wait(k) \in Nat
      /\ next \in Nat
  <2>1. next \in Nat
    BY <1>1
  <2>2. Schedule[c.attempt + 1] = Schedule[c.attempt] + Wait(c.attempt + 1)
    BY <1>1, ScheduleGrows, Zenon
  <2> QED
    BY <1>1, <2>1, <2>2, ScheduleGrows, Zenon
<1> HIDE DEF next
<1>3. /\ d \in Call
      /\ d.pc = "ready" /\ d.attempt = next /\ d.refreshed = c.refreshed
      /\ d.sent = c.sent + 1 /\ d.slept = c.slept + Wait(next)
  BY <1>2, AgainCall, Zenon
<1> HIDE DEF d
<1>5. CASE c.refreshed
  <2>1. PICK k \in 0..c.attempt : c.slept = Schedule[c.attempt] + Wait(k)
    BY <1>5, Zenon DEF Budget
  <2>2. k \in 0..d.attempt /\ d.slept = Schedule[d.attempt] + Wait(k)
    BY <1>1, <1>2, <1>3, <2>1 DEF next
  <2>3. d.sent = d.attempt + 1 /\ d.attempt < attempts
    BY <1>1, <1>3, <1>5, Zenon DEF Budget, next
  <2>4. Budget(d)
    BY <1>3, <1>5, <2>2, <2>3, Zenon DEF Budget
  <2> QED
    BY <1>3, <2>4, Zenon DEF d, next
<1>6. CASE ~c.refreshed
  <2>1. d.attempt < attempts /\ d.sent = d.attempt /\ d.slept = Schedule[d.attempt]
    BY <1>1, <1>2, <1>3, <1>6, Zenon DEF Budget, next
  <2>2. Budget(d)
    BY <1>3, <1>6, <2>1, Zenon DEF Budget
  <2> QED
    BY <1>3, <2>2, Zenon DEF d, next
<1> QED
  BY <1>5, <1>6, Zenon

\* A refresh is of the first request that is turned away.
LEMMA RefreshBudget ==
  ASSUME NEW c \in Call, Budget(c), c.pc = "ready", isRefresh(c), NEW t \in Nat
  PROVE  LET d == [c EXCEPT !.pc = "store", !.refreshed = TRUE, !.load = t]
         IN  d \in Call /\ Budget(d)
  BY Zenon DEF Call, Budget, isRefresh

\* The attempt that is repeated costs a request and its back-off once more.
LEMMA StoreBudget ==
  ASSUME NEW c \in Call, Budget(c), c.pc = "store"
  PROVE  LET d == Again([c EXCEPT !.load = NoToken], c.attempt)
         IN  d \in Call /\ Budget(d)
<1> DEFINE b == [c EXCEPT !.load = NoToken]
           d == Again(b, c.attempt)
<1>1. /\ c.attempt \in Nat /\ c.sent \in Nat /\ c.slept \in Nat
      /\ b \in Call /\ b.sent = c.sent /\ b.slept = c.slept /\ b.refreshed = c.refreshed
  BY Zenon DEF Call, NoToken
<1> HIDE DEF b
<1>2. /\ d \in Call
      /\ d.pc = "ready" /\ d.attempt = c.attempt /\ d.refreshed = c.refreshed
      /\ d.sent = c.sent + 1 /\ d.slept = c.slept + Wait(c.attempt)
  <2>1. /\ d \in Call
        /\ d.pc = "ready" /\ d.attempt = c.attempt /\ d.refreshed = b.refreshed
        /\ d.sent = b.sent + 1 /\ d.slept = b.slept + Wait(c.attempt)
    BY <1>1, AgainCall, ZenonT(30)
  <2> QED
    BY <1>1, <2>1, Zenon
<1> HIDE DEF d
<1>3. c.attempt \in 0..c.attempt
  BY <1>1
<1>4. c.refreshed /\ c.sent = c.attempt /\ c.slept = Schedule[c.attempt] /\ c.attempt < attempts
  BY Zenon DEF Budget
<1>5. Budget(d)
  BY <1>2, <1>3, <1>4, Zenon DEF Budget
<1> QED
  BY <1>2, <1>5, Zenon DEF b, d

-----------------------------------------------------------------------------
(***************************************************************************)
(* The steps.                                                              *)
(***************************************************************************)
\* A thread of n enters a call, or a step of one.
LEMMA PutCalls ==
  ASSUME Calls, NEW n \in Node, NEW g \in Threads(n), NEW c \in Call, Budget(c), Put(n, g, c)
  PROVE  /\ Calls'
         /\ \A m \in Node : \A h \in Threads(m) : m # n => call'[m][h] = call[m][h]
         /\ \A h \in Threads(n) : h # g => call'[n][h] = call[n][h]
         /\ call'[n][g] = c
<1>1. /\ call' = [call EXCEPT ![n][g] = c] /\ DOMAIN call = Node /\ DOMAIN call[n] = Threads(n)
      /\ call[n] \in [Threads(n) -> Call]
  BY Zenon DEF Put, Calls
<1>2. /\ call' = [m \in Node |-> IF m = n THEN [call[n] EXCEPT ![g] = c] ELSE call[m]]
      /\ DOMAIN call' = Node
  BY <1>1, Zenon
<1>3. call'[n] = [call[n] EXCEPT ![g] = c] /\ \A m \in Node : m # n => call'[m] = call[m]
  BY <1>2, Zenon
<1>4. call'[n] \in [Threads(n) -> Call] /\ \A h \in Threads(n) : Budget(call'[n][h])
  BY <1>1, <1>3, Zenon DEF Calls
<1>5. Calls'
  BY <1>2, <1>3, <1>4, ZenonT(30) DEF Calls, Threads
<1> QED
  BY <1>1, <1>3, <1>5, Zenon

\* All threads of n change, as when the process exits.
LEMMA AllCalls ==
  ASSUME Calls, NEW n \in Node, NEW f \in [Threads(n) -> Call],
         \A g \in Threads(n) : Budget(f[g]), call' = [call EXCEPT ![n] = f]
  PROVE  /\ Calls'
         /\ \A m \in Node : m # n => call'[m] = call[m]
         /\ call'[n] = f
<1>1. DOMAIN call = Node
  BY Zenon DEF Calls
<1>2. call' = [m \in Node |-> IF m = n THEN f ELSE call[m]]
  BY <1>1, Zenon
<1> QED
  BY <1>2, Zenon DEF Calls

LEMMA ExitInv ==
  ASSUME CallInv, NEW n \in Node, Exit(n), UNCHANGED <<valid, source, mesh>>
  PROVE  CallInv'
<1> DEFINE f == [g \in Threads(n) |-> Off]
<1>1. f \in [Threads(n) -> Call] /\ \A g \in Threads(n) : Budget(f[g]) /\ f[g] = Off
  BY Fresh, Zenon
<1>2. call' = [call EXCEPT ![n] = f]
  BY Zenon DEF Exit
<1> HIDE DEF f
<1>3. /\ Calls'
      /\ \A m \in Node : m # n => call'[m] = call[m]
      /\ call'[n] = f
  BY <1>1, <1>2, AllCalls, Zenon DEF CallInv
<1>4. Values'
  BY Fresh, Zenon DEF CallInv, Values, Exit, NoToken
<1>5. \A m \in Node : m # n => token'[m] = token[m]
  BY Zenon DEF Exit, CallInv, Values
<1>6. Authenticated'
  BY <1>1, <1>3, <1>5 DEF CallInv, Authenticated, Threads
<1> QED
  BY <1>3, <1>4, <1>6, Zenon DEF CallInv

\* A step that only moves one thread on, of a process with a token.
LEMMA PutInv ==
  ASSUME CallInv, NEW n \in Node, NEW g \in Threads(n), NEW c \in Call, Budget(c),
         Put(n, g, c), token[n] # NoToken, UNCHANGED <<token, last>>,
         UNCHANGED <<valid, source, mesh>>
  PROVE  CallInv'
<1>1. /\ Calls'
      /\ \A m \in Node : \A h \in Threads(m) : m # n => call'[m][h] = call[m][h]
  BY PutCalls, Zenon DEF CallInv
<1>2. Authenticated'
  BY <1>1, Zenon DEF CallInv, Authenticated, Threads
<1> QED
  BY <1>1, <1>2, Zenon DEF CallInv, Values

LEMMA FailInv ==
  ASSUME CallInv, NEW n \in Node, NEW g \in Threads(n), Fail(n, g), token[n] # NoToken,
         UNCHANGED <<valid, source, mesh>>
  PROVE  CallInv'
<1>1. CASE g = "boot"
  BY <1>1, ExitInv, Zenon DEF Fail
<1>2. CASE g # "boot"
  BY <1>2, PutInv, Fresh, Zenon DEF Fail
<1> QED
  BY <1>1, <1>2, Zenon

\* A thread in a call has a record in its budget, and a token.
LEMMA InCall ==
  ASSUME CallInv, NEW n \in Node, NEW g \in Threads(n), call[n][g].pc \in {"ready", "store"}
  PROVE  call[n][g] \in Call /\ Budget(call[n][g]) /\ token[n] # NoToken
<1>1. Off.pc = "off"
  BY Zenon DEF Off, Calling
<1> QED
  BY <1>1, Zenon DEF CallInv, Calls, Authenticated

LEMMA BootInv ==
  ASSUME CallInv, NEW n \in Node, Boot(n)
  PROVE  CallInv'
<1>1. "boot" \in Threads(n)
  BY Zenon DEF Threads
<1>2. Put(n, "boot", Calling(Never)) /\ token' = [token EXCEPT ![n] = source[n]]
      /\ source[n] # NoToken /\ UNCHANGED <<valid, source, last, mesh>>
  BY Zenon DEF Boot
<1>3. /\ Calls'
      /\ \A m \in Node : \A h \in Threads(m) : m # n => call'[m][h] = call[m][h]
  BY <1>1, <1>2, PutCalls, Fresh, Zenon DEF CallInv
<1>4. Values'
  BY <1>2, Zenon DEF CallInv, Values
<1>5. Authenticated'
  BY <1>2, <1>3, Zenon DEF CallInv, Values, Authenticated, Threads
<1> QED
  BY <1>3, <1>4, <1>5, Zenon DEF CallInv

\* The two loops: a thread that runs starts a call.
LEMMA StartInv ==
  ASSUME CallInv, NEW n \in Node, FetchTopologyWithRevision(n) \/ reportOnce(n)
  PROVE  CallInv'
<1>1. PICK g \in {"sync", "evidence"}, b \in Body :
           /\ g \in Threads(n) /\ call[n][g] = Idle /\ Put(n, g, Calling(b))
           /\ UNCHANGED <<token, last>> /\ UNCHANGED <<valid, source, mesh>>
  <2>1. CASE FetchTopologyWithRevision(n)
    BY <2>1, Fresh, Zenon DEF FetchTopologyWithRevision, Threads
  <2>2. CASE reportOnce(n)
    <3>1. BuildEvidence(n) \in Body
      BY DEF BuildEvidence, CallInv, Values, Body
    <3> QED
      BY <2>2, <3>1, Zenon DEF reportOnce, Threads
  <2> QED
    BY <2>1, <2>2, Zenon
<1>2. Idle # Off
  <2>1. Idle.pc = "idle" /\ Off.pc = "off"
    BY Zenon DEF Idle, Off, Calling
  <2> QED
    BY <2>1, Zenon
<1>3. token[n] # NoToken
  BY <1>1, <1>2, Zenon DEF CallInv, Authenticated
<1> QED
  BY <1>1, <1>3, PutInv, Fresh, Zenon

LEMMA AcceptedInv ==
  ASSUME CallInv, NEW n \in Node, NEW g \in Threads(n), Accepted(n, g)
  PROVE  CallInv'
<1>1. /\ call[n][g].pc = "ready" /\ UNCHANGED <<valid, source, mesh, token>> /\ Succeed(n, g)
      /\ call[n][g] \in Call /\ token[n] # NoToken
  BY InCall, Zenon DEF Accepted, Succeed
<1>2. Values'
  <2>1. call[n][g].body \in Body
    BY <1>1, Zenon DEF Call
  <2> QED
    BY <1>1, <2>1, Zenon DEF CallInv, Values, Succeed
<1>3. Calls' /\ \A m \in Node : \A h \in Threads(m) : m # n => call'[m][h] = call[m][h]
  <2>1. CASE g = "boot"
    <3> DEFINE f == [h \in Threads(n) |-> IF h = "boot" THEN Off ELSE Idle]
    <3>1. f \in [Threads(n) -> Call] /\ \A h \in Threads(n) : f[h] = Off \/ f[h] = Idle
      BY Fresh, Zenon
    <3>3. \A h \in Threads(n) : Budget(f[h])
      BY <3>1, Fresh, Zenon
    <3>2. call' = [call EXCEPT ![n] = f]
      BY <1>1, <2>1, Zenon DEF Succeed
    <3> HIDE DEF f
    <3>4. Calls
      BY Zenon DEF CallInv
    <3>5. Calls' /\ \A m \in Node : m # n => call'[m] = call[m]
      BY <3>1, <3>2, <3>3, <3>4, AllCalls, ZenonT(30)
    <3> QED
      BY <3>5, Zenon
  <2>2. CASE g # "boot"
    <3>1. Put(n, g, Idle)
      BY <1>1, <2>2, Zenon DEF Succeed, Put
    <3> QED
      BY <3>1, PutCalls, Fresh, Zenon DEF CallInv
  <2> QED
    BY <2>1, <2>2, Zenon
<1>4. Authenticated'
  BY <1>1, <1>3, Zenon DEF CallInv, Authenticated, Threads
<1> QED
  BY <1>2, <1>3, <1>4, Zenon DEF CallInv

LEMMA RejectedInv ==
  ASSUME CallInv, NEW n \in Node, NEW g \in Threads(n), Rejected(n, g)
  PROVE  CallInv'
<1> DEFINE c == call[n][g]
           d == [c EXCEPT !.pc = "store", !.refreshed = TRUE, !.load = source[n]]
<1>1. /\ c.pc = "ready" /\ UNCHANGED <<valid, source, mesh>>
      /\ c \in Call /\ Budget(c) /\ token[n] # NoToken /\ source[n] \in Nat
  BY InCall, Zenon DEF Rejected, CallInv, Values
<1>2. CASE isRefresh(c)
  <2>1. Put(n, g, d) /\ UNCHANGED <<token, last>>
    BY <1>2, SMTT(30) DEF Rejected
  <2>2. d \in Call /\ Budget(d)
    BY <1>1, <1>2, RefreshBudget, Zenon
  <2> HIDE DEF d
  <2> QED
    BY <1>1, <2>1, <2>2, PutInv, Zenon
<1>3. CASE ~isRefresh(c)
  BY <1>1, <1>3, FailInv, Zenon DEF Rejected
<1> QED
  BY <1>2, <1>3, Zenon

\* A store never takes the token away: an empty load is not stored.
LEMMA StoreInv ==
  ASSUME CallInv, NEW n \in Node, NEW g \in Threads(n), Store(n, g)
  PROVE  CallInv'
<1> DEFINE c == call[n][g]
           d == Again([c EXCEPT !.load = NoToken], c.attempt)
<1>1. /\ c.pc = "store" /\ UNCHANGED <<valid, source, mesh, last>>
      /\ c \in Call /\ Budget(c) /\ token[n] # NoToken
  BY InCall, Zenon DEF Store
<1>2. PICK t \in Stored(n, g) : token' = [token EXCEPT ![n] = t]
  BY Zenon DEF Store
<1>3. t \in Nat /\ t # NoToken
  <2>1. Torn \in Nat /\ Torn # NoToken
    BY RetryAssumption DEF Torn, NoToken
  <2>2. c.load \in Nat /\ token[n] \in Nat
    BY <1>1, Zenon DEF Call, CallInv, Values
  <2> QED
    BY <1>1, <2>1, <2>2, Zenon DEF Stored
<1>4. d \in Call /\ Budget(d)
  BY <1>1, StoreBudget, Zenon
<1>5. Put(n, g, d)
  BY Zenon DEF Store
<1> HIDE DEF c, d
<1>6. Calls' /\ \A m \in Node : \A h \in Threads(m) : m # n => call'[m][h] = call[m][h]
  BY <1>4, <1>5, PutCalls, Zenon DEF CallInv
<1>7. Values'
  BY <1>1, <1>2, <1>3, Zenon DEF CallInv, Values
<1>8. Authenticated'
  BY <1>2, <1>3, <1>6, Zenon DEF CallInv, Values, Authenticated, Threads
<1> QED
  BY <1>6, <1>7, <1>8, Zenon DEF CallInv

LEMMA TransientInv ==
  ASSUME CallInv, NEW n \in Node, NEW g \in Threads(n), Transient(n, g)
  PROVE  CallInv'
<1> DEFINE c == call[n][g]
           d == Again(c, c.attempt + 1)
<1>1. /\ c.pc = "ready" /\ UNCHANGED <<valid, source, mesh>> /\ Retry(n, g)
      /\ c \in Call /\ Budget(c) /\ token[n] # NoToken
  BY InCall, Zenon DEF Transient
<1>2. CASE c.attempt + 1 < attempts
  <2>1. Put(n, g, d) /\ UNCHANGED <<token, last>>
    BY <1>1, <1>2, Zenon DEF Retry
  <2>2. d \in Call /\ Budget(d)
    BY <1>1, <1>2, RetryBudget, SMTT(30)
  <2> HIDE DEF c, d
  <2> QED
    BY <1>1, <2>1, <2>2, PutInv, Zenon
<1>3. CASE ~(c.attempt + 1 < attempts)
  BY <1>1, <1>3, FailInv, Zenon DEF Retry
<1> QED
  BY <1>2, <1>3, Zenon

LEMMA CallStep == CallInv /\ [Next]_vars => CallInv'
<1> SUFFICES ASSUME CallInv, [Next]_vars PROVE CallInv'
  BY Zenon
<1>1. ASSUME NEW n \in Node, Issue(n) PROVE CallInv'
  BY <1>1, Zenon DEF Issue, CallInv, Calls, Values, Authenticated, Threads
<1>2. ASSUME NEW n \in Node, Die(n) PROVE CallInv'
  BY <1>2, ExitInv, Zenon DEF Die
<1>3. ASSUME NEW n \in Node, NEW g \in Threads(n), Thread(n, g) PROVE CallInv'
  <2>1. CASE Refused(n, g)
    BY <2>1, InCall, FailInv, Zenon DEF Refused
  <2> QED
    BY <1>3, <2>1, AcceptedInv, RejectedInv, StoreInv, TransientInv, Zenon DEF Thread
<1>4. ASSUME NEW N \in SUBSET Node, Rotate(N) PROVE CallInv'
  <2>1. /\ UNCHANGED <<token, call, last, mesh>> /\ valid' = valid + 1
        /\ source' = [n \in Node |-> IF n \in N THEN 0 ELSE source[n]]
    BY <1>4, Zenon DEF Rotate, NoToken
  <2>2. Values'
    BY <2>1 DEF CallInv, Values
  <2> QED
    BY <2>1, <2>2, Zenon DEF CallInv, Calls, Authenticated, Threads
<1>5. CASE Change
  BY <1>5, Zenon DEF Change, CallInv, Calls, Values, Authenticated, Threads
<1>6. ASSUME NEW r \in late, LateArrival(r) PROVE CallInv'
  BY <1>6, Zenon DEF LateArrival, CallInv, Calls, Values, Authenticated, Threads
<1>7. CASE UNCHANGED vars
  BY <1>7, Zenon DEF vars, CallInv, Calls, Values, Authenticated, Threads
<1> QED
  BY <1>1, <1>2, <1>3, <1>4, <1>5, <1>6, <1>7, BootInv, StartInv, Zenon DEF Next

LEMMA CallInit == Init => CallInv
<1> SUFFICES ASSUME Init PROVE CallInv
  BY Zenon
<1>1. call = [n \in Node |-> [g \in Threads(n) |-> Off]]
  BY Zenon DEF Init
<1>2. Calls
  BY <1>1, Fresh, Zenon DEF Calls
<1>3. Values
  BY Fresh, Zenon DEF Init, Values, NoToken
<1>4. Authenticated
  BY <1>1, Zenon DEF Authenticated
<1> QED
  BY <1>2, <1>3, <1>4, Zenon DEF CallInv

\* CallBounded: a call of authorizedDo sends at most one request more than MaxAttempts
\* and sleeps before at most one attempt twice, for every retry policy, although the
\* refresh takes a step back in the loop and other threads replace the token.
THEOREM CallsAreBounded == Spec => []CallBounded
<1>1. CallInv => CallBounded
  <2> SUFFICES ASSUME CallInv, NEW n \in Node, NEW g \in Threads(n)
               PROVE  /\ call[n][g].sent <= attempts
                      /\ \E k \in 0..attempts - 1 :
                            call[n][g].slept <= Schedule[attempts - 1] + Wait(k)
    BY Zenon DEF CallBounded
  <2> DEFINE c == call[n][g]
  <2>1. Budget(c) /\ c.attempt \in Nat /\ c.sent \in Nat /\ c.slept \in Nat
    BY Zenon DEF CallInv, Calls, Call
  <2>2. attempts \in Nat /\ c.attempt <= attempts - 1 /\ attempts - 1 \in Nat
    BY <2>1, Attempts DEF Budget
  <2>3. /\ Schedule[c.attempt] <= Schedule[attempts - 1]
        /\ Schedule[c.attempt] \in Nat /\ Schedule[attempts - 1] \in Nat
    BY <2>1, <2>2, ScheduleGrows, Zenon
  <2>4. \A k \in Nat : Wait(k) \in Nat
    BY ScheduleGrows, Zenon
  <2> HIDE DEF c
  <2>5. c.sent <= attempts
    BY <2>1, <2>2 DEF Budget
  <2>6. \E k \in 0..c.attempt : c.slept <= Schedule[c.attempt] + Wait(k)
    <3>1. CASE c.refreshed /\ c.pc # "store"
      <4>1. PICK k \in 0..c.attempt : c.slept = Schedule[c.attempt] + Wait(k)
        BY <2>1, <3>1, Zenon DEF Budget
      <4>2. Wait(k) \in Nat
        BY <2>1, <2>4
      <4> QED
        BY <2>1, <2>3, <4>1, <4>2
    <3>2. CASE ~(c.refreshed /\ c.pc # "store")
      <4>1. c.slept = Schedule[c.attempt] /\ Wait(0) \in Nat
        BY <2>1, <2>4, <3>2, Zenon DEF Budget
      <4> QED
        BY <2>1, <2>3, <4>1
    <3> QED
      BY <3>1, <3>2, Zenon
  <2>7. PICK k \in 0..c.attempt : c.slept <= Schedule[c.attempt] + Wait(k)
    BY <2>6, Zenon
  <2>8. k \in 0..attempts - 1 /\ Wait(k) \in Nat
    BY <2>1, <2>2, <2>4
  <2>9. c.slept <= Schedule[attempts - 1] + Wait(k)
    BY <2>1, <2>3, <2>7, <2>8
  <2> QED
    BY <2>5, <2>8, <2>9, Zenon DEF c
<1> QED
  BY <1>1, CallInit, CallStep, PTL DEF Spec

\* Authenticated: from Authenticate on, a process has a token as long as any of its
\* threads runs, also while the token loader has none to give.
THEOREM ThreadsAuthenticated == Spec => []Authenticated
<1>1. CallInv => Authenticated
  BY Zenon DEF CallInv
<1> QED
  BY <1>1, CallInit, CallStep, PTL DEF Spec

-----------------------------------------------------------------------------
(***************************************************************************)
(* The topology syncer: no live peer is pruned.                            *)
(***************************************************************************)
\* The peers that every topology so far has had, as objects.
Live == {SanitizeName[c] : c \in constant \ {LocalClusterID}}

\* What an agent in the middle of a pass knows of cluster c: until all upserts are
\* through its name is still to come, and it is not among what prune deletes.
Spared(s, c) ==
    /\ s.pc = "upsert" => c \in s.todo \/ ~s.ok \/ SanitizeName[c] \in s.desired
    /\ s.pc = "prune" => SanitizeName[c] \notin s.stale

\* A pass upserts peers of the topology it fetched.
Coherent(s) ==
    /\ s.pc # "idle" => s.got \in Topology
    /\ IF s.pc = "upsert" THEN s.todo \subseteq Advertised(s.got) ELSE s.todo = {}

SyncerTypeOK ==
    /\ topology \in Topology
    /\ api \in [Name -> Object \cup {Absent}]
    /\ cache \in [Agent -> [Name -> Object \cup {Absent}]]
    /\ fresh \in [Agent -> [Name -> BOOLEAN]]
    /\ sync \in [Agent -> Pass]
    /\ constant \subseteq Cluster

\* What makes LivePeerKept inductive.
KeptInv ==
    /\ SyncerTypeOK
    /\ constant \subseteq Advertised(topology)
    /\ \A n \in Agent, p \in Name : fresh[n][p] => cache[n][p] = api[p]
    /\ \A n \in Agent : Coherent(sync[n])
    /\ \A n \in Agent, c \in constant \ {LocalClusterID} : Spared(sync[n], c)
    /\ \A p \in Live : api[p] # Absent => ~api[p].deleting

\* What a step does to the objects of live peers: LivePeerKept says this of all steps.
Keeps ==
    \A c \in constant' \ {LocalClusterID} :
        LET p == SanitizeName[c] IN
        api[p] # Absent => api'[p] # Absent /\ ~api'[p].deleting

\* A write changes one object, and every cached copy of it is outdated by it.
LEMMA WriteObject ==
  ASSUME KeptInv, NEW p \in Name, NEW obj \in Object \cup {Absent}, Write(p, obj),
         UNCHANGED cache
  PROVE  /\ api' \in [Name -> Object \cup {Absent}]
         /\ fresh' \in [Agent -> [Name -> BOOLEAN]]
         /\ \A n \in Agent, q \in Name : fresh'[n][q] => cache'[n][q] = api'[q]
         /\ api'[p] = obj
         /\ \A q \in Name : q # p => api'[q] = api[q]
  BY SMTT(30) DEF KeptInv, SyncerTypeOK, Write

\* Nothing is known to be wrong with the first state.
LEMMA KeptInit == SyncerInit => KeptInv
<1> SUFFICES ASSUME SyncerInit PROVE KeptInv
  BY Zenon
<1>1. \A c \in Cluster : Authored(c) \subseteq Object \cup {Absent}
  BY Zenon DEF Authored, Object
<1>2. SyncerTypeOK
  <2>1. api \in [Name -> Object \cup {Absent}]
    BY <1>1 DEF SyncerInit
  <2>2. IdlePass(0, FALSE) \in Pass
    BY SyncerAssumption DEF IdlePass, Pass
  <2>3. constant \subseteq Cluster
    BY Zenon DEF SyncerInit, Advertised
  <2> QED
    BY <2>1, <2>2, <2>3, Zenon DEF SyncerInit, SyncerTypeOK
<1>3. \A n \in Agent, c \in constant \ {LocalClusterID} : Spared(sync[n], c)
  BY Zenon DEF SyncerInit, IdlePass, Spared
<1>6. \A n \in Agent : Coherent(sync[n])
  BY Zenon DEF SyncerInit, IdlePass, Coherent
<1>4. ASSUME NEW p \in Name, api[p] # Absent PROVE ~api[p].deleting
  <2>1. PICK c \in Cluster \ {LocalClusterID} : api[p] \in Authored(c)
    BY DEF SyncerInit
  <2> QED
    BY <1>4, <2>1, Zenon DEF Authored
<1>5. Live \subseteq Name
  BY <1>2, SyncerAssumption DEF Live, SyncerTypeOK
<1> QED
  BY <1>2, <1>3, <1>4, <1>5, <1>6, Zenon DEF KeptInv, SyncerInit

\* A new topology only makes constant smaller.
LEMMA PublishKeeps ==
  ASSUME KeptInv, NEW t \in Topology, Publish(t)
  PROVE  KeptInv' /\ Keeps
<1>1. /\ constant' \subseteq constant /\ constant' \subseteq Advertised(t) /\ topology' = t
      /\ UNCHANGED <<api, cache, fresh, sync>>
  BY Zenon DEF Publish
<1>2. Advertised(topology)' = Advertised(t)
  BY <1>1, Zenon DEF Advertised
<1>3. Live' \subseteq Live
  BY <1>1, Zenon DEF Live
<1> QED
  BY <1>1, <1>2, <1>3, Zenon DEF KeptInv, SyncerTypeOK, Keeps, Live

\* A step that writes no object and leaves the world as it is.
LEMMA QuietKeeps ==
  ASSUME KeptInv, UNCHANGED <<world, api>>
  PROVE  Keeps /\ Live' = Live /\ constant' = constant
         /\ Advertised(topology)' = Advertised(topology)
         /\ \A p \in Live : api'[p] # Absent => ~api'[p].deleting
<1>1. constant' = constant /\ topology' = topology /\ api' = api
  BY Zenon DEF world
<1> QED
  BY <1>1, Zenon DEF KeptInv, Keeps, Live, Advertised

\* The controllers never take an object that nobody is deleting.
LEMMA FinalizerKeeps ==
  ASSUME KeptInv, NEW p \in Name, Finalizer(p)
  PROVE  KeptInv' /\ Keeps
<1>1. /\ api[p] \in Object /\ UNCHANGED <<cache, sync, topology, constant>>
  BY Zenon DEF KeptInv, SyncerTypeOK, Finalizer, world
<1>2. Live' = Live /\ Advertised(topology)' = Advertised(topology)
  BY <1>1, Zenon DEF Live, Advertised
<1>3. CASE ~api[p].deleting /\ Write(p, [api[p] EXCEPT !.finalizer = TRUE])
  <2> DEFINE obj == [api[p] EXCEPT !.finalizer = TRUE]
  <2>1. obj \in Object /\ obj # Absent /\ ~obj.deleting
    BY <1>1, <1>3, SyncerAssumption, Zenon DEF Object
  <2> HIDE DEF obj
  <2>2. Write(p, obj)
    BY <1>3, Zenon DEF obj
  <2>3. /\ api' \in [Name -> Object \cup {Absent}]
        /\ fresh' \in [Agent -> [Name -> BOOLEAN]]
        /\ \A n \in Agent, q \in Name : fresh'[n][q] => cache'[n][q] = api'[q]
        /\ api'[p] = obj
        /\ \A q \in Name : q # p => api'[q] = api[q]
    BY <1>1, <2>1, <2>2, WriteObject, Zenon
  <2> QED
    BY <1>1, <1>2, <2>1, <2>3, SyncerAssumption DEF KeptInv, SyncerTypeOK, Keeps, Live
<1>4. CASE api[p].deleting /\ Write(p, Absent)
  <2>1. p \notin Live
    BY <1>1, <1>4, SyncerAssumption, Zenon DEF KeptInv
  <2>2. /\ api' \in [Name -> Object \cup {Absent}]
        /\ fresh' \in [Agent -> [Name -> BOOLEAN]]
        /\ \A n \in Agent, q \in Name : fresh'[n][q] => cache'[n][q] = api'[q]
        /\ \A q \in Name : q # p => api'[q] = api[q]
    BY <1>1, <1>4, WriteObject, Zenon
  <2> QED
    BY <1>1, <1>2, <2>1, <2>2, SyncerAssumption DEF KeptInv, SyncerTypeOK, Keeps, Live
<1> QED
  BY <1>3, <1>4, Zenon DEF Finalizer

\* An agent's copies catch up, one at a time or all at a restart.
LEMMA DeliverKeeps ==
  ASSUME KeptInv, NEW n \in Agent, NEW p \in Name, Deliver(n, p)
  PROVE  KeptInv' /\ Keeps
<1>1. UNCHANGED <<world, api>> /\ UNCHANGED <<topology, sync, constant>>
  BY Zenon DEF Deliver, world
<1>2. /\ cache' \in [Agent -> [Name -> Object \cup {Absent}]]
      /\ fresh' \in [Agent -> [Name -> BOOLEAN]]
      /\ \A m \in Agent, q \in Name : fresh'[m][q] => cache'[m][q] = api'[q]
  BY Zenon DEF Deliver, KeptInv, SyncerTypeOK
<1> QED
  BY <1>1, <1>2, QuietKeeps, Zenon DEF KeptInv, SyncerTypeOK

LEMMA RestartKeeps ==
  ASSUME KeptInv, NEW n \in Agent, Restart(n)
  PROVE  KeptInv' /\ Keeps
<1>1. UNCHANGED <<world, api>> /\ UNCHANGED <<topology, constant>>
  BY Zenon DEF Restart, world
<1>2. /\ cache' \in [Agent -> [Name -> Object \cup {Absent}]]
      /\ fresh' \in [Agent -> [Name -> BOOLEAN]]
      /\ \A m \in Agent, q \in Name : fresh'[m][q] => cache'[m][q] = api'[q]
  BY SMTT(30) DEF Restart, KeptInv, SyncerTypeOK
<1>3. /\ IdlePass(0, FALSE) \in Pass /\ Coherent(IdlePass(0, FALSE))
      /\ \A c \in Cluster : Spared(IdlePass(0, FALSE), c)
  <2> DEFINE s == IdlePass(0, FALSE)
  <2>1. s \in Pass
    <3>1. 0 \in 0..MaxRevision
      BY SyncerAssumption
    <3> QED
      BY <3>1, Zenon DEF IdlePass, Pass
  <2>2. s.pc = "idle" /\ s.todo = {}
    BY Zenon DEF IdlePass
  <2> QED
    BY <2>1, <2>2, Zenon DEF Spared, Coherent
<1>4. sync' \in [Agent -> Pass]
  <2>1. sync \in [Agent -> Pass] /\ sync' = [sync EXCEPT ![n] = IdlePass(0, FALSE)]
    BY Zenon DEF Restart, KeptInv, SyncerTypeOK
  <2> QED
    BY ONLY <1>3, <2>1, n \in Agent, Zenon
<1>5. \A m \in Agent, c \in constant \ {LocalClusterID} : Spared(sync'[m], c)
  BY <1>3, Zenon DEF Restart, KeptInv, SyncerTypeOK
<1>6. \A m \in Agent : Coherent(sync'[m])
  BY <1>3, Zenon DEF Restart, KeptInv, SyncerTypeOK
<1> QED
  BY <1>1, <1>2, <1>4, <1>5, <1>6, QuietKeeps, Zenon DEF KeptInv, SyncerTypeOK

\* A pass that writes nothing: only its own record has to be looked at.
LEMMA PassKeeps ==
  ASSUME KeptInv, NEW n \in Agent, UNCHANGED <<world, api, cache, fresh>>,
         NEW s \in Pass, sync' = [sync EXCEPT ![n] = s], Coherent(s),
         \A c \in constant \ {LocalClusterID} : Spared(s, c)
  PROVE  KeptInv' /\ Keeps
<1>1. UNCHANGED <<topology, constant>>
  BY Zenon DEF world
<1>2. sync' \in [Agent -> Pass]
  BY Zenon DEF KeptInv, SyncerTypeOK
<1>3. \A m \in Agent : Coherent(sync'[m])
  BY Zenon DEF KeptInv, SyncerTypeOK
<1>4. \A m \in Agent, c \in constant \ {LocalClusterID} : Spared(sync'[m], c)
  BY SMTT(30) DEF KeptInv, SyncerTypeOK
<1> QED
  BY <1>1, <1>2, <1>3, <1>4, QuietKeeps, Zenon DEF KeptInv, SyncerTypeOK

\* A pass that ends, with whatever it remembers.
LEMMA IdleKeeps ==
  ASSUME NEW rev \in 0..MaxRevision, NEW done \in BOOLEAN
  PROVE  /\ IdlePass(rev, done) \in Pass
         /\ Coherent(IdlePass(rev, done))
         /\ \A c \in Cluster : Spared(IdlePass(rev, done), c)
  BY Zenon DEF IdlePass, Pass, Coherent, Spared

LEMMA GiveUpKeeps ==
  ASSUME KeptInv, NEW n \in Agent, GiveUp(n), UNCHANGED <<world, api, cache, fresh>>
  PROVE  KeptInv' /\ Keeps
<1> DEFINE s == IdlePass(sync[n].lastRevision, sync[n].applied)
<1>1. sync[n].lastRevision \in 0..MaxRevision /\ sync[n].applied \in BOOLEAN
  BY Zenon DEF KeptInv, SyncerTypeOK, Pass
<1>2. s \in Pass /\ Coherent(s) /\ \A c \in Cluster : Spared(s, c)
  BY <1>1, IdleKeeps, Zenon
<1>3. sync' = [sync EXCEPT ![n] = s]
  BY Zenon DEF GiveUp, KeptInv, SyncerTypeOK
<1>4. constant \subseteq Cluster
  BY Zenon DEF KeptInv, SyncerTypeOK
<1> HIDE DEF s
<1> QED
  BY <1>2, <1>3, <1>4, PassKeeps, Zenon

\* The topology a pass fetches has all the live peers.
LEMMA FetchKeeps ==
  ASSUME KeptInv, NEW n \in Agent, fetch(n)
  PROVE  KeptInv' /\ Keeps
<1> DEFINE todo == Advertised(topology) \ {LocalClusterID}
           s == [sync[n] EXCEPT !.pc = "upsert", !.got = topology, !.ok = TRUE,
                                !.desired = {}, !.todo = todo]
<1>1. /\ sync[n] \in Pass /\ topology \in Topology
      /\ todo \subseteq Cluster /\ todo \subseteq Advertised(topology)
      /\ constant \ {LocalClusterID} \subseteq todo
  BY Zenon DEF KeptInv, SyncerTypeOK, Advertised
<1>2. sync' = [sync EXCEPT ![n] = s]
  BY Zenon DEF fetch, KeptInv, SyncerTypeOK
<1> HIDE DEF todo
<1>3. s \in Pass
  BY <1>1, Zenon DEF Pass
<1>4. Coherent(s) /\ \A c \in constant \ {LocalClusterID} : Spared(s, c)
  BY <1>1, Zenon DEF Pass, Coherent, Spared
<1>5. UNCHANGED <<world, api, cache, fresh>>
  BY Zenon DEF fetch
<1> HIDE DEF s
<1> QED
  BY <1>2, <1>3, <1>4, <1>5, PassKeeps, Zenon

\* A pass with a failed upsert is not ok, and will not prune.
LEMMA UpsertFailsKeeps ==
  ASSUME KeptInv, NEW n \in Agent, NEW c \in Cluster, upsertFails(n, c)
  PROVE  KeptInv' /\ Keeps
<1> DEFINE s == [sync[n] EXCEPT !.todo = sync[n].todo \ {c}, !.ok = FALSE]
<1>1. sync[n] \in Pass /\ Coherent(sync[n]) /\ c \in sync[n].todo
  BY Zenon DEF KeptInv, SyncerTypeOK, upsertFails
<1>2. sync' = [sync EXCEPT ![n] = s]
  BY Zenon DEF upsertFails, KeptInv, SyncerTypeOK
<1>3. s \in Pass
  BY <1>1, Zenon DEF Pass
<1>4. Coherent(s) /\ \A d \in constant \ {LocalClusterID} : Spared(s, d)
  BY <1>1, Zenon DEF Pass, Coherent, Spared
<1>5. UNCHANGED <<world, api, cache, fresh>>
  BY Zenon DEF upsertFails
<1> HIDE DEF s
<1> QED
  BY <1>2, <1>3, <1>4, <1>5, PassKeeps, Zenon

\* What prune lists are no live peers: an ok pass desires all of them.
LEMMA UpsertDesiredKeeps ==
  ASSUME KeptInv, NEW n \in Agent, upsertDesired(n)
  PROVE  KeptInv' /\ Keeps
<1>1. UNCHANGED <<world, api, cache, fresh>> /\ sync[n] \in Pass /\ Coherent(sync[n])
  BY Zenon DEF upsertDesired, KeptInv, SyncerTypeOK
<1>2. CASE GiveUp(n)
  BY <1>1, <1>2, GiveUpKeeps, Zenon
<1>3. CASE ~GiveUp(n)
  <2> DEFINE stale == {p \in Name \ sync[n].desired : /\ cache[n][p] # Absent
                                                      /\ cache[n][p].managed
                                                      /\ ~cache[n][p].deleting}
             s == [sync[n] EXCEPT !.pc = "prune", !.stale = stale]
  <2>1. /\ sync[n].pc = "upsert" /\ sync[n].todo = {} /\ sync[n].ok
        /\ sync' = [sync EXCEPT ![n].pc = "prune", ![n].stale = stale]
    BY <1>3, Zenon DEF upsertDesired
  <2>2. sync' = [sync EXCEPT ![n] = s]
    BY <2>1, Zenon DEF KeptInv, SyncerTypeOK
  <2>3. stale \subseteq Name \ sync[n].desired
    BY Zenon
  <2> HIDE DEF stale
  <2>4. s \in Pass
    BY <1>1, <2>3, ZenonT(30) DEF Pass
  <2>5. \A c \in constant \ {LocalClusterID} : Spared(sync[n], c)
    BY Zenon DEF KeptInv
  <2>6. Coherent(s) /\ \A c \in constant \ {LocalClusterID} : Spared(s, c)
    BY <1>1, <2>1, <2>3, <2>5, Zenon DEF Pass, Coherent, Spared
  <2> HIDE DEF s
  <2> QED
    BY <1>1, <2>2, <2>4, <2>6, PassKeeps, Zenon
<1> QED
  BY <1>2, <1>3, Zenon

\* A pass that writes an object other than a live peer's, or writes it undeleted.
LEMMA WritingPassKeeps ==
  ASSUME KeptInv, NEW n \in Agent, UNCHANGED <<world, cache>>,
         NEW p \in Name, NEW obj \in Object \cup {Absent}, Write(p, obj),
         p \in Live => obj # Absent /\ ~obj.deleting,
         NEW s \in Pass, sync' = [sync EXCEPT ![n] = s], Coherent(s),
         \A c \in constant \ {LocalClusterID} : Spared(s, c)
  PROVE  KeptInv' /\ Keeps
<1>1. UNCHANGED <<topology, constant>> /\ Live' = Live
  BY Zenon DEF world, Live
<1>2. sync' \in [Agent -> Pass]
  BY Zenon DEF KeptInv, SyncerTypeOK
<1>3. \A m \in Agent : Coherent(sync'[m])
  BY Zenon DEF KeptInv, SyncerTypeOK
<1>4. \A m \in Agent, c \in constant \ {LocalClusterID} : Spared(sync'[m], c)
  BY Zenon DEF KeptInv, SyncerTypeOK
<1>5. /\ api' \in [Name -> Object \cup {Absent}]
      /\ fresh' \in [Agent -> [Name -> BOOLEAN]]
      /\ \A m \in Agent, q \in Name : fresh'[m][q] => cache'[m][q] = api'[q]
      /\ api'[p] = obj
      /\ \A q \in Name : q # p => api'[q] = api[q]
  BY WriteObject, Zenon
<1>6. Live \subseteq Name
  BY SyncerAssumption, SMTT(30) DEF Live, KeptInv, SyncerTypeOK
<1>7. \A q \in Live : api'[q] # Absent => ~api'[q].deleting
  BY <1>5, <1>6, SMTT(30) DEF KeptInv
<1>8. Keeps
  BY <1>1, <1>5, <1>6, SMTT(30) DEF KeptInv, Keeps, Live
<1>9. Advertised(topology)' = Advertised(topology)
  BY <1>1, Zenon DEF Advertised
<1> QED
  BY <1>1, <1>2, <1>3, <1>4, <1>5, <1>7, <1>8, <1>9, Zenon DEF KeptInv, SyncerTypeOK

\* An object is written only where the cached copy is the current one, or where
\* there is none: the object of a live peer stays, undeleted.
LEMMA UpsertKeeps ==
  ASSUME KeptInv, NEW n \in Agent, NEW c \in Cluster, upsert(n, c)
  PROVE  KeptInv' /\ Keeps
<1> DEFINE p == SanitizeName[c]
           s == [sync[n] EXCEPT !.todo = sync[n].todo \ {c},
                                !.desired = sync[n].desired \cup {p}]
<1>1. /\ sync[n] \in Pass /\ Coherent(sync[n]) /\ c \in sync[n].todo /\ p \in Name
      /\ UNCHANGED <<world, cache>>
  BY SyncerAssumption, Zenon DEF KeptInv, SyncerTypeOK, upsert
<1>2. sync' = [sync EXCEPT ![n] = s]
  BY Zenon DEF upsert, KeptInv, SyncerTypeOK
<1>3. s \in Pass
  BY <1>1, Zenon DEF Pass
<1>4. \A d \in constant \ {LocalClusterID} : Spared(sync[n], d)
  BY Zenon DEF KeptInv
<1>5. Coherent(s) /\ \A d \in constant \ {LocalClusterID} : Spared(s, d)
  BY <1>1, <1>4, Zenon DEF Pass, Coherent, Spared
<1>6. CASE UpToDate(n, c)
  <2> HIDE DEF s
  <2>1. UNCHANGED <<world, api, cache, fresh>>
    BY <1>1, <1>6, Zenon DEF upsert, NoWrite
  <2> QED
    BY <2>1, <1>2, <1>3, <1>5, PassKeeps, Zenon
<1>7. CASE ~UpToDate(n, c)
  <2>1. ~Conflict(n, c) /\ Write(p, Wanted(n, c))
    BY <1>7, ZenonT(30) DEF upsert
  <2>2. sync[n].got.peers[c] \in Config
    <3>1. sync[n].got \in Topology /\ c \in Advertised(sync[n].got)
      BY <1>1, Zenon DEF Coherent
    <3> QED
      BY <3>1, SyncerAssumption DEF Topology, Advertised
  <2>3. cache[n][p] \in Object \cup {Absent}
    BY <1>1, Zenon DEF KeptInv, SyncerTypeOK
  <2>4. Wanted(n, c) \in Object
    BY <2>2, <2>3, Zenon DEF Wanted, Object
  <2>5. cache[n][p] = Absent => ~Wanted(n, c).deleting
    BY Zenon DEF Wanted
  <2>6. cache[n][p] # Absent => Wanted(n, c).deleting = cache[n][p].deleting
    BY <2>3, Zenon DEF Wanted, Object
  <2>7. cache[n][p] # Absent => cache[n][p] = api[p]
    BY <1>1, <2>1, Zenon DEF Conflict, KeptInv
  <2>8. p \in Live => Wanted(n, c) # Absent /\ ~Wanted(n, c).deleting
    BY <2>4, <2>5, <2>6, <2>7, SyncerAssumption, Zenon DEF KeptInv
  <2> HIDE DEF s
  <2> QED
    BY <1>1, <1>2, <1>3, <1>5, <2>1, <2>4, <2>8, WritingPassKeeps, Zenon
<1> QED
  BY <1>6, <1>7, Zenon

\* prune deletes only what it listed.
LEMMA PruneKeeps ==
  ASSUME KeptInv, NEW n \in Agent, prune(n)
  PROVE  KeptInv' /\ Keeps
<1>1. /\ sync[n] \in Pass /\ Coherent(sync[n]) /\ sync[n].pc = "prune"
      /\ UNCHANGED <<world, cache>>
      /\ \A c \in constant \ {LocalClusterID} : Spared(sync[n], c)
  BY Zenon DEF KeptInv, SyncerTypeOK, prune
<1>2. CASE \E p \in sync[n].stale :
               Delete(p) /\ sync' = [sync EXCEPT ![n].stale = sync[n].stale \ {p}]
  <2>1. PICK p \in sync[n].stale :
               Delete(p) /\ sync' = [sync EXCEPT ![n].stale = sync[n].stale \ {p}]
    BY <1>2, Zenon
  <2> DEFINE s == [sync[n] EXCEPT !.stale = sync[n].stale \ {p}]
  <2>2. p \in Name /\ s \in Pass
    BY <1>1, Zenon DEF Pass
  <2>3. sync' = [sync EXCEPT ![n] = s]
    BY <2>1, Zenon DEF KeptInv, SyncerTypeOK
  <2>4. Coherent(s) /\ \A c \in constant \ {LocalClusterID} : Spared(s, c)
    BY <1>1, Zenon DEF Pass, Coherent, Spared
  <2>5. p \notin Live
    BY <1>1, Zenon DEF Spared, Live
  <2> HIDE DEF s
  <2>6. CASE api[p] = Absent
    BY <1>1, <2>1, <2>2, <2>3, <2>4, <2>6, PassKeeps, Zenon DEF Delete, NoWrite
  <2>7. CASE api[p] # Absent
    <3> DEFINE obj == IF api[p].finalizer THEN [api[p] EXCEPT !.deleting = TRUE] ELSE Absent
    <3>1. api[p] \in Object
      BY <2>2, <2>7, Zenon DEF KeptInv, SyncerTypeOK
    <3>2. obj \in Object \cup {Absent}
      BY <3>1, Zenon DEF Object
    <3>3. Write(p, obj)
      BY <2>1, <2>7, Zenon DEF Delete
    <3> HIDE DEF obj
    <3> QED
      BY <1>1, <2>2, <2>3, <2>4, <2>5, <3>2, <3>3, WritingPassKeeps, Zenon
  <2> QED
    BY <2>6, <2>7, Zenon
<1>3. CASE GiveUp(n) /\ NoWrite
  BY <1>1, <1>3, GiveUpKeeps, Zenon DEF NoWrite
<1>4. CASE /\ NoWrite
           /\ sync' = [sync EXCEPT ![n] = IdlePass(Revision(sync[n].got), TRUE)]
  <2> DEFINE s == IdlePass(Revision(sync[n].got), TRUE)
  <2>1. Revision(sync[n].got) \in 0..MaxRevision
    BY <1>1, SyncerAssumption DEF Revision, Coherent, Topology
  <2>2. s \in Pass /\ Coherent(s) /\ \A c \in Cluster : Spared(s, c)
    BY <2>1, IdleKeeps, Zenon
  <2>3. constant \subseteq Cluster
    BY Zenon DEF KeptInv, SyncerTypeOK
  <2> HIDE DEF s
  <2> QED
    BY <1>1, <1>4, <2>2, <2>3, PassKeeps, ZenonT(30) DEF NoWrite, s
<1> QED
  BY <1>2, <1>3, <1>4, Zenon DEF prune

\* LivePeerKept: pruning never deletes a live peer.  A cluster that every topology so
\* far has had keeps its MeshPeer object, undeleted, for any number of agents, any
\* caches, failures and restarts.
THEOREM LivePeersSurvive == SyncerSpec => LivePeerKept
<1>1. KeptInv /\ [SyncerNext]_syncerVars => KeptInv' /\ [Keeps]_syncerVars
  <2> SUFFICES ASSUME KeptInv, [SyncerNext]_syncerVars PROVE KeptInv' /\ [Keeps]_syncerVars
    BY Zenon
  <2>1. CASE SyncerNext
    BY <2>1, PublishKeeps, FinalizerKeeps, DeliverKeeps, RestartKeeps, FetchKeeps,
       UpsertKeeps, UpsertFailsKeeps, UpsertDesiredKeeps, PruneKeeps, Zenon DEF SyncerNext, syncOnce
  <2>2. CASE UNCHANGED syncerVars
    BY <2>2, Zenon DEF syncerVars, KeptInv, SyncerTypeOK, Live, Coherent, Spared, Advertised
  <2> QED
    BY <2>1, <2>2, Zenon
<1> QED
  BY <1>1, KeptInit, PTL DEF SyncerSpec, LivePeerKept, Keeps
=============================================================================
