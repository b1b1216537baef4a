---------------------------- MODULE RemoteProofs ----------------------------
(***************************************************************************)
(* Proofs about the resilience state of a remote, for every number of      *)
(* threads, every retry budget, every threshold of the circuit breaker and *)
(* every setting of the load counters.                                     *)
(***************************************************************************)
EXTENDS Remote, FiniteSetTheorems, TLAPS

-----------------------------------------------------------------------------
(* The inductive invariant *)

\* A circuit that is not open yet has seen fewer failures than would open it.
BelowThreshold == openUntil = 0 => failures < FailureThreshold

\* Successes are counted only when the open time of the circuit has run out, and
\* those counted came in a row.
Probing ==
    successes # 0 => openUntil # 0 /\ now >= openUntil /\ streak >= successes

\* The inductive invariant.  TypeOK needs BelowThreshold for its bound on failures,
\* ClosedCountsStreak needs it because the streak is counted to the threshold only,
\* and ClosesOnStreak needs Probing.
IInv ==
    /\ TypeOK
    /\ BelowThreshold
    /\ Probing
    /\ ClosedCountsStreak
    /\ LoadBounded

\* The shedding threshold is a number.
LEMMA ShedAtType == ShedAt \in Nat
<1>1. (MaxConcurrent + QueueDepth) * ShedPct \in Nat
  BY RemoteAssumption
<1> QED BY <1>1 DEF ShedAt

\* No call is active in a fresh remote.
LEMMA InitIInv == Init => IInv
<1> SUFFICES ASSUME Init PROVE IInv
  OBVIOUS
<1> USE RemoteAssumption DEF Init
<1>1. /\ now \in 1 .. MaxTime
      /\ perMin \in Budgets /\ remaining \in 0 .. perMin
      /\ resetAt \in 1 .. MaxTime + Window
      /\ openUntil \in 0 .. MaxTime + OpenTime
  OBVIOUS
<1>2. /\ failures \in 0 .. FailureThreshold /\ successes \in 0 .. SuccessThreshold - 1
      /\ inflight \in 0 .. MaxConcurrent /\ queued \in 0 .. QueueDepth
      /\ streak \in -FailureThreshold .. SuccessThreshold
  OBVIOUS
<1>3. /\ pc \in [Callers -> {"idle", "request", "sleep", "outer", "end"}]
      /\ attempt \in [Callers -> 0 .. MaxRetries]
      /\ last \in [Callers -> {"none", "OK", "EAGAIN", "ERROR", "EBUSY"}]
      /\ wasQueued \in [Callers -> BOOLEAN]
      /\ kind \in [Callers -> {"fetch", "ls"}]
      /\ spent \in [0 .. MaxTime -> Nat]
  OBVIOUS
<1>4. TypeOK
  BY <1>1, <1>2, <1>3 DEF TypeOK
<1>5. BelowThreshold /\ Probing /\ ClosedCountsStreak
  BY DEF BelowThreshold, Probing, ClosedCountsStreak
<1>6. LoadBounded
  <2>1. Active = {}
    BY DEF Active
  <2> QED BY <2>1, ShedAtType, FS_EmptySet DEF LoadBounded
<1> QED BY <1>4, <1>5, <1>6 DEF IInv

-----------------------------------------------------------------------------
(* The helpers of protocol.c keep the types of what they change *)

\* A retry that is paid for leaves the budget between zero and its refill.
LEMMA ConsumeType ==
    ASSUME TypeOK, Consume
    PROVE  /\ perMin' \in Budgets /\ remaining' \in 0 .. perMin'
           /\ resetAt' \in 1 .. MaxTime + Window
           /\ spent' \in [0 .. MaxTime -> Nat]
<1> USE RemoteAssumption
<1>1. perMin \in Nat /\ perMin' = perMin /\ perMin \in Budgets
  BY DEF TypeOK, Consume
<1>2. remaining' \in 0 .. perMin /\ resetAt' \in 1 .. MaxTime + Window
  BY <1>1 DEF TypeOK, Consume, Refills
<1>3. spent' \in [0 .. MaxTime -> Nat]
  BY DEF TypeOK, Consume
<1> QED BY <1>1, <1>2, <1>3

\* A report to the circuit breaker, success or failure, keeps its counters in range; a
\* closed circuit has counted the failures since the last success, the successes of an
\* open one came in a row, and it closes on SuccessThreshold of them only.
LEMMA ReportStep ==
    ASSUME TypeOK, BelowThreshold, Probing, ClosedCountsStreak, now' = now,
           OnSuccess \/ OnFailure
    PROVE  /\ openUntil' \in 0 .. MaxTime + OpenTime
           /\ failures' \in 0 .. FailureThreshold /\ successes' \in 0 .. SuccessThreshold - 1
           /\ streak' \in -FailureThreshold .. SuccessThreshold
           /\ BelowThreshold' /\ Probing' /\ ClosedCountsStreak'
           /\ openUntil # 0 /\ openUntil' = 0 => streak' >= SuccessThreshold
<1> USE RemoteAssumption
<1>t. /\ now \in 1 .. MaxTime /\ openUntil \in 0 .. MaxTime + OpenTime
      /\ failures \in 0 .. FailureThreshold /\ successes \in 0 .. SuccessThreshold - 1
      /\ streak \in -FailureThreshold .. SuccessThreshold
      /\ FailureThreshold \in Nat \ {0} /\ SuccessThreshold \in Nat \ {0}
  BY DEF TypeOK
<1>1. CASE OnSuccess
  BY <1>t, <1>1 DEF OnSuccess, Close, BelowThreshold, Probing, ClosedCountsStreak
<1>2. CASE OnFailure
  BY <1>t, <1>2 DEF OnFailure, Open, Reopen, BelowThreshold, Probing, ClosedCountsStreak
<1> QED BY <1>1, <1>2

\* A place that is taken or given back keeps the load counters in range, under the shedding
\* threshold, and changes their sum by no more than one.
LEMMA LoadStep ==
    ASSUME TypeOK, inflight + queued <= ShedAt, NEW c \in Callers, Acquire \/ Release(c)
    PROVE  /\ inflight' \in 0 .. MaxConcurrent /\ queued' \in 0 .. QueueDepth
           /\ inflight' + queued' <= ShedAt
           /\ Acquire => inflight' + queued' = inflight + queued + 1
           /\ inflight' + queued' >= inflight + queued - 1
<1> USE RemoteAssumption
<1>t. /\ inflight \in 0 .. MaxConcurrent /\ queued \in 0 .. QueueDepth
      /\ MaxConcurrent \in Nat \ {0} /\ QueueDepth \in Nat \ {0} /\ ShedAt \in Nat
  BY ShedAtType DEF TypeOK
<1>1. CASE Acquire
  BY <1>t, <1>1 DEF Acquire, Shed
<1>2. CASE Release(c) /\ ~Acquire
  BY <1>t, <1>2 DEF Release
<1> QED BY <1>1, <1>2

-----------------------------------------------------------------------------
(* The inductive steps *)

\* Every step of a call, and the clock, keep every counter in its range.
LEMMA TypeStep == IInv /\ [Next]_vars => TypeOK'
<1> SUFFICES ASSUME IInv, [Next]_vars PROVE TypeOK'
  OBVIOUS
<1>0. TypeOK /\ BelowThreshold /\ Probing /\ ClosedCountsStreak /\ inflight + queued <= ShedAt
  BY DEF IInv, LoadBounded
<1> DEFINE Pcs == {"idle", "request", "sleep", "outer", "end"}
           Lasts == {"none", "OK", "EAGAIN", "ERROR", "EBUSY"}
<1>t. /\ pc \in [Callers -> Pcs] /\ attempt \in [Callers -> 0 .. MaxRetries]
      /\ last \in [Callers -> Lasts] /\ kind \in [Callers -> {"fetch", "ls"}]
      /\ wasQueued \in [Callers -> BOOLEAN]
  BY <1>0 DEF TypeOK
<1>1. ASSUME NEW c \in Callers, Refused(c) PROVE TypeOK'
  <2>1. last' \in [Callers -> Lasts]
    BY <1>t, <1>1 DEF Refused
  <2> QED BY <1>0, <1>1, <2>1 DEF Refused, TypeOK, budget, circuit, load
<1>2. ASSUME NEW c \in Callers, NEW k \in {"fetch", "ls"}, Begin(c, k) PROVE TypeOK'
  <2>1. pc' \in [Callers -> Pcs] /\ last' \in [Callers -> Lasts] /\ kind' \in [Callers -> {"fetch", "ls"}]
    BY <1>t, <1>2 DEF Begin
  <2>2. attempt' \in [Callers -> 0 .. MaxRetries]
    BY <1>t, <1>2, RemoteAssumption DEF Begin
  <2>3. wasQueued' \in [Callers -> BOOLEAN]
    BY <1>t, <1>2 DEF Begin
  <2>4. inflight' \in 0 .. MaxConcurrent /\ queued' \in 0 .. QueueDepth
    BY <1>0, <1>2, LoadStep DEF Begin
  <2> QED BY <1>0, <1>2, <2>1, <2>2, <2>3, <2>4 DEF Begin, TypeOK, budget, circuit
<1>3. ASSUME NEW c \in Callers, NEW err \in {"OK", "EAGAIN", "ERROR"}, Done(c, err) PROVE TypeOK'
  <2>1. pc' \in [Callers -> Pcs] /\ last' \in [Callers -> Lasts]
    BY <1>t, <1>3 DEF Done
  <2>2. attempt' \in [Callers -> 0 .. MaxRetries]
    BY <1>t, <1>3, RemoteAssumption DEF Done
  <2> QED BY <1>0, <1>3, <2>1, <2>2 DEF Done, TypeOK, budget, circuit, load
<1>4. ASSUME NEW c \in Callers, RequestRetry(c) PROVE TypeOK'
  <2>1. attempt' \in [Callers -> 0 .. MaxRetries]
    BY <1>t, <1>4, RemoteAssumption DEF RequestRetry, LastAttempt, NextAttempt
  <2>2. pc' \in [Callers -> Pcs]
    BY <1>t, <1>4 DEF RequestRetry
  <2>3. /\ perMin' \in Budgets /\ remaining' \in 0 .. perMin'
        /\ resetAt' \in 1 .. MaxTime + Window
        /\ spent' \in [0 .. MaxTime -> Nat]
    BY <1>0, <1>4, ConsumeType DEF RequestRetry
  <2> QED BY <1>0, <1>4, <2>1, <2>2, <2>3 DEF RequestRetry, TypeOK, circuit, load
<1>5. ASSUME NEW c \in Callers, Wake(c) \/ OuterEnd(c) PROVE TypeOK'
  <2>1. pc' \in [Callers -> Pcs]
    BY <1>t, <1>5 DEF Wake, OuterEnd
  <2> QED BY <1>0, <1>5, <2>1 DEF Wake, OuterEnd, TypeOK, budget, circuit, load
<1>6. ASSUME NEW c \in Callers, OuterPay(c) PROVE TypeOK'
  <2>1. attempt' \in [Callers -> 0 .. MaxRetries]
    BY <1>t, <1>6, RemoteAssumption DEF OuterPay, NextAttempt
  <2>3. /\ perMin' \in Budgets /\ remaining' \in 0 .. perMin'
        /\ resetAt' \in 1 .. MaxTime + Window
        /\ spent' \in [0 .. MaxTime -> Nat]
    BY <1>0, <1>6, ConsumeType DEF OuterPay
  <2> QED BY <1>0, <1>6, <2>1, <2>3 DEF OuterPay, TypeOK, circuit, load
<1>7. ASSUME NEW c \in Callers, End(c) PROVE TypeOK'
  <2>1. pc' \in [Callers -> Pcs] /\ kind' \in [Callers -> {"fetch", "ls"}]
    BY <1>t, <1>7 DEF End
  <2>2. attempt' \in [Callers -> 0 .. MaxRetries]
    BY <1>t, <1>7, RemoteAssumption DEF End
  <2>3. wasQueued' \in [Callers -> BOOLEAN]
    BY <1>t, <1>7 DEF End
  <2>4. inflight' \in 0 .. MaxConcurrent /\ queued' \in 0 .. QueueDepth
    BY <1>0, <1>7, LoadStep DEF End
  <2>5. /\ openUntil' \in 0 .. MaxTime + OpenTime
        /\ failures' \in 0 .. FailureThreshold /\ successes' \in 0 .. SuccessThreshold - 1
        /\ streak' \in -FailureThreshold .. SuccessThreshold
    <3>1. CASE UNCHANGED circuit
      BY <1>0, <3>1 DEF circuit, TypeOK
    <3>2. CASE OnSuccess \/ OnFailure
      BY <1>0, <1>7, <3>2, ReportStep DEF End
    <3> QED BY <1>7, <3>1, <3>2 DEF End
  <2> QED BY <1>0, <1>7, <2>1, <2>2, <2>3, <2>4, <2>5 DEF End, TypeOK, budget
<1>8. CASE Tick
  <2>1. now' \in 1 .. MaxTime
    BY <1>0, <1>8, RemoteAssumption DEF Tick, TypeOK
  <2> QED BY <1>0, <1>8, <2>1 DEF Tick, TypeOK, budget, circuit, load, call
<1>9. CASE UNCHANGED vars
  BY <1>0, <1>9 DEF vars, TypeOK, budget, circuit, load, call
<1> QED BY <1>1, <1>2, <1>3, <1>4, <1>5, <1>6, <1>7, <1>8, <1>9
        DEF Next, Step, RequestEnds, RequestGivesUp

\* The circuit counts what it should, and closes on a streak only: the end of a call is the
\* one step that reports to it.
LEMMA CircuitStep ==
    ASSUME IInv, [Next]_vars
    PROVE  /\ BelowThreshold' /\ Probing' /\ ClosedCountsStreak'
           /\ openUntil # 0 /\ openUntil' = 0 => streak' >= SuccessThreshold
<1>0. TypeOK /\ BelowThreshold /\ Probing /\ ClosedCountsStreak
  BY DEF IInv
<1>1. CASE UNCHANGED <<now, circuit>>
  BY <1>0, <1>1 DEF circuit, BelowThreshold, Probing, ClosedCountsStreak
<1>2. CASE Tick
  BY <1>0, <1>2, RemoteAssumption
     DEF Tick, circuit, TypeOK, BelowThreshold, Probing, ClosedCountsStreak
<1>3. CASE now' = now /\ (OnSuccess \/ OnFailure)
  BY <1>0, <1>3, ReportStep
<1>4. now' = now \/ Tick
  BY DEF Next, vars, Step, Refused, Begin, RequestEnds, RequestGivesUp, Done, RequestRetry, Wake,
     OuterPay, OuterEnd, End
<1>5. UNCHANGED circuit \/ OnSuccess \/ OnFailure
  BY DEF Next, vars, Step, Refused, Begin, RequestEnds, RequestGivesUp, Done, RequestRetry, Wake,
     OuterPay, OuterEnd, End, Tick
<1> QED BY <1>1, <1>2, <1>3, <1>4, <1>5

\* The calls in progress are finitely many, and a call adds or removes itself only.
LEMMA ActiveStep ==
    ASSUME TypeOK, NEW c \in Callers, NEW s \in {"idle", "request", "sleep", "outer", "end"},
           pc' = [pc EXCEPT ![c] = s]
    PROVE  /\ IsFiniteSet(Active) /\ Cardinality(Active) \in Nat
           /\ pc[c] # "idle" /\ s # "idle" => Active' = Active
           /\ pc[c] = "idle" /\ s # "idle" => Cardinality(Active') = Cardinality(Active) + 1
           /\ pc[c] # "idle" /\ s = "idle" => Cardinality(Active') = Cardinality(Active) - 1
<1>0. IsFiniteSet(Active) /\ Cardinality(Active) \in Nat
  BY RemoteAssumption, FS_Subset, FS_CardinalityType DEF Active
<1>1. \A d \in Callers : pc'[d] = IF d = c THEN s ELSE pc[d]
  BY DEF TypeOK
<1>2. ASSUME pc[c] # "idle", s # "idle" PROVE Active' = Active
  BY <1>1, <1>2 DEF Active
<1>3. ASSUME pc[c] = "idle", s # "idle" PROVE Cardinality(Active') = Cardinality(Active) + 1
  <2>1. Active' = Active \cup {c} /\ c \notin Active
    BY <1>1, <1>3 DEF Active
  <2> QED BY <1>0, <2>1, FS_AddElement
<1>4. ASSUME pc[c] # "idle", s = "idle" PROVE Cardinality(Active') = Cardinality(Active) - 1
  <2>1. Active' = Active \ {c} /\ c \in Active
    BY <1>1, <1>4 DEF Active
  <2> QED BY <1>0, <2>1, FS_RemoveElement
<1> QED BY <1>0, <1>2, <1>3, <1>4

\* Every call in progress is counted, and the counters stay under the shedding threshold.
LEMMA LoadBoundedStep == IInv /\ [Next]_vars => LoadBounded'
<1> SUFFICES ASSUME IInv, [Next]_vars PROVE LoadBounded'
  OBVIOUS
<1>0. /\ TypeOK /\ Cardinality(Active) <= inflight + queued /\ inflight + queued <= ShedAt
      /\ inflight \in Nat /\ queued \in Nat /\ ShedAt \in Nat
  BY ShedAtType DEF IInv, LoadBounded, TypeOK
<1>1. ASSUME NEW c \in Callers, NEW k \in {"fetch", "ls"}, Begin(c, k) PROVE LoadBounded'
  <2>1. /\ inflight' + queued' = inflight + queued + 1 /\ inflight' + queued' <= ShedAt
    BY <1>0, <1>1, LoadStep DEF Begin
  <2>2. Cardinality(Active') = Cardinality(Active) + 1 /\ Cardinality(Active) \in Nat
    <3>1. pc' = [pc EXCEPT ![c] = "request"] /\ pc[c] = "idle"
      BY <1>1 DEF Begin
    <3> QED BY <1>0, <3>1, ActiveStep
  <2> QED BY <1>0, <2>1, <2>2 DEF LoadBounded
<1>2. ASSUME NEW c \in Callers, End(c) PROVE LoadBounded'
  <2>1. /\ inflight' + queued' >= inflight + queued - 1 /\ inflight' + queued' <= ShedAt
        /\ inflight' \in Nat /\ queued' \in Nat
    BY <1>0, <1>2, LoadStep DEF End
  <2>2. Cardinality(Active') = Cardinality(Active) - 1 /\ Cardinality(Active) \in Nat
    <3>1. pc' = [pc EXCEPT ![c] = "idle"] /\ pc[c] # "idle"
      BY <1>2 DEF End
    <3> QED BY <1>0, <3>1, ActiveStep
  <2>3. Cardinality(Active') <= inflight' + queued'
    <3>1. \A m, a, b, x, y \in Nat :
              m <= a + b /\ x + y >= a + b - 1 => m - 1 <= x + y
      OBVIOUS
    <3> QED BY <1>0, <2>1, <2>2, <3>1, ZenonT(60)
  <2> QED BY <2>1, <2>3 DEF LoadBounded
<1>3. CASE UNCHANGED load /\ Active' = Active
  BY <1>0, <1>3 DEF load, LoadBounded
<1>4. ASSUME NEW c \in Callers, Step(c), ~End(c) PROVE Active' = Active
  <2>1. CASE pc' = pc
    BY <2>1 DEF Active
  <2>2. ASSUME NEW s \in {"request", "sleep", "outer", "end"}, pc' = [pc EXCEPT ![c] = s],
               pc[c] # "idle"
        PROVE  Active' = Active
    BY <1>0, <2>2, ActiveStep
  <2> QED BY <1>4, <2>1, <2>2 DEF Step, RequestEnds, RequestGivesUp, Done, RequestRetry, Wake,
          OuterPay, OuterEnd
<1>5. ASSUME NEW c \in Callers, Step(c), ~End(c) PROVE UNCHANGED load
  BY <1>5 DEF Step, RequestEnds, RequestGivesUp, Done, RequestRetry, Wake, OuterPay, OuterEnd
<1>6. ASSUME Tick \/ UNCHANGED vars \/ \E c \in Callers : Refused(c)
      PROVE  UNCHANGED load /\ Active' = Active
  BY <1>6 DEF Tick, vars, call, Refused, Active
<1> QED BY <1>1, <1>2, <1>3, <1>4, <1>5, <1>6 DEF Next

-----------------------------------------------------------------------------
(* The retry budget *)

\* The current window began when the budget was last refilled.
WindowStart == resetAt - Window

\* Retries are paid for one by one; none after the present, and none after the end of a
\* window until the next one begins.
Rising == \A t, u \in 0 .. MaxTime : t <= u => spent[t] <= spent[u]
Flat ==
    \A t, u \in 0 .. MaxTime :
        (t >= now /\ u >= now) \/ (t >= resetAt - 1 /\ u >= resetAt - 1) => spent[t] = spent[u]
\* What was paid for in this window is what the budget has less than its refill.
ThisWindow ==
    /\ 1 <= WindowStart /\ WindowStart <= now
    /\ spent[now] - spent[WindowStart - 1] = perMin - remaining
\* In the time before it that a stretch reaching into it can cover, one refill was paid for.
LastWindow ==
    \A t \in 1 .. MaxTime :
        WindowStart - Window < t /\ t <= WindowStart => spent[WindowStart - 1] - spent[t - 1] <= perMin

\* The invariant for BudgetBounds, which speaks of stretches that end anywhere: those that
\* end at the present are bounded by what this window and the last have paid for.
BInv == Rising /\ Flat /\ ThisWindow /\ LastWindow /\ BudgetBounds

\* A stretch from t to u that ends at the present n or later reaches back into the last
\* window at most: f is what was paid for, s the start of this window, b the refill.
LEMMA EndsNow ==
    ASSUME NEW f \in [0 .. MaxTime -> Nat], NEW n \in 1 .. MaxTime, NEW s \in 1 .. n,
           NEW b \in Nat, f[n] - f[s - 1] <= b,
           \A x, y \in 0 .. MaxTime : x <= y => f[x] <= f[y],
           \A x \in 0 .. MaxTime : x >= n => f[x] = f[n],
           \A x \in 1 .. MaxTime : s - Window < x /\ x <= s => f[s - 1] - f[x - 1] <= b,
           NEW t \in 1 .. MaxTime, NEW u \in 1 .. MaxTime, t <= u, u < t + Window, u >= n
    PROVE  f[u] - f[t - 1] <= 2 * b
<1>1. MaxTime \in Nat /\ Window \in Nat
  BY RemoteAssumption
<1>2. /\ f[u] \in Nat /\ f[t - 1] \in Nat /\ f[s - 1] \in Nat /\ f[n] \in Nat /\ f[u] = f[n]
  BY <1>1
<1>3. CASE s <= t
  <2>1. f[s - 1] <= f[t - 1]
    BY <1>1, <1>3
  <2> QED BY <1>2, <2>1
<1>4. CASE t < s
  <2>1. s - Window < t
    BY <1>1
  <2>2. f[s - 1] - f[t - 1] <= b
    BY <1>1, <1>4, <2>1
  <2> QED BY <1>2, <2>2
<1> QED BY <1>3, <1>4

\* A fresh remote has paid for nothing.
LEMMA InitBudget == Init => BInv
<1> SUFFICES ASSUME Init PROVE BInv
  OBVIOUS
<1>1. /\ perMin \in Nat /\ now = 1 /\ WindowStart = 1 /\ remaining = perMin /\ MaxTime \in Nat \ {0}
      /\ \A t \in 0 .. MaxTime : spent[t] = 0
  BY RemoteAssumption DEF Init, WindowStart
<1>2. Rising /\ Flat /\ ThisWindow
  BY <1>1 DEF Rising, Flat, ThisWindow
<1>3. LastWindow
  BY <1>1 DEF LastWindow
<1>4. BudgetBounds
  BY <1>1 DEF BudgetBounds
<1> QED BY <1>2, <1>3, <1>4 DEF BInv

\* The types of the budget, for arithmetic.
LEMMA BudgetTypes ==
    TypeOK =>
        /\ perMin \in Nat /\ remaining \in Nat /\ remaining <= perMin
        /\ now \in Int /\ now \in 1 .. MaxTime /\ resetAt \in Int
        /\ spent \in [0 .. MaxTime -> Nat]
        /\ MaxTime \in Nat \ {0} /\ Window \in Nat \ {0}
<1> SUFFICES ASSUME TypeOK
             PROVE  /\ perMin \in Nat /\ remaining \in Nat /\ remaining <= perMin
                    /\ now \in Int /\ now \in 1 .. MaxTime /\ resetAt \in Int
                    /\ spent \in [0 .. MaxTime -> Nat]
                    /\ MaxTime \in Nat \ {0} /\ Window \in Nat \ {0}
  OBVIOUS
<1>1. MaxTime \in Nat \ {0} /\ Window \in Nat \ {0} /\ Budgets \subseteq Nat
  BY RemoteAssumption
<1>2. /\ now \in 1 .. MaxTime /\ perMin \in Budgets /\ remaining \in 0 .. perMin
      /\ resetAt \in 1 .. MaxTime + Window /\ spent \in [0 .. MaxTime -> Nat]
  BY DEF TypeOK
<1>3. perMin \in Nat
  BY <1>1, <1>2
<1>4. remaining \in Nat /\ remaining <= perMin
  BY <1>2, <1>3
<1>5. now \in Int /\ resetAt \in Int
  BY <1>1, <1>2
<1> QED BY <1>1, <1>2, <1>3, <1>4, <1>5

\* A retry that is paid for in the present window: f is what was paid for before it and g
\* after it, n the present, s the start of the window, b the refill, r what remains of it.
LEMMA PaidInWindow ==
    ASSUME NEW f \in [0 .. MaxTime -> Nat], NEW g, NEW n \in 1 .. MaxTime, NEW s \in 1 .. n,
           NEW b \in Nat, NEW r \in Nat, MaxTime \in Nat, Window \in Nat,
           \A x \in 0 .. MaxTime : g[x] = IF x >= n THEN f[x] + 1 ELSE f[x],
           f[n] - f[s - 1] = b - r,
           \A x \in 1 .. MaxTime : s - Window < x /\ x <= s => f[s - 1] - f[x - 1] <= b
    PROVE  /\ g[n] - g[s - 1] = b - (r - 1)
           /\ \A x \in 1 .. MaxTime : s - Window < x /\ x <= s => g[s - 1] - g[x - 1] <= b
<1>1. /\ n \in 0 .. MaxTime /\ s - 1 \in 0 .. MaxTime /\ s - 1 < n /\ n >= n
      /\ n \in Int /\ s \in Int
  OBVIOUS
<1>2. g[n] = f[n] + 1 /\ g[s - 1] = f[s - 1] /\ f[n] \in Nat /\ f[s - 1] \in Nat
  BY <1>1
<1>3. g[n] - g[s - 1] = b - (r - 1)
  <2>1. \A i, j, k, l \in Nat : i - j = k - l => (i + 1) - j = k - (l - 1)
    OBVIOUS
  <2> QED BY <1>2, <2>1
<1>4. ASSUME NEW x \in 1 .. MaxTime, s - Window < x, x <= s PROVE g[s - 1] - g[x - 1] <= b
  <2>1. x - 1 \in 0 .. MaxTime /\ x - 1 < n
    BY <1>1, <1>4
  <2>2. g[x - 1] = f[x - 1]
    BY <1>1, <2>1
  <2> QED BY <1>2, <1>4, <2>2
<1> QED BY <1>3, <1>4

\* The first retry of a new window, which begins at the present n; the last one began at s
\* and nothing was paid for since its end.
LEMMA PaidNewWindow ==
    ASSUME NEW f \in [0 .. MaxTime -> Nat], NEW g, NEW n \in 1 .. MaxTime, NEW s \in 1 .. n,
           NEW b \in Nat, NEW r \in Nat, MaxTime \in Nat, Window \in Nat,
           \A x \in 0 .. MaxTime : g[x] = IF x >= n THEN f[x] + 1 ELSE f[x],
           f[n] - f[s - 1] = b - r, n >= s + Window,
           \A x, y \in 0 .. MaxTime : x <= y => f[x] <= f[y],
           \A x, y \in 0 .. MaxTime : x >= s + Window - 1 /\ y >= s + Window - 1 => f[x] = f[y]
    PROVE  /\ g[n] - g[n - 1] = b - (b - 1)
           /\ \A x \in 1 .. MaxTime : n - Window < x /\ x <= n => g[n - 1] - g[x - 1] <= b
<1>1. /\ n \in 0 .. MaxTime /\ n - 1 \in 0 .. MaxTime /\ s - 1 \in 0 .. MaxTime
      /\ n \in Int /\ s \in Int /\ n - 1 < n
  OBVIOUS
<1>2. f[n - 1] = f[n] /\ f[n] \in Nat /\ f[s - 1] \in Nat
  BY <1>1
<1>3. g[n] = f[n] + 1 /\ g[n - 1] = f[n]
  BY <1>1, <1>2
<1>4. ASSUME NEW x \in 1 .. MaxTime, n - Window < x, x <= n PROVE g[n - 1] - g[x - 1] <= b
  <2>1. x - 1 \in 0 .. MaxTime /\ x - 1 < n /\ s - 1 <= x - 1
    BY <1>1, <1>4
  <2>2. g[x - 1] = f[x - 1] /\ f[s - 1] <= f[x - 1] /\ f[x - 1] \in Nat
    BY <1>1, <2>1
  <2> QED BY <1>2, <1>3, <2>2
<1> QED BY <1>2, <1>3, <1>4

\* A retry that is paid for, in this window or as the first of the next.
LEMMA PaidStep == ASSUME TypeOK, TypeOK', BInv, Consume, now' = now PROVE BInv'
<1> PICK f, g, n, s, b, r : /\ f = spent /\ g = spent' /\ n = now /\ s = resetAt - Window
                            /\ b = perMin /\ r = remaining
  OBVIOUS
<1>1. /\ b \in Nat /\ r \in Nat /\ r <= b /\ n \in Int /\ n \in 1 .. MaxTime /\ s \in Int
      /\ f \in [0 .. MaxTime -> Nat] /\ MaxTime \in Nat \ {0} /\ Window \in Nat \ {0}
      /\ resetAt = s + Window
  BY BudgetTypes
<1>2. perMin' = b /\ now' = n
  BY DEF Consume
<1>3. s \in 1 .. n /\ f[n] - f[s - 1] = b - r
  BY <1>1 DEF BInv, ThisWindow, WindowStart
<1>4. \A x, y \in 0 .. MaxTime : x <= y => f[x] <= f[y]
  BY DEF BInv, Rising
<1>5. \A x, y \in 0 .. MaxTime :
          (x >= n /\ y >= n) \/ (x >= s + Window - 1 /\ y >= s + Window - 1) => f[x] = f[y]
  BY <1>1 DEF BInv, Flat
<1>6. \A x \in 1 .. MaxTime : s - Window < x /\ x <= s => f[s - 1] - f[x - 1] <= b
  BY DEF BInv, LastWindow, WindowStart
<1>7. \A x, y \in 1 .. MaxTime : x <= y /\ y < x + Window => f[y] - f[x - 1] <= 2 * b
  BY DEF BInv, BudgetBounds
<1>8. CASE b = 0
  <2>1. resetAt' = resetAt /\ remaining' = r /\ \A x \in 0 .. MaxTime : g[x] = f[x]
    BY <1>8 DEF Consume
  <2>2. g = f
    <3>1. g = [x \in 0 .. MaxTime |-> g[x]]
      BY DEF Consume
    <3>2. f = [x \in 0 .. MaxTime |-> f[x]]
      BY <1>1
    <3> QED BY <2>1, <3>1, <3>2
  <2>3. UNCHANGED <<now, perMin, remaining, resetAt, spent>>
    BY <1>2, <2>1, <2>2
  <2> QED BY <2>3 DEF BInv, Rising, Flat, ThisWindow, LastWindow, WindowStart, BudgetBounds
<1>9. CASE b # 0
  <2>1. \A x \in 0 .. MaxTime : g[x] = IF x >= n THEN f[x] + 1 ELSE f[x]
    BY <1>9 DEF Consume
  <2>2. \/ n >= s + Window /\ remaining' = b - 1 /\ resetAt' = n + Window
        \/ n < s + Window /\ remaining' = r - 1 /\ resetAt' = resetAt
    BY <1>1, <1>9 DEF Consume, Refills
  <2>3. \A x, y \in 0 .. MaxTime : x <= y => g[x] <= g[y]
    <3> SUFFICES ASSUME NEW x \in 0 .. MaxTime, NEW y \in 0 .. MaxTime, x <= y
                 PROVE  g[x] <= g[y]
      OBVIOUS
    <3>1. f[x] <= f[y] /\ f[x] \in Nat /\ f[y] \in Nat /\ x \in Int /\ y \in Int
      BY <1>1, <1>4
    <3>2. x >= n => y >= n
      BY <1>1, <3>1
    <3> QED BY <2>1, <3>1, <3>2
  <2>4. Rising'
    BY <2>3 DEF Rising
  <2>5. n <= resetAt' - 1 /\ resetAt' \in Int
    BY <1>1, <2>2
  <2>6. \A x, y \in 0 .. MaxTime : x >= n /\ y >= n => g[x] = g[y]
    BY <1>5, <2>1
  <2>7. Flat'
    <3> PICK e : e = resetAt'
      OBVIOUS
    <3>1. \A x \in 0 .. MaxTime : x >= e - 1 => x >= n
      <4>1. e \in Int /\ n <= e - 1 /\ n \in Int
        BY <1>1, <2>5
      <4> QED BY ONLY <1>1, <4>1
    <3>2. \A x, y \in 0 .. MaxTime :
              (x >= n /\ y >= n) \/ (x >= e - 1 /\ y >= e - 1) => g[x] = g[y]
      BY <2>6, <3>1
    <3> QED BY <1>2, <3>2 DEF Flat
  <2>8. ThisWindow' /\ LastWindow'
    <3>1. CASE n < s + Window /\ remaining' = r - 1 /\ resetAt' = resetAt
      <4>1. /\ g[n] - g[s - 1] = b - (r - 1)
            /\ \A x \in 1 .. MaxTime : s - Window < x /\ x <= s => g[s - 1] - g[x - 1] <= b
        BY <1>1, <1>3, <1>6, <2>1, PaidInWindow
      <4>2. WindowStart' = s
        BY <1>1, <3>1 DEF WindowStart
      <4>3. 1 <= s /\ s <= n
        BY <1>1, <1>3
      <4>4. ThisWindow'
        BY <1>2, <3>1, <4>1, <4>2, <4>3 DEF ThisWindow
      <4>5. LastWindow'
        BY <1>2, <4>1, <4>2 DEF LastWindow
      <4> QED BY <4>4, <4>5
    <3>2. CASE n >= s + Window /\ remaining' = b - 1 /\ resetAt' = n + Window
      <4>1. /\ g[n] - g[n - 1] = b - (b - 1)
            /\ \A x \in 1 .. MaxTime : n - Window < x /\ x <= n => g[n - 1] - g[x - 1] <= b
        BY <1>1, <1>3, <1>4, <1>5, <2>1, <3>2, PaidNewWindow
      <4>2. WindowStart' = n
        BY <1>1, <3>2 DEF WindowStart
      <4>3. 1 <= n /\ n <= n
        BY <1>1
      <4>4. ThisWindow'
        BY <1>2, <3>2, <4>1, <4>2, <4>3 DEF ThisWindow
      <4>5. LastWindow'
        BY <1>2, <4>1, <4>2 DEF LastWindow
      <4> QED BY <4>4, <4>5
    <3> QED BY <2>2, <3>1, <3>2
  <2>9. \A t, u \in 1 .. MaxTime : t <= u /\ u < t + Window => g[u] - g[t - 1] <= 2 * b
    <3> SUFFICES ASSUME NEW t \in 1 .. MaxTime, NEW u \in 1 .. MaxTime, t <= u, u < t + Window
                 PROVE  g[u] - g[t - 1] <= 2 * b
      OBVIOUS
    <3>1. CASE u < n
      <4>1. u \in 0 .. MaxTime /\ t - 1 \in 0 .. MaxTime /\ ~(u >= n) /\ ~(t - 1 >= n)
        BY <1>1, <3>1
      <4>2. g[u] = f[u] /\ g[t - 1] = f[t - 1]
        BY <2>1, <4>1
      <4> QED BY <1>7, <4>2
    <3>2. CASE u >= n
      <4> PICK w : w = WindowStart'
        OBVIOUS
      <4>1. g \in [0 .. MaxTime -> Nat] /\ remaining' \in Nat /\ resetAt' \in Int
        <5>1. (TypeOK =>
                /\ perMin \in Nat /\ remaining \in Nat /\ remaining <= perMin
                /\ now \in Int /\ now \in 1 .. MaxTime /\ resetAt \in Int
                /\ spent \in [0 .. MaxTime -> Nat]
                /\ MaxTime \in Nat \ {0} /\ Window \in Nat \ {0})'
          BY BudgetTypes, PTL
        <5> QED BY <5>1
      <4>2. w \in Int
        BY <1>1, <4>1 DEF WindowStart
      <4>3. w \in 1 .. n /\ g[n] - g[w - 1] = b - remaining'
        BY <1>1, <1>2, <2>8, <4>2 DEF ThisWindow
      <4>4. g[n] - g[w - 1] <= b
        <5>1. \A i \in Nat : b - i <= b
          BY <1>1
        <5> QED BY <4>1, <4>3, <5>1
      <4>5. \A x \in 0 .. MaxTime : x >= n => g[x] = g[n]
        BY <1>1, <2>6
      <4>6. \A x \in 1 .. MaxTime : w - Window < x /\ x <= w => g[w - 1] - g[x - 1] <= b
        BY <1>2, <2>8 DEF LastWindow
      <4> QED BY <1>1, <2>3, <3>2, <4>1, <4>3, <4>4, <4>5, <4>6, EndsNow
    <3> QED BY <1>1, <3>1, <3>2
  <2>10. BudgetBounds'
    BY <1>2, <2>9 DEF BudgetBounds
  <2> QED BY <2>4, <2>7, <2>8, <2>10 DEF BInv
<1> QED BY <1>8, <1>9

\* Time passes, and nothing is paid for.
LEMMA TickBudget == ASSUME TypeOK, BInv, Tick PROVE BInv'
<1>1. /\ UNCHANGED <<perMin, remaining, resetAt, spent>> /\ now' = now + 1
      /\ now \in 1 .. MaxTime /\ now' \in 1 .. MaxTime /\ resetAt \in Int /\ Window \in Nat
  BY RemoteAssumption DEF Tick, budget, TypeOK
<1>2. Rising' /\ LastWindow' /\ BudgetBounds'
  BY <1>1 DEF BInv, Rising, LastWindow, WindowStart, BudgetBounds
<1>3. Flat'
  BY <1>1 DEF BInv, Flat
<1>4. ThisWindow'
  <2>1. spent[now'] = spent[now]
    BY <1>1 DEF BInv, Flat
  <2> QED BY <1>1, <2>1 DEF BInv, ThisWindow, WindowStart
<1> QED BY <1>2, <1>3, <1>4 DEF BInv

\* Every step keeps the invariant of the budget.
LEMMA BudgetStep == ASSUME TypeOK, TypeOK', BInv, [Next]_vars PROVE BInv'
<1>1. CASE Tick
  BY <1>1, TickBudget
<1>2. CASE Consume /\ now' = now
  BY <1>2, PaidStep
<1>3. CASE UNCHANGED <<now, budget>>
  BY <1>3 DEF budget, BInv, Rising, Flat, ThisWindow, LastWindow, WindowStart, BudgetBounds
<1>4. ASSUME NEW c \in Callers, Step(c) PROVE (Consume /\ now' = now) \/ UNCHANGED <<now, budget>>
  BY <1>4 DEF Step, RequestEnds, RequestGivesUp, Done, RequestRetry, Wake, OuterPay, OuterEnd, End
<1>5. ASSUME NEW c \in Callers, Refused(c) \/ \E k \in {"fetch", "ls"} : Begin(c, k)
      PROVE  UNCHANGED <<now, budget>>
  BY <1>5 DEF Refused, Begin
<1>6. ASSUME UNCHANGED vars PROVE UNCHANGED <<now, budget>>
  BY <1>6 DEF vars
<1> QED BY <1>1, <1>2, <1>3, <1>4, <1>5, <1>6 DEF Next

-----------------------------------------------------------------------------
(* The theorems *)

\* The inductive invariant holds in every reachable state of the remote.
THEOREM Invariance == Spec => []IInv
<1>1. IInv /\ [Next]_vars => IInv'
  BY TypeStep, CircuitStep, LoadBoundedStep DEF IInv
<1> QED BY InitIInv, <1>1, PTL DEF Spec

\* No unsigned counter of the remote goes below zero, no retry loop runs past max_retries
\* and the budget never exceeds its refill.
THEOREM TypeCorrect == Spec => []TypeOK
<1>1. IInv => TypeOK
  BY DEF IInv
<1> QED BY Invariance, <1>1, PTL

\* A closed circuit has counted the failures since the last success, no more and no fewer.
THEOREM ClosedCorrect == Spec => []ClosedCountsStreak
<1>1. IInv => ClosedCountsStreak
  BY DEF IInv
<1> QED BY Invariance, <1>1, PTL

\* The circuit closes only when SuccessThreshold calls in a row have succeeded.
THEOREM ClosesCorrect == Spec => ClosesOnStreak
<1>1. IInv /\ [Next]_vars
          => [openUntil # 0 /\ openUntil' = 0 => streak' >= SuccessThreshold]_vars
  BY CircuitStep
<1> QED BY Invariance, <1>1, PTL DEF Spec, ClosesOnStreak

\* No more calls are in progress than the load counters know of, and no more than the
\* shedding threshold.
THEOREM LoadCorrect == Spec => []LoadBounded
<1>1. IInv => LoadBounded
  BY DEF IInv
<1> QED BY Invariance, <1>1, PTL

\* In any stretch of time as long as the budget's window all calls together pay for no
\* more retries than two refills, for every budget and window and however the refills
\* fall: the stretch meets two windows at most (protocol.c, fastgit_remote_budget_consume).
THEOREM BudgetCorrect == Spec => []BudgetBounds
<1>1. IInv /\ IInv' /\ BInv /\ [Next]_vars => BInv'
  BY BudgetStep DEF IInv
<1>2. BInv => BudgetBounds
  BY DEF BInv
<1> QED BY InitBudget, Invariance, <1>1, <1>2, PTL DEF Spec
=============================================================================
