------------------------------- MODULE Remote -------------------------------
(***************************************************************************)
(* The resilience state of one fastgit_remote_t (src/network/protocol.c):  *)
(* a retry budget that is refilled once per window, a circuit breaker, and *)
(* the load counters, shared by the calls in progress on that remote:      *)
(* fastgit_fetch_remote and fastgit_remote_ls.  (fastgit_fetch and         *)
(* fastgit_push make a remote of their own for one call.)                  *)
(*                                                                         *)
(* A call asks the circuit and the load counters once, at its start; then  *)
(* come its requests, with retries in between, and at its end it reports   *)
(* to the circuit and gives its place back.  Each helper of protocol.c is  *)
(* one step; the code takes no lock, so calls in different threads need    *)
(* one around each helper for this to be exact.                            *)
(*                                                                         *)
(* Time is a number of ticks.  The length of a sleep (backoff with jitter, *)
(* or the server's Retry-After) is not fixed: a sleeping call wakes at any *)
(* moment.  A result is "OK", "EAGAIN" (any of the retryable EAGAIN, EBUSY *)
(* and EIO) or "ERROR" (any other).                                        *)
(***************************************************************************)
EXTENDS Integers, FiniteSets

CONSTANTS
    Callers,            \* the threads that use the remote
    MaxRetries,         \* retry.max_retries
    Budgets,            \* the values of retry_budget_per_min considered
    Window,             \* the minute of the budget
    FailureThreshold, SuccessThreshold,
    OpenTime,           \* cb.open_ms
    MaxConcurrent, QueueDepth, ShedPct,
    MaxTime             \* bound: the last tick

ASSUME RemoteAssumption ==
    /\ IsFiniteSet(Callers)
    /\ MaxRetries \in Nat
    /\ Budgets \subseteq Nat
    /\ Window \in Nat \ {0} /\ OpenTime \in Nat \ {0}
    /\ FailureThreshold \in Nat \ {0} /\ SuccessThreshold \in Nat \ {0}
    /\ MaxConcurrent \in Nat \ {0} /\ QueueDepth \in Nat \ {0} /\ ShedPct \in 1 .. 100
    /\ MaxTime \in Nat \ {0}

VARIABLES
    now,
    perMin,             \* retry.retry_budget_per_min, 0 for no limit
    remaining, resetAt, \* retry_budget_remaining, retry_budget_reset_ms
    openUntil,          \* cb_open_until_ms, 0 while the circuit is closed
    failures, successes,
    inflight, queued,   \* ls_inflight, ls_queued
    pc, attempt, last,  \* of each call: its place, its loop counter, its result
    wasQueued,          \* of each call: ls_queued > 0 when it got its place
    kind,               \* of each call: "fetch" or "ls"
    streak,             \* history: the latest outcomes, n successes or -n failures
    spent               \* history: the retries paid for up to each tick

budget  == <<perMin, remaining, resetAt, spent>>
circuit == <<openUntil, failures, successes, streak>>
load    == <<inflight, queued>>
call    == <<pc, attempt, last, wasQueued, kind>>
vars    == <<now, budget, circuit, load, call>>

Retryable(err) == err = "EAGAIN"

(***************************************************************************)
(* The retry budget.                                                       *)
(***************************************************************************)
\* Mutant: the refill does not move the end of the window.
RefillsForever == remaining' = perMin - 1 /\ resetAt' = resetAt

\* A consumption at or after the end of the window refills the budget and opens a new one.
Refills == remaining' = perMin - 1 /\ resetAt' = now + Window

\* fastgit_remote_budget_consume returning true.
Consume ==
    /\ \/ perMin = 0 /\ UNCHANGED <<remaining, resetAt>>
       \/ perMin # 0 /\ now >= resetAt /\ Refills
       \/ /\ perMin # 0 /\ now < resetAt /\ remaining # 0
          /\ remaining' = remaining - 1
          /\ UNCHANGED resetAt
    /\ spent' = [t \in 0 .. MaxTime |-> IF perMin # 0 /\ t >= now THEN spent[t] + 1 ELSE spent[t]]
    /\ UNCHANGED perMin

\* fastgit_remote_budget_consume returning false.
BudgetSpent == perMin # 0 /\ now < resetAt /\ remaining = 0

(***************************************************************************)
(* The circuit breaker.                                                    *)
(***************************************************************************)
CircuitAllow == openUntil = 0 \/ now >= openUntil

Open == openUntil' = now + OpenTime /\ successes' = 0

\* Mutant: a circuit that closes remembers the failures that opened it.
CloseKeepsFailures == openUntil' = 0 /\ successes' = 0 /\ UNCHANGED failures

Close == openUntil' = 0 /\ failures' = 0 /\ successes' = 0

\* fastgit_remote_circuit_on_success
OnSuccess ==
    /\ \/ /\ openUntil # 0 /\ now >= openUntil
          /\ successes + 1 >= SuccessThreshold
          /\ Close
       \/ /\ openUntil # 0 /\ now >= openUntil
          /\ successes + 1 < SuccessThreshold
          /\ successes' = successes + 1
          /\ UNCHANGED <<openUntil, failures>>
       \/ /\ openUntil # 0 /\ now < openUntil
          /\ UNCHANGED <<openUntil, failures, successes>>
       \/ /\ openUntil = 0
          /\ failures' = 0
          /\ UNCHANGED <<openUntil, successes>>
    /\ streak' = IF streak < 0 THEN 1
                 ELSE IF streak < SuccessThreshold THEN streak + 1 ELSE streak

\* Mutant: a failed probe does not cancel the successes counted before it.
ReopenKeepsSuccesses ==
    openUntil' = now + OpenTime /\ UNCHANGED <<failures, successes>>

\* A failure after the open time has run out opens the circuit again.
Reopen == Open /\ UNCHANGED failures

\* fastgit_remote_circuit_on_failure
OnFailure ==
    /\ \/ /\ openUntil # 0 /\ now < openUntil
          /\ UNCHANGED <<openUntil, failures, successes>>
       \/ /\ openUntil # 0 /\ now >= openUntil
          /\ Reopen
       \/ /\ openUntil = 0
          /\ failures' = failures + 1
          /\ IF failures + 1 >= FailureThreshold THEN Open
             ELSE UNCHANGED <<openUntil, successes>>
    /\ streak' = IF streak > 0 THEN -1
                 ELSE IF -streak < FailureThreshold THEN streak - 1 ELSE streak

(***************************************************************************)
(* The load counters.                                                      *)
(***************************************************************************)
ShedAt == ((MaxConcurrent + QueueDepth) * ShedPct) \div 100

Shed == inflight + queued >= ShedAt

\* fastgit_remote_load_acquire returning true: a queued call goes on just as one in flight.
Acquire ==
    /\ ~Shed
    /\ \/ /\ inflight < MaxConcurrent
          /\ inflight' = inflight + 1
          /\ UNCHANGED queued
       \/ /\ inflight >= MaxConcurrent /\ queued < QueueDepth
          /\ queued' = queued + 1
          /\ UNCHANGED inflight

AcquireFails == Shed \/ (inflight >= MaxConcurrent /\ queued >= QueueDepth)

\* Mutant: a place given back is taken off twice, from the flight and from the queue.
ReleaseTwice(c) ==
    /\ inflight' = IF inflight > 0 THEN inflight - 1 ELSE 0
    /\ queued' = IF queued > 0 THEN queued - 1 ELSE 0

\* fastgit_remote_load_release: a call in flight hands its place to a queued one.
Release(c) ==
    \/ /\ wasQueued[c]
       /\ queued' = IF queued > 0 THEN queued - 1 ELSE 0
       /\ UNCHANGED inflight
    \/ /\ ~wasQueued[c] /\ queued > 0
       /\ queued' = queued - 1
       /\ inflight' = IF inflight > 0 THEN inflight ELSE 1
    \/ /\ ~wasQueued[c] /\ queued = 0
       /\ inflight' = IF inflight > 0 THEN inflight - 1 ELSE 0
       /\ UNCHANGED queued

(***************************************************************************)
(* Calls.                                                                  *)
(***************************************************************************)
\* fastgit_fetch_internal or fastgit_remote_ls is refused with EBUSY.
Refused(c) ==
    /\ pc[c] = "idle"
    /\ ~CircuitAllow \/ AcquireFails
    /\ last' = [last EXCEPT ![c] = "EBUSY"]
    /\ UNCHANGED <<now, budget, circuit, load, pc, attempt, wasQueued, kind>>

\* The call gets a place.
Begin(c, k) ==
    /\ pc[c] = "idle"
    /\ CircuitAllow
    /\ Acquire
    /\ pc' = [pc EXCEPT ![c] = "request"]
    /\ attempt' = [attempt EXCEPT ![c] = 0]
    /\ last' = [last EXCEPT ![c] = "none"]
    /\ wasQueued' = [wasQueued EXCEPT ![c] = queued' > 0]
    /\ kind' = [kind EXCEPT ![c] = k]
    /\ UNCHANGED <<now, budget, circuit>>

\* The request, and what follows it (the pack and its unpacking), ends the call's work; the
\* outer loop of fetch begins with attempt 0.
Done(c, err) ==
    /\ last' = [last EXCEPT ![c] = err]
    /\ pc' = [pc EXCEPT ![c] = IF kind[c] = "fetch" /\ Retryable(err) THEN "outer" ELSE "end"]
    /\ attempt' = [attempt EXCEPT ![c] = 0]
    /\ UNCHANGED <<now, budget, circuit, load, wasQueued, kind>>

\* The request is answered, the answer is not retryable, or the part after it fails.
RequestEnds(c, err) ==
    /\ pc[c] = "request"
    /\ Done(c, err)

\* Mutant: one attempt too many.
LastAttemptLate(c) == attempt[c] > MaxRetries

LastAttempt(c) == attempt[c] = MaxRetries

\* do_http_info_refs_with_retry and do_ssh_info_refs_with_retry: the last attempt was made,
\* or the budget is spent.
RequestGivesUp(c) ==
    /\ pc[c] = "request"
    /\ LastAttempt(c) \/ BudgetSpent
    /\ Done(c, "EAGAIN")

\* Mutant: the loop counter is not advanced.
NoNextAttempt(c) == attempt[c]

NextAttempt(c) == attempt[c] + 1

\* A retryable failure with attempts and budget left: the call sleeps.
RequestRetry(c) ==
    /\ pc[c] = "request"
    /\ ~LastAttempt(c)
    /\ Consume
    /\ attempt' = [attempt EXCEPT ![c] = NextAttempt(c)]
    /\ pc' = [pc EXCEPT ![c] = "sleep"]
    /\ UNCHANGED <<now, circuit, load, last, wasQueued, kind>>

\* The sleep is over: the next attempt.  The circuit is not asked again.
Wake(c) ==
    /\ pc[c] = "sleep"
    /\ pc' = [pc EXCEPT ![c] = "request"]
    /\ UNCHANGED <<now, budget, circuit, load, attempt, last, wasQueued, kind>>

\* The retry loop at the end of fetch: it pays and sleeps, and retries nothing.
OuterPay(c) ==
    /\ pc[c] = "outer"
    /\ attempt[c] < MaxRetries
    /\ Consume
    /\ attempt' = [attempt EXCEPT ![c] = NextAttempt(c)]
    /\ UNCHANGED <<now, circuit, load, pc, last, wasQueued, kind>>

OuterEnd(c) ==
    /\ pc[c] = "outer"
    /\ attempt[c] >= MaxRetries \/ BudgetSpent
    /\ pc' = [pc EXCEPT ![c] = "end"]
    /\ UNCHANGED <<now, budget, circuit, load, attempt, last, wasQueued, kind>>

\* The call reports to the circuit (not an error that is not retryable), gives its place
\* back and returns.
End(c) ==
    /\ pc[c] = "end"
    /\ \/ last[c] = "OK" /\ OnSuccess
       \/ Retryable(last[c]) /\ OnFailure
       \/ last[c] = "ERROR" /\ UNCHANGED circuit
    /\ Release(c)
    /\ pc' = [pc EXCEPT ![c] = "idle"]
    /\ attempt' = [attempt EXCEPT ![c] = 0]
    /\ wasQueued' = [wasQueued EXCEPT ![c] = FALSE]
    /\ kind' = [kind EXCEPT ![c] = "ls"]
    /\ UNCHANGED <<now, budget, last>>

Tick ==
    /\ now < MaxTime
    /\ now' = now + 1
    /\ UNCHANGED <<budget, circuit, load, call>>

-----------------------------------------------------------------------------
\* fastgit_remote_create; the clock is past zero.
Init ==
    /\ now = 1
    /\ perMin \in Budgets
    /\ remaining = perMin /\ resetAt = now + Window
    /\ openUntil = 0 /\ failures = 0 /\ successes = 0
    /\ inflight = 0 /\ queued = 0
    /\ pc = [c \in Callers |-> "idle"]
    /\ attempt = [c \in Callers |-> 0]
    /\ last = [c \in Callers |-> "none"]
    /\ wasQueued = [c \in Callers |-> FALSE]
    /\ kind = [c \in Callers |-> "ls"]
    /\ streak = 0
    /\ spent = [t \in 0 .. MaxTime |-> 0]

Step(c) ==
    \/ \E err \in {"OK", "EAGAIN", "ERROR"} : RequestEnds(c, err)
    \/ RequestGivesUp(c)
    \/ RequestRetry(c)
    \/ Wake(c)
    \/ OuterPay(c)
    \/ OuterEnd(c)
    \/ End(c)

Next ==
    \/ \E c \in Callers :
          \/ Refused(c)
          \/ \E k \in {"fetch", "ls"} : Begin(c, k)
          \/ Step(c)
    \/ Tick

Spec == Init /\ [][Next]_vars

\* A thread in a call goes on: every request ends, with an error if nothing else, and every
\* sleep is finite.
Fairness == \A c \in Callers : WF_vars(Step(c))

FairSpec == Spec /\ Fairness

-----------------------------------------------------------------------------
(* Properties *)

Active == {c \in Callers : pc[c] # "idle"}

\* The counters of fastgit_remote_t stay in their ranges: no unsigned counter goes below zero,
\* the loop counters do not run past max_retries, the budget never exceeds its refill.
TypeOK ==
    /\ now \in 1 .. MaxTime
    /\ perMin \in Budgets /\ remaining \in 0 .. perMin
    /\ resetAt \in 1 .. MaxTime + Window
    /\ openUntil \in 0 .. MaxTime + OpenTime
    /\ failures \in 0 .. FailureThreshold /\ successes \in 0 .. SuccessThreshold - 1
    /\ inflight \in 0 .. MaxConcurrent /\ queued \in 0 .. QueueDepth
    /\ pc \in [Callers -> {"idle", "request", "sleep", "outer", "end"}]
    /\ attempt \in [Callers -> 0 .. MaxRetries]
    /\ last \in [Callers -> {"none", "OK", "EAGAIN", "ERROR", "EBUSY"}]
    /\ wasQueued \in [Callers -> BOOLEAN]
    /\ kind \in [Callers -> {"fetch", "ls"}]
    /\ streak \in -FailureThreshold .. SuccessThreshold
    /\ spent \in [0 .. MaxTime -> Nat]

\* A closed circuit has counted exactly the failures since the last success, whatever calls
\* that began before it opened have reported since: it opens after FailureThreshold failures
\* in a row and not one earlier.
ClosedCountsStreak == openUntil = 0 => failures = IF streak < 0 THEN -streak ELSE 0

\* The circuit closes only on SuccessThreshold successes in a row: a failed probe starts the
\* count again.
ClosesOnStreak == [][openUntil # 0 /\ openUntil' = 0 => streak' >= SuccessThreshold]_vars

\* Load shedding: the counters never miss a call in progress, so no more calls than the
\* shedding threshold are ever in progress, however they overlap. It is not the "Max 64
\* concurrent" of docs/index.html:286: a call counted as queued runs at once, so MaxConcurrent
\* does not bound what runs.
LoadBounded ==
    /\ Cardinality(Active) <= inflight + queued
    /\ inflight + queued <= ShedAt

\* Retry storms: in any stretch of time as long as the budget's window, all calls together
\* pay for no more retries than two refills. This is what the code keeps, and it is less than
\* the "20 retries/min per remote" of docs/index.html:262 and 289: budget_consume refills
\* at fixed points, so one refill may be spent just before such a point and another just
\* after it, 40 retries in much less than a minute.
BudgetBounds ==
    \A t, u \in 1 .. MaxTime :
        t <= u /\ u < t + Window => spent[u] - spent[t - 1] <= 2 * perMin

\* Every call returns, however its requests fail: the retry loops are bounded by max_retries
\* even when the budget is unlimited.
CallsReturn == \A c \in Callers : pc[c] # "idle" ~> pc[c] = "idle"

\* When no call is in progress, every place has been given back.
PlacesReturned == Active = {} => inflight = 0 /\ queued = 0
=============================================================================
