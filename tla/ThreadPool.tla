------------------------------- MODULE ThreadPool -------------------------------
(***************************************************************************)
(* The thread pool of src/platform/platform.c: a mutex, two condition      *)
(* variables (cond for the workers, done_cond for callers of wait), a ring *)
(* buffer of tasks and a counter of unfinished tasks.                      *)
(*                                                                         *)
(* A critical section is one step when no other thread can observe its     *)
(* middle.  The exception is a worker that has tested                      *)
(* "count == 0 && !shutdown" and is about to call pthread_cond_wait:       *)
(* fastgit_thread_pool_free sets shutdown and broadcasts WITHOUT the       *)
(* mutex, so it can run between the two, and they are two steps here.      *)
(*                                                                         *)
(* Tasks are numbered in the order in which the pool accepts them.         *)
(***************************************************************************)
EXTENDS Integers, FiniteSets

CONSTANTS
    Workers,        \* the worker threads started by fastgit_thread_pool_new
    Clients,        \* the threads that hold the pool's handle
    Owner,          \* the client that frees the pool
    NoThread,       \* "nobody holds the mutex"
    NoTask,         \* a slot of the calloc'ed ring that was never written
    Depth,          \* config.max_queue_depth, after its default
    MaxTasks        \* bound: how many tasks are ever accepted

ASSUME WorkersAssumption == IsFiniteSet(Workers) /\ Workers # {}
ASSUME OwnerAssumption   == Owner \in Clients
ASSUME DepthAssumption   == Depth \in Nat \ {0}
ASSUME BoundAssumption   == MaxTasks \in Nat
ASSUME ThreadAssumption  ==
    /\ Workers \cap Clients = {}
    /\ NoThread \notin Workers \cup Clients
    /\ NoTask \notin 1 .. MaxTasks

VARIABLES
    lock,           \* holder of the mutex across steps, or NoThread
    tasks,          \* the ring: tasks[] and task_args[], one value per slot
    head, tail, count,
    pending,        \* accepted tasks that have not finished
    shutdown,
    condWait,       \* workers asleep on cond
    doneWait,       \* clients asleep on done_cond
    wpc,            \* where each worker is
    cur,            \* the task a worker took (its fn and task_arg)
    cpc,            \* where each client is
    err,            \* what a client's last fastgit_thread_pool_submit returned
    accepted,       \* history: number of tasks accepted so far
    runs            \* history: how many times each task's function has run

ring       == <<tasks, head, tail, count>>
workerVars == <<wpc, cur>>
clientVars == <<cpc, err>>
vars == <<lock, ring, pending, shutdown, condWait, doneWait, workerVars,
          clientVars, accepted, runs>>

Task == 1 .. MaxTasks

Init ==
    /\ lock = NoThread
    /\ tasks = [i \in 0 .. Depth - 1 |-> NoTask]
    /\ head = 0 /\ tail = 0 /\ count = 0
    /\ pending = 0
    /\ shutdown = FALSE
    /\ condWait = {} /\ doneWait = {}
    /\ wpc = [w \in Workers |-> "loop"]
    /\ cur = [w \in Workers |-> NoTask]
    /\ cpc = [c \in Clients |-> "idle"]
    /\ err = [c \in Clients |-> "OK"]
    /\ accepted = 0
    /\ runs = [t \in Task |-> 0]

-----------------------------------------------------------------------------
(* The ring and the tests on it *)

\* A position in the ring, which has max_queue_depth slots.
Wrapped(i) == i % Depth

\* Mutant: the index runs one past the end of the ring before it wraps.
AdvancePastEnd(i) == (i + 1) % (Depth + 1)

Advance(i) == Wrapped(i + 1)

\* Mutant: ">" for ">=" when the ring is full.
FullOffByOne == count > Depth

Full == count >= Depth

\* Mutant: the worker pops the slot that submit will fill next.
PopTail == tail

PopSlot == head

\* The predicate of the worker's while loop.
MustSleep == count = 0 /\ ~shutdown

\* Mutant: a worker leaves as soon as it sees shutdown.
ExitAtOnce == shutdown

MustExit == shutdown /\ count = 0

\* Mutant: submit forgets the new task in the counter.
PendingKept == pending

PendingPlusOne == pending + 1

\* Mutant: submit does not signal.
SignalNobody == UNCHANGED condWait

\* pthread_cond_signal(&pool->cond): one sleeping worker wakes, if there is one.
Signal ==
    \/ condWait = {} /\ UNCHANGED condWait
    \/ \E w \in condWait : condWait' = condWait \ {w}

\* Mutant: the last worker does not broadcast.
DoneUnheard == doneWait

\* The clients still asleep on done_cond after a worker's last lines.
DoneBroadcast == IF pending - 1 = 0 THEN {} ELSE doneWait

\* Mutant: wait looks at the ring, not at the unfinished tasks.
RingEmpty == count = 0

AllDone == ~(pending > 0)

-----------------------------------------------------------------------------
(* Workers: thread_worker *)

\* About to take the mutex at the top of the loop, or woken inside
\* pthread_cond_wait and about to take it back; both then test the predicate.
AtTest(w) ==
    \/ wpc[w] = "loop"
    \/ wpc[w] = "asleep" /\ w \notin condWait

\* The loop's predicate holds: the worker keeps the mutex and is about to call
\* pthread_cond_wait.
WorkerMustWait(w) ==
    /\ AtTest(w)
    /\ lock = NoThread
    /\ MustSleep
    /\ lock' = w
    /\ wpc' = [wpc EXCEPT ![w] = "toWait"]
    /\ UNCHANGED <<ring, pending, shutdown, condWait, doneWait, cur,
                   clientVars, accepted, runs>>

\* pthread_cond_wait: release the mutex and fall asleep, atomically.
WorkerWait(w) ==
    /\ wpc[w] = "toWait"
    /\ lock' = NoThread
    /\ condWait' = condWait \cup {w}
    /\ wpc' = [wpc EXCEPT ![w] = "asleep"]
    /\ UNCHANGED <<ring, pending, shutdown, doneWait, cur, clientVars,
                   accepted, runs>>

WorkerExit(w) ==
    /\ AtTest(w)
    /\ lock = NoThread
    /\ MustExit
    /\ wpc' = [wpc EXCEPT ![w] = "exited"]
    /\ UNCHANGED <<lock, ring, pending, shutdown, condWait, doneWait, cur,
                   clientVars, accepted, runs>>

WorkerTake(w) ==
    /\ AtTest(w)
    /\ lock = NoThread
    /\ ~MustSleep /\ ~MustExit
    /\ cur' = [cur EXCEPT ![w] = tasks[PopSlot]]
    /\ head' = Advance(head)
    /\ count' = count - 1
    /\ wpc' = [wpc EXCEPT ![w] = "run"]
    /\ UNCHANGED <<lock, tasks, tail, pending, shutdown, condWait, doneWait,
                   clientVars, accepted, runs>>

\* fn(task_arg), outside the mutex.
WorkerRun(w) ==
    /\ wpc[w] = "run"
    /\ runs' = [runs EXCEPT ![cur[w]] = @ + 1]
    /\ wpc' = [wpc EXCEPT ![w] = "finish"]
    /\ UNCHANGED <<lock, ring, pending, shutdown, condWait, doneWait, cur,
                   clientVars, accepted>>

WorkerFinish(w) ==
    /\ wpc[w] = "finish"
    /\ lock = NoThread
    /\ pending' = pending - 1
    /\ doneWait' = DoneBroadcast
    /\ wpc' = [wpc EXCEPT ![w] = "loop"]
    /\ UNCHANGED <<lock, ring, shutdown, condWait, cur, clientVars, accepted,
                   runs>>

\* POSIX lets pthread_cond_wait return with no signal.
SpuriousWake(w) ==
    /\ w \in condWait
    /\ condWait' = condWait \ {w}
    /\ UNCHANGED <<lock, ring, pending, shutdown, doneWait, workerVars,
                   clientVars, accepted, runs>>

-----------------------------------------------------------------------------
(* Clients: fastgit_thread_pool_submit, _wait and _free *)

\* Using a pool after its owner has begun to free it is a caller's error, so
\* no client calls submit or wait once shutdown is set.
Submit(c) ==
    /\ cpc[c] = "idle" /\ ~shutdown
    /\ lock = NoThread
    /\ accepted < MaxTasks
    /\ ~Full
    /\ tasks' = [tasks EXCEPT ![tail] = accepted + 1]
    /\ tail' = Advance(tail)
    /\ count' = count + 1
    /\ pending' = PendingPlusOne
    /\ accepted' = accepted + 1
    /\ err' = [err EXCEPT ![c] = "OK"]
    /\ Signal
    /\ UNCHANGED <<lock, head, shutdown, doneWait, workerVars, cpc, runs>>

\* A full ring refuses the task; nothing but the return value changes.
SubmitBusy(c) ==
    /\ cpc[c] = "idle" /\ ~shutdown
    /\ lock = NoThread
    /\ Full
    /\ err' = [err EXCEPT ![c] = "EBUSY"]
    /\ UNCHANGED <<lock, ring, pending, shutdown, condWait, doneWait,
                   workerVars, cpc, accepted, runs>>

WaitCall(c) ==
    /\ cpc[c] = "idle" /\ ~shutdown
    /\ cpc' = [cpc EXCEPT ![c] = "wait"]
    /\ UNCHANGED <<lock, ring, pending, shutdown, condWait, doneWait,
                   workerVars, err, accepted, runs>>

\* The test of "pending > 0" and the pthread_cond_wait after it: nothing that
\* changes pending can come between, so they are one step.
WaitBlock(c) ==
    /\ cpc[c] = "wait" /\ c \notin doneWait
    /\ lock = NoThread
    /\ ~AllDone
    /\ doneWait' = doneWait \cup {c}
    /\ UNCHANGED <<lock, ring, pending, shutdown, condWait, workerVars,
                   clientVars, accepted, runs>>

WaitReturn(c) ==
    /\ cpc[c] = "wait" /\ c \notin doneWait
    /\ lock = NoThread
    /\ AllDone
    /\ cpc' = [cpc EXCEPT ![c] = "idle"]
    /\ UNCHANGED <<lock, ring, pending, shutdown, condWait, doneWait,
                   workerVars, err, accepted, runs>>

SpuriousDone(c) ==
    /\ c \in doneWait
    /\ doneWait' = doneWait \ {c}
    /\ UNCHANGED <<lock, ring, pending, shutdown, condWait, workerVars,
                   clientVars, accepted, runs>>

\* pool->shutdown = true, without the mutex.  The owner frees the pool when no
\* other client is inside a call: in the code every pool has one client.
FreeShutdown ==
    /\ \A c \in Clients : cpc[c] = "idle"
    /\ shutdown' = TRUE
    /\ cpc' = [cpc EXCEPT ![Owner] = "broadcast"]
    /\ UNCHANGED <<lock, ring, pending, condWait, doneWait, workerVars, err,
                   accepted, runs>>

\* pthread_cond_broadcast on both variables, still without the mutex.
FreeBroadcast ==
    /\ cpc[Owner] = "broadcast"
    /\ condWait' = {} /\ doneWait' = {}
    /\ cpc' = [cpc EXCEPT ![Owner] = "join"]
    /\ UNCHANGED <<lock, ring, pending, shutdown, workerVars, err, accepted,
                   runs>>

\* Every pthread_join has returned; the memory is released.
FreeJoin ==
    /\ cpc[Owner] = "join"
    /\ \A w \in Workers : wpc[w] = "exited"
    /\ cpc' = [cpc EXCEPT ![Owner] = "freed"]
    /\ UNCHANGED <<lock, ring, pending, shutdown, condWait, doneWait,
                   workerVars, err, accepted, runs>>

Freed == cpc[Owner] = "freed" /\ UNCHANGED vars

-----------------------------------------------------------------------------
Worker(w) ==
    \/ WorkerMustWait(w) \/ WorkerWait(w) \/ WorkerExit(w) \/ WorkerTake(w)
    \/ WorkerRun(w) \/ WorkerFinish(w) \/ SpuriousWake(w)

Client(c) ==
    \/ Submit(c) \/ SubmitBusy(c) \/ WaitCall(c) \/ WaitBlock(c)
    \/ WaitReturn(c) \/ SpuriousDone(c)

Free == FreeShutdown \/ FreeBroadcast \/ FreeJoin

Next ==
    \/ \E w \in Workers : Worker(w)
    \/ \E c \in Clients : Client(c)
    \/ Free
    \/ Freed

Spec == Init /\ [][Next]_vars

(***************************************************************************)
(* A thread that is runnable keeps running (weak fairness); one that wants *)
(* the mutex gets it although others take it in between, because every     *)
(* critical section is finite (strong fairness).  Nobody is obliged to     *)
(* submit, to wait, to free or to wake spuriously.                         *)
(***************************************************************************)
Fairness ==
    /\ \A w \in Workers :
        /\ WF_vars(WorkerWait(w) \/ WorkerRun(w))
        /\ SF_vars(WorkerMustWait(w) \/ WorkerExit(w) \/ WorkerTake(w)
                   \/ WorkerFinish(w))
    /\ \A c \in Clients : SF_vars(WaitBlock(c) \/ WaitReturn(c))
    /\ WF_vars(FreeBroadcast \/ FreeJoin)

FairSpec == Spec /\ Fairness

-----------------------------------------------------------------------------
(* Properties *)

InHand(w)  == wpc[w] \in {"run", "finish"}
InFlight   == {w \in Workers : InHand(w)}
Slot(i)    == Wrapped(head + i)
Finished   == {t \in Task : runs[t] > 0}

\* Every field of the pool stays in the range its C type and its use require;
\* indices stay inside the ring and the counters never go negative.
TypeOK ==
    /\ lock \in Workers \cup {NoThread}
    /\ tasks \in [0 .. Depth - 1 -> Task \cup {NoTask}]
    /\ head \in 0 .. Depth - 1 /\ tail \in 0 .. Depth - 1
    /\ count \in 0 .. Depth
    /\ pending \in Nat
    /\ shutdown \in BOOLEAN
    /\ condWait \subseteq Workers /\ doneWait \subseteq Clients
    /\ wpc \in [Workers -> {"loop", "toWait", "asleep", "run", "finish", "exited"}]
    /\ cur \in [Workers -> Task \cup {NoTask}]
    /\ cpc \in [Clients -> {"idle", "wait", "broadcast", "join", "freed"}]
    /\ err \in [Clients -> {"OK", "EBUSY"}]
    /\ accepted \in 0 .. MaxTasks
    /\ runs \in [Task -> Nat]

\* pending, which fastgit_thread_pool_wait relies on, is exactly the number of
\* tasks in the ring plus the number of tasks in the workers' hands.
PendingCounts == pending = count + Cardinality(InFlight)

\* The ring between head and tail holds the accepted tasks that nobody has
\* taken, in the order of acceptance: no wrap-around of head or tail loses,
\* repeats or reorders a task.
RingHoldsBacklog ==
    /\ tail = Slot(count)
    /\ \A i \in 0 .. count - 1 : tasks[Slot(i)] = accepted - count + 1 + i

\* A task that left the ring is in the hand of one worker or has been in one,
\* and its function has run once when that worker is past fn(task_arg), never
\* twice, although taking it and running it are in different critical sections.
TasksRunOnce ==
    /\ \A w \in InFlight : cur[w] \in 1 .. accepted - count
    /\ \A v, w \in InFlight : cur[v] = cur[w] => v = w
    /\ \A t \in Task :
        runs[t] = IF /\ t \in 1 .. accepted - count
                     /\ \A w \in Workers : wpc[w] = "run" => cur[w] # t
                  THEN 1 ELSE 0

\* pthread_cond_signal wakes one worker only, and only on submit: still, a
\* task in the ring always has a worker that is awake and will look at the
\* ring before it can sleep or exit.
BacklogHasWorker ==
    count > 0 => \E w \in Workers : AtTest(w) \/ InHand(w)

\* fastgit_thread_pool_wait returns only when every task accepted so far has
\* run, whichever client submitted it.
WaitSeesAllDone ==
    [][\A c \in Clients :
         cpc[c] = "wait" /\ cpc'[c] = "idle" => Finished = 1 .. accepted]_vars

\* When fastgit_thread_pool_free has joined the workers, nothing accepted is
\* left undone (free drains the ring) and no thread can touch the freed memory.
FreeDrains ==
    cpc[Owner] = "freed" =>
        /\ Finished = 1 .. accepted
        /\ condWait = {} /\ doneWait = {} /\ lock = NoThread

\* An accepted task eventually runs, even when the pool is being freed.
AcceptedTasksRun == \A t \in Task : accepted >= t ~> runs[t] = 1

\* A client that waits eventually returns.
WaitReturns == \A c \in Clients : cpc[c] = "wait" ~> cpc[c] = "idle"

\* fastgit_thread_pool_free returns.
FreeReturns == cpc[Owner] = "broadcast" ~> cpc[Owner] = "freed"

\* What the ring, the workers' hands and the history are to a user of the pool.
Abstract == INSTANCE TaskQueue WITH
    waiting <- [i \in 1 .. count |-> tasks[Slot(i - 1)]],
    running <- {cur[w] : w \in {v \in Workers : wpc[v] = "run"}},
    done    <- Finished,
    closed  <- cpc[Owner] = "freed"

\* Every step of submit, thread_worker, wait and free is a step of a plain
\* first-in first-out task queue, or changes nothing that its user can see.
ImplementsTaskQueue == Abstract!TQSpec
================================================================================
