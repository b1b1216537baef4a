-------------------------- MODULE ThreadPoolRefinement --------------------------
(***************************************************************************)
(* The thread pool implements TaskQueue, for every set of workers and      *)
(* clients, every ring size and every number of tasks: the ring is a       *)
(* sequence, a worker's critical section starts the task at its front, and *)
(* the mutex, the condition variables and the wrap-around are invisible.   *)
(***************************************************************************)
EXTENDS ThreadPoolProofs, SequenceTheorems

-----------------------------------------------------------------------------
(* The ring as a sequence *)

\* The last n of the first m tasks.
Backlog(n, m) == [i \in 1 .. n |-> m - n + i]

\* What the refinement mapping takes for the waiting tasks.
Waiting == [i \in 1 .. count |-> tasks[Slot(i - 1)]]

\* What it takes for the running ones.
Running == {cur[w] : w \in {v \in Workers : wpc[v] = "run"}}

\* The backlog is a sequence of numbers.
LEMMA BacklogSeq ==
    ASSUME NEW n \in Nat, NEW m \in Nat, n <= m
    PROVE  /\ Backlog(n, m) \in Seq(Nat) /\ Len(Backlog(n, m)) = n
           /\ \A i \in 1 .. n : Backlog(n, m)[i] = m - n + i
<1>1. Backlog(n, m) \in [1 .. n -> Nat]
  BY DEF Backlog
<1>2. Backlog(n, m) \in Seq(Nat)
  BY <1>1, SeqDef
<1>3. Len(Backlog(n, m)) = n
  <2>1. DOMAIN Backlog(n, m) = 1 .. n
    BY DEF Backlog
  <2>2. DOMAIN Backlog(n, m) = 1 .. Len(Backlog(n, m)) /\ Len(Backlog(n, m)) \in Nat
    BY <1>2, LenProperties
  <2> QED BY <2>1, <2>2
<1> QED BY <1>2, <1>3 DEF Backlog

\* Accepting the next task appends it.
LEMMA BacklogAppend ==
    ASSUME NEW n \in Nat, NEW m \in Nat, n <= m
    PROVE  Backlog(n + 1, m + 1) = Append(Backlog(n, m), m + 1)
<1> DEFINE s == Backlog(n, m)
           t == Backlog(n + 1, m + 1)
<1>1. s \in Seq(Nat) /\ Len(s) = n /\ \A i \in 1 .. n : s[i] = m - n + i
  BY BacklogSeq
<1>2. t \in Seq(Nat) /\ Len(t) = n + 1 /\ \A i \in 1 .. n + 1 : t[i] = (m + 1) - (n + 1) + i
  BY BacklogSeq
<1>3. /\ Append(s, m + 1) \in Seq(Nat) /\ Len(Append(s, m + 1)) = n + 1
      /\ \A i \in 1 .. n : Append(s, m + 1)[i] = s[i]
      /\ Append(s, m + 1)[n + 1] = m + 1
  BY <1>1, AppendProperties
<1> HIDE DEF s, t
<1>4. \A i \in 1 .. n + 1 : t[i] = Append(s, m + 1)[i]
  BY <1>1, <1>2, <1>3
<1>5. t = Append(s, m + 1)
  BY <1>2, <1>3, <1>4, SeqEqual
<1> QED BY <1>5 DEF s, t

\* Taking the oldest task leaves the tail.
LEMMA BacklogTake ==
    ASSUME NEW n \in Nat \ {0}, NEW m \in Nat, n <= m
    PROVE  /\ Backlog(n, m) # <<>>
           /\ Head(Backlog(n, m)) = m - n + 1
           /\ Tail(Backlog(n, m)) = Backlog(n - 1, m)
<1> DEFINE s == Backlog(n, m)
           t == Backlog(n - 1, m)
<1>1. s \in Seq(Nat) /\ Len(s) = n /\ \A i \in 1 .. n : s[i] = m - n + i
  BY BacklogSeq
<1>2. t \in Seq(Nat) /\ Len(t) = n - 1 /\ \A i \in 1 .. n - 1 : t[i] = m - (n - 1) + i
  BY BacklogSeq
<1> HIDE DEF s, t
<1>3. s # <<>>
  BY <1>1, EmptySeq
<1>4. /\ Tail(s) \in Seq(Nat) /\ Len(Tail(s)) = n - 1
      /\ \A i \in 1 .. n - 1 : Tail(s)[i] = s[i + 1]
  BY <1>1, <1>3, HeadTailProperties
<1>5. \A i \in 1 .. n - 1 : Tail(s)[i] = t[i]
  BY <1>1, <1>2, <1>4
<1>6. Tail(s) = t
  BY <1>2, <1>4, <1>5, SeqEqual
<1>7. Head(s) = m - n + 1
  BY <1>1
<1> QED BY <1>3, <1>6, <1>7 DEF s, t

\* The ring holds the backlog.
LEMMA WaitingIsBacklog ==
    IInv => /\ Waiting = Backlog(count, accepted)
            /\ count \in Nat /\ accepted \in 0 .. MaxTasks /\ count <= accepted
<1> SUFFICES ASSUME IInv
             PROVE  /\ Waiting = Backlog(count, accepted)
                    /\ count \in Nat /\ accepted \in 0 .. MaxTasks /\ count <= accepted
  OBVIOUS
<1>1. count \in Nat /\ accepted \in 0 .. MaxTasks /\ count <= accepted
  BY DepthAssumption DEF IInv, TypeOK, Control
<1>2. \A i \in 1 .. count : tasks[Slot(i - 1)] = accepted - count + i
  <2>1. SUFFICES ASSUME NEW i \in 1 .. count PROVE tasks[Slot(i - 1)] = accepted - count + i
    OBVIOUS
  <2>2. i - 1 \in 0 .. count - 1
    BY <1>1
  <2>3. tasks[Slot(i - 1)] = accepted - count + 1 + (i - 1)
    BY <2>2 DEF IInv, RingHoldsBacklog
  <2> QED BY <1>1, <2>3, BoundAssumption
<1> QED BY <1>1, <1>2 DEF Waiting, Backlog

\* It does so after every step.
LEMMA WaitingIsBacklogNext == IInv' => Waiting' = Backlog(count', accepted')
<1>1. (IInv => Waiting = Backlog(count, accepted))'
  BY WaitingIsBacklog, PTL
<1> QED BY <1>1

\* A ring with no task in it is the empty sequence.
LEMMA EmptyRing == ASSUME IInv, count = 0 PROVE Waiting = <<>>
<1>1. Waiting = Backlog(0, accepted) /\ accepted \in Nat
  BY WaitingIsBacklog
<1>2. Backlog(0, accepted) \in Seq(Nat) /\ Len(Backlog(0, accepted)) = 0
  BY <1>1, BacklogSeq
<1> QED BY <1>1, <1>2, EmptySeq

-----------------------------------------------------------------------------
(* The initial states and the steps *)

\* A new pool is an empty queue.
LEMMA InitRefines == Init => Abstract!TQInit
<1> SUFFICES ASSUME Init PROVE Abstract!TQInit
  OBVIOUS
<1>1. Waiting = <<>>
  BY InitIInv, EmptyRing DEF Init
<1>2. Running = {} /\ Finished = {} /\ cpc[Owner] # "freed"
  BY OwnerAssumption DEF Init, Running, Finished
<1> QED BY <1>1, <1>2 DEF Abstract!TQInit, Waiting, Running

\* Submit accepts a task that is nowhere yet.
LEMMA SubmitRefines ==
    ASSUME IInv, IInv', NEW c \in Clients, Submit(c), NEW t, t = accepted + 1
    PROVE  Abstract!Accept(t) /\ t \in Task
<1>1. /\ count' = count + 1 /\ accepted' = accepted + 1
      /\ wpc' = wpc /\ cur' = cur /\ runs' = runs /\ cpc' = cpc /\ ~shutdown
      /\ accepted < MaxTasks
  BY DEF Submit, workerVars
<1>2. Waiting = Backlog(count, accepted) /\ count \in Nat /\ accepted \in Nat /\ count <= accepted
  BY WaitingIsBacklog
<1>3. Waiting' = Backlog(count', accepted')
  BY WaitingIsBacklogNext
<1>4. Waiting' = Append(Waiting, accepted + 1)
  BY <1>1, <1>2, <1>3, BacklogAppend
<1>5. accepted + 1 \in Task
  BY <1>1, <1>2, BoundAssumption DEF Task
<1>6. accepted + 1 \notin Running
  BY <1>2 DEF Running, IInv, TasksRunOnce, InFlight, InHand
<1>7. accepted + 1 \notin Finished
  BY <1>2, <1>5 DEF Finished, IInv, TasksRunOnce
<1>8. \A i \in 1 .. Len(Waiting) : Waiting[i] # accepted + 1
  <2>1. Len(Waiting) = count /\ \A i \in 1 .. count : Waiting[i] = accepted - count + i
    BY <1>2, BacklogSeq
  <2> QED BY <1>2, <2>1
<1>9. cpc[Owner] # "freed"
  BY <1>1 DEF IInv, Control
<1>10. Running' = Running /\ Finished' = Finished
  BY <1>1 DEF Running, Finished
<1> QED BY <1>1, <1>4, <1>5, <1>6, <1>7, <1>8, <1>9, <1>10
        DEF Abstract!Accept, Waiting, Running

\* A worker that takes a task starts the oldest.
LEMMA TakeRefines == ASSUME IInv, IInv', NEW w \in Workers, WorkerTake(w) PROVE Abstract!Start
<1>1. /\ count' = count - 1 /\ accepted' = accepted /\ count # 0
      /\ wpc' = [wpc EXCEPT ![w] = "run"] /\ cur' = [cur EXCEPT ![w] = tasks[head]]
      /\ runs' = runs /\ cpc' = cpc
  BY DEF WorkerTake, clientVars, MustSleep, MustExit, PopSlot, IInv, TypeOK
<1>2. Waiting = Backlog(count, accepted) /\ count \in Nat \ {0} /\ accepted \in Nat /\ count <= accepted
  BY <1>1, WaitingIsBacklog
<1>3. Waiting' = Backlog(count - 1, accepted)
  BY <1>1, WaitingIsBacklogNext
<1>4. Waiting # <<>> /\ Waiting' = Tail(Waiting) /\ Head(Waiting) = accepted - count + 1
  BY <1>2, <1>3, BacklogTake
<1>5. tasks[head] = accepted - count + 1
  <2>1. head \in 0 .. Depth - 1
    BY DEF IInv, TypeOK
  <2>2. Slot(0) = head
    BY <2>1, Wrap, DepthAssumption DEF Slot
  <2>3. 0 \in 0 .. count - 1
    BY <1>2
  <2>4. tasks[Slot(0)] = accepted - count + 1 + 0
    BY <2>3 DEF IInv, RingHoldsBacklog
  <2> QED BY <1>2, <2>2, <2>4
<1>6. wpc[w] # "run"
  BY DEF WorkerTake, AtTest
<1>7. Running' = Running \cup {Head(Waiting)}
  <2>1. \A v \in Workers : wpc'[v] = (IF v = w THEN "run" ELSE wpc[v])
    BY <1>1 DEF IInv, TypeOK
  <2>2. \A v \in Workers : cur'[v] = (IF v = w THEN tasks[head] ELSE cur[v])
    BY <1>1 DEF IInv, TypeOK
  <2> QED BY <1>4, <1>5, <1>6, <2>1, <2>2 DEF Running
<1>8. Finished' = Finished
  BY <1>1 DEF Finished
<1> QED BY <1>1, <1>4, <1>7, <1>8 DEF Abstract!Start, Waiting, Running

\* A worker that returns from fn(task_arg) has finished its task.
LEMMA RunRefines ==
    ASSUME IInv, NEW w \in Workers, WorkerRun(w), NEW t, t = cur[w]
    PROVE  Abstract!Finish(t) /\ t \in Task
<1>1. /\ wpc' = [wpc EXCEPT ![w] = "finish"] /\ cur' = cur /\ wpc[w] = "run"
      /\ runs' = [runs EXCEPT ![cur[w]] = @ + 1]
      /\ cpc' = cpc /\ count' = count /\ head' = head /\ tasks' = tasks
  BY DEF WorkerRun, clientVars, ring
<1>2. cur[w] \in Task
  <2>1. cur[w] \in 1 .. accepted - count /\ accepted \in 0 .. MaxTasks /\ count \in Nat
    BY <1>1, WaitingIsBacklog DEF IInv, TasksRunOnce, InFlight, InHand
  <2> QED BY <2>1, BoundAssumption DEF Task
<1>3. \A v \in Workers : wpc'[v] = (IF v = w THEN "finish" ELSE wpc[v])
  BY <1>1 DEF IInv, TypeOK
<1>4. \A v \in Workers : wpc[v] = "run" /\ cur[v] = cur[w] => v = w
  BY <1>1 DEF IInv, TasksRunOnce, InFlight, InHand
<1>5. cur[w] \in Running /\ Running' = Running \ {cur[w]}
  BY <1>1, <1>3, <1>4 DEF Running
<1>6. Finished' = Finished \cup {cur[w]}
  <2>1. runs \in [Task -> Nat]
    BY DEF IInv, TypeOK
  <2> QED BY <1>1, <1>2, <2>1 DEF Finished
<1>7. Waiting' = Waiting
  BY <1>1 DEF Waiting, Slot
<1> QED BY <1>1, <1>2, <1>5, <1>6, <1>7 DEF Abstract!Finish, Waiting, Running

\* The pool is closed when it is empty.
LEMMA JoinRefines == ASSUME IInv, FreeJoin PROVE Abstract!Close
<1>1. /\ cpc[Owner] = "join" /\ \A w \in Workers : wpc[w] = "exited"
      /\ cpc' = [cpc EXCEPT ![Owner] = "freed"]
      /\ count' = count /\ head' = head /\ tasks' = tasks
      /\ wpc' = wpc /\ cur' = cur /\ runs' = runs
  BY DEF FreeJoin, ring, workerVars
<1>2. count = 0
  BY <1>1, WorkersAssumption DEF IInv, Control
<1>3. Waiting = <<>>
  BY <1>2, EmptyRing
<1>4. Running = {} /\ Running' = Running /\ Finished' = Finished /\ Waiting' = Waiting
  BY <1>1 DEF Running, Finished, Waiting, Slot
<1>5. cpc'[Owner] = "freed"
  BY <1>1, OwnerAssumption DEF IInv, TypeOK
<1> QED BY <1>1, <1>3, <1>4, <1>5 DEF Abstract!Close, Waiting, Running

\* The steps that only move threads and wake-ups change nothing a user can see.
LEMMA OthersStutter ==
    ASSUME IInv, [Next]_vars, \A c \in Clients : ~Submit(c),
           \A w \in Workers : ~WorkerTake(w) /\ ~WorkerRun(w), ~FreeJoin
    PROVE  UNCHANGED Abstract!tqVars
<1>1. count' = count /\ head' = head /\ tasks' = tasks /\ runs' = runs /\ cur' = cur
  BY DEF Next, Worker, Client, Free, Freed, WorkerMustWait, WorkerWait, WorkerExit,
         WorkerFinish, SpuriousWake, SubmitBusy, WaitCall, WaitBlock, WaitReturn, SpuriousDone,
         FreeShutdown, FreeBroadcast, vars, ring, workerVars
<1>2. \A w \in Workers : wpc'[w] = "run" <=> wpc[w] = "run"
  BY DEF Next, Worker, Client, Free, Freed, WorkerMustWait, WorkerWait, WorkerExit, AtTest,
         WorkerFinish, SpuriousWake, SubmitBusy, WaitCall, WaitBlock, WaitReturn, SpuriousDone,
         FreeShutdown, FreeBroadcast, vars, workerVars, IInv, TypeOK
<1>3. cpc'[Owner] = "freed" <=> cpc[Owner] = "freed"
  BY OwnerAssumption DEF Next, Worker, Client, Free, Freed, WorkerMustWait, WorkerWait,
         WorkerExit, WorkerFinish, SpuriousWake, SubmitBusy, WaitCall, WaitBlock, WaitReturn,
         SpuriousDone, FreeShutdown, FreeBroadcast, vars, clientVars, IInv, TypeOK
<1>4. Waiting' = Waiting /\ Running' = Running /\ Finished' = Finished
  BY <1>1, <1>2 DEF Waiting, Slot, Running, Finished
<1> QED BY <1>3, <1>4 DEF Abstract!tqVars, Waiting, Running

\* The thread pool is a first-in first-out task queue: whatever the threads do, its users see
\* tasks accepted once, started in order, finished once, and a pool closed only when empty.
THEOREM Refinement == Spec => ImplementsTaskQueue
<1>1. ASSUME IInv, IInv', [Next]_vars PROVE [Abstract!TQNext]_(Abstract!tqVars)
  <2>1. ASSUME NEW c \in Clients, Submit(c) PROVE Abstract!TQNext
    <3>1. PICK t : t = accepted + 1
      OBVIOUS
    <3>2. Abstract!Accept(t) /\ t \in Task
      BY <1>1, <2>1, <3>1, SubmitRefines
    <3> QED BY <3>2 DEF Abstract!TQNext
  <2>2. ASSUME NEW w \in Workers, WorkerTake(w) PROVE Abstract!TQNext
    BY <1>1, <2>2, TakeRefines DEF Abstract!TQNext
  <2>3. ASSUME NEW w \in Workers, WorkerRun(w) PROVE Abstract!TQNext
    <3>1. PICK t : t = cur[w]
      OBVIOUS
    <3>2. Abstract!Finish(t) /\ t \in Task
      BY <1>1, <2>3, <3>1, RunRefines
    <3> QED BY <3>2 DEF Abstract!TQNext
  <2>4. ASSUME FreeJoin PROVE Abstract!TQNext
    BY <1>1, <2>4, JoinRefines DEF Abstract!TQNext
  <2> QED BY <1>1, <2>1, <2>2, <2>3, <2>4, OthersStutter
<1> QED BY <1>1, InitRefines, Invariance, PTL DEF Spec, ImplementsTaskQueue, Abstract!TQSpec
=============================================================================
