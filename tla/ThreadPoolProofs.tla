---------------------------- MODULE ThreadPoolProofs ----------------------------
(***************************************************************************)
(* Proofs about the thread pool, for every set of workers and clients,     *)
(* every ring size and every number of tasks.                              *)
(***************************************************************************)
EXTENDS ThreadPool, FiniteSetTheorems, TLAPS

-----------------------------------------------------------------------------
(* The arithmetic of the ring *)

\* An index that is less than two laps ahead wraps at most once.
LEMMA Wrap ==
    \A x \in 0 .. 2 * Depth - 1 : Wrapped(x) = IF x < Depth THEN x ELSE x - Depth
<1> SUFFICES ASSUME NEW x \in 0 .. 2 * Depth - 1
             PROVE  x % Depth = IF x < Depth THEN x ELSE x - Depth
  BY DEF Wrapped
<1>1. CASE x < Depth
  BY <1>1, DepthAssumption
<1>2. CASE x >= Depth
  BY <1>2, DepthAssumption
<1> QED BY <1>1, <1>2, DepthAssumption

\* Advancing an index keeps it in the ring.
LEMMA AdvanceInRing ==
    \A i \in 0 .. Depth - 1 :
        /\ Advance(i) \in 0 .. Depth - 1
        /\ Advance(i) = IF i + 1 < Depth THEN i + 1 ELSE i + 1 - Depth
<1> SUFFICES ASSUME NEW i \in 0 .. Depth - 1
             PROVE  /\ Advance(i) \in 0 .. Depth - 1
                    /\ Advance(i) = IF i + 1 < Depth THEN i + 1 ELSE i + 1 - Depth
  OBVIOUS
<1>1. i + 1 \in 0 .. 2 * Depth - 1
  BY DepthAssumption
<1>2. Wrapped(i + 1) = IF i + 1 < Depth THEN i + 1 ELSE i + 1 - Depth
  BY <1>1, Wrap, DepthAssumption
<1> QED BY <1>2, DepthAssumption DEF Advance

\* Slot i + 1 seen from the old head is slot i seen from the advanced one.
LEMMA ShiftSlot ==
    \A h, i \in 0 .. Depth - 1 : Wrapped(Advance(h) + i) = Wrapped(h + (i + 1))
<1> SUFFICES ASSUME NEW h \in 0 .. Depth - 1, NEW i \in 0 .. Depth - 1
             PROVE  Wrapped(Advance(h) + i) = Wrapped(h + (i + 1))
  OBVIOUS
<1> USE DepthAssumption
<1>1. CASE h + 1 < Depth
  BY <1>1, AdvanceInRing
<1>2. CASE h + 1 = Depth
  <2>1. Advance(h) = 0
    BY <1>2, AdvanceInRing
  <2>2. Wrapped(0 + i) = i
    BY Wrap
  <2>3. h + (i + 1) = Depth + i
    BY <1>2
  <2>4. Wrapped(Depth + i) = i
    BY Wrap
  <2> QED BY <2>1, <2>2, <2>3, <2>4
<1> QED BY <1>1, <1>2

-----------------------------------------------------------------------------
(* Who holds the mutex, who sleeps, and how far the owner has got *)

\* A worker keeps the mutex across steps exactly while it is about to wait;
\* sleepers are where the wait sets say; the owner's progress and the shutdown
\* flag agree; a worker that has exited has seen an empty ring and no more
\* submissions can follow.
Control ==
    /\ \A w \in Workers : wpc[w] = "toWait" <=> lock = w
    /\ \A w \in condWait : wpc[w] = "asleep"
    /\ \A c \in doneWait : cpc[c] = "wait"
    /\ \A c \in Clients : cpc[c] \in {"broadcast", "join", "freed"} => c = Owner
    /\ shutdown <=> cpc[Owner] \in {"broadcast", "join", "freed"}
    /\ shutdown => \A c \in Clients : cpc[c] # "wait"
    /\ \A w \in Workers : wpc[w] = "exited" => shutdown /\ count = 0
    /\ cpc[Owner] = "freed" => \A w \in Workers : wpc[w] = "exited"
    /\ count <= accepted

\* The inductive invariant.  TypeOK needs PendingCounts (a decrement of pending
\* stays natural only because the worker's own task is counted), PendingCounts
\* needs the ring's count, TasksRunOnce needs RingHoldsBacklog (what a worker
\* takes is the oldest accepted task), and BacklogHasWorker needs Control.
IInv ==
    /\ TypeOK
    /\ Control
    /\ PendingCounts
    /\ RingHoldsBacklog
    /\ TasksRunOnce
    /\ BacklogHasWorker

\* A pool just made by fastgit_thread_pool_new satisfies the inductive invariant.
LEMMA InitIInv == Init => IInv
<1> SUFFICES ASSUME Init PROVE IInv
  OBVIOUS
<1>1. TypeOK
  <2>1. tasks \in [0 .. Depth - 1 -> Task \cup {NoTask}] /\ runs \in [Task -> Nat]
    BY DEF Init
  <2>2. /\ wpc \in [Workers -> {"loop", "toWait", "asleep", "run", "finish", "exited"}]
        /\ cur \in [Workers -> Task \cup {NoTask}]
        /\ cpc \in [Clients -> {"idle", "wait", "broadcast", "join", "freed"}]
        /\ err \in [Clients -> {"OK", "EBUSY"}]
    BY DEF Init
  <2>3. /\ head \in 0 .. Depth - 1 /\ tail \in 0 .. Depth - 1 /\ count \in 0 .. Depth
        /\ pending \in Nat /\ accepted \in 0 .. MaxTasks
    BY DepthAssumption, BoundAssumption DEF Init
  <2>4. /\ lock \in Workers \cup {NoThread} /\ shutdown \in BOOLEAN
        /\ condWait \subseteq Workers /\ doneWait \subseteq Clients
    BY DEF Init
  <2> QED BY <2>1, <2>2, <2>3, <2>4 DEF TypeOK
<1>2. Control
  BY OwnerAssumption, ThreadAssumption DEF Init, Control
<1>3. InFlight = {}
  BY DEF Init, InFlight, InHand
<1>4. PendingCounts
  BY <1>3, FS_EmptySet DEF Init, PendingCounts
<1>5. RingHoldsBacklog
  BY Wrap, DepthAssumption DEF Init, RingHoldsBacklog, Slot
<1>6. TasksRunOnce
  BY <1>3 DEF Init, TasksRunOnce
<1>7. BacklogHasWorker
  BY DEF Init, BacklogHasWorker
<1> QED BY <1>1, <1>2, <1>4, <1>5, <1>6, <1>7 DEF IInv

-----------------------------------------------------------------------------
(* Each action preserves the type invariant *)

\* Every step of the pool preserves the type invariant.
LEMMA TypeStep == IInv /\ [Next]_vars => TypeOK'
<1> SUFFICES ASSUME IInv, [Next]_vars PROVE TypeOK'
  OBVIOUS
<1> USE DepthAssumption, BoundAssumption DEF IInv, TypeOK
<1>1. ASSUME NEW w \in Workers, WorkerMustWait(w) PROVE TypeOK'
  BY <1>1 DEF WorkerMustWait, ring, clientVars
<1>2. ASSUME NEW w \in Workers, WorkerWait(w) PROVE TypeOK'
  BY <1>2 DEF WorkerWait, ring, clientVars
<1>3. ASSUME NEW w \in Workers, WorkerExit(w) PROVE TypeOK'
  BY <1>3 DEF WorkerExit, ring, clientVars
<1>4. ASSUME NEW w \in Workers, WorkerTake(w) PROVE TypeOK'
  <2>1. count > 0
    BY <1>4 DEF WorkerTake, MustSleep, MustExit
  <2>2. tasks[head] \in Task \cup {NoTask}
    OBVIOUS
  <2>3. head' \in 0 .. Depth - 1 /\ count' \in 0 .. Depth
    BY <1>4, <2>1, AdvanceInRing DEF WorkerTake
  <2> QED BY <1>4, <2>2, <2>3 DEF WorkerTake, clientVars, PopSlot
<1>5. ASSUME NEW w \in Workers, WorkerRun(w) PROVE TypeOK'
  <2>0. cur[w] \in Task
    BY <1>5 DEF WorkerRun, TasksRunOnce, InFlight, InHand, Task
  <2>1. runs' \in [Task -> Nat]
    BY <1>5, <2>0 DEF WorkerRun
  <2>2. wpc' \in [Workers -> {"loop", "toWait", "asleep", "run", "finish", "exited"}]
    BY <1>5 DEF WorkerRun
  <2> QED BY <1>5, <2>1, <2>2 DEF WorkerRun, ring, clientVars
<1>6. ASSUME NEW w \in Workers, WorkerFinish(w) PROVE TypeOK'
  <2>1. w \in InFlight
    BY <1>6 DEF WorkerFinish, InFlight, InHand
  <2>2. IsFiniteSet(InFlight)
    BY WorkersAssumption, FS_Subset DEF InFlight
  <2>3. Cardinality(InFlight) > 0
    BY <2>1, <2>2, FS_EmptySet, FS_CardinalityType
  <2>4. pending' \in Nat
    BY <1>6, <2>2, <2>3, FS_CardinalityType DEF WorkerFinish, PendingCounts
  <2>5. doneWait' \subseteq Clients
    BY <1>6 DEF WorkerFinish, DoneBroadcast
  <2> QED BY <1>6, <2>4, <2>5 DEF WorkerFinish, ring, clientVars
<1>7. ASSUME NEW w \in Workers, SpuriousWake(w) PROVE TypeOK'
  BY <1>7 DEF SpuriousWake, ring, workerVars, clientVars
<1>8. ASSUME NEW c \in Clients, Submit(c) PROVE TypeOK'
  <2>1. accepted + 1 \in Task /\ accepted' \in 0 .. MaxTasks
    BY <1>8 DEF Submit, Task
  <2>2. count' \in 0 .. Depth /\ pending' \in Nat
    BY <1>8 DEF Submit, Full, PendingPlusOne
  <2>3. tail' \in 0 .. Depth - 1
    BY <1>8, AdvanceInRing DEF Submit
  <2>4. condWait' \subseteq Workers
    BY <1>8 DEF Submit, Signal
  <2> QED BY <1>8, <2>1, <2>2, <2>3, <2>4 DEF Submit, workerVars
<1>9. ASSUME NEW c \in Clients, SubmitBusy(c) PROVE TypeOK'
  BY <1>9 DEF SubmitBusy, ring, workerVars
<1>10. ASSUME NEW c \in Clients, WaitCall(c) PROVE TypeOK'
  BY <1>10 DEF WaitCall, ring, workerVars
<1>11. ASSUME NEW c \in Clients, WaitBlock(c) PROVE TypeOK'
  BY <1>11 DEF WaitBlock, ring, workerVars, clientVars
<1>12. ASSUME NEW c \in Clients, WaitReturn(c) PROVE TypeOK'
  BY <1>12 DEF WaitReturn, ring, workerVars
<1>13. ASSUME NEW c \in Clients, SpuriousDone(c) PROVE TypeOK'
  BY <1>13 DEF SpuriousDone, ring, workerVars, clientVars
<1>14. CASE FreeShutdown
  BY <1>14 DEF FreeShutdown, ring, workerVars
<1>15. CASE FreeBroadcast
  BY <1>15 DEF FreeBroadcast, ring, workerVars
<1>16. CASE FreeJoin
  BY <1>16 DEF FreeJoin, ring, workerVars
<1>17. CASE UNCHANGED vars
  BY <1>17 DEF vars, ring, workerVars, clientVars
<1> QED
  BY <1>1, <1>2, <1>3, <1>4, <1>5, <1>6, <1>7, <1>8, <1>9, <1>10, <1>11, <1>12,
     <1>13, <1>14, <1>15, <1>16, <1>17 DEF Next, Worker, Client, Free, Freed

-----------------------------------------------------------------------------
(* Each action preserves the control invariant *)

\* Every step preserves the facts on the places of workers and clients.
LEMMA ControlStep == IInv /\ [Next]_vars => Control'
<1> SUFFICES ASSUME IInv, [Next]_vars PROVE Control'
  OBVIOUS
<1> USE OwnerAssumption, ThreadAssumption DEF IInv, TypeOK, Control
<1>1. ASSUME NEW w \in Workers, WorkerMustWait(w) PROVE Control'
  BY <1>1 DEF WorkerMustWait, ring, clientVars, AtTest
<1>2. ASSUME NEW w \in Workers, WorkerWait(w) PROVE Control'
  BY <1>2 DEF WorkerWait, ring, workerVars, clientVars
<1>3. ASSUME NEW w \in Workers, WorkerExit(w) PROVE Control'
  BY <1>3 DEF WorkerExit, ring, clientVars, MustExit, AtTest
<1>4. ASSUME NEW w \in Workers, WorkerTake(w) PROVE Control'
  BY <1>4 DEF WorkerTake, clientVars, MustSleep, MustExit, AtTest
<1>5. ASSUME NEW w \in Workers, WorkerRun(w) PROVE Control'
  BY <1>5 DEF WorkerRun, ring, workerVars, clientVars
<1>6. ASSUME NEW w \in Workers, WorkerFinish(w) PROVE Control'
  BY <1>6 DEF WorkerFinish, ring, clientVars, DoneBroadcast
<1>7. ASSUME NEW w \in Workers, SpuriousWake(w) PROVE Control'
  BY <1>7 DEF SpuriousWake, ring, workerVars, clientVars
<1>8. ASSUME NEW c \in Clients, Submit(c) PROVE Control'
  BY <1>8 DEF Submit, workerVars, Signal
<1>9. ASSUME NEW c \in Clients, SubmitBusy(c) PROVE Control'
  BY <1>9 DEF SubmitBusy, ring, workerVars, clientVars
<1>10. ASSUME NEW c \in Clients, WaitCall(c) PROVE Control'
  BY <1>10 DEF WaitCall, ring, workerVars, clientVars
<1>11. ASSUME NEW c \in Clients, WaitBlock(c) PROVE Control'
  BY <1>11 DEF WaitBlock, ring, workerVars, clientVars
<1>12. ASSUME NEW c \in Clients, WaitReturn(c) PROVE Control'
  BY <1>12 DEF WaitReturn, ring, workerVars, clientVars
<1>13. ASSUME NEW c \in Clients, SpuriousDone(c) PROVE Control'
  BY <1>13 DEF SpuriousDone, ring, workerVars, clientVars
<1>14. CASE FreeShutdown
  BY <1>14 DEF FreeShutdown, ring, workerVars, clientVars
<1>15. CASE FreeBroadcast
  BY <1>15 DEF FreeBroadcast, ring, workerVars, clientVars
<1>16. CASE FreeJoin
  BY <1>16 DEF FreeJoin, ring, workerVars, clientVars
<1>17. CASE UNCHANGED vars
  BY <1>17 DEF vars, ring, workerVars, clientVars
<1> QED
  BY <1>1, <1>2, <1>3, <1>4, <1>5, <1>6, <1>7, <1>8, <1>9, <1>10, <1>11, <1>12,
     <1>13, <1>14, <1>15, <1>16, <1>17 DEF Next, Worker, Client, Free, Freed

-----------------------------------------------------------------------------
(* Each action keeps pending equal to the tasks in the ring and in hand *)

\* Every step keeps pending equal to the tasks in the ring and in hand.
LEMMA PendingStep == IInv /\ [Next]_vars => PendingCounts'
<1> SUFFICES ASSUME IInv, [Next]_vars PROVE PendingCounts'
  OBVIOUS
<1> USE DEF IInv, TypeOK, PendingCounts
<1>0. IsFiniteSet(InFlight)
  BY WorkersAssumption, FS_Subset DEF InFlight
<1>1. ASSUME NEW w \in Workers, WorkerMustWait(w) PROVE PendingCounts'
  <2>1. InFlight' = InFlight
    BY <1>1 DEF WorkerMustWait, workerVars, InFlight, InHand, AtTest
  <2> QED BY <1>1, <2>1 DEF WorkerMustWait, ring
<1>2. ASSUME NEW w \in Workers, WorkerWait(w) PROVE PendingCounts'
  <2>1. InFlight' = InFlight
    BY <1>2 DEF WorkerWait, workerVars, InFlight, InHand, AtTest
  <2> QED BY <1>2, <2>1 DEF WorkerWait, ring
<1>3. ASSUME NEW w \in Workers, WorkerExit(w) PROVE PendingCounts'
  <2>1. InFlight' = InFlight
    BY <1>3 DEF WorkerExit, workerVars, InFlight, InHand, AtTest
  <2> QED BY <1>3, <2>1 DEF WorkerExit, ring
<1>4. ASSUME NEW w \in Workers, WorkerTake(w) PROVE PendingCounts'
  <2>1. w \notin InFlight
    BY <1>4 DEF WorkerTake, AtTest, InFlight, InHand
  <2>2. InFlight' = InFlight \cup {w}
    BY <1>4 DEF WorkerTake, InFlight, InHand
  <2>3. Cardinality(InFlight') = Cardinality(InFlight) + 1
    BY <1>0, <2>1, <2>2, FS_AddElement
  <2> QED BY <1>0, <1>4, <2>3, FS_CardinalityType DEF WorkerTake
<1>5. ASSUME NEW w \in Workers, WorkerRun(w) PROVE PendingCounts'
  <2>1. InFlight' = InFlight
    BY <1>5 DEF WorkerRun, workerVars, InFlight, InHand, AtTest
  <2> QED BY <1>5, <2>1 DEF WorkerRun, ring
<1>6. ASSUME NEW w \in Workers, WorkerFinish(w) PROVE PendingCounts'
  <2>1. w \in InFlight
    BY <1>6 DEF WorkerFinish, InFlight, InHand
  <2>2. InFlight' = InFlight \ {w}
    BY <1>6 DEF WorkerFinish, InFlight, InHand
  <2>3. Cardinality(InFlight') = Cardinality(InFlight) - 1
    BY <1>0, <2>1, <2>2, FS_RemoveElement
  <2> QED BY <1>0, <1>6, <2>3, FS_CardinalityType DEF WorkerFinish, ring
<1>7. ASSUME NEW w \in Workers, SpuriousWake(w) PROVE PendingCounts'
  <2>1. InFlight' = InFlight
    BY <1>7 DEF SpuriousWake, workerVars, InFlight, InHand, AtTest
  <2> QED BY <1>7, <2>1 DEF SpuriousWake, ring
<1>8. ASSUME NEW c \in Clients, Submit(c) PROVE PendingCounts'
  <2>1. InFlight' = InFlight
    BY <1>8 DEF Submit, workerVars, InFlight, InHand
  <2> QED BY <1>0, <1>8, <2>1, FS_CardinalityType DEF Submit, PendingPlusOne
<1>9. ASSUME NEW c \in Clients, SubmitBusy(c) PROVE PendingCounts'
  <2>1. InFlight' = InFlight
    BY <1>9 DEF SubmitBusy, workerVars, InFlight, InHand, AtTest
  <2> QED BY <1>9, <2>1 DEF SubmitBusy, ring
<1>10. ASSUME NEW c \in Clients, WaitCall(c) PROVE PendingCounts'
  <2>1. InFlight' = InFlight
    BY <1>10 DEF WaitCall, workerVars, InFlight, InHand, AtTest
  <2> QED BY <1>10, <2>1 DEF WaitCall, ring
<1>11. ASSUME NEW c \in Clients, WaitBlock(c) PROVE PendingCounts'
  <2>1. InFlight' = InFlight
    BY <1>11 DEF WaitBlock, workerVars, InFlight, InHand, AtTest
  <2> QED BY <1>11, <2>1 DEF WaitBlock, ring
<1>12. ASSUME NEW c \in Clients, WaitReturn(c) PROVE PendingCounts'
  <2>1. InFlight' = InFlight
    BY <1>12 DEF WaitReturn, workerVars, InFlight, InHand, AtTest
  <2> QED BY <1>12, <2>1 DEF WaitReturn, ring
<1>13. ASSUME NEW c \in Clients, SpuriousDone(c) PROVE PendingCounts'
  <2>1. InFlight' = InFlight
    BY <1>13 DEF SpuriousDone, workerVars, InFlight, InHand, AtTest
  <2> QED BY <1>13, <2>1 DEF SpuriousDone, ring
<1>14. CASE FreeShutdown
  <2>1. InFlight' = InFlight
    BY <1>14 DEF FreeShutdown, workerVars, InFlight, InHand, AtTest
  <2> QED BY <1>14, <2>1 DEF FreeShutdown, ring
<1>15. CASE FreeBroadcast
  <2>1. InFlight' = InFlight
    BY <1>15 DEF FreeBroadcast, workerVars, InFlight, InHand, AtTest
  <2> QED BY <1>15, <2>1 DEF FreeBroadcast, ring
<1>16. CASE FreeJoin
  <2>1. InFlight' = InFlight
    BY <1>16 DEF FreeJoin, workerVars, InFlight, InHand, AtTest
  <2> QED BY <1>16, <2>1 DEF FreeJoin, ring
<1>17. CASE UNCHANGED vars
  <2>1. InFlight' = InFlight
    BY <1>17 DEF vars, workerVars, InFlight, InHand
  <2> QED BY <1>17, <2>1 DEF vars, ring
<1> QED
  BY <1>1, <1>2, <1>3, <1>4, <1>5, <1>6, <1>7, <1>8, <1>9, <1>10, <1>11, <1>12,
     <1>13, <1>14, <1>15, <1>16, <1>17 DEF Next, Worker, Client, Free, Freed

-----------------------------------------------------------------------------
(* Each action keeps the backlog in the ring *)

\* Every step keeps the backlog in order between head and tail.
LEMMA RingStep == IInv /\ [Next]_vars => RingHoldsBacklog'
<1> SUFFICES ASSUME IInv, [Next]_vars PROVE RingHoldsBacklog'
  OBVIOUS
<1> USE DepthAssumption, BoundAssumption DEF IInv, TypeOK, RingHoldsBacklog, Slot
<1>1. ASSUME NEW w \in Workers, WorkerMustWait(w) PROVE RingHoldsBacklog'
  BY <1>1 DEF WorkerMustWait, ring
<1>2. ASSUME NEW w \in Workers, WorkerWait(w) PROVE RingHoldsBacklog'
  BY <1>2 DEF WorkerWait, ring
<1>3. ASSUME NEW w \in Workers, WorkerExit(w) PROVE RingHoldsBacklog'
  BY <1>3 DEF WorkerExit, ring
<1>4. ASSUME NEW w \in Workers, WorkerTake(w) PROVE RingHoldsBacklog'
  <2>1. count > 0
    BY <1>4 DEF WorkerTake, MustSleep, MustExit
  <2>2. /\ head' = Advance(head) /\ count' = count - 1
        /\ UNCHANGED <<tasks, tail, accepted>>
    BY <1>4 DEF WorkerTake
  <2>3. head' \in 0 .. Depth - 1
    BY <2>2, AdvanceInRing
  <2>4. ASSUME NEW i \in 0 .. count - 1
        PROVE  Wrapped(head' + i) = Wrapped(head + (i + 1))
    BY <2>2, ShiftSlot
  <2>5. tail' = Wrapped(head' + count')
    BY <2>1, <2>2, <2>4
  <2>6. ASSUME NEW i \in 0 .. count' - 1
        PROVE  tasks'[Wrapped(head' + i)] = accepted' - count' + 1 + i
    <3>1. i \in 0 .. count - 1 /\ i + 1 \in 0 .. count - 1
      BY <2>1, <2>2
    <3>2. tasks[Wrapped(head + (i + 1))] = accepted - count + 1 + (i + 1)
      BY <3>1
    <3> QED BY <2>2, <2>4, <3>1, <3>2
  <2> QED BY <2>5, <2>6
<1>5. ASSUME NEW w \in Workers, WorkerRun(w) PROVE RingHoldsBacklog'
  BY <1>5 DEF WorkerRun, ring
<1>6. ASSUME NEW w \in Workers, WorkerFinish(w) PROVE RingHoldsBacklog'
  BY <1>6 DEF WorkerFinish, ring
<1>7. ASSUME NEW w \in Workers, SpuriousWake(w) PROVE RingHoldsBacklog'
  BY <1>7 DEF SpuriousWake, ring
<1>8. ASSUME NEW c \in Clients, Submit(c) PROVE RingHoldsBacklog'
  <2>1. /\ count < Depth
        /\ tasks' = [tasks EXCEPT ![tail] = accepted + 1]
        /\ tail' = Wrapped(tail + 1)
        /\ count' = count + 1 /\ accepted' = accepted + 1 /\ head' = head
    BY <1>8 DEF Submit, Full, Advance
  <2>2. tail = IF head + count < Depth THEN head + count ELSE head + count - Depth
    BY <2>1, Wrap
  <2>3. tail' = Wrapped(head' + count')
    <3>1. tail' = IF tail + 1 < Depth THEN tail + 1 ELSE tail + 1 - Depth
      BY <2>1, Wrap
    <3>2. head + (count + 1) \in 0 .. 2 * Depth - 1
      BY <2>1
    <3>3. Wrapped(head + (count + 1))
            = IF head + (count + 1) < Depth THEN head + (count + 1)
              ELSE head + (count + 1) - Depth
      BY <3>2, Wrap
    <3> QED BY <2>1, <2>2, <3>1, <3>3
  <2>4. ASSUME NEW i \in 0 .. count' - 1
        PROVE  tasks'[Wrapped(head' + i)] = accepted' - count' + 1 + i
    <3>1. CASE i = count
      BY <2>1, <3>1
    <3>2. CASE i < count
      <4>1. i \in 0 .. count - 1
        BY <3>2
      <4>2. Wrapped(head + i) = IF head + i < Depth THEN head + i ELSE head + i - Depth
        BY <2>1, <4>1, Wrap
      <4>3. Wrapped(head + i) \in 0 .. Depth - 1 /\ Wrapped(head + i) # tail
        BY <2>1, <2>2, <4>1, <4>2
      <4>4. tasks'[Wrapped(head + i)] = tasks[Wrapped(head + i)]
        BY <2>1, <4>3
      <4>5. tasks[Wrapped(head + i)] = accepted - count + 1 + i
        BY <4>1
      <4> QED BY <2>1, <4>4, <4>5
    <3> QED BY <2>1, <3>1, <3>2
  <2> QED BY <2>3, <2>4
<1>9. ASSUME NEW c \in Clients, SubmitBusy(c) PROVE RingHoldsBacklog'
  BY <1>9 DEF SubmitBusy, ring
<1>10. ASSUME NEW c \in Clients, WaitCall(c) PROVE RingHoldsBacklog'
  BY <1>10 DEF WaitCall, ring
<1>11. ASSUME NEW c \in Clients, WaitBlock(c) PROVE RingHoldsBacklog'
  BY <1>11 DEF WaitBlock, ring
<1>12. ASSUME NEW c \in Clients, WaitReturn(c) PROVE RingHoldsBacklog'
  BY <1>12 DEF WaitReturn, ring
<1>13. ASSUME NEW c \in Clients, SpuriousDone(c) PROVE RingHoldsBacklog'
  BY <1>13 DEF SpuriousDone, ring
<1>14. CASE FreeShutdown
  BY <1>14 DEF FreeShutdown, ring
<1>15. CASE FreeBroadcast
  BY <1>15 DEF FreeBroadcast, ring
<1>16. CASE FreeJoin
  BY <1>16 DEF FreeJoin, ring
<1>17. CASE UNCHANGED vars
  BY <1>17 DEF vars, ring
<1> QED
  BY <1>1, <1>2, <1>3, <1>4, <1>5, <1>6, <1>7, <1>8, <1>9, <1>10, <1>11, <1>12,
     <1>13, <1>14, <1>15, <1>16, <1>17 DEF Next, Worker, Client, Free, Freed

-----------------------------------------------------------------------------
(* Each action keeps every task in one place *)

\* Every step keeps each task in one place and runs it at most once.
LEMMA TasksStep == IInv /\ [Next]_vars => TasksRunOnce'
<1> SUFFICES ASSUME IInv, [Next]_vars PROVE TasksRunOnce'
  OBVIOUS
<1> USE DepthAssumption, BoundAssumption DEF IInv, TypeOK, TasksRunOnce
<1>0. accepted - count \in Int /\ accepted \in Int /\ count \in Int
  OBVIOUS
<1>1. ASSUME NEW w \in Workers, WorkerMustWait(w) PROVE TasksRunOnce'
  BY <1>1 DEF WorkerMustWait, ring, workerVars, AtTest, InFlight, InHand
<1>2. ASSUME NEW w \in Workers, WorkerWait(w) PROVE TasksRunOnce'
  BY <1>2 DEF WorkerWait, ring, workerVars, AtTest, InFlight, InHand
<1>3. ASSUME NEW w \in Workers, WorkerExit(w) PROVE TasksRunOnce'
  BY <1>3 DEF WorkerExit, ring, workerVars, AtTest, InFlight, InHand
<1>4. ASSUME NEW w \in Workers, WorkerTake(w) PROVE TasksRunOnce'
  <2> DEFINE t0 == accepted - count + 1
  <2>1. /\ count > 0 /\ wpc[w] \notin {"run", "finish"}
        /\ accepted' - count' = t0 /\ runs' = runs
        /\ wpc' = [wpc EXCEPT ![w] = "run"]
    BY <1>4 DEF WorkerTake, MustSleep, MustExit, AtTest
  <2>2. tasks[head] = t0
    <3>1. tasks[Slot(0)] = t0
      BY <2>1 DEF RingHoldsBacklog
    <3>2. Slot(0) = head
      BY Wrap DEF Slot
    <3> QED BY <3>1, <3>2
  <2>3. cur' = [cur EXCEPT ![w] = t0]
    BY <1>4, <2>2 DEF WorkerTake, PopSlot
  <2>4. InFlight' = InFlight \cup {w} /\ w \notin InFlight
    BY <2>1 DEF InFlight, InHand
  <2>5. \A v \in InFlight : cur'[v] = cur[v] /\ cur[v] \in 1 .. t0 - 1
    BY <2>3, <2>4 DEF InFlight
  <2>6. \A v \in InFlight' : cur'[v] \in 1 .. accepted' - count'
    <3>1. t0 \in 1 .. t0 /\ cur'[w] = t0
      BY <2>3, <1>0 DEF Control
    <3>2. \A v \in InFlight : cur'[v] \in 1 .. t0
      BY <2>5, <1>0
    <3> QED BY <2>1, <2>4, <3>1, <3>2
  <2>7. \A u, v \in InFlight' : cur'[u] = cur'[v] => u = v
    BY <2>3, <2>4, <2>5, <1>0
  <2>8. ASSUME NEW t \in Task
        PROVE  runs'[t] = IF /\ t \in 1 .. accepted' - count'
                             /\ \A v \in Workers : wpc'[v] = "run" => cur'[v] # t
                          THEN 1 ELSE 0
    <3>1. CASE t = t0
      BY <2>1, <2>3, <3>1, <1>0
    <3>2. CASE t # t0
      BY <2>1, <2>3, <3>2, <1>0 DEF Task
    <3> QED BY <3>1, <3>2
  <2> QED BY <2>6, <2>7, <2>8
<1>5. ASSUME NEW w \in Workers, WorkerRun(w) PROVE TasksRunOnce'
  <2>1. /\ wpc[w] = "run" /\ UNCHANGED <<cur, accepted, count>>
        /\ wpc' = [wpc EXCEPT ![w] = "finish"]
        /\ runs' = [runs EXCEPT ![cur[w]] = @ + 1]
    BY <1>5 DEF WorkerRun, ring
  <2>2. InFlight' = InFlight /\ w \in InFlight
    BY <2>1 DEF InFlight, InHand
  <2>3. cur[w] \in 1 .. accepted - count /\ cur[w] \in Task
    BY <2>2 DEF Task
  <2>4. \A v \in Workers : wpc[v] = "run" /\ cur[v] = cur[w] => v = w
    BY <2>2 DEF InFlight, InHand
  <2>5. ASSUME NEW t \in Task
        PROVE  runs'[t] = IF /\ t \in 1 .. accepted' - count'
                             /\ \A v \in Workers : wpc'[v] = "run" => cur'[v] # t
                          THEN 1 ELSE 0
    <3>1. CASE t = cur[w]
      BY <2>1, <2>3, <2>4, <3>1
    <3>2. CASE t # cur[w]
      BY <2>1, <3>2
    <3> QED BY <3>1, <3>2
  <2> QED BY <2>1, <2>2, <2>5
<1>6. ASSUME NEW w \in Workers, WorkerFinish(w) PROVE TasksRunOnce'
  BY <1>6 DEF WorkerFinish, ring, workerVars, AtTest, InFlight, InHand
<1>7. ASSUME NEW w \in Workers, SpuriousWake(w) PROVE TasksRunOnce'
  BY <1>7 DEF SpuriousWake, ring, workerVars, AtTest, InFlight, InHand
<1>8. ASSUME NEW c \in Clients, Submit(c) PROVE TasksRunOnce'
  <2>1. accepted' - count' = accepted - count
    BY <1>8 DEF Submit
  <2>2. UNCHANGED <<wpc, cur, runs>>
    BY <1>8 DEF Submit, workerVars
  <2> QED BY <2>1, <2>2 DEF InFlight, InHand
<1>9. ASSUME NEW c \in Clients, SubmitBusy(c) PROVE TasksRunOnce'
  BY <1>9 DEF SubmitBusy, ring, workerVars, AtTest, InFlight, InHand
<1>10. ASSUME NEW c \in Clients, WaitCall(c) PROVE TasksRunOnce'
  BY <1>10 DEF WaitCall, ring, workerVars, AtTest, InFlight, InHand
<1>11. ASSUME NEW c \in Clients, WaitBlock(c) PROVE TasksRunOnce'
  BY <1>11 DEF WaitBlock, ring, workerVars, AtTest, InFlight, InHand
<1>12. ASSUME NEW c \in Clients, WaitReturn(c) PROVE TasksRunOnce'
  BY <1>12 DEF WaitReturn, ring, workerVars, AtTest, InFlight, InHand
<1>13. ASSUME NEW c \in Clients, SpuriousDone(c) PROVE TasksRunOnce'
  BY <1>13 DEF SpuriousDone, ring, workerVars, AtTest, InFlight, InHand
<1>14. CASE FreeShutdown
  BY <1>14 DEF FreeShutdown, ring, workerVars, AtTest, InFlight, InHand
<1>15. CASE FreeBroadcast
  BY <1>15 DEF FreeBroadcast, ring, workerVars, AtTest, InFlight, InHand
<1>16. CASE FreeJoin
  BY <1>16 DEF FreeJoin, ring, workerVars, AtTest, InFlight, InHand
<1>17. CASE UNCHANGED vars
  BY <1>17 DEF vars, ring, workerVars, InFlight, InHand
<1> QED
  BY <1>1, <1>2, <1>3, <1>4, <1>5, <1>6, <1>7, <1>8, <1>9, <1>10, <1>11, <1>12,
     <1>13, <1>14, <1>15, <1>16, <1>17 DEF Next, Worker, Client, Free, Freed

-----------------------------------------------------------------------------
(* Each action leaves a worker for the backlog *)

\* Every step leaves an awake worker for a task in the ring.
LEMMA BacklogStep == IInv /\ [Next]_vars => BacklogHasWorker'
<1> SUFFICES ASSUME IInv, [Next]_vars PROVE BacklogHasWorker'
  OBVIOUS
<1> USE DEF IInv, TypeOK, BacklogHasWorker, AtTest, InHand
<1>1. ASSUME NEW w \in Workers, WorkerMustWait(w) PROVE BacklogHasWorker'
  BY <1>1 DEF WorkerMustWait, ring, workerVars, MustSleep, MustExit
<1>2. ASSUME NEW w \in Workers, WorkerWait(w) PROVE BacklogHasWorker'
  BY <1>2 DEF WorkerWait, ring, workerVars, MustSleep, MustExit
<1>3. ASSUME NEW w \in Workers, WorkerExit(w) PROVE BacklogHasWorker'
  BY <1>3 DEF WorkerExit, ring, workerVars, MustSleep, MustExit
<1>4. ASSUME NEW w \in Workers, WorkerTake(w) PROVE BacklogHasWorker'
  BY <1>4 DEF WorkerTake, ring, workerVars, MustSleep, MustExit
<1>5. ASSUME NEW w \in Workers, WorkerRun(w) PROVE BacklogHasWorker'
  BY <1>5 DEF WorkerRun, ring, workerVars, MustSleep, MustExit
<1>6. ASSUME NEW w \in Workers, WorkerFinish(w) PROVE BacklogHasWorker'
  BY <1>6 DEF WorkerFinish, ring, workerVars, MustSleep, MustExit
<1>7. ASSUME NEW w \in Workers, SpuriousWake(w) PROVE BacklogHasWorker'
  BY <1>7 DEF SpuriousWake, ring, workerVars, MustSleep, MustExit
<1>8. ASSUME NEW c \in Clients, Submit(c) PROVE BacklogHasWorker'
  <2>1. \A v \in Workers : wpc[v] \notin {"toWait", "exited"}
    BY <1>8, ThreadAssumption DEF Submit, Control
  <2>2. UNCHANGED wpc
    BY <1>8 DEF Submit, workerVars
  <2>3. CASE condWait = {}
    <3>1. condWait' = {}
      BY <1>8, <2>3 DEF Submit, Signal
    <3> QED BY <2>1, <2>2, <3>1, WorkersAssumption
  <2>4. CASE condWait # {}
    <3>1. PICK v \in condWait : condWait' = condWait \ {v}
      BY <1>8, <2>4 DEF Submit, Signal
    <3>2. wpc[v] = "asleep" /\ v \in Workers
      BY DEF Control
    <3> QED BY <2>2, <3>1, <3>2
  <2> QED BY <2>3, <2>4
<1>9. ASSUME NEW c \in Clients, SubmitBusy(c) PROVE BacklogHasWorker'
  BY <1>9 DEF SubmitBusy, ring, workerVars, MustSleep, MustExit
<1>10. ASSUME NEW c \in Clients, WaitCall(c) PROVE BacklogHasWorker'
  BY <1>10 DEF WaitCall, ring, workerVars, MustSleep, MustExit
<1>11. ASSUME NEW c \in Clients, WaitBlock(c) PROVE BacklogHasWorker'
  BY <1>11 DEF WaitBlock, ring, workerVars, MustSleep, MustExit
<1>12. ASSUME NEW c \in Clients, WaitReturn(c) PROVE BacklogHasWorker'
  BY <1>12 DEF WaitReturn, ring, workerVars, MustSleep, MustExit
<1>13. ASSUME NEW c \in Clients, SpuriousDone(c) PROVE BacklogHasWorker'
  BY <1>13 DEF SpuriousDone, ring, workerVars, MustSleep, MustExit
<1>14. CASE FreeShutdown
  BY <1>14 DEF FreeShutdown, ring, workerVars, MustSleep, MustExit
<1>15. CASE FreeBroadcast
  BY <1>15 DEF FreeBroadcast, ring, workerVars, MustSleep, MustExit
<1>16. CASE FreeJoin
  BY <1>16 DEF FreeJoin, ring, workerVars, MustSleep, MustExit
<1>17. CASE UNCHANGED vars
  BY <1>17 DEF vars, ring, workerVars
<1> QED
  BY <1>1, <1>2, <1>3, <1>4, <1>5, <1>6, <1>7, <1>8, <1>9, <1>10, <1>11, <1>12,
     <1>13, <1>14, <1>15, <1>16, <1>17 DEF Next, Worker, Client, Free, Freed

-----------------------------------------------------------------------------
(* The theorems *)

\* The inductive invariant holds in every reachable state.
THEOREM Invariance == Spec => []IInv
<1>1. IInv /\ [Next]_vars => IInv'
  BY TypeStep, ControlStep, PendingStep, RingStep, TasksStep, BacklogStep DEF IInv
<1> QED BY InitIInv, <1>1, PTL DEF Spec

\* The fields of the pool keep their types; no index leaves the ring and no
\* counter becomes negative.
THEOREM TypeCorrect == Spec => []TypeOK
<1>1. IInv => TypeOK
  BY DEF IInv
<1> QED BY Invariance, <1>1, PTL

\* pending is the number of unfinished tasks, whatever the interleaving of
\* submitters and workers.
THEOREM PendingCorrect == Spec => []PendingCounts
<1>1. IInv => PendingCounts
  BY DEF IInv
<1> QED BY Invariance, <1>1, PTL

\* The ring buffer is a first-in first-out queue of the tasks not yet taken.
THEOREM RingCorrect == Spec => []RingHoldsBacklog
<1>1. IInv => RingHoldsBacklog
  BY DEF IInv
<1> QED BY Invariance, <1>1, PTL

\* No task is lost, taken twice or run twice.
THEOREM RunOnceCorrect == Spec => []TasksRunOnce
<1>1. IInv => TasksRunOnce
  BY DEF IInv
<1> QED BY Invariance, <1>1, PTL

\* No wakeup meant for a submitted task is lost.
THEOREM WakeupCorrect == Spec => []BacklogHasWorker
<1>1. IInv => BacklogHasWorker
  BY DEF IInv
<1> QED BY Invariance, <1>1, PTL

\* With nothing pending, exactly the accepted tasks have run.
LEMMA NothingPending ==
    ASSUME IInv, count = 0, InFlight = {}
    PROVE  Finished = 1 .. accepted
<1> USE BoundAssumption DEF IInv, TypeOK, TasksRunOnce, Finished, Task
<1>1. \A w \in Workers : wpc[w] # "run"
  BY DEF InFlight, InHand
<1>2. \A t \in Task : runs[t] = IF t \in 1 .. accepted THEN 1 ELSE 0
  BY <1>1
<1> QED BY <1>2

\* A wait that returns has seen every accepted task run.
THEOREM WaitCorrect == Spec => WaitSeesAllDone
<1>1. ASSUME IInv, [Next]_vars
      PROVE  [\A c \in Clients :
                cpc[c] = "wait" /\ cpc'[c] = "idle" => Finished = 1 .. accepted]_vars
  <2> SUFFICES ASSUME NEW c \in Clients, cpc[c] = "wait", cpc'[c] = "idle"
               PROVE  Finished = 1 .. accepted
    OBVIOUS
  <2>1. pending = 0
    <3> USE DEF IInv, TypeOK
    <3>1. WaitReturn(c)
      BY <1>1, ThreadAssumption, OwnerAssumption
      DEF Next, Worker, Client, Free, Freed, WorkerMustWait, WorkerWait, WorkerExit,
          WorkerTake, WorkerRun, WorkerFinish, SpuriousWake, Submit, SubmitBusy,
          WaitCall, WaitBlock, WaitReturn, SpuriousDone, FreeShutdown,
          FreeBroadcast, FreeJoin, vars, clientVars
    <3> QED BY <1>1, <3>1 DEF WaitReturn, AllDone
  <2>2. IsFiniteSet(InFlight)
    BY WorkersAssumption, FS_Subset DEF InFlight
  <2>3. count = 0 /\ Cardinality(InFlight) = 0
    BY <1>1, <2>1, <2>2, FS_CardinalityType DEF IInv, TypeOK, PendingCounts
  <2>4. InFlight = {}
    BY <2>2, <2>3, FS_EmptySet
  <2> QED BY <1>1, <2>3, <2>4, NothingPending
<1> QED BY <1>1, Invariance, PTL DEF Spec, WaitSeesAllDone

\* A pool that has been freed has run everything it accepted, and no thread is
\* left that could touch it.
THEOREM FreeCorrect == Spec => []FreeDrains
<1>1. ASSUME IInv, cpc[Owner] = "freed"
      PROVE  /\ Finished = 1 .. accepted
             /\ condWait = {} /\ doneWait = {} /\ lock = NoThread
  <2>1. \A w \in Workers : wpc[w] = "exited"
    BY <1>1 DEF IInv, Control
  <2>2. InFlight = {} /\ count = 0
    BY <1>1, <2>1, WorkersAssumption DEF IInv, Control, InFlight, InHand
  <2>3. condWait = {} /\ doneWait = {} /\ lock = NoThread
    BY <1>1, <2>1 DEF IInv, TypeOK, Control
  <2> QED BY <1>1, <2>2, <2>3, NothingPending
<1>2. IInv => FreeDrains
  BY <1>1 DEF FreeDrains
<1> QED BY Invariance, <1>2, PTL
================================================================================
