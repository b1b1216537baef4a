------------------------------- MODULE TaskQueue -------------------------------
(***************************************************************************)
(* What the thread pool promises its callers, with no threads, no mutex    *)
(* and no ring buffer: accepted tasks wait in first-in first-out order,    *)
(* are started from the front, run to completion, and the pool can only    *)
(* be closed when nothing is waiting or running.                           *)
(***************************************************************************)
EXTENDS Naturals, Sequences

CONSTANT Task          \* the tasks that may ever be submitted

VARIABLES
    waiting,           \* accepted and not started, oldest first
    running,           \* started and not finished
    done,              \* finished
    closed             \* the pool has been freed

tqVars == <<waiting, running, done, closed>>

TQInit ==
    /\ waiting = <<>>
    /\ running = {}
    /\ done = {}
    /\ closed = FALSE

\* A task is accepted at most once: it is in no other place when it arrives.
Accept(t) ==
    /\ ~closed
    /\ t \notin running \cup done
    /\ \A i \in 1 .. Len(waiting) : waiting[i] # t
    /\ waiting' = Append(waiting, t)
    /\ UNCHANGED <<running, done, closed>>

Start ==
    /\ waiting # <<>>
    /\ running' = running \cup {Head(waiting)}
    /\ waiting' = Tail(waiting)
    /\ UNCHANGED <<done, closed>>

Finish(t) ==
    /\ t \in running
    /\ running' = running \ {t}
    /\ done' = done \cup {t}
    /\ UNCHANGED <<waiting, closed>>

Close ==
    /\ ~closed
    /\ waiting = <<>>
    /\ running = {}
    /\ closed' = TRUE
    /\ UNCHANGED <<waiting, running, done>>

TQNext ==
    \/ \E t \in Task : Accept(t) \/ Finish(t)
    \/ Start
    \/ Close

TQSpec == TQInit /\ [][TQNext]_tqVars
================================================================================
