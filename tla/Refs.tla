------------------------------- MODULE Refs -------------------------------
(***************************************************************************)
(* References and their logs (repository.c), as processes that share a     *)
(* repository's files see them.  Nothing is locked: every step below is    *)
(* one system call or one read of a file, and steps of different processes *)
(* come in any order.                                                      *)
(*                                                                         *)
(* A command is a list of library calls, todo; a process carries out the   *)
(* first of them, at says how far it is.  Commits are sequences of tags:   *)
(* c's ancestors are its prefixes.  A commit in odb stands for the commit, *)
(* its tree and its blobs.                                                 *)
(***************************************************************************)
EXTENDS Integers, Sequences, FiniteSets, SequencesExt

CONSTANT Procs

\* Process numbers; they also name the inodes that processes create, and 0 the first one.
ASSUME ProcsAssumption == Procs \subseteq Nat \ {0}

Repos == {"local", "peer"}
Other(r) == CHOOSE s \in Repos : s # r
Branches == {"main", "topic"}
Names == Branches \cup {"stash"}

NoCommit == <<>>
Absent == <<-1>>        \* no such file
Empty == <<-2>>         \* a file truncated and not yet written
NoFile == -1            \* no inode
IsCommit(v) == v # NoCommit /\ v[1] >= 0
History(c) == {SubSeq(c, 1, k) : k \in 1..Len(c)}

VARIABLES
    proc,       \* what each process is doing
    loose,      \* loose[r][n]: the file of reference n
    packed,     \* packed[r][n]: its line in packed-refs, NoCommit if none
    logs,       \* logs[r][n]: the reflog, a sequence of <<old, new>>
    odb,        \* odb[r]: the objects stored
    faults,     \* failures and crashes that may still happen
    \* History, read by the properties only:
    held,       \* held[r][n]: the commits the reference's file has named
    marks       \* what went wrong or crossed, as the actions below say

refVars == <<loose, packed, logs, held>>

\* HEAD is "ref: refs/heads/main", as fastgit_repository_init writes it; no command
\* of fastgit writes it again.
FileOf(n) == IF n = "HEAD" THEN "main" ELSE n

-----------------------------------------------------------------------------
(* Calls.                                                                  *)

\* onerr: what the caller does with an error - "go" on, "stop" and return it, or "end".
Call(c, r, n) == [call |-> c, repo |-> r, name |-> n, force |-> TRUE, onerr |-> "go"]
Stops(c) == [c EXCEPT !.onerr = "stop"]
Ends(c) == [c EXCEPT !.onerr = "end"]
Gently(c) == [c EXCEPT !.force = FALSE]

Do(p) == proc[p].todo[1]
Doing(p, c, at) == proc[p].todo # <<>> /\ Do(p).call = c /\ proc[p].at = at
Idle(cmd, home, given, result) ==
    [cmd |-> cmd, home |-> home, todo |-> <<>>, at |-> "call", val |-> given, head |-> NoCommit,
     seen |-> NoCommit, old |-> NoCommit, lost |-> FALSE, list |-> {}, bundle |-> <<>>,
     adv |-> [n \in Branches |-> NoCommit], mem |-> NoCommit, fd |-> NoFile, left |-> {}, result |-> result]
Ended(s, result) == Idle(s.cmd, s.home, NoCommit, result)
\* The call returned OK, with an error; or goes on at another step.
Returned(s) == IF Len(s.todo) = 1 THEN Ended(s, "ok")
               ELSE [s EXCEPT !.todo = Tail(@), !.at = "call", !.old = NoCommit, !.lost = FALSE]
Failed(s) == CASE s.todo[1].onerr = "go" -> Returned(s)
               [] s.todo[1].onerr = "stop" -> Ended(s, "error")
               [] s.todo[1].onerr = "end" -> Ended(s, "ok")
Goes(s, at) == [s EXCEPT !.at = at]
Becomes(p, s) == proc' = [proc EXCEPT ![p] = s]

Fault == faults > 0 /\ faults' = faults - 1
Fine == UNCHANGED faults
Mark(m) == marks' = marks \cup {m}

-----------------------------------------------------------------------------
(* Reading a reference.                                                    *)

ResolveRaw(r, n) ==
    LET f == loose[r][FileOf(n)]
    IN  IF f # Absent THEN f
        ELSE IF n = "HEAD" THEN NoCommit ELSE packed[r][n]

\* fastgit_reference_lookup: the file, through HEAD if need be; a file that is missing
\* or empty sends the search to packed-refs, under the name that was asked for.
Resolve(r, n) ==
    LET f == loose[r][FileOf(n)]
    IN  IF IsCommit(f) THEN f
        ELSE IF n = "HEAD" THEN NoCommit ELSE packed[r][n]

\* fastgit_reference_list for refs/heads/: the files, then packed-refs.
Listed(r) == {n \in Branches : loose[r][n] # Absent \/ packed[r][n] # NoCommit}

Lookup(p) ==
    /\ Doing(p, "lookup", "call")
    /\ LET v == Resolve(Do(p).repo, Do(p).name)
           s == [proc[p] EXCEPT !.val = v]
       IN  Becomes(p, IF v = NoCommit THEN Failed(s) ELSE Returned(s))
    /\ Fine /\ UNCHANGED <<refVars, odb, marks>>

\* A branch that is not found is an unborn one; but where there is no packed-refs file
\* to look in, an empty file is reported as an error (EIO).  fastgit_repository_init writes
\* one without lines (repository.c:140); a repository that git made may have none.
Unreadable(r) == loose[r][FileOf("HEAD")] = Empty /\ \A n \in Names : packed[r][n] = NoCommit
ReadHead(p) ==
    /\ Doing(p, "head", "call")
    /\ LET v == Resolve(Do(p).repo, "HEAD")
           s == [proc[p] EXCEPT !.head = v, !.seen = v]
       IN  \/ Becomes(p, Returned(s))
           \/ Unreadable(Do(p).repo) /\ Becomes(p, Failed(s))
    /\ Fine /\ UNCHANGED <<refVars, odb, marks>>

-----------------------------------------------------------------------------
(* fastgit_reference_create and fastgit_reference_update.                  *)

RefFile(p) == loose[Do(p).repo][FileOf(Do(p).name)]
SetRef(p, v) == loose' = [loose EXCEPT ![Do(p).repo][FileOf(Do(p).name)] = v]
ThisRef(p) == <<Do(p).repo, FileOf(Do(p).name)>>

\* The caller had nothing to install: the lookup before it failed.
RefSkip(p) ==
    /\ Doing(p, "ref", "call") /\ proc[p].val = NoCommit
    /\ Becomes(p, Returned(proc[p]))
    /\ Fine /\ UNCHANGED <<refVars, odb, marks>>

\* Without force a file that exists, with whatever in it, is an error.
RefStat(p) ==
    /\ Doing(p, "ref", "call") /\ proc[p].val # NoCommit /\ ~Do(p).force
    /\ Becomes(p, IF RefFile(p) = Absent THEN [Goes(proc[p], "old") EXCEPT !.seen = Absent]
                  ELSE Failed(proc[p]))
    /\ Fine /\ UNCHANGED <<refVars, odb, marks>>

\* The old value, for the log.
RefOld(p) ==
    /\ \/ Doing(p, "ref", "call") /\ proc[p].val # NoCommit /\ Do(p).force
       \/ Doing(p, "ref", "old")
    /\ Becomes(p, [Goes(proc[p], "open") EXCEPT !.old = Resolve(Do(p).repo, Do(p).name)])
    /\ Fine /\ UNCHANGED <<refVars, odb, marks>>

RefOpenLate(p) ==
    /\ Doing(p, "ref", "open")
    /\ SetRef(p, Empty) /\ Fine
    /\ Becomes(p, [Goes(proc[p], "write") EXCEPT !.old = IF Do(p).name = "HEAD" THEN NoCommit
                                                        ELSE packed[Do(p).repo][Do(p).name]])
    /\ UNCHANGED <<packed, logs, held, odb, marks>>

\* fopen(path, "w"): from here the file is empty.
RefOpen(p) ==
    /\ Doing(p, "ref", "open")
    /\ \/ SetRef(p, Empty) /\ Becomes(p, Goes(proc[p], "write")) /\ Fine
       \/ Becomes(p, Failed(proc[p])) /\ Fault /\ UNCHANGED loose
    /\ UNCHANGED <<packed, logs, held, odb, marks>>

\* fprintf and fclose, whose results nobody looks at.  lost: the file was unlinked
\* since it was opened.
RefWrite(p) ==
    /\ Doing(p, "ref", "write")
    /\ \/ /\ IF proc[p].lost THEN UNCHANGED <<loose, held>>
             ELSE /\ SetRef(p, proc[p].val)
                  /\ held' = [held EXCEPT ![Do(p).repo][FileOf(Do(p).name)] = @ \cup {proc[p].val}]
          /\ Fine /\ UNCHANGED marks
       \/ Fault /\ Mark(<<"cut", ThisRef(p)>>) /\ UNCHANGED <<loose, held>>
    /\ Becomes(p, Goes(proc[p], "log"))
    /\ UNCHANGED <<packed, logs, odb>>

\* append_reflog, under the name the caller used; "reflog optional".
AddToLog(p, new) ==
    \/ /\ logs' = [logs EXCEPT ![Do(p).repo][Do(p).name] = Append(@, <<proc[p].old, new>>)]
       /\ Fine /\ UNCHANGED marks
    \/ Fault /\ Mark(<<"unlogged", "log">>) /\ UNCHANGED logs
RefLog(p) ==
    /\ Doing(p, "ref", "log")
    /\ AddToLog(p, proc[p].val) /\ Becomes(p, Returned(proc[p]))
    /\ UNCHANGED <<loose, packed, held, odb>>

-----------------------------------------------------------------------------
(* fastgit_reference_remove.                                               *)

RmOld(p) ==
    /\ Doing(p, "remove", "call")
    /\ Becomes(p, [Goes(proc[p], "unlink") EXCEPT !.old = Resolve(Do(p).repo, Do(p).name)])
    /\ Fine /\ UNCHANGED <<refVars, odb, marks>>

\* A process that has the file open goes on writing to what nobody can find.
RmUnlink(p) ==
    /\ Doing(p, "remove", "unlink")
    /\ IF RefFile(p) = Absent THEN Becomes(p, Failed(proc[p])) /\ UNCHANGED loose
       ELSE /\ SetRef(p, Absent)
            /\ proc' = [q \in Procs |->
                  CASE q = p -> Goes(proc[p], "log")
                    [] q # p /\ Doing(q, "ref", "write") /\ ThisRef(q) = ThisRef(p) ->
                          [proc[q] EXCEPT !.lost = TRUE]
                    [] OTHER -> proc[q]]
    /\ Fine /\ UNCHANGED <<packed, logs, held, odb, marks>>

RmLog(p) ==
    /\ Doing(p, "remove", "log")
    /\ AddToLog(p, NoCommit) /\ Becomes(p, Returned(proc[p]))
    /\ UNCHANGED <<loose, packed, held, odb>>

RefNext(p) == \/ Lookup(p) \/ ReadHead(p) \/ RefSkip(p) \/ RefStat(p) \/ RefOld(p) \/ RefOpen(p)
              \/ RefWrite(p) \/ RefLog(p) \/ RmOld(p) \/ RmUnlink(p) \/ RmLog(p)
=============================================================================
