-------------------------- MODULE RepositoryProofs --------------------------
(***************************************************************************)
(* Theorems about module Repository, for any set of processes, any         *)
(* commands they run and any number of faults.                             *)
(***************************************************************************)
EXTENDS Repository, SequenceTheorems, FiniteSetTheorems, TLAPS

-----------------------------------------------------------------------------
(* Types.                                                                  *)

CallNames == Names \cup {"HEAD", "", "index", "tree"}
\* A call, with a reference's name where the call is about one.
PlainCalls ==
    {"stage", "index_write", "write_tree", "head", "commit", "peel", "read_tree", "checkout",
     "merge", "rebase", "copy", "copy_refs", "remote_head", "advert", "request", "bundle_pack",
     "bundle_refs", "receive", "unbundle"}
RefCalls == {"ref", "remove", "lookup", "bundle_ref", "bundled"}
CallType ==
    {c \in [call : PlainCalls \cup RefCalls, repo : Repos, name : CallNames, force : BOOLEAN,
            onerr : {"go", "stop", "end"}] :
        /\ c.call \in {"ref", "remove", "lookup"} => c.name \in Names \cup {"HEAD"}
        /\ c.call \in {"bundle_ref", "bundled"} => c.name \in Branches}
Steps == {"call", "old", "open", "write", "log", "unlink", "rename", "file", "filewrite",
          "copy", "branch", "unpack"}
Value == Seq(Nat)
ProcType ==
    [cmd : Commands \cup {"none"}, home : Repos, todo : Seq(CallType), at : Steps,
     val : Value, head : Value, seen : Value \cup {Absent}, old : Value, lost : BOOLEAN,
     list : SUBSET Commits, bundle : Seq(Branches \X Commits), adv : [Branches -> Value],
     mem : Value, fd : {0, NoFile} \cup Procs, left : SUBSET Paths,
     result : {"none", "ok", "error", "crashed"}]

\* The calls in a list; those that write the index, or decide to: no list has two.
Kinds(q) == {q[i].call : i \in 1..Len(q)}
Writers == {"index_write", "merge", "rebase"}
NoWriter(q) == \A i \in 1..Len(q) : q[i].call \notin Writers
OneWriter(q) ==
    \A i, j \in 1..Len(q) : q[i].call \in Writers /\ q[j].call \in Writers => i = j

\* Past the first step of a call that installs a value there is one.
HasValue(s) == s.todo # <<>> /\ s.todo[1].call = "ref" /\ s.at # "call" => s.val # NoCommit

\* What the commands of NoLostCommits install descends from what they have seen.
BranchSees(s) == s.cmd = "branch" => Kinds(s.todo) \subseteq {"ref"} /\ s.seen \in {NoCommit, Absent}
CommitSees(s) ==
    s.cmd = "commit" =>
        /\ Kinds(s.todo) \subseteq {"write_tree", "head", "commit", "ref"}
        /\ s.seen \in {s.head, Absent}
        /\ \A i \in 1..Len(s.todo) : s.todo[i].call = "ref" =>
               IF i = 1 THEN IsPrefix(s.head, s.val) ELSE s.todo[i - 1].call = "commit"
MergeSees(s) ==
    s.cmd \in {"merge", "rebase"} =>
        /\ s.seen \in {s.head, Absent}
        /\ \/ Kinds(s.todo) \subseteq {"head", "merge", "rebase"}
           \/ /\ Kinds(s.todo) \subseteq {"read_tree", "index_write", "checkout", "ref"}
              /\ s.head = NoCommit \/ IsPrefix(s.head, s.val)
Sees(s) == BranchSees(s) /\ CommitSees(s) /\ MergeSees(s)

ProcOK(s) ==
    /\ s \in ProcType
    /\ s.todo = <<>> <=> s.result # "none"
    /\ HasValue(s) /\ OneWriter(s.todo) /\ Sees(s)

\* A list of no calls has no calls.
LEMMA NoCalls == /\ Kinds(<<>>) = {} /\ NoWriter(<<>>) /\ OneWriter(<<>>)
                 /\ \A S : <<>> \in Seq(S)
  BY DEF Kinds, NoWriter, OneWriter

\* A process before its first call or after its last.
LEMMA IdleOK ==
    ASSUME NEW cmd \in Commands \cup {"none"}, NEW home \in Repos, NEW given \in Value,
           NEW result \in {"none", "ok", "error", "crashed"}
    PROVE  Idle(cmd, home, given, result) \in ProcType
<1> DEFINE adv == [n \in Branches |-> NoCommit]
<1>1. /\ <<>> \in Seq(CallType) /\ NoCommit \in Value /\ NoCommit \in Value \cup {Absent}
      /\ {} \in SUBSET Commits
      /\ <<>> \in Seq(Branches \X Commits) /\ adv \in [Branches -> Value]
      /\ {} \in SUBSET Paths /\ "call" \in Steps /\ NoFile \in {0, NoFile} \cup Procs
  BY DEF NoCommit, Value, Steps
<1> HIDE DEF adv
<1>2. Idle(cmd, home, given, result) =
          [cmd |-> cmd, home |-> home, todo |-> <<>>, at |-> "call", val |-> given,
           head |-> NoCommit, seen |-> NoCommit, old |-> NoCommit, lost |-> FALSE, list |-> {},
           bundle |-> <<>>, adv |-> adv, mem |-> NoCommit, fd |-> NoFile, left |-> {},
           result |-> result]
  BY DEF Idle, adv
<1> QED BY <1>1, <1>2 DEF ProcType

\* A process that ends, whatever it was doing, is in its type.
LEMMA EndedOK ==
    ASSUME NEW s \in ProcType, NEW result \in {"ok", "error", "crashed"}
    PROVE  ProcOK(Ended(s, result))
<1> DEFINE t == Ended(s, result)
<1>1. /\ t.todo = <<>> /\ t.result = result /\ t.cmd = s.cmd /\ t.seen = NoCommit
      /\ t.head = NoCommit
  BY DEF Ended, Idle
<1>2. s.cmd \in Commands \cup {"none"} /\ s.home \in Repos /\ NoCommit \in Value
  BY DEF ProcType, NoCommit, Value
<1>3. t \in ProcType
  BY <1>2, IdleOK DEF Ended
<1> HIDE DEF t
<1>4. HasValue(t) /\ OneWriter(t.todo)
  BY <1>1, NoCalls DEF HasValue
<1>5. Sees(t)
  <2>1. Kinds(t.todo) = {}
    BY <1>1, NoCalls
  <2>2. \A i \in 1..Len(t.todo) : FALSE
    BY <1>1
  <2> QED BY <1>1, <2>1, <2>2 DEF Sees, BranchSees, CommitSees, MergeSees
<1> QED BY <1>1, <1>3, <1>4, <1>5 DEF ProcOK, t

\* One field after the other: what may be assigned to a process's fields.
LEMMA Fields ==
    ASSUME NEW s \in ProcType
    PROVE  /\ \A v \in Seq(CallType) : [s EXCEPT !.todo = v] \in ProcType
           /\ \A v \in Steps : [s EXCEPT !.at = v] \in ProcType
           /\ \A v \in Value : [s EXCEPT !.val = v] \in ProcType
           /\ \A v \in Value : [s EXCEPT !.head = v] \in ProcType
           /\ \A v \in Value \cup {Absent} : [s EXCEPT !.seen = v] \in ProcType
           /\ \A v \in Value : [s EXCEPT !.old = v] \in ProcType
           /\ \A v \in BOOLEAN : [s EXCEPT !.lost = v] \in ProcType
           /\ \A v \in SUBSET Commits : [s EXCEPT !.list = v] \in ProcType
           /\ \A v \in Seq(Branches \X Commits) : [s EXCEPT !.bundle = v] \in ProcType
           /\ \A v \in [Branches -> Value] : [s EXCEPT !.adv = v] \in ProcType
           /\ \A v \in Value : [s EXCEPT !.mem = v] \in ProcType
           /\ \A v \in {0, NoFile} \cup Procs : [s EXCEPT !.fd = v] \in ProcType
           /\ \A v \in SUBSET Paths : [s EXCEPT !.left = v] \in ProcType
<1>1. \A v \in Seq(CallType) : [s EXCEPT !.todo = v] \in ProcType
  BY DEF ProcType
<1>2. \A v \in Steps : [s EXCEPT !.at = v] \in ProcType
  BY DEF ProcType
<1>3. \A v \in Value : [s EXCEPT !.val = v] \in ProcType
  BY DEF ProcType
<1>4. \A v \in Value : [s EXCEPT !.head = v] \in ProcType
  BY DEF ProcType
<1>5. \A v \in Value \cup {Absent} : [s EXCEPT !.seen = v] \in ProcType
  BY DEF ProcType
<1>6. \A v \in Value : [s EXCEPT !.old = v] \in ProcType
  BY DEF ProcType
<1>7. \A v \in BOOLEAN : [s EXCEPT !.lost = v] \in ProcType
  BY DEF ProcType
<1>8. \A v \in SUBSET Commits : [s EXCEPT !.list = v] \in ProcType
  BY DEF ProcType
<1>9. \A v \in Seq(Branches \X Commits) : [s EXCEPT !.bundle = v] \in ProcType
  BY DEF ProcType
<1>10. \A v \in [Branches -> Value] : [s EXCEPT !.adv = v] \in ProcType
  BY DEF ProcType
<1>11. \A v \in Value : [s EXCEPT !.mem = v] \in ProcType
  BY DEF ProcType
<1>12. \A v \in {0, NoFile} \cup Procs : [s EXCEPT !.fd = v] \in ProcType
  BY DEF ProcType
<1>13. \A v \in SUBSET Paths : [s EXCEPT !.left = v] \in ProcType
  BY DEF ProcType
<1> QED BY <1>1, <1>2, <1>3, <1>4, <1>5, <1>6, <1>7, <1>8, <1>9, <1>10, <1>11, <1>12, <1>13

\* Two lists of calls, one after the other.
LEMMA ConcatCalls ==
    ASSUME NEW a \in Seq(CallType), NEW b \in Seq(CallType)
    PROVE  /\ a \o b \in Seq(CallType)
           /\ a # <<>> => a \o b # <<>>
           /\ NoWriter(a) /\ NoWriter(b) => NoWriter(a \o b)
           /\ NoWriter(a) /\ OneWriter(b) => OneWriter(a \o b)
           /\ OneWriter(a) /\ NoWriter(b) => OneWriter(a \o b)
<1> DEFINE q == a \o b
<1>1. /\ q \in Seq(CallType) /\ Len(q) = Len(a) + Len(b) /\ Len(a) \in Nat /\ Len(b) \in Nat
      /\ \A i \in 1..Len(q) : IF i <= Len(a) THEN i \in 1..Len(a) /\ q[i] = a[i]
                              ELSE i - Len(a) \in 1..Len(b) /\ q[i] = b[i - Len(a)]
  OBVIOUS
<1> HIDE DEF q
<1>2. NoWriter(a) /\ NoWriter(b) => NoWriter(q)
  BY <1>1 DEF NoWriter
<1>3. NoWriter(a) /\ OneWriter(b) => OneWriter(q)
  <2> SUFFICES ASSUME NoWriter(a), OneWriter(b), NEW i \in 1..Len(q), NEW j \in 1..Len(q),
                      q[i].call \in Writers, q[j].call \in Writers
               PROVE  i = j
    BY DEF OneWriter
  <2>1. i - Len(a) = j - Len(a)
    BY <1>1 DEF NoWriter, OneWriter
  <2> QED BY <1>1, <2>1
<1>4. OneWriter(a) /\ NoWriter(b) => OneWriter(q)
  BY <1>1 DEF NoWriter, OneWriter
<1>5. a # <<>> => q # <<>>
  BY <1>1, EmptySeq
<1> QED BY <1>1, <1>2, <1>3, <1>4, <1>5 DEF q

\* What is left of a list of calls when the first has returned.
LEMMA TailOf ==
    ASSUME NEW S, NEW q \in Seq(S), q # <<>>
    PROVE  /\ Len(q) # 1 => Tail(q) # <<>>
           /\ Tail(q) \in Seq(S)
           /\ Len(Tail(q)) = Len(q) - 1
           /\ \A i \in 1..Len(Tail(q)) : i + 1 \in 1..Len(q) /\ Tail(q)[i] = q[i + 1]
<1>1. Len(q) \in Nat /\ Len(q) # 0
  BY EmptySeq
<1>2. Tail(q) \in Seq(S) /\ Len(Tail(q)) = Len(q) - 1
  BY <1>1
<1>3. Len(q) # 1 => Tail(q) # <<>>
  <2>1. Len(<<>>) = 0
    OBVIOUS
  <2>2. Len(q) # 1 => Len(Tail(q)) # 0
    BY <1>1, <1>2
  <2> QED BY <2>1, <2>2, Zenon
<1>4. \A i \in 1..Len(Tail(q)) : i + 1 \in 1..Len(q) /\ Tail(q)[i] = q[i + 1]
  BY <1>1, <1>2
<1> QED BY <1>2, <1>3, <1>4

\* The facts about lists of calls survive the return of the first.
LEMMA TailKeeps ==
    ASSUME NEW q \in Seq(CallType), q # <<>>
    PROVE  /\ Kinds(Tail(q)) \subseteq Kinds(q)
           /\ OneWriter(q) => OneWriter(Tail(q))
           /\ q[1].call \in Kinds(q)
<1>1. \A i \in 1..Len(Tail(q)) : i + 1 \in 1..Len(q) /\ Tail(q)[i] = q[i + 1]
  BY TailOf
<1>2. Kinds(Tail(q)) \subseteq Kinds(q)
  BY <1>1 DEF Kinds
<1>3. OneWriter(q) => OneWriter(Tail(q))
  <2> SUFFICES ASSUME OneWriter(q), NEW i \in 1..Len(Tail(q)), NEW j \in 1..Len(Tail(q)),
                      Tail(q)[i].call \in Writers, Tail(q)[j].call \in Writers
               PROVE  i = j
    BY DEF OneWriter
  <2>1. i + 1 = j + 1
    BY <1>1 DEF OneWriter
  <2> QED BY <2>1
<1>4. 1 \in 1..Len(q)
  BY EmptySeq
<1>5. q[1].call \in Kinds(q)
  BY <1>4 DEF Kinds
<1> QED BY <1>2, <1>3, <1>5

\* When a call returns, the process is at the start of its next call or has ended.
LEMMA ReturnedOK ==
    ASSUME NEW s, ProcOK(s), s.todo # <<>>, s.todo[1].call = "commit" => IsPrefix(s.head, s.val)
    PROVE  ProcOK(Returned(s))
<1>1. s \in ProcType /\ s.todo \in Seq(CallType)
  BY DEF ProcOK, ProcType
<1>2. CASE Len(s.todo) = 1
  BY <1>1, <1>2, EndedOK DEF Returned
<1>3. CASE Len(s.todo) # 1
  <2> DEFINE t == [s EXCEPT !.todo = Tail(@), !.at = "call", !.old = NoCommit, !.lost = FALSE]
             q == Tail(s.todo)
  <2>1. /\ q \in Seq(CallType) /\ q # <<>> /\ Kinds(q) \subseteq Kinds(s.todo)
        /\ OneWriter(q) /\ \A i \in 1..Len(q) : i + 1 \in 1..Len(s.todo) /\ q[i] = s.todo[i + 1]
    BY <1>1, <1>3, TailOf, TailKeeps DEF ProcOK
  <2>2. t \in ProcType
    <3> DEFINE a == [s EXCEPT !.todo = q]
               b == [a EXCEPT !.at = "call"]
               c == [b EXCEPT !.old = NoCommit]
    <3>1. NoCommit \in Value /\ "call" \in Steps
      BY DEF NoCommit, Value, Steps
    <3>2. a \in ProcType
      BY <1>1, <2>1, Fields
    <3>3. b \in ProcType
      BY <3>1, <3>2, Fields
    <3>4. c \in ProcType
      BY <3>1, <3>3, Fields
    <3>5. [c EXCEPT !.lost = FALSE] \in ProcType
      BY <3>4, Fields
    <3> QED BY <3>5
  <2>3. /\ t.todo = q /\ t.at = "call" /\ t.result = s.result /\ t.cmd = s.cmd
        /\ t.seen = s.seen /\ t.head = s.head /\ t.val = s.val
    BY <1>1 DEF ProcType
  <2>4. Returned(s) = t
    BY <1>3 DEF Returned
  <2> HIDE DEF t, q
  <2>5. BranchSees(t)
    BY <2>1, <2>3 DEF ProcOK, Sees, BranchSees
  <2>6. MergeSees(t)
    BY <2>1, <2>3 DEF ProcOK, Sees, MergeSees
  <2>7. CommitSees(t)
    <3> SUFFICES ASSUME s.cmd = "commit", NEW i \in 1..Len(q), q[i].call = "ref"
                 PROVE  IF i = 1 THEN IsPrefix(s.head, s.val) ELSE q[i - 1].call = "commit"
      BY <2>1, <2>3 DEF ProcOK, Sees, CommitSees
    <3>1. i + 1 \in 1..Len(s.todo) /\ s.todo[i + 1].call = "ref" /\ i + 1 # 1
      BY <2>1
    <3>2. s.todo[(i + 1) - 1].call = "commit"
      BY <3>1 DEF ProcOK, Sees, CommitSees
    <3>3. (i + 1) - 1 = i /\ (i # 1 => i - 1 \in 1..Len(q) /\ (i - 1) + 1 = i)
      BY <2>1
    <3> QED BY <2>1, <3>2, <3>3
  <2> QED BY <2>1, <2>2, <2>3, <2>4, <2>5, <2>6, <2>7 DEF ProcOK, HasValue, Sees
<1> QED BY <1>2, <1>3

\* And the same when it fails, whatever its caller does about it.
LEMMA FailedOK ==
    ASSUME NEW s, ProcOK(s), s.todo # <<>>, s.todo[1].call = "commit" => IsPrefix(s.head, s.val)
    PROVE  ProcOK(Failed(s))
<1>1. s \in ProcType /\ s.todo \in Seq(CallType) /\ 1 \in 1..Len(s.todo)
  BY EmptySeq DEF ProcOK, ProcType
<1>2. s.todo[1] \in CallType
  BY <1>1
<1>3. s.todo[1].onerr \in {"go", "stop", "end"}
  BY <1>2 DEF CallType
<1> QED BY <1>1, <1>3, ReturnedOK, EndedOK DEF Failed

\* An assignment to one entry of a table.
LEMMA Entry ==
    ASSUME NEW A, NEW B, NEW C, NEW f \in [A -> [B -> C]], NEW a \in A, NEW b \in B, NEW v \in C
    PROVE  /\ [f EXCEPT ![a][b] = v] \in [A -> [B -> C]]
           /\ \A x \in A, y \in B :
                  [f EXCEPT ![a][b] = v][x][y] = IF x = a /\ y = b THEN v ELSE f[x][y]
<1> DEFINE g == [f[a] EXCEPT ![b] = v]
<1>1. [f EXCEPT ![a][b] = v] = [f EXCEPT ![a] = g]
  OBVIOUS
<1>2. g \in [B -> C] /\ \A y \in B : g[y] = IF y = b THEN v ELSE f[a][y]
  OBVIOUS
<1> HIDE DEF g
<1> QED BY <1>1, <1>2

-----------------------------------------------------------------------------
(* What a step makes of a process.                                         *)

\* The process has an index still to write, and has not opened the lock for it.
Fresh(s) == \E i \in 1..Len(s.todo) :
                s.todo[i].call \in Writers /\ (i # 1 \/ s.at \notin {"write", "rename"})
LocksIndex(s) == s.todo # <<>> /\ s.todo[1].call = "index_write" /\ s.at \in {"write", "rename"}
\* A step that does not open the index's lock; nor reads a reference's old value, nor has
\* a file open for writing unless it is a reference's.
Mild(s, t) ==
    /\ ProcOK(t)
    /\ Fresh(t) => Fresh(s)
    /\ ~LocksIndex(t)
Plain(s, t) ==
    /\ Mild(s, t) /\ t.at \notin {"open", "unlink"}
    /\ t.at = "write" => s.todo # <<>> /\ s.todo[1].call = "ref" /\ s.at \in {"open", "write"}

\* Fields that no fact about a process depends on.
LEMMA SameOK ==
    ASSUME NEW s, ProcOK(s), NEW t \in ProcType,
           /\ t.todo = s.todo /\ t.at = s.at /\ t.result = s.result /\ t.cmd = s.cmd
           /\ t.seen = s.seen /\ t.head = s.head /\ t.val = s.val
    PROVE  ProcOK(t)
  BY DEF ProcOK, HasValue, Sees, BranchSees, CommitSees, MergeSees

\* What they may be assigned.
LEMMA FieldsOK ==
    ASSUME NEW s, ProcOK(s)
    PROVE  /\ \A v \in Value : ProcOK([s EXCEPT !.old = v])
           /\ \A v \in BOOLEAN : ProcOK([s EXCEPT !.lost = v])
           /\ \A v \in SUBSET Commits : ProcOK([s EXCEPT !.list = v])
           /\ \A v \in Seq(Branches \X Commits) : ProcOK([s EXCEPT !.bundle = v])
           /\ \A v \in [Branches -> Value] : ProcOK([s EXCEPT !.adv = v])
           /\ \A v \in Value : ProcOK([s EXCEPT !.mem = v])
           /\ \A v \in {0, NoFile} \cup Procs : ProcOK([s EXCEPT !.fd = v])
           /\ \A v \in SUBSET Paths : ProcOK([s EXCEPT !.left = v])
<1>1. s \in ProcType
  BY DEF ProcOK
<1>2. ASSUME NEW v \in Value PROVE ProcOK([s EXCEPT !.old = v])
  <2> DEFINE t == [s EXCEPT !.old = v]
  <2>1. t \in ProcType
    BY <1>1, Fields
  <2>2. /\ t.todo = s.todo /\ t.at = s.at /\ t.result = s.result /\ t.cmd = s.cmd
        /\ t.seen = s.seen /\ t.head = s.head /\ t.val = s.val
    BY <1>1 DEF ProcType
  <2> HIDE DEF t
  <2>3. ProcOK(t)
    BY <2>1, <2>2, SameOK
  <2> QED BY <2>3 DEF t
<1>3. ASSUME NEW v \in BOOLEAN PROVE ProcOK([s EXCEPT !.lost = v])
  <2> DEFINE t == [s EXCEPT !.lost = v]
  <2>1. t \in ProcType
    BY <1>1, Fields
  <2>2. /\ t.todo = s.todo /\ t.at = s.at /\ t.result = s.result /\ t.cmd = s.cmd
        /\ t.seen = s.seen /\ t.head = s.head /\ t.val = s.val
    BY <1>1 DEF ProcType
  <2> HIDE DEF t
  <2>3. ProcOK(t)
    BY <2>1, <2>2, SameOK
  <2> QED BY <2>3 DEF t
<1>4. ASSUME NEW v \in SUBSET Commits PROVE ProcOK([s EXCEPT !.list = v])
  <2> DEFINE t == [s EXCEPT !.list = v]
  <2>1. t \in ProcType
    BY <1>1, Fields
  <2>2. /\ t.todo = s.todo /\ t.at = s.at /\ t.result = s.result /\ t.cmd = s.cmd
        /\ t.seen = s.seen /\ t.head = s.head /\ t.val = s.val
    BY <1>1 DEF ProcType
  <2> HIDE DEF t
  <2>3. ProcOK(t)
    BY <2>1, <2>2, SameOK
  <2> QED BY <2>3 DEF t
<1>5. ASSUME NEW v \in Seq(Branches \X Commits) PROVE ProcOK([s EXCEPT !.bundle = v])
  <2> DEFINE t == [s EXCEPT !.bundle = v]
  <2>1. t \in ProcType
    BY <1>1, Fields
  <2>2. /\ t.todo = s.todo /\ t.at = s.at /\ t.result = s.result /\ t.cmd = s.cmd
        /\ t.seen = s.seen /\ t.head = s.head /\ t.val = s.val
    BY <1>1 DEF ProcType
  <2> HIDE DEF t
  <2>3. ProcOK(t)
    BY <2>1, <2>2, SameOK
  <2> QED BY <2>3 DEF t
<1>6. ASSUME NEW v \in [Branches -> Value] PROVE ProcOK([s EXCEPT !.adv = v])
  <2> DEFINE t == [s EXCEPT !.adv = v]
  <2>1. t \in ProcType
    BY <1>1, Fields
  <2>2. /\ t.todo = s.todo /\ t.at = s.at /\ t.result = s.result /\ t.cmd = s.cmd
        /\ t.seen = s.seen /\ t.head = s.head /\ t.val = s.val
    BY <1>1 DEF ProcType
  <2> HIDE DEF t
  <2>3. ProcOK(t)
    BY <2>1, <2>2, SameOK
  <2> QED BY <2>3 DEF t
<1>7. ASSUME NEW v \in Value PROVE ProcOK([s EXCEPT !.mem = v])
  <2> DEFINE t == [s EXCEPT !.mem = v]
  <2>1. t \in ProcType
    BY <1>1, Fields
  <2>2. /\ t.todo = s.todo /\ t.at = s.at /\ t.result = s.result /\ t.cmd = s.cmd
        /\ t.seen = s.seen /\ t.head = s.head /\ t.val = s.val
    BY <1>1 DEF ProcType
  <2> HIDE DEF t
  <2>3. ProcOK(t)
    BY <2>1, <2>2, SameOK
  <2> QED BY <2>3 DEF t
<1>8. ASSUME NEW v \in {0, NoFile} \cup Procs PROVE ProcOK([s EXCEPT !.fd = v])
  <2> DEFINE t == [s EXCEPT !.fd = v]
  <2>1. t \in ProcType
    BY <1>1, Fields
  <2>2. /\ t.todo = s.todo /\ t.at = s.at /\ t.result = s.result /\ t.cmd = s.cmd
        /\ t.seen = s.seen /\ t.head = s.head /\ t.val = s.val
    BY <1>1 DEF ProcType
  <2> HIDE DEF t
  <2>3. ProcOK(t)
    BY <2>1, <2>2, SameOK
  <2> QED BY <2>3 DEF t
<1>9. ASSUME NEW v \in SUBSET Paths PROVE ProcOK([s EXCEPT !.left = v])
  <2> DEFINE t == [s EXCEPT !.left = v]
  <2>1. t \in ProcType
    BY <1>1, Fields
  <2>2. /\ t.todo = s.todo /\ t.at = s.at /\ t.result = s.result /\ t.cmd = s.cmd
        /\ t.seen = s.seen /\ t.head = s.head /\ t.val = s.val
    BY <1>1 DEF ProcType
  <2> HIDE DEF t
  <2>3. ProcOK(t)
    BY <2>1, <2>2, SameOK
  <2> QED BY <2>3 DEF t
<1> QED BY <1>2, <1>3, <1>4, <1>5, <1>6, <1>7, <1>8, <1>9

\* A call that returned, with an error or without, is followed by the first step of another.
LEMMA BackToCall ==
    ASSUME NEW s \in ProcType, s.todo # <<>>
    PROVE  Returned(s).at = "call" /\ Failed(s).at = "call"
<1>1. \A result : Ended(s, result).at = "call"
  BY DEF Ended, Idle
<1>2. Returned(s).at = "call"
  BY <1>1 DEF Returned, ProcType
<1>3. s.todo[1].onerr \in {"go", "stop", "end"}
  BY EmptySeq DEF ProcType, CallType
<1> QED BY <1>1, <1>2, <1>3 DEF Failed

\* A call that returns or fails makes a plain step.
LEMMA ReturnsPlainly ==
    ASSUME NEW s, NEW u, ProcOK(u), u.todo # <<>>, u.todo = s.todo,
           u.todo[1].call = "commit" => IsPrefix(u.head, u.val)
    PROVE  Plain(s, Returned(u)) /\ Plain(s, Failed(u))
<1>1. u \in ProcType /\ u.todo \in Seq(CallType) /\ 1 \in 1..Len(u.todo)
  BY EmptySeq DEF ProcOK, ProcType
<1>2. u.todo[1].onerr \in {"go", "stop", "end"}
  BY <1>1 DEF CallType
<1>3. ASSUME NEW t, ProcOK(t), t.at = "call", t.todo = <<>> \/ t.todo = Tail(u.todo)
      PROVE  Plain(s, t)
  <2>1. \A i \in 1..Len(Tail(u.todo)) :
            i + 1 \in 1..Len(u.todo) /\ i + 1 # 1 /\ Tail(u.todo)[i] = u.todo[i + 1]
    BY <1>1, TailOf
  <2>2. Fresh(t) => Fresh(s)
    <3>1. CASE t.todo = <<>>
      BY <3>1 DEF Fresh
    <3>2. CASE t.todo = Tail(u.todo)
      BY <2>1, <3>2 DEF Fresh
    <3> QED BY <1>3, <3>1, <3>2
  <2> QED BY <1>3, <2>2 DEF Plain, Mild, LocksIndex
<1>4. \A e : Ended(u, e).todo = <<>> /\ Ended(u, e).at = "call"
  BY DEF Ended, Idle
<1>5. Plain(s, Returned(u))
  <2>1. ProcOK(Returned(u))
    BY ReturnedOK
  <2>2. Returned(u).at = "call" /\ (Returned(u).todo = <<>> \/ Returned(u).todo = Tail(u.todo))
    BY <1>1, <1>4 DEF Returned, ProcType
  <2> QED BY <1>3, <2>1, <2>2
<1>6. Plain(s, Failed(u))
  <2>1. \A e \in {"ok", "error"} : Plain(s, Ended(u, e))
    BY <1>1, <1>3, <1>4, EndedOK
  <2> QED BY <1>2, <1>5, <2>1 DEF Failed
<1> QED BY <1>5, <1>6

\* So does a command that ends.
LEMMA EndsPlainly ==
    ASSUME NEW s \in ProcType, NEW e \in {"ok", "error", "crashed"}
    PROVE  Plain(s, Ended(s, e))
<1>1. ProcOK(Ended(s, e))
  BY EndedOK
<1>2. Ended(s, e).todo = <<>> /\ Ended(s, e).at = "call"
  BY DEF Ended, Idle
<1> QED BY <1>1, <1>2 DEF Plain, Mild, Fresh, LocksIndex

\* Another step of the same call.
LEMMA GoesOK ==
    ASSUME NEW s, ProcOK(s), NEW a \in Steps,
           s.todo # <<>> /\ s.todo[1].call = "ref" => s.val # NoCommit
    PROVE  /\ ProcOK(Goes(s, a)) /\ Goes(s, a).todo = s.todo /\ Goes(s, a).at = a
           /\ Goes(s, a).left = s.left /\ Goes(s, a).cmd = s.cmd /\ Goes(s, a).home = s.home
<1> DEFINE t == Goes(s, a)
<1>1. s \in ProcType
  BY DEF ProcOK
<1>2. t \in ProcType
  BY <1>1, Fields DEF Goes
<1>3. /\ t.todo = s.todo /\ t.at = a /\ t.result = s.result /\ t.cmd = s.cmd
      /\ t.seen = s.seen /\ t.head = s.head /\ t.val = s.val /\ t.left = s.left /\ t.home = s.home
  BY <1>1 DEF ProcType, Goes
<1> HIDE DEF t
<1>4. ProcOK(t)
  BY <1>2, <1>3 DEF ProcOK, HasValue, Sees, BranchSees, CommitSees, MergeSees
<1> QED BY <1>3, <1>4 DEF t

\* It is mild in calls that do not write the index.
LEMMA StaysMild ==
    ASSUME NEW s, NEW t, ProcOK(t), t.todo = s.todo, t.todo # <<>>, t.todo[1].call \notin Writers
    PROVE  Mild(s, t)
<1>1. Fresh(t) => Fresh(s)
  BY DEF Fresh
<1> QED BY <1>1 DEF Mild, LocksIndex, Writers

\* Calls put in place of the first of the list, by commands that NoLostCommits is not about.
LEMMA LoopsPlainly ==
    ASSUME NEW s, ProcOK(s), s.todo # <<>>, s.at = "call",
           s.cmd \notin {"branch", "commit", "merge", "rebase"},
           NEW calls \in Seq(CallType), NoWriter(calls)
    PROVE  Plain(s, Loop(s, calls))
<1> DEFINE q == calls \o Tail(s.todo)
           t == [s EXCEPT !.todo = q]
<1>1. s \in ProcType /\ s.todo \in Seq(CallType)
  BY DEF ProcOK, ProcType
<1>2. CASE q = <<>>
  BY <1>1, <1>2, EndsPlainly DEF Loop
<1>3. CASE q # <<>>
  <2>1. /\ Tail(s.todo) \in Seq(CallType) /\ OneWriter(Tail(s.todo))
        /\ \A i \in 1..Len(Tail(s.todo)) : i + 1 \in 1..Len(s.todo) /\ Tail(s.todo)[i] = s.todo[i + 1]
    BY <1>1, TailOf, TailKeeps DEF ProcOK
  <2>2. /\ q \in Seq(CallType) /\ Len(q) = Len(calls) + Len(Tail(s.todo))
        /\ \A i \in 1..Len(q) : IF i <= Len(calls) THEN i \in 1..Len(calls) /\ q[i] = calls[i]
                                ELSE /\ i - Len(calls) \in 1..Len(Tail(s.todo))
                                     /\ q[i] = Tail(s.todo)[i - Len(calls)]
    BY <2>1
  <2> HIDE DEF q
  <2>3. OneWriter(q)
    <3> SUFFICES ASSUME NEW i \in 1..Len(q), NEW j \in 1..Len(q),
                        q[i].call \in Writers, q[j].call \in Writers
                 PROVE  i = j
      BY DEF OneWriter
    <3>1. i - Len(calls) = j - Len(calls)
      BY <2>1, <2>2 DEF NoWriter, OneWriter
    <3> QED BY <3>1
  <2>4. /\ t \in ProcType /\ t.todo = q /\ t.at = "call" /\ t.cmd = s.cmd /\ t.result = s.result
    <3>1. t \in ProcType
      BY <1>1, <2>2, Fields
    <3>2. t.todo = q /\ t.at = "call" /\ t.cmd = s.cmd /\ t.result = s.result
      BY <1>1 DEF ProcType
    <3> QED BY <3>1, <3>2
  <2>5. Loop(s, calls) = t
    BY <1>3 DEF Loop, q
  <2> HIDE DEF t
  <2>6. ProcOK(t)
    BY <1>3, <2>3, <2>4 DEF ProcOK, HasValue, Sees, BranchSees, CommitSees, MergeSees
  <2>7. Fresh(t) => Fresh(s)
    <3> SUFFICES ASSUME NEW i \in 1..Len(q), q[i].call \in Writers
                 PROVE  Fresh(s)
      BY <2>4 DEF Fresh
    <3>1. i - Len(calls) \in 1..Len(Tail(s.todo)) /\ q[i] = Tail(s.todo)[i - Len(calls)]
      BY <2>2 DEF NoWriter
    <3>2. PICK j \in 1..Len(s.todo) : j # 1 /\ s.todo[j].call \in Writers
      BY <2>1, <3>1
    <3> QED BY <3>2 DEF Fresh
  <2> QED BY <2>4, <2>5, <2>6, <2>7 DEF Plain, Mild, LocksIndex
<1> QED BY <1>2, <1>3

-----------------------------------------------------------------------------
(* The types of the variables.                                             *)

ProcsOK == proc \in [Procs -> ProcType] /\ \A p \in Procs : ProcOK(proc[p])
RefsOK ==
    /\ loose \in [Repos -> [Names -> Commits \cup {Absent, Empty}]]
    /\ packed \in [Repos -> [Names -> Value]]
    /\ logs \in [Repos -> [Names \cup {"HEAD"} -> Seq(Value \X Value)]]
    /\ held \in [Repos -> [Names -> SUBSET Value]]
OdbOK == odb \in [Repos -> SUBSET Commits]
FaultsOK == faults \in 0..MaxFaults
TreeOK ==
    /\ disk \in [{0} \cup Procs -> Seq(Value)]
    /\ idx \in [Repos -> {0, NoFile} \cup Procs]
    /\ lock \in [Repos -> {0, NoFile} \cup Procs]
Types == ProcsOK /\ RefsOK /\ OdbOK /\ FaultsOK /\ TreeOK

\* The call a process is at.
LEMMA DoOK ==
    ASSUME ProcsOK, NEW p \in Procs, proc[p].todo # <<>>
    PROVE  /\ ProcOK(proc[p]) /\ proc[p] \in ProcType /\ proc[p].result = "none"
           /\ Do(p).repo \in Repos /\ Other(Do(p).repo) \in Repos
           /\ Do(p).call \in {"ref", "remove", "lookup"} =>
                  Do(p).name \in Names \cup {"HEAD"} /\ FileOf(Do(p).name) \in Names
           /\ Do(p).call \in {"bundle_ref", "bundled"} => Do(p).name \in Branches
           /\ Do(p).call \in Kinds(proc[p].todo)
<1>1. ProcOK(proc[p]) /\ proc[p] \in ProcType /\ proc[p].result = "none"
  BY DEF ProcsOK, ProcOK
<1>2. proc[p].todo \in Seq(CallType) /\ 1 \in 1..Len(proc[p].todo)
  BY <1>1, EmptySeq DEF ProcType
<1>3. Do(p) \in CallType /\ Do(p).call \in Kinds(proc[p].todo)
  BY <1>2 DEF Do, Kinds
<1>4. Other(Do(p).repo) \in Repos
  <2>1. \E r \in Repos : r # Do(p).repo
    BY DEF Repos
  <2> QED BY <2>1 DEF Other
<1> QED BY <1>1, <1>3, <1>4 DEF CallType, FileOf, Names, Branches

\* What a lookup yields is a value, never what a truncated file holds.
LEMMA ResolveOK ==
    ASSUME RefsOK, NEW r \in Repos, NEW n \in Names \cup {"HEAD"}
    PROVE  Resolve(r, n) \in Value
<1>1. FileOf(n) \in Names
  BY DEF FileOf, Names, Branches
<1>2. loose[r][FileOf(n)] \in Commits \cup {Absent, Empty}
  BY <1>1 DEF RefsOK
<1>3. IsCommit(loose[r][FileOf(n)]) => loose[r][FileOf(n)] \in Value
  BY <1>2 DEF IsCommit, Absent, Empty, Commits, Value
<1>4. n # "HEAD" => packed[r][n] \in Value
  BY DEF RefsOK
<1>5. NoCommit \in Value
  BY DEF NoCommit, Value
<1> QED BY <1>3, <1>4, <1>5 DEF Resolve

\* Steps that are mild, or plain, for every process they change.
AllMild ==
    /\ ProcsOK'
    /\ \A q \in Procs : proc'[q] = proc[q] \/ Mild(proc[q], proc'[q])
AllPlain ==
    /\ ProcsOK'
    /\ \A q \in Procs : proc'[q] = proc[q] \/ Plain(proc[q], proc'[q])

\* A step of one process.
LEMMA BecomesMild ==
    ASSUME ProcsOK, NEW p \in Procs, NEW t, Mild(proc[p], t), Becomes(p, t)
    PROVE  AllMild /\ (Plain(proc[p], t) => AllPlain)
<1>1. ProcOK(t) /\ t \in ProcType
  BY DEF Mild, ProcOK
<1>2. \A q \in Procs : proc'[q] = IF q = p THEN t ELSE proc[q]
  BY DEF ProcsOK, Becomes
<1>3. proc' \in [Procs -> ProcType]
  BY <1>1 DEF ProcsOK, Becomes
<1>4. ProcsOK'
  BY <1>1, <1>2, <1>3 DEF ProcsOK
<1> QED BY <1>2, <1>4 DEF AllMild, AllPlain

\* A plain step of one process.
LEMMA BecomesPlain ==
    ASSUME ProcsOK, NEW p \in Procs, NEW t, Plain(proc[p], t), Becomes(p, t)
    PROVE  AllPlain
  BY BecomesMild DEF Plain

\* A plain step is mild.
LEMMA PlainIsMild == AllPlain => AllMild
  BY DEF AllPlain, AllMild, Plain

-----------------------------------------------------------------------------
(* References.                                                             *)

\* A call that no script of NoLostCommits's commands has.
LEMMA NotSeen ==
    ASSUME NEW s, ProcOK(s), s.todo # <<>>,
           s.todo[1].call \notin {"write_tree", "head", "commit", "ref", "merge", "rebase", "read_tree",
                                 "index_write", "checkout"}
    PROVE  s.cmd \notin {"branch", "commit", "merge", "rebase"}
<1>1. s.todo \in Seq(CallType)
  BY DEF ProcOK, ProcType
<1>2. s.todo[1].call \in Kinds(s.todo)
  BY <1>1, TailKeeps
<1> QED BY <1>2 DEF ProcOK, Sees, BranchSees, CommitSees, MergeSees

\* A value that was looked up.
LEMMA ValOK ==
    ASSUME NEW s, ProcOK(s), s.todo # <<>>, s.todo[1].call # "ref",
           s.cmd \notin {"branch", "commit", "merge", "rebase"}, NEW v \in Value
    PROVE  ProcOK([s EXCEPT !.val = v]) /\ [s EXCEPT !.val = v].todo = s.todo
<1> DEFINE t == [s EXCEPT !.val = v]
<1>1. s \in ProcType
  BY DEF ProcOK
<1>2. t \in ProcType
  BY <1>1, Fields
<1>3. t.todo = s.todo /\ t.result = s.result /\ t.cmd = s.cmd
  BY <1>1 DEF ProcType
<1> HIDE DEF t
<1>4. ProcOK(t)
  BY <1>2, <1>3 DEF ProcOK, HasValue, Sees, BranchSees, CommitSees, MergeSees
<1> QED BY <1>3, <1>4 DEF t

\* A lookup keeps what it found, a commit or none.
LEMMA LookupPlain == ASSUME Types, NEW p \in Procs, Lookup(p) PROVE AllPlain
<1> DEFINE v == Resolve(Do(p).repo, Do(p).name)
           s == [proc[p] EXCEPT !.val = v]
<1>1. Doing(p, "lookup", "call") /\ ProcsOK /\ RefsOK
  BY DEF Lookup, Types
<1>2. proc[p].todo # <<>> /\ proc[p].todo[1].call = "lookup"
  BY <1>1 DEF Doing, Do
<1>3. v \in Value
  BY <1>1, <1>2, DoOK, ResolveOK DEF Do
<1>4. ProcOK(s) /\ s.todo = proc[p].todo
  <2> HIDE DEF v
  <2> QED BY <1>1, <1>2, <1>3, DoOK, NotSeen, ValOK
<1>5. Plain(proc[p], Returned(s)) /\ Plain(proc[p], Failed(s))
  <2> HIDE DEF s
  <2> QED BY <1>2, <1>4, ReturnsPlainly
<1>6. Becomes(p, Returned(s)) \/ Becomes(p, Failed(s))
  BY DEF Lookup
<1> QED BY <1>1, <1>5, <1>6, BecomesPlain

\* Reading HEAD gives the commit to build on, which its caller has then seen.
LEMMA ReadHeadPlain == ASSUME Types, NEW p \in Procs, ReadHead(p) PROVE AllPlain
<1> DEFINE v == Resolve(Do(p).repo, "HEAD")
           s == [proc[p] EXCEPT !.head = v, !.seen = v]
<1>1. Doing(p, "head", "call") /\ ProcsOK /\ RefsOK
  BY DEF ReadHead, Types
<1>2. proc[p].todo # <<>> /\ proc[p].todo[1].call = "head"
  BY <1>1 DEF Doing, Do
<1>3. v \in Value
  BY <1>1, <1>2, DoOK, ResolveOK
<1> HIDE DEF v
<1>4. ProcOK(s) /\ s.todo = proc[p].todo
  <2> DEFINE a == [proc[p] EXCEPT !.head = v]
  <2>1. proc[p] \in ProcType /\ ProcOK(proc[p]) /\ "head" \in Kinds(proc[p].todo)
    BY <1>1, <1>2, DoOK DEF Do
  <2>2. a \in ProcType
    BY <1>3, <2>1, Fields
  <2>3. [a EXCEPT !.seen = v] \in ProcType
    BY <1>3, <2>2, Fields
  <2>4. s \in ProcType
    BY <2>3
  <2>5. /\ s.todo = proc[p].todo /\ s.at = proc[p].at /\ s.result = proc[p].result
        /\ s.cmd = proc[p].cmd /\ s.val = proc[p].val /\ s.head = v /\ s.seen = v
    BY <2>1 DEF ProcType
  <2> HIDE DEF s
  <2>6. BranchSees(s) /\ MergeSees(s)
    BY <2>1, <2>5 DEF ProcOK, Sees, BranchSees, MergeSees
  <2>7. CommitSees(s)
    BY <1>2, <2>1, <2>5 DEF ProcOK, Sees, CommitSees
  <2> QED BY <1>2, <2>1, <2>4, <2>5, <2>6, <2>7 DEF ProcOK, HasValue, Sees
<1>5. Plain(proc[p], Returned(s)) /\ Plain(proc[p], Failed(s))
  <2> HIDE DEF s
  <2> QED BY <1>2, <1>4, ReturnsPlainly
<1>6. Becomes(p, Returned(s)) \/ Becomes(p, Failed(s))
  BY DEF ReadHead, v
<1> QED BY <1>1, <1>5, <1>6, BecomesPlain

\* Without a value to install, the call returns at once.
LEMMA RefSkipPlain == ASSUME Types, NEW p \in Procs, RefSkip(p) PROVE AllPlain
<1>1. Doing(p, "ref", "call") /\ ProcsOK /\ Becomes(p, Returned(proc[p]))
  BY DEF RefSkip, Types
<1>2. proc[p].todo # <<>> /\ proc[p].todo[1].call = "ref" /\ ProcOK(proc[p])
  BY <1>1, DoOK DEF Doing, Do
<1> QED BY <1>1, <1>2, ReturnsPlainly, BecomesPlain

\* Without force a file that exists is an error; with none the value seen is none.
LEMMA RefStatPlain == ASSUME Types, NEW p \in Procs, RefStat(p) PROVE AllPlain
<1> DEFINE a == Goes(proc[p], "old")
           s == [a EXCEPT !.seen = Absent]
<1>1. Doing(p, "ref", "call") /\ ProcsOK /\ proc[p].val # NoCommit
  BY DEF RefStat, Types
<1>2. proc[p].todo # <<>> /\ proc[p].todo[1].call = "ref" /\ ProcOK(proc[p])
  BY <1>1, DoOK DEF Doing, Do
<1>3. Plain(proc[p], Failed(proc[p]))
  BY <1>1, <1>2, ReturnsPlainly
<1>4. ProcOK(a) /\ a.todo = proc[p].todo /\ a.at = "old"
  BY <1>1, <1>2, GoesOK DEF Steps
<1>5. Plain(proc[p], s)
  <2> HIDE DEF a
  <2>1. a \in ProcType
    BY <1>4 DEF ProcOK
  <2>2. s \in ProcType
    BY <2>1, Fields
  <2>3. /\ s.todo = a.todo /\ s.at = a.at /\ s.result = a.result /\ s.cmd = a.cmd
        /\ s.seen = Absent /\ s.head = a.head /\ s.val = a.val
    BY <2>1 DEF ProcType
  <2> HIDE DEF s
  <2>4. ProcOK(s)
    BY <1>4, <2>2, <2>3 DEF ProcOK, HasValue, Sees, BranchSees, CommitSees, MergeSees
  <2> QED BY <1>2, <1>4, <2>3, <2>4, StaysMild DEF Writers, Plain
<1>6. Becomes(p, s) \/ Becomes(p, Failed(proc[p]))
  BY DEF RefStat
<1> QED BY <1>1, <1>3, <1>5, <1>6, BecomesPlain

\* The old value is read.
LEMMA RefOldMild == ASSUME Types, NEW p \in Procs, RefOld(p) PROVE AllMild
<1> DEFINE a == Goes(proc[p], "open")
           v == Resolve(Do(p).repo, Do(p).name)
           t == [a EXCEPT !.old = v]
<1>1. /\ proc[p].todo # <<>> /\ proc[p].todo[1].call = "ref" /\ ProcsOK /\ RefsOK
      /\ proc[p].val # NoCommit \/ proc[p].at = "old"
  BY DEF RefOld, Types, Doing, Do
<1>2. ProcOK(proc[p]) /\ proc[p].val # NoCommit /\ v \in Value
  BY <1>1, DoOK, ResolveOK DEF Do, ProcOK, HasValue
<1>3. ProcOK(a) /\ a.todo = proc[p].todo
  BY <1>1, <1>2, GoesOK DEF Steps
<1>4. ProcOK(t) /\ t.todo = proc[p].todo
  <2> HIDE DEF a, v
  <2>1. t.todo = a.todo
    BY <1>3 DEF ProcOK, ProcType
  <2> QED BY <1>2, <1>3, <2>1, FieldsOK
<1>5. Becomes(p, t)
  BY DEF RefOld
<1> HIDE DEF t
<1>6. Mild(proc[p], t)
  BY <1>1, <1>4, StaysMild DEF Writers
<1> QED BY <1>1, <1>5, <1>6, BecomesMild

\* The file is opened, or not.
LEMMA RefOpenMild == ASSUME Types, NEW p \in Procs, RefOpen(p) PROVE AllPlain /\ RefsOK'
<1> DEFINE a == Goes(proc[p], "write")
<1>1. /\ proc[p].todo # <<>> /\ proc[p].todo[1].call = "ref" /\ ProcsOK /\ RefsOK
      /\ proc[p].at = "open"
  BY DEF RefOpen, Types, Doing, Do
<1>2. ProcOK(proc[p]) /\ proc[p].val # NoCommit
  BY <1>1, DoOK DEF ProcOK, HasValue
<1>3. ProcOK(a) /\ a.todo = proc[p].todo /\ a.at = "write"
  BY <1>1, <1>2, GoesOK DEF Steps
<1>4. Plain(proc[p], a)
  BY <1>1, <1>3, StaysMild DEF Writers, Plain
<1>5. Plain(proc[p], Failed(proc[p]))
  BY <1>1, <1>2, ReturnsPlainly
<1>6. Becomes(p, a) \/ Becomes(p, Failed(proc[p]))
  BY DEF RefOpen
<1>7. loose' \in [Repos -> [Names -> Commits \cup {Absent, Empty}]]
  <2>1. loose' = loose \/ SetRef(p, Empty)
    BY DEF RefOpen
  <2>2. Do(p).repo \in Repos /\ FileOf(Do(p).name) \in Names
    BY <1>1, DoOK DEF Do
  <2>3. Empty \in Commits \cup {Absent, Empty}
    OBVIOUS
  <2> DEFINE T == Commits \cup {Absent, Empty}
  <2> HIDE DEF T
  <2>4. loose \in [Repos -> [Names -> T]]
    BY <1>1 DEF RefsOK, T
  <2>5. [loose EXCEPT ![Do(p).repo][FileOf(Do(p).name)] = Empty] \in [Repos -> [Names -> T]]
    BY <2>2, <2>3, <2>4, Entry DEF T
  <2> QED BY <2>1, <2>4, <2>5 DEF SetRef, T
<1>8. UNCHANGED <<packed, logs, held>>
  BY DEF RefOpen
<1> QED BY <1>1, <1>4, <1>5, <1>6, <1>7, <1>8, BecomesPlain DEF RefsOK

\* The value is written, or not.
LEMMA RefWriteMild == ASSUME Types, NEW p \in Procs, RefWrite(p) PROVE AllPlain /\ RefsOK'
<1> DEFINE a == Goes(proc[p], "log")
<1>1. /\ proc[p].todo # <<>> /\ proc[p].todo[1].call = "ref" /\ ProcsOK /\ RefsOK
      /\ proc[p].at = "write" /\ Becomes(p, a)
  BY DEF RefWrite, Types, Doing, Do
<1>2. ProcOK(proc[p]) /\ proc[p].val # NoCommit /\ proc[p].val \in Value
  BY <1>1, DoOK DEF ProcOK, HasValue, ProcType
<1>3. ProcOK(a) /\ a.todo = proc[p].todo /\ a.at = "log"
  BY <1>1, <1>2, GoesOK DEF Steps
<1>4. Plain(proc[p], a)
  BY <1>1, <1>3, StaysMild DEF Writers, Plain
<1>5. Do(p).repo \in Repos /\ FileOf(Do(p).name) \in Names /\ proc[p].val \in Commits
  BY <1>1, <1>2, DoOK DEF Do, Commits, Value, NoCommit
<1>6. \/ loose' = loose /\ held' = held
      \/ /\ SetRef(p, proc[p].val)
         /\ held' = [held EXCEPT ![Do(p).repo][FileOf(Do(p).name)] = @ \cup {proc[p].val}]
  BY DEF RefWrite
<1>7. loose' \in [Repos -> [Names -> Commits \cup {Absent, Empty}]]
  <2> DEFINE T == Commits \cup {Absent, Empty}
  <2>1. proc[p].val \in T
    BY <1>5
  <2> HIDE DEF T
  <2>2. loose \in [Repos -> [Names -> T]]
    BY <1>1 DEF RefsOK, T
  <2>3. [loose EXCEPT ![Do(p).repo][FileOf(Do(p).name)] = proc[p].val] \in [Repos -> [Names -> T]]
    BY <1>5, <2>1, <2>2, Entry
  <2> QED BY <1>6, <2>2, <2>3 DEF SetRef, T
<1>8. held' \in [Repos -> [Names -> SUBSET Value]]
  <2> DEFINE T == SUBSET Value
             v == held[Do(p).repo][FileOf(Do(p).name)] \cup {proc[p].val}
  <2>1. held \in [Repos -> [Names -> T]]
    BY <1>1 DEF RefsOK
  <2>2. v \in T
    BY <1>2, <1>5, <2>1
  <2> HIDE DEF T
  <2>3. [held EXCEPT ![Do(p).repo][FileOf(Do(p).name)] = v] \in [Repos -> [Names -> T]]
    BY <1>5, <2>1, <2>2, Entry
  <2> QED BY <1>6, <2>1, <2>3 DEF T
<1>9. UNCHANGED <<packed, logs>>
  BY DEF RefWrite
<1> QED BY <1>1, <1>4, <1>7, <1>8, <1>9, BecomesPlain DEF RefsOK

\* A line is added to a log, or not.
LEMMA AddToLogOK ==
    ASSUME ProcsOK, RefsOK, NEW p \in Procs, proc[p].todo # <<>>, Do(p).call \in {"ref", "remove"},
           NEW new \in Value, AddToLog(p, new)
    PROVE  logs' \in [Repos -> [Names \cup {"HEAD"} -> Seq(Value \X Value)]]
<1>1. Do(p).repo \in Repos /\ Do(p).name \in Names \cup {"HEAD"} /\ proc[p].old \in Value
  BY DoOK DEF ProcType
<1>2. <<proc[p].old, new>> \in Value \X Value
  BY <1>1
<1>3. \/ logs' = logs
      \/ logs' = [logs EXCEPT ![Do(p).repo][Do(p).name] = Append(@, <<proc[p].old, new>>)]
  BY DEF AddToLog
<1>4. logs \in [Repos -> [Names \cup {"HEAD"} -> Seq(Value \X Value)]]
  BY DEF RefsOK
<1> DEFINE L == Seq(Value \X Value)
           v == Append(logs[Do(p).repo][Do(p).name], <<proc[p].old, new>>)
<1>5. v \in L
  BY <1>1, <1>2, <1>4
<1>6. logs' = logs \/ logs' = [logs EXCEPT ![Do(p).repo][Do(p).name] = v]
  BY <1>3
<1> HIDE DEF L, v
<1>7. logs \in [Repos -> [Names \cup {"HEAD"} -> L]]
  BY <1>4 DEF L
<1>8. logs' \in [Repos -> [Names \cup {"HEAD"} -> L]]
  <2> DEFINE D == Names \cup {"HEAD"}
  <2>1. Do(p).name \in D
    BY <1>1
  <2> HIDE DEF D
  <2>2. logs \in [Repos -> [D -> L]]
    BY <1>7 DEF D
  <2>3. [logs EXCEPT ![Do(p).repo][Do(p).name] = v] \in [Repos -> [D -> L]]
    BY <1>1, <1>5, <2>1, <2>2, Entry
  <2> QED BY <1>6, <2>2, <2>3 DEF D
<1> QED BY <1>8 DEF L

\* The line is added and the call returns.
LEMMA RefLogMild == ASSUME Types, NEW p \in Procs, RefLog(p) PROVE AllPlain /\ RefsOK'
<1>1. /\ proc[p].todo # <<>> /\ proc[p].todo[1].call = "ref" /\ ProcsOK /\ RefsOK
      /\ Becomes(p, Returned(proc[p])) /\ AddToLog(p, proc[p].val) /\ UNCHANGED <<loose, packed, held>>
  BY DEF RefLog, Types, Doing, Do
<1>2. ProcOK(proc[p]) /\ proc[p].val \in Value /\ Do(p).call = "ref"
  BY <1>1, DoOK DEF ProcType, Do
<1>3. AllPlain
  BY <1>1, <1>2, ReturnsPlainly, BecomesPlain
<1>4. logs' \in [Repos -> [Names \cup {"HEAD"} -> Seq(Value \X Value)]]
  BY <1>1, <1>2, AddToLogOK
<1> QED BY <1>1, <1>3, <1>4 DEF RefsOK

\* The value of a reference that is to be removed is read.
LEMMA RmOldMild == ASSUME Types, NEW p \in Procs, RmOld(p) PROVE AllMild
<1> DEFINE a == Goes(proc[p], "unlink")
           v == Resolve(Do(p).repo, Do(p).name)
           t == [a EXCEPT !.old = v]
<1>1. proc[p].todo # <<>> /\ proc[p].todo[1].call = "remove" /\ ProcsOK /\ RefsOK
  BY DEF RmOld, Types, Doing, Do
<1>2. ProcOK(proc[p]) /\ v \in Value
  BY <1>1, DoOK, ResolveOK DEF Do
<1>3. ProcOK(a) /\ a.todo = proc[p].todo
  BY <1>1, <1>2, GoesOK DEF Steps
<1>4. ProcOK(t) /\ t.todo = proc[p].todo
  <2> HIDE DEF a, v
  <2>1. t.todo = a.todo
    BY <1>3 DEF ProcOK, ProcType
  <2> QED BY <1>2, <1>3, <2>1, FieldsOK
<1>5. Becomes(p, t)
  BY DEF RmOld
<1> HIDE DEF t
<1>6. Mild(proc[p], t)
  BY <1>1, <1>4, StaysMild DEF Writers
<1> QED BY <1>1, <1>5, <1>6, BecomesMild

\* Processes whose open file was unlinked.
LEMMA LosesPlainly ==
    ASSUME ProcsOK, NEW q \in Procs, Doing(q, "ref", "write")
    PROVE  Plain(proc[q], [proc[q] EXCEPT !.lost = TRUE])
<1> DEFINE t == [proc[q] EXCEPT !.lost = TRUE]
<1>1. proc[q].todo # <<>> /\ proc[q].todo[1].call = "ref" /\ ProcOK(proc[q]) /\ proc[q].at = "write"
  BY DoOK DEF Doing, Do
<1>2. ProcOK(t)
  BY <1>1, FieldsOK
<1>3. t.todo = proc[q].todo /\ t.at = "write"
  BY <1>1 DEF ProcOK, ProcType
<1> HIDE DEF t
<1>4. Plain(proc[q], t)
  BY <1>1, <1>2, <1>3, StaysMild DEF Writers, Plain
<1> QED BY <1>4 DEF t

\* The file is unlinked.
LEMMA RmUnlinkMild == ASSUME Types, NEW p \in Procs, RmUnlink(p) PROVE AllPlain /\ RefsOK'
<1> DEFINE a == Goes(proc[p], "log")
<1>1. proc[p].todo # <<>> /\ proc[p].todo[1].call = "remove" /\ ProcsOK /\ RefsOK
  BY DEF RmUnlink, Types, Doing, Do
<1>2. ProcOK(proc[p]) /\ Do(p).repo \in Repos /\ FileOf(Do(p).name) \in Names
  BY <1>1, DoOK DEF Do
<1>3. UNCHANGED <<packed, logs, held>>
  BY DEF RmUnlink
<1>4. CASE RefFile(p) = Absent
  <2>1. Becomes(p, Failed(proc[p])) /\ loose' = loose
    BY <1>4 DEF RmUnlink
  <2>2. Plain(proc[p], Failed(proc[p]))
    BY <1>1, <1>2, ReturnsPlainly
  <2> QED BY <1>1, <1>3, <2>1, <2>2, BecomesPlain DEF RefsOK
<1>5. CASE RefFile(p) # Absent
  <2>1. SetRef(p, Absent)
    BY <1>5 DEF RmUnlink
  <2>2. loose' \in [Repos -> [Names -> Commits \cup {Absent, Empty}]]
    <3> DEFINE T == Commits \cup {Absent, Empty}
    <3>1. Absent \in T /\ loose \in [Repos -> [Names -> T]]
      BY <1>1 DEF RefsOK
    <3> HIDE DEF T
    <3>2. [loose EXCEPT ![Do(p).repo][FileOf(Do(p).name)] = Absent] \in [Repos -> [Names -> T]]
      BY <1>2, <3>1, Entry
    <3> QED BY <2>1, <3>2 DEF SetRef, T
  <2>3. Plain(proc[p], a)
    <3>1. ProcOK(a) /\ a.todo = proc[p].todo /\ a.at = "log"
      BY <1>1, <1>2, GoesOK DEF Steps
    <3> QED BY <1>1, <3>1, StaysMild DEF Writers, Plain
  <2>4. \A q \in Procs : \/ proc'[q] = proc[q]
                         \/ q = p /\ proc'[q] = a
                         \/ Doing(q, "ref", "write") /\ proc'[q] = [proc[q] EXCEPT !.lost = TRUE]
    BY <1>5 DEF RmUnlink
  <2>5. \A q \in Procs : proc'[q] = proc[q] \/ Plain(proc[q], proc'[q])
    BY <1>1, <2>3, <2>4, LosesPlainly
  <2>6. \A q \in Procs : ProcOK(proc'[q]) /\ proc'[q] \in ProcType
    BY <1>1, <2>5 DEF ProcsOK, Plain, Mild, ProcOK
  <2>7. proc' = [q \in Procs |-> proc'[q]]
    BY <1>5 DEF RmUnlink
  <2>8. proc' \in [Procs -> ProcType]
    BY <2>6, <2>7
  <2> QED BY <1>1, <1>3, <2>2, <2>5, <2>6, <2>8 DEF AllPlain, ProcsOK, RefsOK
<1> QED BY <1>4, <1>5

\* The removal is logged.
LEMMA RmLogMild == ASSUME Types, NEW p \in Procs, RmLog(p) PROVE AllPlain /\ RefsOK'
<1>1. /\ proc[p].todo # <<>> /\ proc[p].todo[1].call = "remove" /\ ProcsOK /\ RefsOK
      /\ Becomes(p, Returned(proc[p])) /\ AddToLog(p, NoCommit) /\ UNCHANGED <<loose, packed, held>>
  BY DEF RmLog, Types, Doing, Do
<1>2. ProcOK(proc[p]) /\ NoCommit \in Value /\ Do(p).call = "remove"
  BY <1>1, DoOK DEF Do, NoCommit, Value
<1>3. AllPlain
  BY <1>1, <1>2, ReturnsPlainly, BecomesPlain
<1>4. logs' \in [Repos -> [Names \cup {"HEAD"} -> Seq(Value \X Value)]]
  BY <1>1, <1>2, AddToLogOK
<1> QED BY <1>1, <1>3, <1>4 DEF RefsOK

-----------------------------------------------------------------------------
(* Index and working tree.                                                 *)

\* Faults are used up one by one.
LEMMA FaultOK == ASSUME FaultsOK, Fine \/ Fault PROVE FaultsOK'
  BY RepositoryConstants DEF FaultsOK, Fine, Fault

\* fastgit_index_read_tree changes the index in memory only.
LEMMA LoadTreePlain == ASSUME Types, NEW p \in Procs, LoadTree(p) PROVE AllPlain
<1>1. /\ proc[p].todo # <<>> /\ proc[p].todo[1].call = "read_tree" /\ ProcsOK
  BY DEF LoadTree, Types, Doing, Do
<1>2. ProcOK(proc[p]) /\ proc[p] \in ProcType /\ proc[p].val \in Value /\ NoCommit \in Value
  BY <1>1, DoOK DEF ProcType, NoCommit, Value
<1>3. ASSUME NEW v \in Value
      PROVE  /\ Plain(proc[p], Returned([proc[p] EXCEPT !.mem = v]))
             /\ Plain(proc[p], Failed([proc[p] EXCEPT !.mem = v]))
  <2> DEFINE u == [proc[p] EXCEPT !.mem = v]
  <2>1. ProcOK(u)
    BY <1>2, FieldsOK
  <2>2. u.todo = proc[p].todo
    BY <1>2 DEF ProcType
  <2> HIDE DEF u
  <2>3. Plain(proc[p], Returned(u)) /\ Plain(proc[p], Failed(u))
    BY <1>1, <2>1, <2>2, ReturnsPlainly
  <2> QED BY <2>3 DEF u
<1>4. \/ Becomes(p, Returned([proc[p] EXCEPT !.mem = proc[p].val]))
      \/ Becomes(p, Failed([proc[p] EXCEPT !.mem = NoCommit]))
  BY DEF LoadTree
<1>5. /\ Plain(proc[p], Returned([proc[p] EXCEPT !.mem = proc[p].val]))
      /\ Plain(proc[p], Failed([proc[p] EXCEPT !.mem = NoCommit]))
  BY <1>2, <1>3
<1> QED BY <1>1, <1>4, <1>5, BecomesPlain

\* The end of a checkout's entry.
LEMMA FileDonePlain ==
    ASSUME ProcsOK, NEW p \in Procs, proc[p].todo # <<>>, proc[p].todo[1].call = "checkout"
    PROVE  Plain(proc[p], FileDone(p)) /\ Plain(proc[p], FileFailed(p))
<1> DEFINE a == Goes(proc[p], "file")
           s == [a EXCEPT !.left = @ \ {NextPath(p)}]
<1>1. ProcOK(proc[p]) /\ proc[p].left \in SUBSET Paths
  BY DoOK DEF ProcType
<1>2. ProcOK(a) /\ a.todo = proc[p].todo /\ a.at = "file" /\ a.left = proc[p].left
  BY <1>1, GoesOK DEF Steps
<1>3. s = [a EXCEPT !.left = proc[p].left \ {NextPath(p)}]
  BY <1>2
<1>4. ProcOK(s)
  <2>1. proc[p].left \ {NextPath(p)} \in SUBSET Paths
    BY <1>1
  <2> HIDE DEF a, s
  <2> QED BY <1>2, <1>3, <2>1, FieldsOK
<1>5. s.todo = proc[p].todo /\ s.at = "file"
  <2> HIDE DEF a
  <2> QED BY <1>2 DEF ProcOK, ProcType
<1>6. FileDone(p) = IF s.left = {} THEN Returned(s) ELSE s
  BY DEF FileDone
<1> HIDE DEF s
<1>7. Plain(proc[p], Returned(s)) /\ Plain(proc[p], s)
  BY <1>4, <1>5, ReturnsPlainly, StaysMild DEF Plain, Writers
<1>8. Plain(proc[p], Failed(proc[p]))
  BY <1>1, ReturnsPlainly
<1> QED BY <1>6, <1>7, <1>8 DEF FileFailed

\* A checkout changes the working tree only.
LEMMA CheckoutPlain ==
    ASSUME Types, NEW p \in Procs, TreeOpen(p) \/ FileOpen(p) \/ FileWrite(p)
    PROVE  AllPlain
<1>1. proc[p].todo # <<>> /\ proc[p].todo[1].call = "checkout" /\ ProcsOK
  BY DEF TreeOpen, FileOpen, FileWrite, Types, Doing, Do
<1>2. ProcOK(proc[p])
  BY <1>1, DoOK
<1>3. Plain(proc[p], Returned(proc[p])) /\ Plain(proc[p], Failed(proc[p]))
  BY <1>1, <1>2, ReturnsPlainly
<1>4. Plain(proc[p], FileDone(p)) /\ Plain(proc[p], FileFailed(p))
  BY <1>1, FileDonePlain
<1>5. ASSUME NEW a \in {"file", "filewrite"}, NEW S \in SUBSET Paths
      PROVE  Plain(proc[p], Goes(proc[p], a)) /\ Plain(proc[p], [Goes(proc[p], a) EXCEPT !.left = S])
  <2> DEFINE g == Goes(proc[p], a)
             t == [g EXCEPT !.left = S]
  <2>1. ProcOK(g) /\ g.todo = proc[p].todo /\ g.at = a
    BY <1>1, <1>2, GoesOK DEF Steps
  <2> HIDE DEF g
  <2>2. ProcOK(t)
    BY <2>1, FieldsOK
  <2>3. t.todo = proc[p].todo /\ t.at = a
    BY <2>1 DEF ProcOK, ProcType
  <2> HIDE DEF t
  <2>4. Plain(proc[p], g) /\ Plain(proc[p], t)
    BY <1>1, <2>1, <2>2, <2>3, StaysMild DEF Plain, Writers
  <2> QED BY <2>4 DEF g, t
<1>6. Files(Source(p)) \in SUBSET Paths
  BY DEF Files, Paths
<1>7. \/ Becomes(p, Returned(proc[p])) \/ Becomes(p, Failed(proc[p]))
      \/ Becomes(p, FileDone(p)) \/ Becomes(p, FileFailed(p))
      \/ Becomes(p, Goes(proc[p], "filewrite"))
      \/ Becomes(p, [Goes(proc[p], "file") EXCEPT !.left = Files(Source(p))])
  BY DEF TreeOpen, FileOpen, FileWrite
<1>8. /\ Plain(proc[p], Goes(proc[p], "filewrite"))
      /\ Plain(proc[p], [Goes(proc[p], "file") EXCEPT !.left = Files(Source(p))])
  BY <1>5, <1>6
<1> QED BY <1>1, <1>3, <1>4, <1>7, <1>8, BecomesPlain

\* What an index in memory is as a file: never empty, and told by its first item.
LEMMA ContentOK ==
    ASSUME NEW c \in Value
    PROVE  Content(c) \in Seq(Value) /\ Content(c) # <<>> /\ Content(c)[1] = c
<1>1. IsFiniteSet(Paths)
  <2>1. IsFiniteSet({"a"}) /\ IsFiniteSet({"b"})
    BY FS_Singleton
  <2>2. IsFiniteSet({"a"} \cup {"b"}) /\ {"a"} \cup {"b"} = Paths
    BY <2>1, FS_Union DEF Paths
  <2> QED BY <2>2
<1>2. Files(c) \subseteq Paths
  BY DEF Files, Paths
<1>3. Cardinality(Files(c)) \in Nat
  BY <1>1, <1>2, FS_Subset, FS_CardinalityType
<1> DEFINE n == 1 + Cardinality(Files(c))
<1>4. n \in Nat /\ n >= 1
  BY <1>3
<1>5. Content(c) = [i \in 1..n |-> c]
  BY DEF Content
<1> HIDE DEF n
<1>6. Content(c) \in Seq(Value) /\ Len(Content(c)) = n
  BY <1>4, <1>5
<1>7. Content(c)[1] = c
  BY <1>4, <1>5
<1>8. Content(c) # <<>>
  BY <1>4, <1>6, EmptySeq
<1> QED BY <1>6, <1>7, <1>8

\* A write at the start of a file.
LEMMA OverlayOK ==
    ASSUME NEW new \in Seq(Value), NEW old \in Seq(Value)
    PROVE  Overlay(new, old) \in Seq(Value) /\ Overlay(new, <<>>) = new
<1>1. Len(new) \in Nat /\ Len(old) \in Nat
  OBVIOUS
<1>2. SubSeq(old, Len(new) + 1, Len(old)) \in Seq(Value)
  BY <1>1, SubSeqProperties
<1>3. SubSeq(<<>>, Len(new) + 1, Len(<<>>)) = <<>>
  BY <1>1
<1>4. Overlay(new, old) \in Seq(Value)
  BY <1>2 DEF Overlay
<1>5. Overlay(new, <<>>) = new
  BY <1>3 DEF Overlay
<1> QED BY <1>4, <1>5

\* The lock is opened.
LEMMA LockOpenOK ==
    ASSUME Types, NEW p \in Procs, LockOpen(p)
    PROVE  /\ ProcsOK' /\ TreeOK'
           /\ \/ AllPlain /\ UNCHANGED <<lock, disk, idx, marks>>
              \/ /\ \A q \in Procs \ {p} : proc'[q] = proc[q]
                 /\ proc'[p].todo = proc[p].todo /\ proc'[p].at = "write" /\ proc'[p].fd = Inode(p)
                 /\ lock' = [lock EXCEPT ![Do(p).repo] = Inode(p)]
                 /\ disk' = [disk EXCEPT ![Inode(p)] = <<>>]
                 /\ IF \E q \in Procs \ {p} : Locking(q, Do(p).repo)
                    THEN Mark(<<"shared", Do(p).repo>>) ELSE UNCHANGED marks
<1> DEFINE g == Goes(proc[p], "write")
           t == [g EXCEPT !.fd = Inode(p)]
<1>1. /\ proc[p].todo # <<>> /\ proc[p].todo[1].call = "index_write" /\ ProcsOK /\ TreeOK
      /\ idx' = idx
  BY DEF LockOpen, Types, Doing, Do
<1>2. ProcOK(proc[p]) /\ Do(p).repo \in Repos
  BY <1>1, DoOK
<1>3. Plain(proc[p], Failed(proc[p]))
  BY <1>1, <1>2, ReturnsPlainly
<1>4. Inode(p) \in {0} \cup Procs
  BY <1>1, <1>2 DEF Inode, TreeOK
<1>5. ProcOK(g) /\ g.todo = proc[p].todo /\ g.at = "write"
  BY <1>1, <1>2, GoesOK DEF Steps
<1>6. ProcOK(t) /\ t.todo = proc[p].todo /\ t.at = "write" /\ t.fd = Inode(p)
  <2> HIDE DEF g
  <2>1. ProcOK(t)
    BY <1>4, <1>5, FieldsOK
  <2>2. t.todo = g.todo /\ t.at = g.at /\ t.fd = Inode(p)
    BY <1>5 DEF ProcOK, ProcType
  <2> QED BY <1>5, <2>1, <2>2
<1>7. CASE Becomes(p, Failed(proc[p])) /\ UNCHANGED <<lock, disk, marks>>
  BY <1>1, <1>3, <1>7, BecomesPlain DEF AllPlain, TreeOK
<1>8. CASE /\ Becomes(p, t)
           /\ lock' = [lock EXCEPT ![Do(p).repo] = Inode(p)]
           /\ disk' = [disk EXCEPT ![Inode(p)] = <<>>]
           /\ IF \E q \in Procs \ {p} : Locking(q, Do(p).repo)
              THEN Mark(<<"shared", Do(p).repo>>) ELSE UNCHANGED marks
  <2> HIDE DEF t
  <2>1. \A q \in Procs : proc'[q] = IF q = p THEN t ELSE proc[q]
    BY <1>1, <1>8 DEF ProcsOK, Becomes
  <2>2. proc' \in [Procs -> ProcType]
    BY <1>1, <1>6, <1>8 DEF ProcsOK, Becomes, ProcOK
  <2>3. ProcsOK'
    BY <1>1, <1>6, <2>1, <2>2 DEF ProcsOK
  <2>4. lock' \in [Repos -> {0, NoFile} \cup Procs]
    BY <1>1, <1>2, <1>4, <1>8 DEF TreeOK
  <2>5. disk' \in [{0} \cup Procs -> Seq(Value)]
    <3>1. <<>> \in Seq(Value)
      OBVIOUS
    <3> QED BY <1>1, <1>4, <1>8, <3>1 DEF TreeOK
  <2>6. TreeOK'
    BY <1>1, <2>4, <2>5 DEF TreeOK
  <2> QED BY <1>6, <1>8, <2>1, <2>3, <2>6
<1>9. \/ Becomes(p, Failed(proc[p])) /\ UNCHANGED <<lock, disk, marks>>
      \/ /\ Becomes(p, t)
         /\ lock' = [lock EXCEPT ![Do(p).repo] = Inode(p)]
         /\ disk' = [disk EXCEPT ![Inode(p)] = <<>>]
         /\ IF \E q \in Procs \ {p} : Locking(q, Do(p).repo)
            THEN Mark(<<"shared", Do(p).repo>>) ELSE UNCHANGED marks
  BY DEF LockOpen
<1> QED BY <1>7, <1>8, <1>9

\* It is written to; a short write unlinks it.
LEMMA LockWriteOK ==
    ASSUME Types, NEW p \in Procs, LockWrite(p), proc[p].fd \in {0} \cup Procs
    PROVE  /\ ProcsOK' /\ TreeOK'
           /\ \E new \in Seq(Value) :
                 /\ disk' = [disk EXCEPT ![proc[p].fd] = Overlay(new, @)]
                 /\ \/ /\ \A q \in Procs \ {p} : proc'[q] = proc[q]
                       /\ proc'[p].todo = proc[p].todo /\ proc'[p].at = "rename"
                       /\ proc'[p].fd = proc[p].fd /\ proc'[p].mem = proc[p].mem
                       /\ new = Content(proc[p].mem) /\ lock' = lock
                    \/ AllPlain /\ lock' = [lock EXCEPT ![Do(p).repo] = NoFile]
<1> DEFINE g == Goes(proc[p], "rename")
           full == Content(proc[p].mem)
           part == SubSeq(full, 1, 1)
<1>1. /\ proc[p].todo # <<>> /\ proc[p].todo[1].call = "index_write" /\ ProcsOK /\ TreeOK
      /\ idx' = idx
  BY DEF LockWrite, Types, Doing, Do
<1>2. ProcOK(proc[p]) /\ Do(p).repo \in Repos /\ proc[p].mem \in Value /\ proc[p] \in ProcType
  BY <1>1, DoOK DEF ProcType
<1>3. Plain(proc[p], Failed(proc[p]))
  BY <1>1, <1>2, ReturnsPlainly
<1>4. ProcOK(g) /\ g.todo = proc[p].todo /\ g.at = "rename"
  BY <1>1, <1>2, GoesOK DEF Steps
<1>5. g.fd = proc[p].fd /\ g.mem = proc[p].mem
  BY <1>2 DEF Goes, ProcType
<1>6. full \in Seq(Value) /\ part \in Seq(Value)
  <2>1. full \in Seq(Value) /\ Len(full) \in Nat /\ Len(full) # 0
    BY <1>2, ContentOK, EmptySeq
  <2> HIDE DEF full
  <2>2. \A i \in 1..1 : i \in 1..Len(full) /\ full[i] \in Value
    BY <2>1
  <2> QED BY <2>1, <2>2
<1>7. ASSUME NEW new \in Seq(Value), disk' = [disk EXCEPT ![proc[p].fd] = Overlay(new, @)]
      PROVE  disk' \in [{0} \cup Procs -> Seq(Value)]
  <2> DEFINE D == {0} \cup Procs
             S == Seq(Value)
             f == proc[p].fd
             v == Overlay(new, disk[f])
  <2>1. disk \in [D -> S] /\ f \in D
    BY <1>1 DEF TreeOK
  <2>2. v \in S
    BY <2>1, OverlayOK
  <2>3. disk' = [disk EXCEPT ![f] = v]
    BY <1>7
  <2> HIDE DEF D, S, f, v
  <2>4. disk' \in [D -> S]
    BY <2>1, <2>2, <2>3
  <2> QED BY <2>4 DEF D, S
<1> HIDE DEF g, full, part
<1>8. CASE /\ disk' = [disk EXCEPT ![proc[p].fd] = Overlay(full, @)]
           /\ Becomes(p, g) /\ lock' = lock
  <2>1. \A q \in Procs : proc'[q] = IF q = p THEN g ELSE proc[q]
    BY <1>1, <1>8 DEF ProcsOK, Becomes
  <2>2. proc' \in [Procs -> ProcType]
    BY <1>1, <1>4, <1>8 DEF ProcsOK, Becomes, ProcOK
  <2>3. ProcsOK'
    BY <1>1, <1>4, <2>1, <2>2 DEF ProcsOK
  <2>4. TreeOK'
    BY <1>1, <1>6, <1>7, <1>8 DEF TreeOK
  <2>5. proc'[p] = g /\ \A q \in Procs \ {p} : proc'[q] = proc[q]
    BY <2>1
  <2> QED BY <1>4, <1>5, <1>6, <1>8, <2>5, <2>3, <2>4 DEF full
<1>9. CASE /\ disk' = [disk EXCEPT ![proc[p].fd] = Overlay(part, @)]
           /\ lock' = [lock EXCEPT ![Do(p).repo] = NoFile]
           /\ Becomes(p, Failed(proc[p]))
  <2>1. AllPlain
    BY <1>1, <1>3, <1>9, BecomesPlain
  <2>2. lock' \in [Repos -> {0, NoFile} \cup Procs]
    BY <1>1, <1>2, <1>9 DEF TreeOK
  <2>3. TreeOK'
    BY <1>1, <1>6, <1>7, <1>9, <2>2 DEF TreeOK
  <2> QED BY <1>6, <1>9, <2>1, <2>3 DEF AllPlain
<1> QED BY <1>8, <1>9 DEF LockWrite, g, full, part

\* It becomes the index, or is dropped.
LEMMA LockRenameOK ==
    ASSUME Types, NEW p \in Procs, LockRename(p)
    PROVE  /\ AllPlain /\ TreeOK'
           /\ lock' = [lock EXCEPT ![Do(p).repo] = NoFile]
           /\ \/ idx' = idx
              \/ lock[Do(p).repo] # NoFile /\ idx' = [idx EXCEPT ![Do(p).repo] = lock[Do(p).repo]]
<1>1. /\ proc[p].todo # <<>> /\ proc[p].todo[1].call = "index_write" /\ ProcsOK /\ TreeOK
      /\ disk' = disk
  BY DEF LockRename, Types, Doing, Do
<1>2. ProcOK(proc[p]) /\ Do(p).repo \in Repos
  BY <1>1, DoOK
<1>3. Plain(proc[p], Failed(proc[p])) /\ Plain(proc[p], Returned(proc[p]))
  BY <1>1, <1>2, ReturnsPlainly
<1>4. Becomes(p, Failed(proc[p])) \/ Becomes(p, Returned(proc[p]))
  BY DEF LockRename
<1>5. AllPlain
  BY <1>1, <1>3, <1>4, BecomesPlain
<1>6. /\ lock' = [lock EXCEPT ![Do(p).repo] = NoFile]
      /\ \/ idx' = idx
         \/ lock[Do(p).repo] # NoFile /\ idx' = [idx EXCEPT ![Do(p).repo] = lock[Do(p).repo]]
  BY DEF LockRename
<1>7. TreeOK'
  BY <1>1, <1>2, <1>6 DEF TreeOK
<1> QED BY <1>5, <1>6, <1>7

-----------------------------------------------------------------------------
(* Objects, merge and rebase.                                              *)

\* Storing objects.
LEMMA StoreKeeps ==
    ASSUME OdbOK, FaultsOK, NEW r \in Repos, NEW new \in SUBSET Commits, Store(r, new)
    PROVE  OdbOK' /\ FaultsOK' /\ marks \subseteq marks'
<1>1. PICK gain \in SUBSET Commits : odb' = [odb EXCEPT ![r] = @ \cup gain]
  BY DEF Store
<1>2. OdbOK'
  BY <1>1 DEF OdbOK
<1>3. FaultsOK'
  BY FaultOK DEF Store
<1>4. marks \subseteq marks'
  BY DEF Store, Mark
<1> QED BY <1>2, <1>3, <1>4

\* A call that sets one of the fields no fact depends on, and returns or fails.
LEMMA SetsPlainly ==
    ASSUME NEW s, ProcOK(s), s.todo # <<>>, s.todo[1].call # "commit"
    PROVE  /\ Plain(s, Returned(s)) /\ Plain(s, Failed(s))
           /\ \A v \in Value : Plain(s, Returned([s EXCEPT !.mem = v]))
           /\ \A v \in SUBSET Commits : Plain(s, Returned([s EXCEPT !.list = v]))
           /\ \A v \in Seq(Branches \X Commits) : Plain(s, Returned([s EXCEPT !.bundle = v]))
           /\ \A v \in [Branches -> Value] : Plain(s, Returned([s EXCEPT !.adv = v]))
<1>1. s \in ProcType
  BY DEF ProcOK
<1>2. ASSUME NEW u, ProcOK(u), u.todo = s.todo PROVE Plain(s, Returned(u)) /\ Plain(s, Failed(u))
  BY <1>2, ReturnsPlainly
<1>3. ASSUME NEW v \in Value PROVE Plain(s, Returned([s EXCEPT !.mem = v]))
  <2>1. ProcOK([s EXCEPT !.mem = v])
    BY FieldsOK
  <2>2. [s EXCEPT !.mem = v].todo = s.todo
    BY <1>1 DEF ProcType
  <2> QED BY <1>2, <2>1, <2>2
<1>4. ASSUME NEW v \in SUBSET Commits PROVE Plain(s, Returned([s EXCEPT !.list = v]))
  <2>1. ProcOK([s EXCEPT !.list = v])
    BY FieldsOK
  <2>2. [s EXCEPT !.list = v].todo = s.todo
    BY <1>1 DEF ProcType
  <2> QED BY <1>2, <2>1, <2>2
<1>5. ASSUME NEW v \in Seq(Branches \X Commits) PROVE Plain(s, Returned([s EXCEPT !.bundle = v]))
  <2>1. ProcOK([s EXCEPT !.bundle = v])
    BY FieldsOK
  <2>2. [s EXCEPT !.bundle = v].todo = s.todo
    BY <1>1 DEF ProcType
  <2> QED BY <1>2, <2>1, <2>2
<1>6. ASSUME NEW v \in [Branches -> Value] PROVE Plain(s, Returned([s EXCEPT !.adv = v]))
  <2>1. ProcOK([s EXCEPT !.adv = v])
    BY FieldsOK
  <2>2. [s EXCEPT !.adv = v].todo = s.todo
    BY <1>1 DEF ProcType
  <2> QED BY <1>2, <2>1, <2>2
<1> QED BY <1>2, <1>3, <1>4, <1>5, <1>6

\* fastgit_index_add, fastgit_index_write_tree and a lookup of a commit.
LEMMA ObjectsPlain ==
    ASSUME Types, NEW p \in Procs, Stage(p) \/ WriteTrees(p) \/ Peel(p)
    PROVE  AllPlain /\ OdbOK' /\ FaultsOK' /\ marks \subseteq marks'
<1>1. /\ proc[p].todo # <<>> /\ proc[p].todo[1].call \in {"stage", "write_tree", "peel"}
      /\ ProcsOK /\ OdbOK /\ FaultsOK
  BY DEF Stage, WriteTrees, Peel, Types, Doing, Do
<1>2. ProcOK(proc[p]) /\ Do(p).repo \in Repos
  BY <1>1, DoOK
<1>3. Staged(p) \in Value /\ Staged(p) \in Commits
  <2>1. p \in Nat
    BY ProcsAssumption
  <2> QED BY <2>1 DEF Staged, Value, Commits
<1>4. /\ Plain(proc[p], Returned(proc[p])) /\ Plain(proc[p], Failed(proc[p]))
      /\ Plain(proc[p], Returned([proc[p] EXCEPT !.mem = Staged(p)]))
  BY <1>1, <1>2, <1>3, SetsPlainly
<1>5. \/ Becomes(p, Returned(proc[p])) \/ Becomes(p, Failed(proc[p]))
      \/ Becomes(p, Returned([proc[p] EXCEPT !.mem = Staged(p)]))
  BY DEF Stage, WriteTrees, Peel
<1>6. AllPlain
  BY <1>1, <1>4, <1>5, BecomesPlain
<1>7. \/ Store(Do(p).repo, {Staged(p)})
      \/ odb' = odb /\ marks' = marks /\ (Fine \/ Fault)
  BY DEF Stage, WriteTrees, Peel
<1>8. {Staged(p)} \in SUBSET Commits
  BY <1>3
<1> QED BY <1>1, <1>2, <1>6, <1>7, <1>8, StoreKeeps, FaultOK DEF OdbOK

\* A child descends from its parent.
LEMMA ChildOK ==
    ASSUME NEW h \in Value, NEW n \in Nat
    PROVE  Append(h, n) \in Value /\ Append(h, n) \in Commits /\ IsPrefix(h, Append(h, n))
<1> DEFINE c == Append(h, n)
<1>1. c \in Seq(Nat) /\ Len(c) = Len(h) + 1 /\ Len(h) \in Nat /\ \A i \in 1..Len(h) : c[i] = h[i]
  BY DEF Value
<1> HIDE DEF c
<1>2. c # <<>>
  BY <1>1, EmptySeq
<1>3. SubSeq(h, 1, Len(h)) = SubSeq(c, 1, Len(h))
  BY <1>1 DEF Value
<1>4. IsPrefix(h, c)
  BY <1>1, <1>3 DEF IsPrefix
<1> QED BY <1>1, <1>2, <1>4 DEF c, Value, Commits

\* fastgit_odb_write of the commit.
LEMMA MakeCommitPlain ==
    ASSUME Types, NEW p \in Procs, MakeCommit(p)
    PROVE  AllPlain /\ OdbOK' /\ FaultsOK' /\ marks \subseteq marks'
<1> DEFINE c == Append(proc[p].head, Tag(p))
           u == [proc[p] EXCEPT !.val = c]
<1>1. /\ proc[p].todo # <<>> /\ proc[p].todo[1].call = "commit"
      /\ ProcsOK /\ OdbOK /\ FaultsOK
  BY DEF MakeCommit, Types, Doing, Do
<1>2. /\ ProcOK(proc[p]) /\ Do(p).repo \in Repos /\ proc[p].head \in Value /\ proc[p] \in ProcType
      /\ "commit" \in Kinds(proc[p].todo)
  BY <1>1, DoOK DEF ProcType, Do
<1>3. c \in Value /\ c \in Commits /\ IsPrefix(proc[p].head, c)
  <2>1. Tag(p) \in Nat
    BY ProcsAssumption DEF Tag
  <2> QED BY <1>2, <2>1, ChildOK
<1>4. Store(Do(p).repo, {c}) /\ Becomes(p, Returned(u))
  BY DEF MakeCommit
<1> HIDE DEF c
<1>5. /\ u.todo = proc[p].todo /\ u.at = proc[p].at /\ u.result = proc[p].result
      /\ u.cmd = proc[p].cmd /\ u.val = c /\ u.head = proc[p].head /\ u.seen = proc[p].seen
  BY <1>2 DEF ProcType
<1>6. u \in ProcType
  BY <1>2, <1>3, Fields
<1> HIDE DEF u
<1>7. BranchSees(u) /\ MergeSees(u)
  BY <1>2, <1>5 DEF ProcOK, Sees, BranchSees, MergeSees
<1>8. CommitSees(u)
  BY <1>1, <1>2, <1>5 DEF ProcOK, Sees, CommitSees
<1>9. ProcOK(u)
  BY <1>1, <1>2, <1>5, <1>6, <1>7, <1>8 DEF ProcOK, HasValue, Sees
<1>10. Plain(proc[p], Returned(u))
  BY <1>1, <1>3, <1>5, <1>9, ReturnsPlainly
<1>11. {c} \in SUBSET Commits
  BY <1>3
<1> QED BY <1>1, <1>2, <1>4, <1>10, <1>11, BecomesPlain, StoreKeeps

\* A call that is not about a reference.
LEMMA CallOK ==
    ASSUME NEW c \in PlainCalls, NEW r \in Repos, NEW n \in CallNames
    PROVE  Call(c, r, n) \in CallType /\ Call(c, r, n).call = c
<1>1. c \notin {"ref", "remove", "lookup"} /\ c \notin {"bundle_ref", "bundled"}
  BY DEF PlainCalls
<1> QED BY <1>1 DEF Call, CallType

\* A call that is about one.
LEMMA RefCallOK ==
    ASSUME NEW c \in RefCalls, NEW r \in Repos, NEW n \in Names \cup {"HEAD"},
           c \in {"bundle_ref", "bundled"} => n \in Branches
    PROVE  Call(c, r, n) \in CallType /\ Call(c, r, n).call = c
<1>1. n \in CallNames
  BY DEF CallNames
<1> QED BY <1>1 DEF Call, CallType

\* What a script makes of calls.
LEMMA WrapOK ==
    ASSUME NEW x \in CallType
    PROVE  /\ Stops(x) \in CallType /\ Stops(x).call = x.call
           /\ Ends(x) \in CallType /\ Ends(x).call = x.call
           /\ Gently(x) \in CallType /\ Gently(x).call = x.call
  BY DEF Stops, Ends, Gently, CallType

\* The calls of a fast-forward.
LEMMA FastForwardOK ==
    ASSUME NEW s \in ProcType, NEW calls,
           calls = FastForward(s) \/ calls = <<Stops(Call("ref", s.home, "HEAD"))>>
    PROVE  /\ calls \in Seq(CallType) /\ calls # <<>> /\ OneWriter(calls)
           /\ Kinds(calls) \subseteq {"read_tree", "index_write", "checkout", "ref"}
<1>1. s.home \in Repos
  BY DEF ProcType
<1> DEFINE a == Stops(Call("read_tree", s.home, ""))
           b == Stops(Call("index_write", s.home, ""))
           d == IF s.cmd = "rebase" THEN Stops(Gently(Call("checkout", s.home, "tree")))
                ELSE Gently(Call("checkout", s.home, "tree"))
           e == Stops(Call("ref", s.home, "HEAD"))
<1>3. /\ a \in CallType /\ a.call = "read_tree" /\ b \in CallType /\ b.call = "index_write"
      /\ d \in CallType /\ d.call = "checkout" /\ e \in CallType /\ e.call = "ref"
  <2>1. /\ "" \in CallNames /\ "tree" \in CallNames
        /\ "read_tree" \in PlainCalls /\ "index_write" \in PlainCalls /\ "checkout" \in PlainCalls
    BY DEF CallNames, PlainCalls
  <2>2. /\ Call("read_tree", s.home, "") \in CallType
        /\ Call("read_tree", s.home, "").call = "read_tree"
    BY <1>1, <2>1, CallOK
  <2>3. /\ Call("index_write", s.home, "") \in CallType
        /\ Call("index_write", s.home, "").call = "index_write"
    BY <1>1, <2>1, CallOK
  <2>4. /\ Call("checkout", s.home, "tree") \in CallType
        /\ Call("checkout", s.home, "tree").call = "checkout"
    BY <1>1, <2>1, CallOK
  <2>5. Call("ref", s.home, "HEAD") \in CallType /\ Call("ref", s.home, "HEAD").call = "ref"
    BY <1>1, RefCallOK DEF RefCalls
  <2>6. a \in CallType /\ a.call = "read_tree"
    BY <2>2, WrapOK
  <2>7. b \in CallType /\ b.call = "index_write"
    BY <2>3, WrapOK
  <2>8. /\ Gently(Call("checkout", s.home, "tree")) \in CallType
        /\ Gently(Call("checkout", s.home, "tree")).call = "checkout"
    BY <2>4, WrapOK
  <2>9. d \in CallType /\ d.call = "checkout"
    BY <2>8, WrapOK
  <2>10. e \in CallType /\ e.call = "ref"
    BY <2>5, WrapOK
  <2> QED BY <2>6, <2>7, <2>9, <2>10
<1>4. FastForward(s) = <<a, b, d, e>>
  BY DEF FastForward
<1>5. calls = <<a, b, d, e>> \/ calls = <<e>>
  BY <1>4
<1> HIDE DEF a, b, d, e
<1>6. calls \in Seq(CallType) /\ calls # <<>>
  <2>1. CASE calls = <<e>>
    BY <1>3, <2>1
  <2>2. CASE calls = <<a, b, d, e>>
    BY <1>3, <2>2
  <2> QED BY <1>5, <2>1, <2>2
<1>7. \A i \in 1..Len(calls) : calls[i].call \in {"read_tree", "index_write", "checkout", "ref"}
  BY <1>3, <1>5
<1>8. \A i \in 1..Len(calls) : calls[i].call = "index_write" => i = 2
  BY <1>3, <1>5
<1>9. \A i \in 1..Len(calls) : calls[i].call \in Writers => i = 2
  BY <1>7, <1>8 DEF Writers
<1>10. OneWriter(calls)
  BY <1>9 DEF OneWriter
<1>11. Kinds(calls) \subseteq {"read_tree", "index_write", "checkout", "ref"}
  BY <1>7, Zenon DEF Kinds
<1> QED BY <1>6, <1>10, <1>11

\* fastgit_merge and fastgit_rebase decide.
LEMMA DecidePlain == ASSUME Types, NEW p \in Procs, Decide(p) PROVE AllPlain
<1> DEFINE s == proc[p]
           h == s.head
           Runs(calls) == [s EXCEPT !.todo = calls, !.at = "call"]
<1>1. /\ s.todo # <<>> /\ s.todo[1].call \in {"merge", "rebase"} /\ s.at = "call" /\ ProcsOK
  BY DEF Decide, Types, Doing, Do
<1>2. ProcOK(s) /\ s \in ProcType /\ s.todo[1].call \in Kinds(s.todo)
  BY <1>1, DoOK DEF Do
<1>3. \A e \in {"ok", "error"} : Plain(s, Ended(s, e))
  BY <1>2, EndsPlainly
<1>4. ASSUME NEW calls, calls = FastForward(s) \/ calls = <<Stops(Call("ref", s.home, "HEAD"))>>,
             h = NoCommit \/ IsPrefix(h, s.val)
      PROVE  Plain(s, Runs(calls))
  <2> DEFINE t == Runs(calls)
             a == [s EXCEPT !.todo = calls]
  <2>1. /\ calls \in Seq(CallType) /\ calls # <<>> /\ OneWriter(calls)
        /\ Kinds(calls) \subseteq {"read_tree", "index_write", "checkout", "ref"}
    BY <1>2, <1>4, FastForwardOK
  <2>2. a \in ProcType
    BY <1>2, <2>1, Fields
  <2>3. [a EXCEPT !.at = "call"] \in ProcType
    BY <2>2, Fields DEF Steps
  <2>4. t \in ProcType
    BY <2>3
  <2>5. /\ t.todo = calls /\ t.at = "call" /\ t.result = s.result /\ t.cmd = s.cmd
        /\ t.seen = s.seen /\ t.head = s.head /\ t.val = s.val
    BY <1>2 DEF ProcType
  <2> HIDE DEF t
  <2>6. BranchSees(t) /\ CommitSees(t)
    BY <1>1, <1>2, <2>5 DEF ProcOK, Sees, BranchSees, CommitSees
  <2>7. MergeSees(t)
    BY <1>2, <1>4, <2>1, <2>5 DEF ProcOK, Sees, MergeSees
  <2>8. ProcOK(t)
    BY <1>1, <1>2, <2>1, <2>4, <2>5, <2>6, <2>7 DEF ProcOK, HasValue, Sees
  <2>9. Fresh(s)
    <3>1. 1 \in 1..Len(s.todo)
      BY <1>1, <1>2, EmptySeq DEF ProcType
    <3> QED BY <1>1, <3>1 DEF Fresh, Writers
  <2>10. Plain(s, t)
    BY <2>5, <2>8, <2>9 DEF Plain, Mild, LocksIndex
  <2> QED BY <2>10 DEF t
<1>5. \/ h = NoCommit /\ Becomes(p, Runs(<<Stops(Call("ref", s.home, "HEAD"))>>))
      \/ IsAncestor(s.home, h, s.val) /\ Becomes(p, Runs(FastForward(s)))
      \/ Becomes(p, Ended(s, "ok")) \/ Becomes(p, Ended(s, "error"))
  BY DEF Decide
<1>6. h = NoCommit => Plain(s, Runs(<<Stops(Call("ref", s.home, "HEAD"))>>))
  BY <1>4
<1>7. IsAncestor(s.home, h, s.val) => Plain(s, Runs(FastForward(s)))
  BY <1>4 DEF IsAncestor
<1> QED BY <1>1, <1>3, <1>5, <1>6, <1>7, BecomesPlain

-----------------------------------------------------------------------------
(* Objects and references between repositories.                            *)

\* The loop over the listed branches.
LEMMA RefPairsOK ==
    ASSUME NEW from \in Repos, NEW to \in Repos, NEW names, NEW call \in {"ref", "bundle_ref"}
    PROVE  /\ RefPairs(from, names, call, to) \in Seq(CallType)
           /\ NoWriter(RefPairs(from, names, call, to))
<1> DEFINE Pair(n) == IF n \in names THEN <<Call("lookup", from, n), Call(call, to, n)>> ELSE <<>>
<1>1. ASSUME NEW n \in Branches
      PROVE  Pair(n) \in Seq(CallType) /\ NoWriter(Pair(n))
  <2> DEFINE a == Call("lookup", from, n)
             b == Call(call, to, n)
  <2>1. n \in Names \cup {"HEAD"} /\ "lookup" \in RefCalls /\ call \in RefCalls
    BY DEF Names, RefCalls
  <2>2. a \in CallType /\ a.call = "lookup"
    BY <2>1, RefCallOK
  <2>3. b \in CallType /\ b.call = call
    BY <2>1, RefCallOK
  <2> HIDE DEF a, b
  <2>4. <<a, b>> \in Seq(CallType)
    BY <2>2, <2>3
  <2>5. NoWriter(<<a, b>>)
    BY <2>2, <2>3 DEF NoWriter, Writers
  <2> QED BY <2>4, <2>5, NoCalls DEF a, b
<1>2. RefPairs(from, names, call, to) = Pair("main") \o Pair("topic")
  BY DEF RefPairs
<1>3. /\ Pair("main") \in Seq(CallType) /\ NoWriter(Pair("main"))
      /\ Pair("topic") \in Seq(CallType) /\ NoWriter(Pair("topic"))
  BY <1>1 DEF Branches
<1> HIDE DEF Pair
<1>4. /\ Pair("main") \o Pair("topic") \in Seq(CallType)
      /\ NoWriter(Pair("main") \o Pair("topic"))
  BY <1>3, ConcatCalls
<1> QED BY <1>2, <1>4

\* fastgit_reference_list and the loop over it, for fetch, push and bundle.
LEMMA LoopPlain ==
    ASSUME Types, NEW p \in Procs, CopyRefs(p) \/ BundleRefs(p)
    PROVE  AllPlain
<1>1. /\ proc[p].todo # <<>> /\ proc[p].todo[1].call \in {"copy_refs", "bundle_refs"}
      /\ proc[p].at = "call" /\ ProcsOK
  BY DEF CopyRefs, BundleRefs, Types, Doing, Do
<1>2. ProcOK(proc[p]) /\ Do(p).repo \in Repos /\ Other(Do(p).repo) \in Repos
  BY <1>1, DoOK
<1>3. PICK calls \in Seq(CallType) : NoWriter(calls) /\ Becomes(p, Loop(proc[p], calls))
  BY <1>2, RefPairsOK DEF CopyRefs, BundleRefs
<1>4. proc[p].cmd \notin {"branch", "commit", "merge", "rebase"}
  BY <1>1, <1>2, NotSeen
<1>5. Plain(proc[p], Loop(proc[p], calls))
  BY <1>1, <1>2, <1>3, <1>4, LoopsPlainly
<1> QED BY <1>1, <1>3, <1>5, BecomesPlain

\* The objects are listed and copied.
LEMMA CopyPlain ==
    ASSUME Types, NEW p \in Procs, CopyList(p) \/ CopyObjects(p)
    PROVE  AllPlain /\ OdbOK' /\ FaultsOK' /\ marks \subseteq marks'
<1>1. /\ proc[p].todo # <<>> /\ proc[p].todo[1].call = "copy" /\ ProcsOK /\ OdbOK /\ FaultsOK
  BY DEF CopyList, CopyObjects, Types, Doing, Do
<1>2. /\ ProcOK(proc[p]) /\ Do(p).repo \in Repos /\ Other(Do(p).repo) \in Repos
      /\ proc[p].list \in SUBSET Commits
  BY <1>1, DoOK DEF ProcType
<1>3. CASE CopyList(p)
  <2> DEFINE g == Goes(proc[p], "copy")
  <2>1. PICK S \in SUBSET Commits : Becomes(p, [g EXCEPT !.list = S])
    BY <1>1, <1>2, <1>3 DEF CopyList, LooseObjects, OdbOK
  <2>2. ProcOK(g) /\ g.todo = proc[p].todo /\ g.at = "copy"
    BY <1>1, <1>2, GoesOK DEF Steps
  <2> HIDE DEF g
  <2> DEFINE t == [g EXCEPT !.list = S]
  <2>3. ProcOK(t)
    BY <2>2, FieldsOK
  <2>4. t.todo = proc[p].todo /\ t.at = "copy"
    BY <2>2 DEF ProcOK, ProcType
  <2> HIDE DEF t
  <2>5. Plain(proc[p], t)
    BY <1>1, <2>3, <2>4, StaysMild DEF Plain, Writers
  <2>6. AllPlain
    BY <1>1, <2>1, <2>5, BecomesPlain DEF t
  <2>7. odb' = odb /\ (Fine \/ Fault) /\ marks \subseteq marks'
    BY <1>3 DEF CopyList, MarkUnlisted, Mark
  <2> QED BY <1>1, <2>6, <2>7, FaultOK DEF OdbOK
<1>4. CASE CopyObjects(p)
  <2>1. Plain(proc[p], Returned(proc[p]))
    BY <1>1, <1>2, ReturnsPlainly
  <2>2. Becomes(p, Returned(proc[p])) /\ Store(Do(p).repo, proc[p].list)
    BY <1>4 DEF CopyObjects
  <2> QED BY <1>1, <1>2, <2>1, <2>2, BecomesPlain, StoreKeeps
<1> QED BY <1>3, <1>4

\* A value from the remote's HEAD, or from the header of a bundle.
LEMMA ValuePlain ==
    ASSUME Types, NEW p \in Procs, RemoteHead(p) \/ Bundled(p)
    PROVE  AllPlain
<1>1. /\ proc[p].todo # <<>> /\ proc[p].todo[1].call \in {"remote_head", "bundled"} /\ ProcsOK /\ RefsOK
  BY DEF RemoteHead, Bundled, Types, Doing, Do
<1>2. ProcOK(proc[p]) /\ Do(p).repo \in Repos /\ proc[p].bundle \in Seq(Branches \X Commits)
  BY <1>1, DoOK DEF ProcType
<1>3. proc[p].cmd \notin {"branch", "commit", "merge", "rebase"}
  BY <1>1, <1>2, NotSeen
<1>4. ASSUME NEW v \in Value PROVE Plain(proc[p], Returned([proc[p] EXCEPT !.val = v]))
  <2> DEFINE u == [proc[p] EXCEPT !.val = v]
  <2>1. ProcOK(u) /\ u.todo = proc[p].todo
    BY <1>1, <1>2, <1>3, ValOK
  <2> HIDE DEF u
  <2>2. Plain(proc[p], Returned(u))
    BY <1>1, <2>1, ReturnsPlainly
  <2> QED BY <2>2 DEF u
<1>5. Resolve(Do(p).repo, "main") \in Value /\ NoCommit \in Value
  <2>1. "main" \in Names \cup {"HEAD"}
    BY DEF Names, Branches
  <2> QED BY <1>1, <1>2, <2>1, ResolveOK DEF NoCommit, Value
<1>6. \A i \in DOMAIN proc[p].bundle : proc[p].bundle[i][2] \in Value
  <2>1. \A i \in DOMAIN proc[p].bundle : proc[p].bundle[i] \in Branches \X Commits
    BY <1>2
  <2>2. \A e \in Branches \X Commits : e[2] \in Value
    BY DEF Commits, Value
  <2> QED BY <2>1, <2>2
<1>7. Plain(proc[p], Goes(proc[p], "branch"))
  <2>1. /\ ProcOK(Goes(proc[p], "branch")) /\ Goes(proc[p], "branch").todo = proc[p].todo
        /\ Goes(proc[p], "branch").at = "branch"
    BY <1>1, <1>2, GoesOK DEF Steps
  <2> QED BY <1>1, <2>1, StaysMild DEF Plain, Writers
<1>8. \/ Becomes(p, Goes(proc[p], "branch"))
      \/ \E v \in Value : Becomes(p, Returned([proc[p] EXCEPT !.val = v]))
  BY <1>5, <1>6 DEF RemoteHead, Bundled
<1> QED BY <1>1, <1>4, <1>7, <1>8, BecomesPlain

\* A reference goes in the header of a bundle; the objects are packed; what a server advertises.
LEMMA BundlePlain ==
    ASSUME Types, NEW p \in Procs, BundleRef(p) \/ BundlePack(p) \/ Advert(p)
    PROVE  AllPlain /\ FaultsOK' /\ marks \subseteq marks'
<1>1. /\ proc[p].todo # <<>> /\ proc[p].todo[1].call \in {"bundle_ref", "bundle_pack", "advert"}
      /\ ProcsOK /\ RefsOK /\ OdbOK /\ FaultsOK
  BY DEF BundleRef, BundlePack, Advert, Types, Doing, Do
<1>2. /\ ProcOK(proc[p]) /\ proc[p] \in ProcType /\ Do(p).repo \in Repos /\ odb[Do(p).repo] \in SUBSET Commits
      /\ proc[p].val \in Value /\ proc[p].bundle \in Seq(Branches \X Commits)
      /\ Do(p).call = "bundle_ref" => Do(p).name \in Branches
  BY <1>1, DoOK DEF ProcType, OdbOK
<1>3. BundleRef(p) => \E b \in Seq(Branches \X Commits) : Becomes(p, Returned([proc[p] EXCEPT !.bundle = b]))
  <2> SUFFICES ASSUME BundleRef(p)
               PROVE  \E b \in Seq(Branches \X Commits) : Becomes(p, Returned([proc[p] EXCEPT !.bundle = b]))
    OBVIOUS
  <2> DEFINE new == IF proc[p].val = NoCommit THEN <<>> ELSE <<<<Do(p).name, proc[p].val>>>>
             b == proc[p].bundle \o new
  <2>1. Do(p).name \in Branches
    BY <1>2 DEF BundleRef, Doing
  <2>2. proc[p].val # NoCommit => <<Do(p).name, proc[p].val>> \in Branches \X Commits
    BY <1>2, <2>1 DEF Commits, Value, NoCommit
  <2>3. new \in Seq(Branches \X Commits)
    BY <2>2, NoCalls
  <2>4. b \in Seq(Branches \X Commits)
    BY <1>2, <2>3
  <2>5. [proc[p] EXCEPT !.bundle = @ \o new] = [proc[p] EXCEPT !.bundle = b]
    BY <1>2
  <2>6. Becomes(p, Returned([proc[p] EXCEPT !.bundle = @ \o new]))
    BY DEF BundleRef
  <2> HIDE DEF b, new
  <2> QED BY <2>4, <2>5, <2>6
<1>4. BundlePack(p) => \/ \E S \in SUBSET Commits : Becomes(p, Returned([proc[p] EXCEPT !.list = S]))
                       \/ Becomes(p, Failed(proc[p]))
  BY <1>2 DEF BundlePack, LooseObjects
<1>5. Advert(p) => \/ \E f \in [Branches -> Value] : Becomes(p, Returned([proc[p] EXCEPT !.adv = f]))
                   \/ Becomes(p, Failed(proc[p]))
  <2>1. \A n \in Branches : Resolve(Do(p).repo, n) \in Value
    BY <1>1, <1>2, ResolveOK DEF Names
  <2> QED BY <2>1 DEF Advert
<1>6. AllPlain
  BY <1>1, <1>2, <1>3, <1>4, <1>5, SetsPlainly, BecomesPlain
<1>7. (Fine \/ Fault) /\ marks \subseteq marks'
  BY DEF BundleRef, BundlePack, Advert, MarkUnlisted, Mark
<1> QED BY <1>1, <1>6, <1>7, FaultOK

\* The objects of a bundle are stored, then comes the loop over its header.
LEMMA UnbundlePlain ==
    ASSUME Types, NEW p \in Procs, Unbundle(p)
    PROVE  AllPlain /\ OdbOK' /\ FaultsOK' /\ marks \subseteq marks'
<1> DEFINE b == proc[p].bundle
           r == Do(p).repo
           calls == [i \in 1..(2 * Len(b)) |-> Call(IF i % 2 = 1 THEN "bundled" ELSE "ref",
                                                    r, b[(i + 1) \div 2][1])]
<1>1. /\ proc[p].todo # <<>> /\ proc[p].todo[1].call = "unbundle" /\ proc[p].at = "call"
      /\ ProcsOK /\ OdbOK /\ FaultsOK
  BY DEF Unbundle, Types, Doing, Do
<1>2. /\ ProcOK(proc[p]) /\ r \in Repos /\ proc[p].list \in SUBSET Commits
      /\ b \in Seq(Branches \X Commits)
  BY <1>1, DoOK DEF ProcType
<1>3. \/ Store(r, proc[p].list) /\ Becomes(p, Loop(proc[p], calls))
      \/ Becomes(p, Failed(proc[p])) /\ Fault /\ UNCHANGED <<odb, marks>>
  BY DEF Unbundle
<1>4. Len(b) \in Nat /\ \A i \in 1..Len(b) : b[i][1] \in Branches
  <2>1. \A i \in 1..Len(b) : b[i] \in Branches \X Commits
    BY <1>2
  <2>2. \A e \in Branches \X Commits : e[1] \in Branches
    OBVIOUS
  <2> QED BY <1>2, <2>1, <2>2
<1> HIDE DEF b, r
<1>5. ASSUME NEW i \in 1..(2 * Len(b))
      PROVE  calls[i] \in CallType /\ calls[i].call \in {"bundled", "ref"}
  <2> DEFINE c == IF i % 2 = 1 THEN "bundled" ELSE "ref"
             n == b[(i + 1) \div 2][1]
  <2>1. (i + 1) \div 2 \in 1..Len(b)
    BY <1>4
  <2>2. n \in Branches /\ n \in Names \cup {"HEAD"}
    BY <1>4, <2>1 DEF Names
  <2>3. c \in RefCalls /\ c \in {"bundled", "ref"}
    BY DEF RefCalls
  <2> HIDE DEF c, n
  <2>4. Call(c, r, n) \in CallType /\ Call(c, r, n).call = c
    BY <1>2, <2>2, <2>3, RefCallOK
  <2>5. calls[i] = Call(c, r, n)
    BY DEF c, n
  <2> QED BY <2>3, <2>4, <2>5
<1>6. DOMAIN calls = 1..(2 * Len(b)) /\ calls = [i \in 1..(2 * Len(b)) |-> calls[i]]
  OBVIOUS
<1> HIDE DEF calls
<1>7. calls \in Seq(CallType) /\ Len(calls) = 2 * Len(b)
  <2>1. calls \in [1..(2 * Len(b)) -> CallType]
    BY <1>5, <1>6
  <2>2. 2 * Len(b) \in Nat
    BY <1>4
  <2> DEFINE k == 2 * Len(b)
  <2> HIDE DEF k
  <2>3. k \in Nat /\ calls \in [1..k -> CallType]
    BY <2>1, <2>2 DEF k
  <2>4. calls \in Seq(CallType) /\ Len(calls) = k
    BY <2>3
  <2> QED BY <2>4 DEF k
<1>8. NoWriter(calls)
  BY <1>5, <1>7 DEF NoWriter, Writers
<1>9. Plain(proc[p], Failed(proc[p]))
  BY <1>1, <1>2, ReturnsPlainly
<1>10. Plain(proc[p], Loop(proc[p], calls))
  BY <1>1, <1>2, <1>7, <1>8, NotSeen, LoopsPlainly
<1>11. AllPlain
  BY <1>1, <1>3, <1>9, <1>10, BecomesPlain
<1>12. OdbOK' /\ FaultsOK' /\ marks \subseteq marks'
  BY <1>1, <1>2, <1>3, StoreKeeps, FaultOK DEF OdbOK
<1> QED BY <1>11, <1>12

\* After the arrival of a pack or of one of its objects.
LEMMA AfterUnpackPlain ==
    ASSUME NEW s, ProcOK(s), s.todo # <<>>, s.todo[1].call = "request", NEW S \in SUBSET Commits
    PROVE  Plain(s, AfterUnpack([s EXCEPT !.list = S]))
<1> DEFINE u == [s EXCEPT !.list = S]
<1>1. ProcOK(u)
  BY FieldsOK
<1>2. u.todo = s.todo
  BY DEF ProcOK, ProcType
<1> HIDE DEF u
<1>3. Plain(s, Returned(u))
  BY <1>1, <1>2, ReturnsPlainly
<1>4. Plain(s, Goes(u, "unpack"))
  <2>1. ProcOK(Goes(u, "unpack")) /\ Goes(u, "unpack").todo = s.todo /\ Goes(u, "unpack").at = "unpack"
    BY <1>1, <1>2, GoesOK DEF Steps
  <2> QED BY <2>1, StaysMild DEF Plain, Writers
<1>5. Plain(s, AfterUnpack(u))
  BY <1>3, <1>4 DEF AfterUnpack
<1> QED BY <1>5 DEF u

\* A fetch over the wire.
LEMMA RequestPlain ==
    ASSUME Types, NEW p \in Procs, Request(p)
    PROVE  AllPlain /\ FaultsOK' /\ marks \subseteq marks'
<1>1. /\ proc[p].todo # <<>> /\ proc[p].todo[1].call = "request" /\ ProcsOK /\ OdbOK /\ FaultsOK
  BY DEF Request, Types, Doing, Do
<1>2. ProcOK(proc[p]) /\ Other(Do(p).repo) \in Repos
  BY <1>1, DoOK
<1>3. Plain(proc[p], Returned(proc[p])) /\ Plain(proc[p], Failed(proc[p]))
  BY <1>1, <1>2, ReturnsPlainly
<1>4. \A haves : Answer(Other(Do(p).repo), Wants(p), haves) \in SUBSET Commits
  BY <1>1, <1>2 DEF Answer, OdbOK
<1>5. \/ Becomes(p, Returned(proc[p])) \/ Becomes(p, Failed(proc[p]))
      \/ \E haves : Becomes(p, AfterUnpack([proc[p] EXCEPT !.list = Answer(Other(Do(p).repo), Wants(p), haves)]))
  BY DEF Request
<1>6. AllPlain
  BY <1>1, <1>2, <1>3, <1>4, <1>5, AfterUnpackPlain, BecomesPlain
<1>7. (Fine \/ Fault) /\ marks \subseteq marks'
  BY DEF Request
<1> QED BY <1>1, <1>6, <1>7, FaultOK

\* Unpacking stores one object of the answer, or breaks off without error.
LEMMA UnpackOnePlain ==
    ASSUME Types, NEW p \in Procs, UnpackOne(p)
    PROVE  AllPlain /\ OdbOK' /\ FaultsOK' /\ marks \subseteq marks'
<1>1. /\ proc[p].todo # <<>> /\ proc[p].todo[1].call = "request" /\ ProcsOK /\ OdbOK /\ FaultsOK
  BY DEF UnpackOne, Types, Doing, Do
<1>2. ProcOK(proc[p]) /\ Do(p).repo \in Repos /\ proc[p].list \in SUBSET Commits /\ proc[p] \in ProcType
  BY <1>1, DoOK DEF ProcType
<1>3. Plain(proc[p], Returned(proc[p]))
  BY <1>1, <1>2, ReturnsPlainly
<1>4. CASE Becomes(p, Returned(proc[p])) /\ Fault /\ UNCHANGED <<odb, marks>>
  BY <1>1, <1>3, <1>4, BecomesPlain, FaultOK DEF OdbOK
<1>5. ASSUME NEW c \in proc[p].list, Store(Do(p).repo, {c}),
             Becomes(p, AfterUnpack([proc[p] EXCEPT !.list = @ \ {c}]))
      PROVE  AllPlain /\ OdbOK' /\ FaultsOK' /\ marks \subseteq marks'
  <2> DEFINE S == proc[p].list \ {c}
  <2>1. S \in SUBSET Commits /\ {c} \in SUBSET Commits
    BY <1>2
  <2>2. [proc[p] EXCEPT !.list = @ \ {c}] = [proc[p] EXCEPT !.list = S]
    BY <1>2
  <2> HIDE DEF S
  <2>3. Plain(proc[p], AfterUnpack([proc[p] EXCEPT !.list = S]))
    BY <1>1, <1>2, <2>1, AfterUnpackPlain
  <2>4. AllPlain
    BY <1>1, <1>5, <2>2, <2>3, BecomesPlain
  <2> QED BY <1>1, <1>2, <1>5, <2>1, <2>4, StoreKeeps
<1> QED BY <1>4, <1>5 DEF UnpackOne

\* A process is killed.
LEMMA CrashPlain ==
    ASSUME Types, NEW p \in Procs, Crash(p)
    PROVE  AllPlain /\ FaultsOK' /\ marks \subseteq marks' /\ <<"unlogged", "crash">> \in marks'
<1>1. ProcsOK /\ FaultsOK /\ Fault /\ Becomes(p, Ended(proc[p], "crashed")) /\ proc[p] \in ProcType
  BY DEF Crash, Types, ProcsOK
<1>2. AllPlain
  BY <1>1, EndsPlainly, BecomesPlain
<1>3. marks \subseteq marks' /\ <<"unlogged", "crash">> \in marks'
  BY DEF Crash
<1> QED BY <1>1, <1>2, <1>3, FaultOK

\* git receive-pack: objects and references of the other side, past its processes.
LEMMA ReceivePlain ==
    ASSUME Types, NEW p \in Procs, Receive(p)
    PROVE  /\ AllPlain /\ RefsOK' /\ OdbOK' /\ FaultsOK' /\ marks \subseteq marks'
           /\ \/ <<"unlogged", "server">> \in marks'
              \/ loose' = loose /\ held' = held /\ \A q \in Procs \ {p} : proc'[q] = proc[q]
<1> DEFINE r == Do(p).repo
           s == proc[p]
           all == odb[r] \cup s.list
           fit == {e \in ToSet(s.bundle) : Resolve(r, e[1]) = s.adv[e[1]] /\ History(e[2]) \subseteq all}
           Serves(end) ==
              \E done \in SUBSET fit :
                 /\ odb' = [odb EXCEPT ![r] = IF done = {} THEN @ ELSE all]
                 /\ loose' = [loose EXCEPT ![r] = [n \in Names |->
                                IF Sent(done, n) = {} THEN @[n] ELSE CHOOSE c \in Sent(done, n) : TRUE]]
                 /\ held' = [held EXCEPT ![r] = [n \in Names |-> @[n] \cup Sent(done, n)]]
                 /\ proc' = [q \in Procs |->
                       CASE q = p -> end
                         [] q # p /\ Doing(q, "ref", "write") /\ ThisRef(q)[1] = r /\ Sent(done, ThisRef(q)[2]) # {} ->
                               [proc[q] EXCEPT !.lost = TRUE]
                         [] OTHER -> proc[q]]
                 /\ IF done = {} THEN UNCHANGED marks ELSE Mark(<<"unlogged", "server">>)
<1>1. /\ s.todo # <<>> /\ s.todo[1].call = "receive" /\ ProcsOK /\ OdbOK /\ FaultsOK /\ RefsOK
      /\ UNCHANGED <<packed, logs>> /\ (Fine \/ Fault)
  BY DEF Receive, Types, Doing, Do
<1>2. /\ ProcOK(s) /\ r \in Repos /\ s.list \in SUBSET Commits
      /\ s.bundle \in Seq(Branches \X Commits)
  BY <1>1, DoOK DEF ProcType
<1>3. Plain(s, Returned(s)) /\ Plain(s, Failed(s))
  BY <1>1, <1>2, ReturnsPlainly
<1>4. CASE Becomes(p, Failed(s)) /\ Fine /\ UNCHANGED <<odb, loose, held, marks>>
  <2>1. RefsOK'
    BY <1>1, <1>4 DEF RefsOK
  <2>2. OdbOK' /\ FaultsOK'
    BY <1>1, <1>4, FaultOK DEF OdbOK
  <2>3. \A q \in Procs \ {p} : proc'[q] = proc[q]
    BY <1>1, <1>4 DEF Becomes, ProcsOK
  <2> QED BY <1>1, <1>3, <1>4, <2>1, <2>2, <2>3, BecomesPlain
<1>5. ASSUME NEW end, Plain(s, end), Serves(end)
      PROVE  /\ AllPlain /\ RefsOK' /\ OdbOK' /\ FaultsOK' /\ marks \subseteq marks'
             /\ \/ <<"unlogged", "server">> \in marks'
                \/ loose' = loose /\ held' = held /\ \A q \in Procs \ {p} : proc'[q] = proc[q]
  <2>0. PICK done \in SUBSET fit :
           /\ odb' = [odb EXCEPT ![r] = IF done = {} THEN @ ELSE all]
           /\ loose' = [loose EXCEPT ![r] = [n \in Names |->
                          IF Sent(done, n) = {} THEN @[n] ELSE CHOOSE c \in Sent(done, n) : TRUE]]
           /\ held' = [held EXCEPT ![r] = [n \in Names |-> @[n] \cup Sent(done, n)]]
           /\ proc' = [q \in Procs |->
                 CASE q = p -> end
                   [] q # p /\ Doing(q, "ref", "write") /\ ThisRef(q)[1] = r /\ Sent(done, ThisRef(q)[2]) # {} ->
                         [proc[q] EXCEPT !.lost = TRUE]
                   [] OTHER -> proc[q]]
           /\ IF done = {} THEN UNCHANGED marks ELSE Mark(<<"unlogged", "server">>)
    BY <1>5, Zenon
  <2>1. done \subseteq Branches \X Commits
    <3>1. \A i \in DOMAIN s.bundle : s.bundle[i] \in Branches \X Commits
      BY <1>2
    <3>2. ToSet(s.bundle) \subseteq Branches \X Commits
      BY <3>1 DEF ToSet
    <3> QED BY <3>2
  <2>2. \A n : Sent(done, n) \in SUBSET Commits
    BY <2>1 DEF Sent
  <2>3. \A n : done = {} => Sent(done, n) = {}
    BY DEF Sent
  <2> HIDE DEF fit
  <2>4. OdbOK'
    <3>1. all \in SUBSET Commits /\ odb[r] \in SUBSET Commits
      BY <1>1, <1>2 DEF OdbOK
    <3> QED BY <1>1, <1>2, <2>0, <3>1 DEF OdbOK
  <2>5. loose' \in [Repos -> [Names -> Commits \cup {Absent, Empty}]]
    <3> DEFINE T == Commits \cup {Absent, Empty}
               f == [n \in Names |-> IF Sent(done, n) = {} THEN loose[r][n]
                                     ELSE CHOOSE c \in Sent(done, n) : TRUE]
    <3>1. loose \in [Repos -> [Names -> T]] /\ loose' = [loose EXCEPT ![r] = f]
      BY <1>1, <2>0 DEF RefsOK
    <3>2. \A n : Sent(done, n) # {} => (CHOOSE c \in Sent(done, n) : TRUE) \in Commits
      BY <2>2
    <3>3. f \in [Names -> T]
      BY <1>2, <3>1, <3>2
    <3> HIDE DEF f, T
    <3>4. loose' \in [Repos -> [Names -> T]]
      BY <1>2, <3>1, <3>3
    <3> QED BY <3>4 DEF T
  <2>6. held' \in [Repos -> [Names -> SUBSET Value]]
    <3> DEFINE T == SUBSET Value
               f == [n \in Names |-> held[r][n] \cup Sent(done, n)]
    <3>1. held \in [Repos -> [Names -> T]] /\ held' = [held EXCEPT ![r] = f]
      BY <1>1, <2>0 DEF RefsOK
    <3>2. \A n : Sent(done, n) \in SUBSET Value
      BY <2>2 DEF Commits, Value
    <3>3. f \in [Names -> T]
      BY <1>2, <3>1, <3>2
    <3> HIDE DEF f, T
    <3>4. held' \in [Repos -> [Names -> T]]
      BY <1>2, <3>1, <3>3
    <3> QED BY <3>4 DEF T
  <2>7. RefsOK'
    BY <1>1, <2>5, <2>6 DEF RefsOK
  <2>8. marks \subseteq marks' /\ (done # {} => <<"unlogged", "server">> \in marks')
    BY <2>0 DEF Mark
  <2>9. done = {} => loose' = loose /\ held' = held
    <3> SUFFICES ASSUME done = {} PROVE loose' = loose /\ held' = held
      OBVIOUS
    <3>1. \A n : Sent(done, n) = {}
      BY <2>3
    <3>2. loose[r] = [n \in Names |-> loose[r][n]] /\ held[r] = [n \in Names |-> held[r][n]]
      BY <1>1, <1>2 DEF RefsOK
    <3>3. [n \in Names |-> IF Sent(done, n) = {} THEN loose[r][n]
                           ELSE CHOOSE c \in Sent(done, n) : TRUE] = loose[r]
      BY <3>1, <3>2
    <3>4. [n \in Names |-> held[r][n] \cup Sent(done, n)] = held[r]
      BY <3>1, <3>2
    <3>5. loose' = [loose EXCEPT ![r] = loose[r]] /\ held' = [held EXCEPT ![r] = held[r]]
      BY <2>0, <3>3, <3>4
    <3> QED BY <1>1, <1>2, <3>5 DEF RefsOK
  <2>10. \A q \in Procs : \/ proc'[q] = proc[q]
                          \/ q = p /\ proc'[q] = end
                          \/ Doing(q, "ref", "write") /\ proc'[q] = [proc[q] EXCEPT !.lost = TRUE]
    BY <2>0
  <2>11. \A q \in Procs : proc'[q] = proc[q] \/ Plain(proc[q], proc'[q])
    BY <1>1, <1>5, <2>10, LosesPlainly
  <2>12. \A q \in Procs : ProcOK(proc'[q]) /\ proc'[q] \in ProcType
    BY <1>1, <2>11 DEF ProcsOK, Plain, Mild, ProcOK
  <2>13. proc' = [q \in Procs |-> proc'[q]]
    BY <2>0
  <2>14. proc' \in [Procs -> ProcType]
    BY <2>12, <2>13
  <2>15. AllPlain
    BY <2>11, <2>12, <2>14 DEF AllPlain, ProcsOK
  <2>16. done = {} => \A q \in Procs \ {p} : proc'[q] = proc[q]
    BY <2>0, <2>3
  <2> QED BY <1>1, <2>4, <2>7, <2>8, <2>9, <2>15, <2>16, FaultOK
<1>6. \/ Becomes(p, Failed(s)) /\ Fine /\ UNCHANGED <<odb, loose, held, marks>>
      \/ Serves(Returned(s)) \/ Serves(Failed(s))
  BY DEF Receive
<1> HIDE DEF Serves
<1> QED BY <1>3, <1>4, <1>5, <1>6

-----------------------------------------------------------------------------
(* The commands.                                                           *)

Is(x, c) == x \in CallType /\ x.call = c

\* The calls a script is made of.
LEMMA CallsOf ==
    ASSUME NEW r \in Repos
    PROVE  /\ \A c \in PlainCalls, n \in CallNames :
                 /\ Is(Call(c, r, n), c) /\ Is(Stops(Call(c, r, n)), c) /\ Is(Ends(Call(c, r, n)), c)
           /\ \A c \in {"ref", "remove", "lookup"}, n \in Names \cup {"HEAD"} :
                 /\ Is(Call(c, r, n), c) /\ Is(Stops(Call(c, r, n)), c) /\ Is(Ends(Call(c, r, n)), c)
                 /\ Is(Gently(Call(c, r, n)), c)
<1>1. ASSUME NEW c \in PlainCalls, NEW n \in CallNames
      PROVE  Is(Call(c, r, n), c) /\ Is(Stops(Call(c, r, n)), c) /\ Is(Ends(Call(c, r, n)), c)
  <2>1. Call(c, r, n) \in CallType /\ Call(c, r, n).call = c
    BY CallOK
  <2> QED BY <2>1, WrapOK DEF Is
<1>2. ASSUME NEW c \in {"ref", "remove", "lookup"}, NEW n \in Names \cup {"HEAD"}
      PROVE  /\ Is(Call(c, r, n), c) /\ Is(Stops(Call(c, r, n)), c) /\ Is(Ends(Call(c, r, n)), c)
             /\ Is(Gently(Call(c, r, n)), c)
  <2>1. Call(c, r, n) \in CallType /\ Call(c, r, n).call = c
    <3>1. c \in RefCalls /\ c \notin {"bundle_ref", "bundled"}
      BY DEF RefCalls
    <3> QED BY <3>1, RefCallOK
  <2> QED BY <2>1, WrapOK DEF Is
<1> QED BY <1>1, <1>2

\* Short lists of calls.
LEMMA ShortLists ==
    ASSUME NEW a \in CallType, NEW b \in CallType, NEW c \in CallType, NEW d \in CallType
    PROVE  /\ <<a>> \in Seq(CallType) /\ <<a>> # <<>>
           /\ <<a, b>> \in Seq(CallType) /\ <<a, b>> # <<>>
           /\ <<a, b, c>> \in Seq(CallType) /\ <<a, b, c>> # <<>>
           /\ <<a, b, c, d>> \in Seq(CallType) /\ <<a, b, c, d>> # <<>>
           /\ a.call \notin Writers => NoWriter(<<a>>) /\ OneWriter(<<a, b>>)
           /\ a.call \notin Writers /\ b.call \notin Writers => NoWriter(<<a, b>>)
           /\ a.call \notin Writers /\ b.call \notin Writers /\ c.call \notin Writers => NoWriter(<<a, b, c>>)
           /\ a.call \notin Writers /\ b.call \notin Writers /\ c.call \notin Writers /\ d.call \notin Writers
                 => NoWriter(<<a, b, c, d>>)
<1>1. /\ <<a>> \in Seq(CallType) /\ <<a>> # <<>>
      /\ <<a, b>> \in Seq(CallType) /\ <<a, b>> # <<>>
      /\ <<a, b, c>> \in Seq(CallType) /\ <<a, b, c>> # <<>>
      /\ <<a, b, c, d>> \in Seq(CallType) /\ <<a, b, c, d>> # <<>>
  OBVIOUS
<1>2. a.call \notin Writers => NoWriter(<<a>>) /\ OneWriter(<<a, b>>)
  BY DEF NoWriter, OneWriter
<1>3. a.call \notin Writers /\ b.call \notin Writers => NoWriter(<<a, b>>)
  BY DEF NoWriter
<1>4. a.call \notin Writers /\ b.call \notin Writers /\ c.call \notin Writers => NoWriter(<<a, b, c>>)
  BY DEF NoWriter
<1>5. a.call \notin Writers /\ b.call \notin Writers /\ c.call \notin Writers /\ d.call \notin Writers
                 => NoWriter(<<a, b, c, d>>)
  BY DEF NoWriter
<1> QED BY <1>1, <1>2, <1>3, <1>4, <1>5

\* No list that writes no index writes two.
LEMMA NoneIsOne == ASSUME NEW q, NoWriter(q) PROVE OneWriter(q)
  BY DEF NoWriter, OneWriter

Listing(q) == q \in Seq(CallType) /\ q # <<>> /\ OneWriter(q)

\* Every command is a list of calls that writes the index at most once.
LEMMA ScriptOK ==
    ASSUME NEW r \in Repos, NEW cmd \in Commands
    PROVE  Listing(Script(cmd, r))
<1>1. Other(r) \in Repos
  <2>1. \E x \in Repos : x # r
    BY DEF Repos
  <2> QED BY <2>1 DEF Other
<1>2. /\ "" \in CallNames /\ "index" \in CallNames /\ "tree" \in CallNames
      /\ {"HEAD", "main", "topic", "stash"} \subseteq Names \cup {"HEAD"}
      /\ "ref" \notin Writers /\ "remove" \notin Writers /\ "lookup" \notin Writers
      /\ \A c \in PlainCalls \ {"index_write", "merge", "rebase"} : c \notin Writers
  BY DEF CallNames, Names, Branches, Writers
<1>3. ASSUME NEW x \in Repos
      PROVE  /\ \A c \in PlainCalls :
                   /\ Is(Call(c, x, ""), c) /\ Is(Stops(Call(c, x, "")), c) /\ Is(Ends(Call(c, x, "")), c)
             /\ Is(Call("checkout", x, "index"), "checkout") /\ Is(Call("checkout", x, "tree"), "checkout")
             /\ \A n \in {"HEAD", "main", "topic", "stash"} :
                   /\ Is(Call("ref", x, n), "ref") /\ Is(Gently(Call("ref", x, n)), "ref")
                   /\ Is(Call("remove", x, n), "remove")
                   /\ Is(Stops(Call("lookup", x, n)), "lookup") /\ Is(Ends(Call("lookup", x, n)), "lookup")
  <2>1. "checkout" \in PlainCalls
    BY DEF PlainCalls
  <2> QED BY <1>2, <2>1, CallsOf
<1>4. ASSUME NEW a \in Seq(CallType), NEW b \in Seq(CallType)
      PROVE  /\ a \o b \in Seq(CallType) /\ (a # <<>> => a \o b # <<>>)
             /\ NoWriter(a) /\ NoWriter(b) => NoWriter(a \o b)
             /\ NoWriter(a) /\ OneWriter(b) => OneWriter(a \o b)
             /\ OneWriter(a) /\ NoWriter(b) => OneWriter(a \o b)
  BY ConcatCalls
<1> DEFINE Quiets(q) == q \in Seq(CallType) /\ q # <<>> /\ NoWriter(q)
<1>5. Listing(LoadAndWrite(r))
  <2> DEFINE a == Call("read_tree", r, "")
             b == Call("index_write", r, "")
  <2>1. Is(a, "read_tree") /\ Is(b, "index_write") /\ "read_tree" \notin Writers
    BY <1>3 DEF PlainCalls, Writers
  <2> HIDE DEF a, b
  <2>2. Listing(<<a, b>>)
    BY <2>1, ShortLists DEF Is, Listing
  <2> QED BY <2>2 DEF LoadAndWrite, a, b
<1>6. Listing(Add(r))
  <2> DEFINE a == Call("stage", r, "")
             b == Stops(Call("index_write", r, ""))
  <2>1. Is(a, "stage") /\ Is(b, "index_write") /\ "stage" \notin Writers
    BY <1>3 DEF PlainCalls, Writers
  <2> HIDE DEF a, b
  <2>2. Listing(<<a, b>>)
    BY <2>1, ShortLists DEF Is, Listing
  <2> QED BY <2>2 DEF Add, a, b
<1>7. ASSUME NEW n \in {"HEAD", "stash"} PROVE Quiets(CommitTo(r, n))
  <2> DEFINE a == Stops(Call("write_tree", r, ""))
             b == Call("head", r, "")
             c == Call("commit", r, "")
             d == Call("ref", r, n)
  <2>1. Is(a, "write_tree") /\ Is(b, "head") /\ Is(c, "commit") /\ Is(d, "ref")
    BY <1>3 DEF PlainCalls
  <2>2. "write_tree" \notin Writers /\ "head" \notin Writers /\ "commit" \notin Writers /\ "ref" \notin Writers
    BY DEF Writers
  <2> HIDE DEF a, b, c, d
  <2>3. Quiets(<<a, b, c, d>>)
    BY <2>1, <2>2, ShortLists DEF Is
  <2> QED BY <2>3 DEF CommitTo, a, b, c, d
<1>8. Quiets(Branch(r))
  <2> DEFINE a == Gently(Call("ref", r, "topic"))
  <2>1. Is(a, "ref")
    BY <1>1, <1>3 DEF PlainCalls
  <2>2. "ref" \notin Writers
    BY DEF Writers
  <2> HIDE DEF a
  <2>3. Quiets(<<a>>)
    BY <2>1, <2>2, ShortLists DEF Is
  <2> QED BY <2>3 DEF Branch, a
<1>9. Quiets(DeleteBranch(r))
  <2> DEFINE a == Call("remove", r, "topic")
  <2>1. Is(a, "remove")
    BY <1>1, <1>3 DEF PlainCalls
  <2>2. "remove" \notin Writers
    BY DEF Writers
  <2> HIDE DEF a
  <2>3. Quiets(<<a>>)
    BY <2>1, <2>2, ShortLists DEF Is
  <2> QED BY <2>3 DEF DeleteBranch, a
<1>10. Listing(Merge(r))
  <2> DEFINE a == Stops(Call("head", r, ""))
             b == Call("merge", r, "")
  <2>1. Is(a, "head") /\ Is(b, "merge")
    BY <1>1, <1>3 DEF PlainCalls
  <2>2. "head" \notin Writers
    BY DEF Writers
  <2> HIDE DEF a, b
  <2>3. Listing(<<a, b>>)
    BY <2>1, <2>2, ShortLists DEF Is, Listing
  <2> QED BY <2>3 DEF Merge, a, b
<1>11. Listing(Rebase(r))
  <2> DEFINE a == Stops(Call("head", r, ""))
             b == Call("rebase", r, "")
  <2>1. Is(a, "head") /\ Is(b, "rebase")
    BY <1>1, <1>3 DEF PlainCalls
  <2>2. "head" \notin Writers
    BY DEF Writers
  <2> HIDE DEF a, b
  <2>3. Listing(<<a, b>>)
    BY <2>1, <2>2, ShortLists DEF Is, Listing
  <2> QED BY <2>3 DEF Rebase, a, b
<1>12. Quiets(FetchWire(r))
  <2> DEFINE a == Stops(Call("advert", Other(r), ""))
             b == Stops(Call("request", r, ""))
  <2>1. Is(a, "advert") /\ Is(b, "request")
    BY <1>1, <1>3 DEF PlainCalls
  <2>2. "advert" \notin Writers /\ "request" \notin Writers
    BY DEF Writers
  <2> HIDE DEF a, b
  <2>3. Quiets(<<a, b>>)
    BY <2>1, <2>2, ShortLists DEF Is
  <2> QED BY <2>3 DEF FetchWire, a, b
<1>13. Quiets(PushWire(r))
  <2> DEFINE a == Stops(Call("advert", Other(r), ""))
             b == PackLocalOdb(r)
             c == BuildReceivePackRequest(r)
             d == Stops(Call("receive", Other(r), ""))
  <2>1. Is(a, "advert") /\ Is(b, "bundle_pack") /\ Is(c, "bundle_refs") /\ Is(d, "receive")
    BY <1>1, <1>3 DEF PlainCalls, PackLocalOdb, BuildReceivePackRequest
  <2>2. "advert" \notin Writers /\ "bundle_pack" \notin Writers /\ "bundle_refs" \notin Writers /\ "receive" \notin Writers
    BY DEF Writers
  <2> HIDE DEF a, b, c, d
  <2>3. Quiets(<<a, b, c, d>>)
    BY <2>1, <2>2, ShortLists DEF Is
  <2> QED BY <2>3 DEF PushWire, a, b, c, d
<1>14. Quiets(Bundle(r))
  <2> DEFINE a == Call("bundle_refs", r, "")
             b == Stops(Call("bundle_pack", r, ""))
             c == Stops(Call("unbundle", Other(r), ""))
  <2>1. Is(a, "bundle_refs") /\ Is(b, "bundle_pack") /\ Is(c, "unbundle")
    BY <1>1, <1>3 DEF PlainCalls
  <2>2. "bundle_refs" \notin Writers /\ "bundle_pack" \notin Writers /\ "unbundle" \notin Writers
    BY DEF Writers
  <2> HIDE DEF a, b, c
  <2>3. Quiets(<<a, b, c>>)
    BY <2>1, <2>2, ShortLists DEF Is
  <2> QED BY <2>3 DEF Bundle, a, b, c
<1>15. Quiets(<<Call("ref", r, "HEAD"), Ends(Call("peel", r, ""))>>)
  <2> DEFINE a == Call("ref", r, "HEAD")
             b == Ends(Call("peel", r, ""))
  <2>1. Is(a, "ref") /\ Is(b, "peel")
    BY <1>1, <1>3 DEF PlainCalls
  <2>2. "ref" \notin Writers /\ "peel" \notin Writers
    BY DEF Writers
  <2> HIDE DEF a, b
  <2>3. Quiets(<<a, b>>)
    BY <2>1, <2>2, ShortLists DEF Is
  <2> QED BY <2>3 DEF a, b
<1>16. Quiets(<<Stops(Call("peel", r, ""))>>)
  <2> DEFINE a == Stops(Call("peel", r, ""))
  <2>1. Is(a, "peel")
    BY <1>1, <1>3 DEF PlainCalls
  <2>2. "peel" \notin Writers
    BY DEF Writers
  <2> HIDE DEF a
  <2>3. Quiets(<<a>>)
    BY <2>1, <2>2, ShortLists DEF Is
  <2> QED BY <2>3 DEF a
<1>17. Quiets(<<Call("checkout", r, "index"), Call("ref", r, "HEAD")>>)
  <2> DEFINE a == Call("checkout", r, "index")
             b == Call("ref", r, "HEAD")
  <2>1. Is(a, "checkout") /\ Is(b, "ref")
    BY <1>1, <1>3 DEF PlainCalls
  <2>2. "checkout" \notin Writers /\ "ref" \notin Writers
    BY DEF Writers
  <2> HIDE DEF a, b
  <2>3. Quiets(<<a, b>>)
    BY <2>1, <2>2, ShortLists DEF Is
  <2> QED BY <2>3 DEF a, b
<1>18. Quiets(<<Stops(Call("lookup", r, "stash")), Ends(Call("peel", r, ""))>>)
  <2> DEFINE a == Stops(Call("lookup", r, "stash"))
             b == Ends(Call("peel", r, ""))
  <2>1. Is(a, "lookup") /\ Is(b, "peel")
    BY <1>1, <1>3 DEF PlainCalls
  <2>2. "lookup" \notin Writers /\ "peel" \notin Writers
    BY DEF Writers
  <2> HIDE DEF a, b
  <2>3. Quiets(<<a, b>>)
    BY <2>1, <2>2, ShortLists DEF Is
  <2> QED BY <2>3 DEF a, b
<1>19. Quiets(<<Call("checkout", r, "tree"), Call("remove", r, "stash")>>)
  <2> DEFINE a == Call("checkout", r, "tree")
             b == Call("remove", r, "stash")
  <2>1. Is(a, "checkout") /\ Is(b, "remove")
    BY <1>1, <1>3 DEF PlainCalls
  <2>2. "checkout" \notin Writers /\ "remove" \notin Writers
    BY DEF Writers
  <2> HIDE DEF a, b
  <2>3. Quiets(<<a, b>>)
    BY <2>1, <2>2, ShortLists DEF Is
  <2> QED BY <2>3 DEF a, b
<1>20. Quiets(<<Call("remote_head", Other(r), ""), Call("ref", r, "main")>>)
  <2> DEFINE a == Call("remote_head", Other(r), "")
             b == Call("ref", r, "main")
  <2>1. Is(a, "remote_head") /\ Is(b, "ref")
    BY <1>1, <1>3 DEF PlainCalls
  <2>2. "remote_head" \notin Writers /\ "ref" \notin Writers
    BY DEF Writers
  <2> HIDE DEF a, b
  <2>3. Quiets(<<a, b>>)
    BY <2>1, <2>2, ShortLists DEF Is
  <2> QED BY <2>3 DEF a, b
<1>21. Quiets(<<Ends(Call("lookup", r, "HEAD")), Ends(Call("peel", r, ""))>>)
  <2> DEFINE a == Ends(Call("lookup", r, "HEAD"))
             b == Ends(Call("peel", r, ""))
  <2>1. Is(a, "lookup") /\ Is(b, "peel")
    BY <1>1, <1>3 DEF PlainCalls
  <2>2. "lookup" \notin Writers /\ "peel" \notin Writers
    BY DEF Writers
  <2> HIDE DEF a, b
  <2>3. Quiets(<<a, b>>)
    BY <2>1, <2>2, ShortLists DEF Is
  <2> QED BY <2>3 DEF a, b
<1>22. Quiets(<<Call("checkout", r, "tree")>>)
  <2> DEFINE a == Call("checkout", r, "tree")
  <2>1. Is(a, "checkout")
    BY <1>1, <1>3 DEF PlainCalls
  <2>2. "checkout" \notin Writers
    BY DEF Writers
  <2> HIDE DEF a
  <2>3. Quiets(<<a>>)
    BY <2>1, <2>2, ShortLists DEF Is
  <2> QED BY <2>3 DEF a
<1>23. ASSUME NEW x \in Repos PROVE Quiets(Transfer(x))
  <2> DEFINE a == Call("copy", x, "")
             b == Call("copy_refs", x, "")
  <2>1. Is(a, "copy") /\ Is(b, "copy_refs")
    BY <1>3 DEF PlainCalls
  <2>2. "copy" \notin Writers /\ "copy_refs" \notin Writers
    BY DEF Writers
  <2> HIDE DEF a, b
  <2>3. Quiets(<<a, b>>)
    BY <2>1, <2>2, ShortLists DEF Is
  <2> QED BY <2>3 DEF Transfer, a, b
<1>24. /\ \A a, b : Quiets(a) /\ Listing(b) => Listing(a \o b)
       /\ \A a, b : Listing(a) /\ Quiets(b) => Listing(a \o b)
       /\ \A a, b : Quiets(a) /\ Quiets(b) => Quiets(a \o b)
       /\ \A a : Quiets(a) => Listing(a)
  BY <1>4, NoneIsOne DEF Listing
<1> HIDE DEF Quiets
<1>25. Listing(Reset(r))
  BY <1>5, <1>15, <1>24 DEF Reset
<1>26. Listing(CheckOut(r))
  BY <1>5, <1>16, <1>17, <1>24 DEF CheckOut
<1>27. Listing(StashPush(r))
  BY <1>5, <1>7, <1>24 DEF StashPush
<1>28. Listing(StashPop(r))
  BY <1>5, <1>18, <1>19, <1>24 DEF StashPop
<1>29. Quiets(Fetch(r))
  BY <1>20, <1>23, <1>24 DEF Fetch
<1>30. Listing(Clone(r))
  BY <1>5, <1>21, <1>22, <1>29, <1>24 DEF Clone
<1>31. Listing(Push(r))
  BY <1>1, <1>23, <1>24 DEF Push
<1>32. /\ Listing(CommitIndex(r)) /\ Listing(Branch(r)) /\ Listing(DeleteBranch(r)) /\ Listing(Fetch(r))
       /\ Listing(FetchWire(r)) /\ Listing(PushWire(r)) /\ Listing(Bundle(r))
  BY <1>7, <1>8, <1>9, <1>12, <1>13, <1>14, <1>29, <1>24 DEF CommitIndex
<1> QED BY <1>6, <1>10, <1>11, <1>25, <1>26, <1>27, <1>28, <1>30, <1>31, <1>32 DEF Script, Commands

\* What the scripts of NoLostCommits's commands are made of.
LEMMA ScriptSees ==
    ASSUME NEW r \in Repos
    PROVE  /\ Kinds(Branch(r)) \subseteq {"ref"}
           /\ Kinds(Merge(r)) \subseteq {"head", "merge", "rebase"}
           /\ Kinds(Rebase(r)) \subseteq {"head", "merge", "rebase"}
           /\ Kinds(CommitIndex(r)) \subseteq {"write_tree", "head", "commit", "ref"}
           /\ \A i \in 1..Len(CommitIndex(r)) : CommitIndex(r)[i].call = "ref" =>
                 i # 1 /\ CommitIndex(r)[i - 1].call = "commit"
<1>1. /\ Branch(r) = <<Gently(Call("ref", r, "topic"))>>
      /\ Gently(Call("ref", r, "topic")).call = "ref"
  BY DEF Branch, Gently, Call
<1>2. \A c : Stops(Call("head", r, "")).call = "head" /\ Call(c, r, "").call = c
  BY DEF Stops, Call
<1>3. Kinds(Branch(r)) \subseteq {"ref"}
  <2> DEFINE a == Gently(Call("ref", r, "topic"))
  <2> HIDE DEF a
  <2>1. Branch(r) = <<a>> /\ a.call = "ref"
    BY <1>1 DEF a
  <2>2. \A i \in 1..Len(Branch(r)) : Branch(r)[i].call \in {"ref"}
    BY <2>1
  <2> QED BY <2>2, Zenon DEF Kinds
<1>4. ASSUME NEW c \in {"merge", "rebase"}
      PROVE  Kinds(<<Stops(Call("head", r, "")), Call(c, r, "")>>) \subseteq {"head", "merge", "rebase"}
  <2> DEFINE a == Stops(Call("head", r, ""))
             b == Call(c, r, "")
             q == <<a, b>>
  <2>1. a.call = "head" /\ b.call = c
    BY <1>2
  <2> HIDE DEF a, b
  <2>2. \A i \in 1..Len(q) : q[i].call \in {"head", "merge", "rebase"}
    BY <2>1
  <2> HIDE DEF q
  <2>3. Kinds(q) \subseteq {"head", "merge", "rebase"}
    BY <2>2, Zenon DEF Kinds
  <2> QED BY <2>3 DEF a, b, q
<1>5. /\ Kinds(CommitIndex(r)) \subseteq {"write_tree", "head", "commit", "ref"}
      /\ \A i \in 1..Len(CommitIndex(r)) : CommitIndex(r)[i].call = "ref" =>
            i # 1 /\ CommitIndex(r)[i - 1].call = "commit"
  <2> DEFINE a == Stops(Call("write_tree", r, ""))
             b == Call("head", r, "")
             c == Call("commit", r, "")
             d == Call("ref", r, "HEAD")
             q == <<a, b, c, d>>
  <2>1. a.call = "write_tree" /\ b.call = "head" /\ c.call = "commit" /\ d.call = "ref"
    BY DEF Stops, Call
  <2>2. CommitIndex(r) = q
    BY DEF CommitIndex, CommitTo
  <2> HIDE DEF a, b, c, d
  <2>3. \A i \in 1..Len(q) : q[i].call \in {"write_tree", "head", "commit", "ref"}
    BY <2>1
  <2>4. \A i \in 1..Len(q) : q[i].call = "ref" => i # 1 /\ q[i - 1].call = "commit"
    BY <2>1
  <2> HIDE DEF q
  <2>5. Kinds(q) \subseteq {"write_tree", "head", "commit", "ref"}
    BY <2>3, Zenon DEF Kinds
  <2> QED BY <2>2, <2>4, <2>5
<1> QED BY <1>3, <1>4, <1>5 DEF Merge, Rebase

\* A process that starts a command.
LEMMA StartedOK ==
    ASSUME NEW c \in [cmd : Commands \cup {"none"}, home : Repos], NEW given \in Value
    PROVE  ProcOK(Started(c, given)) /\ Started(c, given).at = "call"
<1>1. c.cmd \in Commands \cup {"none"} /\ c.home \in Repos /\ NoCommit \in Value
  BY DEF NoCommit, Value
<1>2. CASE c.cmd = "none"
  <2> DEFINE u == Idle(c.cmd, c.home, NoCommit, "none")
             t == Idle(c.cmd, c.home, NoCommit, "ok")
  <2>1. u \in ProcType /\ u.cmd = c.cmd /\ u.home = c.home
    BY <1>1, IdleOK DEF Idle
  <2>2. t = Ended(u, "ok") /\ t.at = "call"
    BY <2>1 DEF Ended, Idle
  <2> HIDE DEF u, t
  <2>3. ProcOK(t)
    BY <2>1, <2>2, EndedOK
  <2> QED BY <1>2, <2>2, <2>3 DEF Started, t
<1>3. CASE c.cmd # "none"
  <2> DEFINE u == Idle(c.cmd, c.home, given, "none")
             q == Script(c.cmd, c.home)
             t == [u EXCEPT !.todo = q]
  <2>1. c.cmd \in Commands
    BY <1>1, <1>3
  <2>2. Listing(q)
    BY <1>1, <2>1, ScriptOK
  <2>3. u \in ProcType
    BY <1>1, IdleOK
  <2>4. /\ u.at = "call" /\ u.cmd = c.cmd /\ u.seen = NoCommit /\ u.head = NoCommit
        /\ u.result = "none"
    BY DEF Idle
  <2> HIDE DEF u
  <2>5. t \in ProcType
    BY <2>2, <2>3, Fields DEF Listing
  <2>6. /\ t.at = "call" /\ t.cmd = c.cmd /\ t.seen = NoCommit /\ t.head = NoCommit
        /\ t.result = "none" /\ t.todo = q
    BY <2>3, <2>4 DEF ProcType
  <2>7. Started(c, given) = t
    BY <1>3 DEF Started, u
  <2>8. /\ c.cmd = "branch" => q = Branch(c.home)
        /\ c.cmd = "commit" => q = CommitIndex(c.home)
        /\ c.cmd = "merge" => q = Merge(c.home)
        /\ c.cmd = "rebase" => q = Rebase(c.home)
    BY DEF Script
  <2> HIDE DEF t, q
  <2>9. BranchSees(t)
    BY <1>1, <2>6, <2>8, ScriptSees DEF BranchSees
  <2>10. CommitSees(t)
    BY <1>1, <2>6, <2>8, ScriptSees DEF CommitSees
  <2>11. MergeSees(t)
    BY <1>1, <2>6, <2>8, ScriptSees DEF MergeSees
  <2>12. ProcOK(t)
    BY <2>2, <2>5, <2>6, <2>9, <2>10, <2>11 DEF ProcOK, HasValue, Sees, Listing
  <2> QED BY <2>6, <2>7, <2>12
<1> QED BY <1>2, <1>3

-----------------------------------------------------------------------------
(* Type correctness.                                                       *)

FilesOpen == \A p \in Procs : LocksIndex(proc[p]) => proc[p].fd # NoFile
TInv == Types /\ FilesOpen

\* What a repository has in packs can be read there.
PacksOK == packs \in [Repos -> SUBSET Commits] /\ \A r \in Repos : packs[r] \subseteq odb[r]

\* Initially.
LEMMA InitTypes == ASSUME Init PROVE TInv /\ PacksOK /\ \A p \in Procs : proc[p].at = "call"
<1>1. PICK scene \in Scenes, main \in {<<0>>, <<0, 2>>}, topic \in {Absent, <<0, 1>>},
           away, fresh, gc \in BOOLEAN, given \in {<<0>>, <<0, 1>>} :
        LET none == [n \in Names |-> Absent]
        IN  /\ scene[1].cmd = "clone" => fresh
            /\ fresh => main = <<0>> /\ topic = Absent /\ ~away
                        /\ \A p \in Procs : scene[p].home = "local" => scene[p].cmd \in Importers \cup {"none"}
            /\ given = <<0>> => scene[1].cmd \in {"merge", "rebase"}
            /\ proc = [p \in Procs |-> Started(scene[p], IF p = 1 THEN given ELSE <<0, 3>>)]
            /\ loose = [local |-> IF fresh THEN none
                                  ELSE [main |-> IF away THEN Absent ELSE main, topic |-> topic,
                                        stash |-> <<0, 3>>],
                        peer |-> [none EXCEPT !.main = <<0, 4>>]]
            /\ packed = [r \in Repos |-> [n \in Names |->
                            IF away /\ r = "local" /\ n = "main" THEN main ELSE NoCommit]]
            /\ logs = [r \in Repos |-> [n \in Names \cup {"HEAD"} |-> <<>>]]
            /\ held = [r \in Repos |-> [n \in Names |-> {loose[r][n]} \ {Absent}]]
            /\ odb = [local |-> IF fresh THEN {} ELSE {<<0>>, <<0, 1>>, <<0, 2>>, <<0, 3>>},
                      peer |-> {<<0>>, <<0, 4>>}]
            /\ packs = [r \in Repos |-> IF gc THEN odb[r] ELSE {}]
            /\ faults = MaxFaults /\ marks = {}
            /\ disk = [i \in {0} \cup Procs |-> IF i = 0 /\ ~fresh THEN Content(main) ELSE <<>>]
            /\ idx = [local |-> IF fresh THEN NoFile ELSE 0, peer |-> NoFile]
            /\ lock = [r \in Repos |-> NoFile]
            /\ work = [r \in Repos |-> [x \in Paths |->
                          IF r = "local" /\ ~fresh /\ x \in Files(main) THEN main ELSE Absent]]
  BY DEF Init
<1>2. /\ <<0>> \in Commits /\ <<0, 1>> \in Commits /\ <<0, 2>> \in Commits /\ <<0, 3>> \in Commits
      /\ <<0, 4>> \in Commits /\ Commits \subseteq Value
  BY DEF Commits, Value
<1>3. ProcsOK /\ FilesOpen /\ \A p \in Procs : proc[p].at = "call"
  <2>1. ASSUME NEW p \in Procs PROVE ProcOK(proc[p]) /\ proc[p] \in ProcType /\ proc[p].at = "call"
    <3>1. scene[p] \in [cmd : Commands \cup {"none"}, home : Repos]
      BY RepositoryConstants
    <3> DEFINE v == IF p = 1 THEN given ELSE <<0, 3>>
    <3>2. v \in Value
      BY <1>2
    <3>3. proc[p] = Started(scene[p], v)
      BY <1>1
    <3> HIDE DEF v
    <3>4. ProcOK(proc[p]) /\ proc[p].at = "call"
      BY <3>1, <3>2, <3>3, StartedOK
    <3> QED BY <3>4 DEF ProcOK
  <2>2. proc = [p \in Procs |-> proc[p]]
    BY <1>1
  <2>3. proc \in [Procs -> ProcType]
    BY <2>1, <2>2
  <2> QED BY <2>1, <2>3 DEF ProcsOK, FilesOpen, LocksIndex
<1>4. loose \in [Repos -> [Names -> Commits \cup {Absent, Empty}]]
  <2> DEFINE T == Commits \cup {Absent, Empty}
             none == [n \in Names |-> Absent]
             some == [main |-> IF away THEN Absent ELSE main, topic |-> topic, stash |-> <<0, 3>>]
             home == IF fresh THEN none ELSE some
             away4 == [none EXCEPT !.main = <<0, 4>>]
  <2>1. Absent \in T /\ main \in T /\ topic \in T /\ <<0, 3>> \in T /\ <<0, 4>> \in T
    BY <1>2
  <2> HIDE DEF T
  <2>2. none \in [Names -> T]
    BY <2>1
  <2>3. some \in [Names -> T]
    <3>1. Names = {"main", "topic", "stash"}
      BY DEF Names, Branches
    <3>2. some \in [{"main", "topic", "stash"} -> T]
      BY <2>1
    <3> QED BY <3>1, <3>2
  <2>4. away4 \in [Names -> T]
    BY <2>1, <2>2 DEF Names, Branches
  <2>5. loose = [local |-> home, peer |-> away4]
    BY <1>1
  <2>6. home \in [Names -> T]
    BY <2>2, <2>3
  <2> HIDE DEF home, away4
  <2>7. loose \in [Repos -> [Names -> T]]
    BY <2>4, <2>5, <2>6 DEF Repos
  <2> QED BY <2>7 DEF T
<1>5. packed \in [Repos -> [Names -> Value]]
  <2>1. NoCommit \in Value
    BY DEF NoCommit, Value
  <2>2. main \in Value
    BY <1>2
  <2> QED BY <1>1, <2>1, <2>2
<1>6. logs \in [Repos -> [Names \cup {"HEAD"} -> Seq(Value \X Value)]]
  <2>1. <<>> \in Seq(Value \X Value)
    OBVIOUS
  <2> QED BY <1>1, <2>1
<1>7. held \in [Repos -> [Names -> SUBSET Value]]
  <2>1. ASSUME NEW r \in Repos, NEW n \in Names
        PROVE  {loose[r][n]} \ {Absent} \in SUBSET Value
    <3>1. loose[r][n] # Empty
      BY <1>1, <1>2 DEF Repos, Names, Branches, Empty, Absent, Commits
    <3>2. loose[r][n] \in Commits \cup {Absent, Empty}
      BY <1>4
    <3> QED BY <1>2, <3>1, <3>2
  <2> QED BY <1>1, <2>1
<1>8. odb \in [Repos -> SUBSET Commits]
  <2> DEFINE a == IF fresh THEN {} ELSE {<<0>>, <<0, 1>>, <<0, 2>>, <<0, 3>>}
             b == {<<0>>, <<0, 4>>}
  <2>1. a \in SUBSET Commits /\ b \in SUBSET Commits /\ odb = [local |-> a, peer |-> b]
    BY <1>1, <1>2
  <2> HIDE DEF a, b
  <2> QED BY <2>1 DEF Repos
<1>9. FaultsOK
  BY <1>1, RepositoryConstants DEF FaultsOK
<1>10. TreeOK
  <2>0. main \in Value
    BY <1>2
  <2>1. <<>> \in Seq(Value) /\ Content(main) \in Seq(Value)
    BY <2>0, ContentOK
  <2>2. disk \in [{0} \cup Procs -> Seq(Value)]
    BY <1>1, <2>1
  <2>3. idx \in [Repos -> {0, NoFile} \cup Procs]
    BY <1>1 DEF Repos
  <2>4. lock \in [Repos -> {0, NoFile} \cup Procs]
    BY <1>1
  <2> QED BY <2>2, <2>3, <2>4 DEF TreeOK
<1>11. PacksOK
  <2>1. packs = [r \in Repos |-> IF gc THEN odb[r] ELSE {}]
    BY ONLY <1>1
  <2> QED BY ONLY <1>8, <2>1 DEF PacksOK
<1> QED BY <1>3, <1>4, <1>5, <1>6, <1>7, <1>8, <1>9, <1>10, <1>11 DEF TInv, Types, RefsOK, OdbOK

\* Steps on references, logs aside.
LEMMA RefSteps ==
    ASSUME Types, NEW p \in Procs, RefNext(p), UNCHANGED treeVars
    PROVE  Types' /\ AllMild /\ marks \subseteq marks' /\ UNCHANGED <<disk, idx, lock>>
<1>1. UNCHANGED <<disk, idx, lock, odb>> /\ OdbOK' /\ TreeOK'
  <2>1. UNCHANGED <<disk, idx, lock>>
    BY DEF treeVars
  <2>2. odb' = odb
    BY DEF RefNext, Lookup, ReadHead, RefSkip, RefStat, RefOld, RefOpen, RefWrite, RefLog, RmOld,
           RmUnlink, RmLog
  <2> QED BY <2>1, <2>2 DEF Types, OdbOK, TreeOK
<1>2. (Fine \/ Fault) /\ marks \subseteq marks'
  <2>1. CASE Lookup(p) \/ ReadHead(p) \/ RefSkip(p) \/ RefStat(p) \/ RefOld(p) \/ RmOld(p) \/ RmUnlink(p)
    BY <2>1 DEF Lookup, ReadHead, RefSkip, RefStat, RefOld, RmOld, RmUnlink
  <2>2. CASE RefOpen(p) \/ RefWrite(p)
    BY <2>2 DEF RefOpen, RefWrite, Mark
  <2>3. CASE RefLog(p) \/ RmLog(p)
    BY <2>3 DEF RefLog, RmLog, AddToLog, Mark
  <2> QED BY <2>1, <2>2, <2>3 DEF RefNext
<1>3. FaultsOK'
  BY <1>2, FaultOK DEF Types
<1>4. AllMild /\ RefsOK'
  <2>1. CASE Lookup(p) \/ ReadHead(p) \/ RefSkip(p) \/ RefStat(p) \/ RefOld(p) \/ RmOld(p)
    <3>1. UNCHANGED refVars
      BY <2>1 DEF Lookup, ReadHead, RefSkip, RefStat, RefOld, RmOld
    <3>2. RefsOK'
      BY <3>1 DEF Types, RefsOK, refVars
    <3>3. AllMild
      BY <2>1, LookupPlain, ReadHeadPlain, RefSkipPlain, RefStatPlain, RefOldMild, RmOldMild, PlainIsMild
    <3> QED BY <3>2, <3>3
  <2>2. CASE RefOpen(p) \/ RefWrite(p) \/ RefLog(p) \/ RmUnlink(p) \/ RmLog(p)
    BY <2>2, RefOpenMild, RefWriteMild, RefLogMild, RmUnlinkMild, RmLogMild, PlainIsMild
  <2> QED BY <2>1, <2>2 DEF RefNext
<1>5. ProcsOK'
  BY <1>4 DEF AllMild
<1> QED BY <1>1, <1>2, <1>3, <1>4, <1>5 DEF Types

\* The other steps, those on the index's lock aside.
OtherNext(p) ==
    \/ LoadTree(p) \/ TreeOpen(p) \/ FileOpen(p) \/ FileWrite(p)
    \/ Stage(p) \/ WriteTrees(p) \/ MakeCommit(p) \/ Peel(p) \/ Decide(p)
    \/ CopyList(p) \/ CopyObjects(p) \/ CopyRefs(p) \/ RemoteHead(p)
    \/ BundleRefs(p) \/ BundleRef(p) \/ BundlePack(p) \/ Unbundle(p) \/ Bundled(p)
    \/ Advert(p) \/ Request(p) \/ UnpackOne(p) \/ Receive(p)
    \/ Crash(p)

\* A step that leaves references, their logs and what is about to be logged alone.
Aside(p) ==
    /\ UNCHANGED <<loose, logs, held>>
    /\ \A q \in Procs \ {p} : proc'[q] = proc[q]
    /\ proc[p].todo # <<>> /\ Do(p).call \notin {"ref", "remove"}

\* They change no file of the index, and what they do to references is marked.
LEMMA OtherSteps ==
    ASSUME Types, NEW p \in Procs, OtherNext(p)
    PROVE  /\ Types' /\ AllPlain /\ marks \subseteq marks' /\ UNCHANGED <<disk, idx, lock>>
           /\ Aside(p) \/ Marked("unlogged")'
<1> DEFINE Goal == /\ Types' /\ AllPlain /\ marks \subseteq marks' /\ UNCHANGED <<disk, idx, lock>>
                   /\ Aside(p) \/ Marked("unlogged")'
<1>1. ASSUME AllPlain, RefsOK', OdbOK', FaultsOK', marks \subseteq marks', UNCHANGED <<disk, idx, lock>>,
             Aside(p) \/ Marked("unlogged")'
      PROVE  Goal
  <2>1. ProcsOK'
    BY <1>1 DEF AllPlain
  <2>2. TreeOK'
    BY <1>1 DEF Types, TreeOK
  <2> QED BY <1>1, <2>1, <2>2 DEF Types
<1>2. ASSUME UNCHANGED refVars, NEW t, Becomes(p, t), proc[p].todo # <<>>, Do(p).call \notin {"ref", "remove"}
      PROVE  RefsOK' /\ Aside(p)
  <2>1. RefsOK'
    BY <1>2 DEF refVars, RefsOK, Types
  <2>2. \A q \in Procs \ {p} : proc'[q] = proc[q]
    BY <1>2 DEF Becomes, Types, ProcsOK
  <2> QED BY <1>2, <2>1, <2>2 DEF refVars, Aside
<1>3. odb' = odb => OdbOK'
  BY DEF Types, OdbOK
<1>4. Fine \/ Fault => FaultsOK'
  BY FaultOK DEF Types
<1> SUFFICES Goal
  BY DEF Goal
<1> HIDE DEF Goal
<1>5. CASE LoadTree(p)
  <2>1. UNCHANGED refVars /\ UNCHANGED <<disk, idx, lock>> /\ odb' = odb /\ marks' = marks /\ (Fine \/ Fault)
    BY <1>5 DEF LoadTree, treeVars
  <2>2. proc[p].todo # <<>> /\ Do(p).call \notin {"ref", "remove"}
    BY <1>5 DEF LoadTree, Doing
  <2>3. PICK t : Becomes(p, t)
    BY <1>5 DEF LoadTree
  <2>4. RefsOK' /\ Aside(p)
    BY <1>2, <2>1, <2>2, <2>3
  <2>5. AllPlain /\ OdbOK' /\ FaultsOK' /\ marks \subseteq marks'
    BY <1>3, <1>4, <1>5, <2>1, LoadTreePlain
  <2> QED BY <1>1, <2>1, <2>4, <2>5
<1>6. CASE TreeOpen(p)
  <2>1. UNCHANGED refVars /\ UNCHANGED <<disk, idx, lock>> /\ odb' = odb /\ marks' = marks /\ (Fine \/ Fault)
    BY <1>6 DEF TreeOpen, treeVars
  <2>2. proc[p].todo # <<>> /\ Do(p).call \notin {"ref", "remove"}
    BY <1>6 DEF TreeOpen, Doing
  <2>3. PICK t : Becomes(p, t)
    BY <1>6 DEF TreeOpen
  <2>4. RefsOK' /\ Aside(p)
    BY <1>2, <2>1, <2>2, <2>3
  <2>5. AllPlain /\ OdbOK' /\ FaultsOK' /\ marks \subseteq marks'
    BY <1>3, <1>4, <1>6, <2>1, CheckoutPlain
  <2> QED BY <1>1, <2>1, <2>4, <2>5
<1>7. CASE FileOpen(p)
  <2>1. UNCHANGED refVars /\ UNCHANGED <<disk, idx, lock>> /\ odb' = odb /\ marks' = marks /\ (Fine \/ Fault)
    BY <1>7 DEF FileOpen, treeVars
  <2>2. proc[p].todo # <<>> /\ Do(p).call \notin {"ref", "remove"}
    BY <1>7 DEF FileOpen, Doing
  <2>3. PICK t : Becomes(p, t)
    BY <1>7 DEF FileOpen
  <2>4. RefsOK' /\ Aside(p)
    BY <1>2, <2>1, <2>2, <2>3
  <2>5. AllPlain /\ OdbOK' /\ FaultsOK' /\ marks \subseteq marks'
    BY <1>3, <1>4, <1>7, <2>1, CheckoutPlain
  <2> QED BY <1>1, <2>1, <2>4, <2>5
<1>8. CASE FileWrite(p)
  <2>1. UNCHANGED refVars /\ UNCHANGED <<disk, idx, lock>> /\ odb' = odb /\ marks' = marks /\ (Fine \/ Fault)
    BY <1>8 DEF FileWrite, treeVars
  <2>2. proc[p].todo # <<>> /\ Do(p).call \notin {"ref", "remove"}
    BY <1>8 DEF FileWrite, Doing
  <2>3. PICK t : Becomes(p, t)
    BY <1>8 DEF FileWrite
  <2>4. RefsOK' /\ Aside(p)
    BY <1>2, <2>1, <2>2, <2>3
  <2>5. AllPlain /\ OdbOK' /\ FaultsOK' /\ marks \subseteq marks'
    BY <1>3, <1>4, <1>8, <2>1, CheckoutPlain
  <2> QED BY <1>1, <2>1, <2>4, <2>5
<1>9. CASE Stage(p)
  <2>1. UNCHANGED refVars /\ UNCHANGED <<disk, idx, lock>>
    BY <1>9 DEF Stage, treeVars
  <2>2. proc[p].todo # <<>> /\ Do(p).call \notin {"ref", "remove"}
    BY <1>9 DEF Stage, Doing
  <2>3. PICK t : Becomes(p, t)
    BY <1>9 DEF Stage
  <2>4. RefsOK' /\ Aside(p)
    BY <1>2, <2>1, <2>2, <2>3
  <2>5. AllPlain /\ OdbOK' /\ FaultsOK' /\ marks \subseteq marks'
    BY <1>3, <1>4, <1>9, <2>1, ObjectsPlain
  <2> QED BY <1>1, <2>1, <2>4, <2>5
<1>10. CASE WriteTrees(p)
  <2>1. UNCHANGED refVars /\ UNCHANGED <<disk, idx, lock>>
    BY <1>10 DEF WriteTrees, treeVars
  <2>2. proc[p].todo # <<>> /\ Do(p).call \notin {"ref", "remove"}
    BY <1>10 DEF WriteTrees, Doing
  <2>3. PICK t : Becomes(p, t)
    BY <1>10 DEF WriteTrees
  <2>4. RefsOK' /\ Aside(p)
    BY <1>2, <2>1, <2>2, <2>3
  <2>5. AllPlain /\ OdbOK' /\ FaultsOK' /\ marks \subseteq marks'
    BY <1>3, <1>4, <1>10, <2>1, ObjectsPlain
  <2> QED BY <1>1, <2>1, <2>4, <2>5
<1>11. CASE MakeCommit(p)
  <2>1. UNCHANGED refVars /\ UNCHANGED <<disk, idx, lock>>
    BY <1>11 DEF MakeCommit, treeVars
  <2>2. proc[p].todo # <<>> /\ Do(p).call \notin {"ref", "remove"}
    BY <1>11 DEF MakeCommit, Doing
  <2>3. PICK t : Becomes(p, t)
    BY <1>11 DEF MakeCommit
  <2>4. RefsOK' /\ Aside(p)
    BY <1>2, <2>1, <2>2, <2>3
  <2>5. AllPlain /\ OdbOK' /\ FaultsOK' /\ marks \subseteq marks'
    BY <1>3, <1>4, <1>11, <2>1, MakeCommitPlain
  <2> QED BY <1>1, <2>1, <2>4, <2>5
<1>12. CASE Peel(p)
  <2>1. UNCHANGED refVars /\ UNCHANGED <<disk, idx, lock>>
    BY <1>12 DEF Peel, treeVars
  <2>2. proc[p].todo # <<>> /\ Do(p).call \notin {"ref", "remove"}
    BY <1>12 DEF Peel, Doing
  <2>3. PICK t : Becomes(p, t)
    BY <1>12 DEF Peel
  <2>4. RefsOK' /\ Aside(p)
    BY <1>2, <2>1, <2>2, <2>3
  <2>5. AllPlain /\ OdbOK' /\ FaultsOK' /\ marks \subseteq marks'
    BY <1>3, <1>4, <1>12, <2>1, ObjectsPlain
  <2> QED BY <1>1, <2>1, <2>4, <2>5
<1>13. CASE Decide(p)
  <2>1. UNCHANGED refVars /\ UNCHANGED <<disk, idx, lock>> /\ odb' = odb /\ marks' = marks /\ (Fine \/ Fault)
    BY <1>13 DEF Decide, treeVars
  <2>2. proc[p].todo # <<>> /\ Do(p).call \notin {"ref", "remove"}
    BY <1>13 DEF Decide, Doing
  <2>3. PICK t : Becomes(p, t)
    BY <1>13 DEF Decide
  <2>4. RefsOK' /\ Aside(p)
    BY <1>2, <2>1, <2>2, <2>3
  <2>5. AllPlain /\ OdbOK' /\ FaultsOK' /\ marks \subseteq marks'
    BY <1>3, <1>4, <1>13, <2>1, DecidePlain
  <2> QED BY <1>1, <2>1, <2>4, <2>5
<1>14. CASE CopyList(p)
  <2>1. UNCHANGED refVars /\ UNCHANGED <<disk, idx, lock>>
    BY <1>14 DEF CopyList, treeVars
  <2>2. proc[p].todo # <<>> /\ Do(p).call \notin {"ref", "remove"}
    BY <1>14 DEF CopyList, Doing
  <2>3. PICK t : Becomes(p, t)
    BY <1>14 DEF CopyList
  <2>4. RefsOK' /\ Aside(p)
    BY <1>2, <2>1, <2>2, <2>3
  <2>5. AllPlain /\ OdbOK' /\ FaultsOK' /\ marks \subseteq marks'
    BY <1>3, <1>4, <1>14, <2>1, CopyPlain
  <2> QED BY <1>1, <2>1, <2>4, <2>5
<1>15. CASE CopyObjects(p)
  <2>1. UNCHANGED refVars /\ UNCHANGED <<disk, idx, lock>>
    BY <1>15 DEF CopyObjects, treeVars
  <2>2. proc[p].todo # <<>> /\ Do(p).call \notin {"ref", "remove"}
    BY <1>15 DEF CopyObjects, Doing
  <2>3. PICK t : Becomes(p, t)
    BY <1>15 DEF CopyObjects
  <2>4. RefsOK' /\ Aside(p)
    BY <1>2, <2>1, <2>2, <2>3
  <2>5. AllPlain /\ OdbOK' /\ FaultsOK' /\ marks \subseteq marks'
    BY <1>3, <1>4, <1>15, <2>1, CopyPlain
  <2> QED BY <1>1, <2>1, <2>4, <2>5
<1>16. CASE CopyRefs(p)
  <2>1. UNCHANGED refVars /\ UNCHANGED <<disk, idx, lock>> /\ odb' = odb /\ marks' = marks /\ (Fine \/ Fault)
    BY <1>16 DEF CopyRefs, treeVars
  <2>2. proc[p].todo # <<>> /\ Do(p).call \notin {"ref", "remove"}
    BY <1>16 DEF CopyRefs, Doing
  <2>3. PICK t : Becomes(p, t)
    BY <1>16 DEF CopyRefs
  <2>4. RefsOK' /\ Aside(p)
    BY <1>2, <2>1, <2>2, <2>3
  <2>5. AllPlain /\ OdbOK' /\ FaultsOK' /\ marks \subseteq marks'
    BY <1>3, <1>4, <1>16, <2>1, LoopPlain
  <2> QED BY <1>1, <2>1, <2>4, <2>5
<1>17. CASE RemoteHead(p)
  <2>1. UNCHANGED refVars /\ UNCHANGED <<disk, idx, lock>> /\ odb' = odb /\ marks' = marks /\ (Fine \/ Fault)
    BY <1>17 DEF RemoteHead, treeVars
  <2>2. proc[p].todo # <<>> /\ Do(p).call \notin {"ref", "remove"}
    BY <1>17 DEF RemoteHead, Doing
  <2>3. PICK t : Becomes(p, t)
    BY <1>17 DEF RemoteHead
  <2>4. RefsOK' /\ Aside(p)
    BY <1>2, <2>1, <2>2, <2>3
  <2>5. AllPlain /\ OdbOK' /\ FaultsOK' /\ marks \subseteq marks'
    BY <1>3, <1>4, <1>17, <2>1, ValuePlain
  <2> QED BY <1>1, <2>1, <2>4, <2>5
<1>18. CASE BundleRefs(p)
  <2>1. UNCHANGED refVars /\ UNCHANGED <<disk, idx, lock>> /\ odb' = odb /\ marks' = marks /\ (Fine \/ Fault)
    BY <1>18 DEF BundleRefs, treeVars
  <2>2. proc[p].todo # <<>> /\ Do(p).call \notin {"ref", "remove"}
    BY <1>18 DEF BundleRefs, Doing
  <2>3. PICK t : Becomes(p, t)
    BY <1>18 DEF BundleRefs
  <2>4. RefsOK' /\ Aside(p)
    BY <1>2, <2>1, <2>2, <2>3
  <2>5. AllPlain /\ OdbOK' /\ FaultsOK' /\ marks \subseteq marks'
    BY <1>3, <1>4, <1>18, <2>1, LoopPlain
  <2> QED BY <1>1, <2>1, <2>4, <2>5
<1>19. CASE BundleRef(p)
  <2>1. UNCHANGED refVars /\ UNCHANGED <<disk, idx, lock>> /\ odb' = odb
    BY <1>19 DEF BundleRef, treeVars
  <2>2. proc[p].todo # <<>> /\ Do(p).call \notin {"ref", "remove"}
    BY <1>19 DEF BundleRef, Doing
  <2>3. PICK t : Becomes(p, t)
    BY <1>19 DEF BundleRef
  <2>4. RefsOK' /\ Aside(p)
    BY <1>2, <2>1, <2>2, <2>3
  <2>5. AllPlain /\ OdbOK' /\ FaultsOK' /\ marks \subseteq marks'
    BY <1>3, <1>4, <1>19, <2>1, BundlePlain
  <2> QED BY <1>1, <2>1, <2>4, <2>5
<1>20. CASE BundlePack(p)
  <2>1. UNCHANGED refVars /\ UNCHANGED <<disk, idx, lock>> /\ odb' = odb
    BY <1>20 DEF BundlePack, treeVars
  <2>2. proc[p].todo # <<>> /\ Do(p).call \notin {"ref", "remove"}
    BY <1>20 DEF BundlePack, Doing
  <2>3. PICK t : Becomes(p, t)
    BY <1>20 DEF BundlePack
  <2>4. RefsOK' /\ Aside(p)
    BY <1>2, <2>1, <2>2, <2>3
  <2>5. AllPlain /\ OdbOK' /\ FaultsOK' /\ marks \subseteq marks'
    BY <1>3, <1>4, <1>20, <2>1, BundlePlain
  <2> QED BY <1>1, <2>1, <2>4, <2>5
<1>21. CASE Unbundle(p)
  <2>1. UNCHANGED refVars /\ UNCHANGED <<disk, idx, lock>>
    BY <1>21 DEF Unbundle, treeVars
  <2>2. proc[p].todo # <<>> /\ Do(p).call \notin {"ref", "remove"}
    BY <1>21 DEF Unbundle, Doing
  <2>3. PICK t : Becomes(p, t)
    BY <1>21 DEF Unbundle
  <2>4. RefsOK' /\ Aside(p)
    BY <1>2, <2>1, <2>2, <2>3
  <2>5. AllPlain /\ OdbOK' /\ FaultsOK' /\ marks \subseteq marks'
    BY <1>3, <1>4, <1>21, <2>1, UnbundlePlain
  <2> QED BY <1>1, <2>1, <2>4, <2>5
<1>22. CASE Bundled(p)
  <2>1. UNCHANGED refVars /\ UNCHANGED <<disk, idx, lock>> /\ odb' = odb /\ marks' = marks /\ (Fine \/ Fault)
    BY <1>22 DEF Bundled, treeVars
  <2>2. proc[p].todo # <<>> /\ Do(p).call \notin {"ref", "remove"}
    BY <1>22 DEF Bundled, Doing
  <2>3. PICK t : Becomes(p, t)
    BY <1>22 DEF Bundled
  <2>4. RefsOK' /\ Aside(p)
    BY <1>2, <2>1, <2>2, <2>3
  <2>5. AllPlain /\ OdbOK' /\ FaultsOK' /\ marks \subseteq marks'
    BY <1>3, <1>4, <1>22, <2>1, ValuePlain
  <2> QED BY <1>1, <2>1, <2>4, <2>5
<1>23. CASE Advert(p)
  <2>1. UNCHANGED refVars /\ UNCHANGED <<disk, idx, lock>> /\ odb' = odb
    BY <1>23 DEF Advert, treeVars
  <2>2. proc[p].todo # <<>> /\ Do(p).call \notin {"ref", "remove"}
    BY <1>23 DEF Advert, Doing
  <2>3. PICK t : Becomes(p, t)
    BY <1>23 DEF Advert
  <2>4. RefsOK' /\ Aside(p)
    BY <1>2, <2>1, <2>2, <2>3
  <2>5. AllPlain /\ OdbOK' /\ FaultsOK' /\ marks \subseteq marks'
    BY <1>3, <1>4, <1>23, <2>1, BundlePlain
  <2> QED BY <1>1, <2>1, <2>4, <2>5
<1>24. CASE Request(p)
  <2>1. UNCHANGED refVars /\ UNCHANGED <<disk, idx, lock>> /\ odb' = odb
    BY <1>24 DEF Request, treeVars
  <2>2. proc[p].todo # <<>> /\ Do(p).call \notin {"ref", "remove"}
    BY <1>24 DEF Request, Doing
  <2>3. PICK t : Becomes(p, t)
    BY <1>24 DEF Request
  <2>4. RefsOK' /\ Aside(p)
    BY <1>2, <2>1, <2>2, <2>3
  <2>5. AllPlain /\ OdbOK' /\ FaultsOK' /\ marks \subseteq marks'
    BY <1>3, <1>4, <1>24, <2>1, RequestPlain
  <2> QED BY <1>1, <2>1, <2>4, <2>5
<1>25. CASE UnpackOne(p)
  <2>1. UNCHANGED refVars /\ UNCHANGED <<disk, idx, lock>>
    BY <1>25 DEF UnpackOne, treeVars
  <2>2. proc[p].todo # <<>> /\ Do(p).call \notin {"ref", "remove"}
    BY <1>25 DEF UnpackOne, Doing
  <2>3. PICK t : Becomes(p, t)
    BY <1>25 DEF UnpackOne
  <2>4. RefsOK' /\ Aside(p)
    BY <1>2, <2>1, <2>2, <2>3
  <2>5. AllPlain /\ OdbOK' /\ FaultsOK' /\ marks \subseteq marks'
    BY <1>3, <1>4, <1>25, <2>1, UnpackOnePlain
  <2> QED BY <1>1, <2>1, <2>4, <2>5
<1>26. CASE Receive(p)
  <2>1. UNCHANGED <<disk, idx, lock, logs>> /\ proc[p].todo # <<>> /\ Do(p).call = "receive"
    BY <1>26 DEF Receive, treeVars, Doing
  <2>2. <<"unlogged", "server">> \in marks' => Marked("unlogged")'
    BY DEF Marked
  <2>3. Aside(p) \/ Marked("unlogged")'
    BY <1>26, <2>1, <2>2, ReceivePlain DEF Aside
  <2> QED BY <1>1, <1>26, <2>1, <2>3, ReceivePlain
<1>27. CASE Crash(p)
  <2>1. UNCHANGED <<disk, idx, lock, odb>> /\ UNCHANGED refVars
    BY <1>27 DEF Crash, treeVars
  <2>2. RefsOK'
    BY <2>1 DEF refVars, RefsOK, Types
  <2>3. <<"unlogged", "crash">> \in marks' => Marked("unlogged")'
    BY DEF Marked
  <2> QED BY <1>1, <1>3, <1>27, <2>1, <2>2, <2>3, CrashPlain
<1> QED BY <1>5, <1>6, <1>7, <1>8, <1>9, <1>10, <1>11, <1>12, <1>13, <1>14, <1>15, <1>16, <1>17,
           <1>18, <1>19, <1>20, <1>21, <1>22, <1>23, <1>24, <1>25, <1>26, <1>27 DEF OtherNext

\* Steps that open no lock keep open what is open.
LEMMA MildOpen == ASSUME FilesOpen, AllMild PROVE FilesOpen'
  BY DEF FilesOpen, AllMild, Mild

\* The process that writes the index has its file open.
LEMMA HasFile ==
    ASSUME TInv, NEW p \in Procs, LocksIndex(proc[p])
    PROVE  proc[p].fd \in {0} \cup Procs
<1>1. proc[p].fd \in {0, NoFile} \cup Procs
  BY DEF TInv, Types, ProcsOK, ProcType
<1> QED BY <1>1 DEF TInv, FilesOpen

\* Steps on the index's lock.
LEMMA LockSteps ==
    ASSUME TInv, NEW p \in Procs, LockOpen(p) \/ LockWrite(p) \/ LockRename(p)
    PROVE  /\ TInv' /\ marks \subseteq marks' /\ UNCHANGED refVars
           /\ proc[p].todo # <<>> /\ Do(p).call = "index_write"
           /\ \A q \in Procs \ {p} : proc'[q] = proc[q]
           /\ proc'[p].at \notin {"open", "unlink"}
           /\ proc'[p].at = "write" => proc'[p].todo = proc[p].todo
<1>1. Types /\ FilesOpen /\ proc[p].todo # <<>> /\ Do(p).call = "index_write"
  BY DEF TInv, LockOpen, LockWrite, LockRename, Doing
<1>2. UNCHANGED refVars /\ odb' = odb /\ (Fine \/ Fault) /\ marks \subseteq marks'
  BY DEF LockOpen, LockWrite, LockRename, Mark
<1>3. RefsOK' /\ OdbOK' /\ FaultsOK'
  BY <1>1, <1>2, FaultOK DEF Types, RefsOK, OdbOK, refVars
<1>4. \A q \in Procs \ {p} : proc'[q] = proc[q]
  <2>1. PICK t : Becomes(p, t)
    BY DEF LockOpen, LockWrite, LockRename
  <2> QED BY <1>1, <2>1 DEF Becomes, Types, ProcsOK
<1>5. CASE AllPlain /\ TreeOK'
  <2>1. FilesOpen'
    BY <1>1, <1>5, PlainIsMild, MildOpen
  <2>2. ProcsOK'
    BY <1>5 DEF AllPlain
  <2>3. proc'[p].at \notin {"open", "unlink"}
    <3>1. proc'[p] = proc[p] => proc'[p].at \in {"call", "write", "rename"}
      BY DEF LockOpen, LockWrite, LockRename, Doing
    <3> QED BY <1>5, <3>1 DEF AllPlain, Plain
  <2>4. proc'[p].at = "write" => proc'[p].todo = proc[p].todo
    BY <1>1, <1>5 DEF AllPlain, Plain, Do
  <2> QED BY <1>1, <1>2, <1>3, <1>4, <1>5, <2>1, <2>2, <2>3, <2>4 DEF TInv, Types
<1>6. CASE /\ ProcsOK' /\ TreeOK' /\ proc'[p].at \in {"write", "rename"} /\ proc'[p].fd # NoFile
           /\ proc'[p].todo = proc[p].todo
  <2>1. FilesOpen'
    BY <1>1, <1>4, <1>6 DEF FilesOpen
  <2> QED BY <1>1, <1>2, <1>3, <1>4, <1>6, <2>1 DEF TInv, Types
<1>7. CASE LockOpen(p)
  <2>1. Inode(p) # NoFile
    BY ProcsAssumption DEF Inode, NoFile
  <2> QED BY <1>1, <1>5, <1>6, <1>7, <2>1, LockOpenOK
<1>8. CASE LockWrite(p)
  <2>1. LocksIndex(proc[p])
    BY <1>8 DEF LockWrite, Doing, Do, LocksIndex
  <2>2. proc[p].fd \in {0} \cup Procs
    BY <2>1, HasFile
  <2>3. proc[p].fd # NoFile
    BY <2>2, ProcsAssumption DEF NoFile
  <2> QED BY <1>1, <1>5, <1>6, <1>8, <2>2, <2>3, LockWriteOK
<1>9. CASE LockRename(p)
  BY <1>1, <1>5, <1>9, LockRenameOK
<1> QED BY <1>7, <1>8, <1>9

\* Every step is one on references, one on the lock or another.
LEMMA NextSplit ==
    ASSUME Next
    PROVE  \E p \in Procs : \/ RefNext(p) /\ UNCHANGED treeVars
                            \/ LockOpen(p) \/ LockWrite(p) \/ LockRename(p)
                            \/ OtherNext(p)
  BY DEF Next, TreeNext, OtherNext

\* The types are kept by every step.
LEMMA TypeStep == ASSUME TInv, [Next]_vars PROVE TInv'
<1>1. CASE UNCHANGED vars
  BY <1>1 DEF vars, refVars, treeVars, TInv, Types, ProcsOK, RefsOK, OdbOK, FaultsOK, TreeOK, FilesOpen
<1>2. CASE Next
  <2>1. PICK p \in Procs : \/ RefNext(p) /\ UNCHANGED treeVars
                           \/ LockOpen(p) \/ LockWrite(p) \/ LockRename(p)
                           \/ OtherNext(p)
    BY <1>2, NextSplit
  <2>2. Types /\ FilesOpen
    BY DEF TInv
  <2>3. CASE RefNext(p) /\ UNCHANGED treeVars
    BY <2>2, <2>3, RefSteps, MildOpen DEF TInv
  <2>4. CASE OtherNext(p)
    BY <2>2, <2>4, OtherSteps, PlainIsMild, MildOpen DEF TInv
  <2>5. CASE LockOpen(p) \/ LockWrite(p) \/ LockRename(p)
    BY <2>5, LockSteps
  <2> QED BY <2>1, <2>3, <2>4, <2>5
<1> QED BY <1>1, <1>2

\* The types hold throughout every behaviour.
LEMMA Typing == Spec => []TInv
<1>1. Init => TInv
  BY InitTypes
<1>2. TInv /\ [Next]_vars => TInv'
  BY TypeStep
<1> QED BY <1>1, <1>2, PTL DEF Spec

\* Storing objects takes some out of the packs' sole care, and nothing puts objects there
\* that are not stored.
LEMMA StorePacks ==
    ASSUME TInv, PacksOK, NEW r \in Repos, NEW new, Store(r, new)
    PROVE  PacksOK'
<1>1. odb \in [Repos -> SUBSET Commits]
  BY DEF TInv, Types, OdbOK
<1>2. packs' = [packs EXCEPT ![r] = @ \ new] /\ \E gain : odb' = [odb EXCEPT ![r] = @ \cup gain]
  BY DEF Store
<1>3. packs' \in [Repos -> SUBSET Commits]
  BY <1>2 DEF PacksOK
<1>4. \A s \in Repos : packs'[s] \subseteq packs[s] /\ odb[s] \subseteq odb'[s]
  BY <1>1, <1>2 DEF PacksOK
<1> QED BY <1>3, <1>4 DEF PacksOK

\* No step leaves an object in packs only that is not stored.
LEMMA PacksStep == ASSUME TInv, PacksOK, [Next]_vars PROVE PacksOK'
<1>1. odb \in [Repos -> SUBSET Commits]
  BY DEF TInv, Types, OdbOK
<1>2. CASE UNCHANGED <<odb, packs>>
  BY <1>2 DEF PacksOK
<1>3. ASSUME NEW p \in Procs, proc[p].todo # <<>>, NEW new, Store(Do(p).repo, new) PROVE PacksOK'
  <2>1. Do(p).repo \in Repos
    BY <1>3, DoOK DEF TInv, Types
  <2> QED BY <1>3, <2>1, StorePacks
<1>4. ASSUME NEW p \in Procs, Receive(p) PROVE PacksOK'
  <2>1. packs' = packs /\ (UNCHANGED odb \/ \E all : odb' = [odb EXCEPT ![Do(p).repo] =
                                                             @ \cup all])
    <3>1. packs' = packs
      BY <1>4 DEF Receive
    <3>2. \/ UNCHANGED odb
          \/ \E done : odb' = [odb EXCEPT ![Do(p).repo] =
                               IF done = {} THEN @ ELSE odb[Do(p).repo] \cup proc[p].list]
      BY <1>4, Zenon DEF Receive
    <3>3. ASSUME NEW done, odb' = [odb EXCEPT ![Do(p).repo] =
                                     IF done = {} THEN @ ELSE odb[Do(p).repo] \cup proc[p].list]
          PROVE  \E all : odb' = [odb EXCEPT ![Do(p).repo] = @ \cup all]
      <4>1. CASE done = {}
        <5>1. odb' = [odb EXCEPT ![Do(p).repo] = @ \cup {}]
          BY <3>3, <4>1
        <5> QED BY <5>1
      <4>2. CASE done # {}
        BY <3>3, <4>2
      <4> QED BY <4>1, <4>2
    <3> QED BY <3>1, <3>2, <3>3
  <2>2. \A s \in Repos : odb[s] \subseteq odb'[s]
    BY <1>1, <2>1
  <2>3. \A s \in Repos : packs'[s] \subseteq odb'[s]
    BY <2>1, <2>2 DEF PacksOK
  <2> QED BY <2>1, <2>3 DEF PacksOK
<1>5. CASE UNCHANGED vars
  BY <1>2, <1>5 DEF vars
<1>6. ASSUME NEW p \in Procs, RefNext(p) \/ TreeNext(p), UNCHANGED packs PROVE PacksOK'
  <2>1. UNCHANGED odb
    BY <1>6 DEF RefNext, TreeNext, Lookup, ReadHead, RefSkip, RefStat, RefOld, RefOpen, RefWrite,
       RefLog, RmOld, RmUnlink, RmLog, LoadTree, TreeOpen, FileOpen, FileWrite, LockOpen,
       LockWrite, LockRename
  <2> QED BY <1>2, <1>6, <2>1
<1>7. ASSUME NEW p \in Procs, Stage(p) \/ MakeCommit(p) \/ CopyObjects(p) PROVE PacksOK'
  BY <1>3, <1>7 DEF Stage, MakeCommit, CopyObjects, Doing
<1>8. ASSUME NEW p \in Procs, Unbundle(p) \/ UnpackOne(p) PROVE PacksOK'
  BY <1>2, <1>3, <1>8 DEF Unbundle, UnpackOne, Doing
<1>9. ASSUME NEW p \in Procs,
             \/ WriteTrees(p) \/ Peel(p) \/ Decide(p) \/ CopyList(p) \/ CopyRefs(p) \/ RemoteHead(p)
             \/ BundleRefs(p) \/ BundleRef(p) \/ BundlePack(p) \/ Bundled(p)
             \/ Advert(p) \/ Request(p) \/ Crash(p)
      PROVE  PacksOK'
  BY <1>2, <1>9 DEF WriteTrees, Peel, Decide, CopyList, CopyRefs, RemoteHead, BundleRefs, BundleRef,
     BundlePack, Bundled, Advert, Request, Crash
<1> QED BY <1>4, <1>5, <1>6, <1>7, <1>8, <1>9 DEF Next

\* In every state a process's values are commits or nothing - what a lookup returned is
\* never what a truncated reference file holds (repository.c:281) - a command has a
\* result exactly when it has no calls left, and the index and its lock are files that
\* some process has created, however many processes, faults and crashes there are.
THEOREM TypeCorrect == Spec => []TypeOK
<1>1. TInv /\ PacksOK => TypeOK
  <2> SUFFICES ASSUME TInv, PacksOK PROVE TypeOK
    OBVIOUS
  <2>1. Types /\ Value = Commits \cup {NoCommit}
    <3>1. <<>> \in Seq(Nat)
      OBVIOUS
    <3> QED BY <3>1 DEF TInv, Value, Commits, NoCommit
  <2>2. DOMAIN disk = {0} \cup Procs
    BY <2>1 DEF Types, TreeOK
  <2>3. ASSUME NEW p \in Procs
        PROVE  /\ {proc[p].val, proc[p].head, proc[p].old, proc[p].mem} \subseteq Commits \cup {NoCommit}
               /\ proc[p].result \in {"none", "ok", "error", "crashed"}
               /\ proc[p].todo = <<>> <=> proc[p].result # "none"
               /\ proc[p].fd \in DOMAIN disk \cup {NoFile}
    <3>1. ProcOK(proc[p]) /\ proc[p] \in ProcType
      BY <2>1 DEF Types, ProcsOK
    <3>2. /\ proc[p].val \in Value /\ proc[p].head \in Value /\ proc[p].old \in Value
          /\ proc[p].mem \in Value /\ proc[p].fd \in {0, NoFile} \cup Procs
          /\ proc[p].result \in {"none", "ok", "error", "crashed"}
      BY <3>1 DEF ProcType
    <3>3. proc[p].todo = <<>> <=> proc[p].result # "none"
      BY <3>1 DEF ProcOK
    <3> QED BY <2>1, <2>2, <3>2, <3>3
  <2>4. ASSUME NEW r \in Repos
        PROVE  /\ odb[r] \subseteq Commits /\ packs[r] \subseteq odb[r]
               /\ {idx[r], lock[r]} \subseteq DOMAIN disk \cup {NoFile}
               /\ \A n \in Names : loose[r][n] \in Commits \cup {Absent, Empty}
    BY <2>1, <2>2 DEF Types, OdbOK, PacksOK, TreeOK, RefsOK
  <2>5. faults \in 0..MaxFaults
    BY <2>1 DEF Types, FaultsOK
  <2> QED BY <2>3, <2>4, <2>5 DEF TypeOK
<1>2. Init => PacksOK
  BY InitTypes
<1>3. TInv /\ PacksOK /\ [Next]_vars => PacksOK'
  BY PacksStep
<1> QED BY <1>1, <1>2, <1>3, Typing, PTL DEF Spec

-----------------------------------------------------------------------------
(* What commands overwrite.                                                *)

\* What a process has seen and is about to overwrite, it descends from.
LEMMA Descends ==
    ASSUME TInv, NEW p \in Procs, Doing(p, "ref", "open"), IsCommit(RefFile(p)),
           proc[p].cmd \in {"branch", "commit", "merge", "rebase"}
    PROVE  proc[p].seen # RefFile(p) \/ IsPrefix(RefFile(p), proc[p].val)
<1> DEFINE s == proc[p]
<1> SUFFICES ASSUME s.seen = RefFile(p) PROVE IsPrefix(s.seen, s.val)
  OBVIOUS
<1>1. s.todo # <<>> /\ s.todo[1].call = "ref" /\ ProcsOK
  BY DEF Doing, Do, TInv, Types
<1>2. ProcOK(s) /\ s \in ProcType /\ "ref" \in Kinds(s.todo) /\ s.todo \in Seq(CallType)
  BY <1>1, DoOK DEF Do, ProcType
<1>3. 1 \in 1..Len(s.todo)
  BY <1>1, <1>2, EmptySeq
<1>4. IsCommit(s.seen) /\ s.seen # NoCommit /\ s.seen # Absent
  BY DEF IsCommit, Absent
<1> HIDE DEF s
<1>5. Sees(s) /\ s.cmd \in {"branch", "commit", "merge", "rebase"}
  BY <1>2 DEF ProcOK, s
<1>6. CASE s.cmd = "branch"
  BY <1>4, <1>5, <1>6 DEF Sees, BranchSees
<1>7. CASE s.cmd = "commit"
  BY <1>1, <1>3, <1>4, <1>5, <1>7 DEF Sees, CommitSees
<1>8. CASE s.cmd \in {"merge", "rebase"}
  BY <1>2, <1>4, <1>5, <1>8 DEF Sees, MergeSees
<1> QED BY <1>5, <1>6, <1>7, <1>8

\* branch, commit, merge and rebase never replace a value they have seen by one that
\* does not descend from it, whatever the other processes do between their looking and
\* their writing (repository.c:395, merge.c:60).
THEOREM DescentCorrect == Spec => NoLostCommits
<1> DEFINE A == \A p \in Procs :
                   (Doing(p, "ref", "open") /\ proc'[p].at = "write" /\ IsCommit(RefFile(p))
                       /\ proc[p].cmd \in {"branch", "commit", "merge", "rebase"})
                   => proc[p].seen # RefFile(p) \/ IsPrefix(RefFile(p), proc[p].val)
<1>1. TInv => A
  BY Descends
<1> HIDE DEF A
<1>2. Spec => [][A]_vars
  BY <1>1, Typing, PTL
<1> QED BY <1>2 DEF NoLostCommits, A

-----------------------------------------------------------------------------
(* The logs of references.                                                 *)
(*                                                                         *)
(* A value that a reference's file has named is in the log, or a process   *)
(* that has replaced or removed it still has it to log, or it is what the  *)
(* file holds.  In the last case whoever is about to truncate or unlink    *)
(* the file has read just this value, and nobody has the file open that    *)
(* truncated it before: otherwise the value could go without a trace.      *)

\* A process in state s is at the given step of a call on reference n of r.
On(s, call, at, r, n) ==
    /\ s.todo # <<>> /\ s.todo[1].call = call /\ s.at = at
    /\ s.todo[1].repo = r /\ FileOf(s.todo[1].name) = n

\* It has h to log; it does no harm to h, which the file holds.
Pending(s, r, n, h) ==
    \/ On(s, "ref", "log", r, n) /\ h \in {s.val, s.old}
    \/ On(s, "ref", "write", r, n) /\ h = s.old
    \/ On(s, "remove", "log", r, n) /\ h = s.old
Steady(s, r, n, h) ==
    /\ On(s, "ref", "open", r, n) => s.old = h
    /\ On(s, "remove", "unlink", r, n) => s.old = h
    /\ On(s, "ref", "write", r, n) => s.lost

Known(r, n, h) ==
    \/ h \in Logged(r, n)
    \/ \E p \in Procs : Pending(proc[p], r, n, h)
    \/ loose[r][n] = h /\ \A p \in Procs : Steady(proc[p], r, n, h)
Remembered == \A r \in Repos, n \in Names : \A h \in held[r][n] : Known(r, n, h)
LInv == TInv /\ (~Marked("unlogged") => Remembered)

-----------------------------------------------------------------------------
(* Logs.                                                                   *)

\* What a log has, by its entries.
LEMMA LoggedIs ==
    ASSUME NEW r, NEW n, NEW h
    PROVE  h \in Logged(r, n) <=>
               \/ \E i \in DOMAIN logs[r][n] : h \in {logs[r][n][i][1], logs[r][n][i][2]}
               \/ n = "main" /\ \E i \in DOMAIN logs[r]["HEAD"] :
                                    h \in {logs[r]["HEAD"][i][1], logs[r]["HEAD"][i][2]}
  BY DEF Logged, ToSet

\* And after a step.
LEMMA LoggedNext ==
    ASSUME NEW r, NEW n, NEW h
    PROVE  (h \in Logged(r, n))' <=>
               \/ \E i \in DOMAIN logs'[r][n] : h \in {logs'[r][n][i][1], logs'[r][n][i][2]}
               \/ n = "main" /\ \E i \in DOMAIN logs'[r]["HEAD"] :
                                    h \in {logs'[r]["HEAD"][i][1], logs'[r]["HEAD"][i][2]}
  BY DEF Logged, ToSet

\* Appending to a log: nothing is forgotten, the entry's two values are there.
LEMMA LogGrows ==
    ASSUME RefsOK, NEW x \in Repos, NEW m \in Names \cup {"HEAD"}, NEW old \in Value, NEW new \in Value,
           logs' = [logs EXCEPT ![x][m] = Append(@, <<old, new>>)]
    PROVE  /\ \A r \in Repos, n \in Names : \A h : h \in Logged(r, n) => (h \in Logged(r, n))'
           /\ \A h \in {old, new} : (h \in Logged(x, FileOf(m)))'
<1> DEFINE L == Seq(Value \X Value)
           M == Names \cup {"HEAD"}
           new2 == Append(logs[x][m], <<old, new>>)
<1>1. logs \in [Repos -> [M -> L]]
  BY DEF RefsOK
<1>2. logs[x][m] \in L
  BY <1>1
<1>3. new2 \in L /\ Len(new2) = Len(logs[x][m]) + 1 /\ new2[Len(new2)] = <<old, new>>
      /\ \A i \in DOMAIN logs[x][m] : i \in DOMAIN new2 /\ new2[i] = logs[x][m][i]
  BY <1>2
<1>4. logs' = [logs EXCEPT ![x][m] = new2]
  OBVIOUS
<1>5. \A r \in Repos, n \in M : logs'[r][n] = IF r = x /\ n = m THEN new2 ELSE logs[r][n]
  <2> HIDE DEF L, M, new2
  <2>1. m \in M /\ new2 \in L
    BY <1>3 DEF M
  <2>2. \A r \in Repos, n \in M :
            [logs EXCEPT ![x][m] = new2][r][n] = IF r = x /\ n = m THEN new2 ELSE logs[r][n]
    BY <1>1, <2>1, Entry
  <2> QED BY <1>4, <2>2
<1>6. ASSUME NEW r \in Repos, NEW n \in M, NEW i \in DOMAIN logs[r][n]
      PROVE  i \in DOMAIN logs'[r][n] /\ logs'[r][n][i] = logs[r][n][i]
  BY <1>3, <1>5
<1>7. Len(new2) \in DOMAIN logs'[x][m] /\ logs'[x][m][Len(new2)] = <<old, new>>
  <2>1. logs'[x][m] = new2
    BY <1>5
  <2>2. Len(new2) \in 1..Len(new2)
    BY <1>2, <1>3
  <2> QED BY <1>3, <2>1, <2>2
<1> HIDE DEF new2, L
<1>8. ASSUME NEW r \in Repos, NEW n \in Names, NEW h, h \in Logged(r, n) PROVE (h \in Logged(r, n))'
  <2>1. CASE \E i \in DOMAIN logs[r][n] : h \in {logs[r][n][i][1], logs[r][n][i][2]}
    <3>1. \E i \in DOMAIN logs'[r][n] : h \in {logs'[r][n][i][1], logs'[r][n][i][2]}
      BY <1>6, <2>1
    <3> QED BY <3>1, LoggedNext
  <2>2. CASE n = "main" /\ \E i \in DOMAIN logs[r]["HEAD"] :
                               h \in {logs[r]["HEAD"][i][1], logs[r]["HEAD"][i][2]}
    <3>1. \E i \in DOMAIN logs'[r]["HEAD"] : h \in {logs'[r]["HEAD"][i][1], logs'[r]["HEAD"][i][2]}
      BY <1>6, <2>2
    <3> QED BY <2>2, <3>1, LoggedNext
  <2> QED BY <1>8, <2>1, <2>2, LoggedIs
<1>9. ASSUME NEW h \in {old, new} PROVE (h \in Logged(x, FileOf(m)))'
  <2>1. \E i \in DOMAIN logs'[x][m] : h \in {logs'[x][m][i][1], logs'[x][m][i][2]}
    BY <1>7
  <2> PICK k : k = FileOf(m)
    OBVIOUS
  <2>2. m = k \/ (m = "HEAD" /\ k = "main")
    BY DEF FileOf
  <2>3. CASE m = k
    <3>1. (h \in Logged(x, m))'
      BY <2>1, LoggedNext
    <3> QED BY <2>3, <3>1
  <2>4. CASE m = "HEAD" /\ k = "main"
    <3>1. \E i \in DOMAIN logs'[x]["HEAD"] : h \in {logs'[x]["HEAD"][i][1], logs'[x]["HEAD"][i][2]}
      BY <2>1, <2>4
    <3>2. (h \in Logged(x, k))'
      BY <2>4, <3>1, LoggedNext
    <3> QED BY <3>2
  <2> QED BY <2>2, <2>3, <2>4
<1> QED BY <1>8, <1>9

-----------------------------------------------------------------------------
(* Steps.                                                                  *)

\* What has to be shown of a step of p, when others go on as they are: nothing logged
\* is forgotten, what p had to log it has still or has logged, what the file held it
\* still holds or p has it to log, and so it is with what the file newly holds.
LEMMA Carries ==
    ASSUME Types, Remembered, NEW p \in Procs,
           \A q \in Procs \ {p}, r \in Repos, n \in Names : \A h :
               /\ Pending(proc[q], r, n, h) => Pending(proc'[q], r, n, h)
               /\ Steady(proc[q], r, n, h) => Steady(proc'[q], r, n, h),
           \A r \in Repos, n \in Names : \A h :
               /\ h \in Logged(r, n) => (h \in Logged(r, n))'
               /\ Pending(proc[p], r, n, h) => Pending(proc'[p], r, n, h) \/ (h \in Logged(r, n))',
           \A r \in Repos, n \in Names : \A h \in Commits :
               loose[r][n] = h /\ Steady(proc[p], r, n, h) =>
                   \/ Pending(proc'[p], r, n, h)
                   \/ loose'[r][n] = h /\ Steady(proc'[p], r, n, h),
           \A r \in Repos, n \in Names : \A h \in held'[r][n] :
               h \in held[r][n] \/ Pending(proc'[p], r, n, h)
    PROVE  Remembered'
<1> SUFFICES ASSUME NEW r \in Repos, NEW n \in Names, NEW h \in held'[r][n]
             PROVE  Known(r, n, h)'
  BY DEF Remembered
<1>1. CASE Pending(proc'[p], r, n, h)
  BY <1>1 DEF Known
<1>2. CASE (h \in Logged(r, n))'
  BY <1>2 DEF Known
<1>3. CASE h \in held[r][n] /\ ~Pending(proc'[p], r, n, h)
  <2>1. Known(r, n, h)
    BY <1>3 DEF Remembered
  <2>2. CASE h \in Logged(r, n)
    BY <1>2, <2>2
  <2>3. CASE \E q \in Procs : Pending(proc[q], r, n, h)
    <3>1. PICK q \in Procs : Pending(proc[q], r, n, h)
      BY <2>3
    <3>2. CASE q = p
      BY <1>2, <1>3, <3>1, <3>2
    <3>3. CASE q # p
      <4>1. Pending(proc'[q], r, n, h)
        BY <3>1, <3>3
      <4> QED BY <4>1 DEF Known
    <3> QED BY <3>2, <3>3
  <2>4. CASE loose[r][n] = h /\ \A q \in Procs : Steady(proc[q], r, n, h)
    <3>1. h \in Commits
      <4>1. h \in Value /\ loose[r][n] \in Commits \cup {Absent, Empty}
        BY <1>3 DEF Types, RefsOK
      <4> QED BY <2>4, <4>1 DEF Value, Commits, Absent, Empty
    <3>2. loose'[r][n] = h /\ Steady(proc'[p], r, n, h)
      BY <1>3, <2>4, <3>1
    <3>3. \A q \in Procs : Steady(proc'[q], r, n, h)
      BY <2>4, <3>2
    <3> QED BY <3>2, <3>3 DEF Known
  <2> QED BY <2>1, <2>2, <2>3, <2>4 DEF Known
<1> QED BY <1>1, <1>3

\* A step that touches no reference and no log, of a process that has nothing to log.
LEMMA Calm ==
    ASSUME Types, Remembered, NEW p \in Procs, UNCHANGED <<loose, logs, held>>,
           \A q \in Procs \ {p} : proc'[q] = proc[q],
           \A r \in Repos, n \in Names : \A h : ~Pending(proc[p], r, n, h),
           \A r \in Repos, n \in Names : \A h \in Commits :
               loose[r][n] = h /\ Steady(proc[p], r, n, h) => Steady(proc'[p], r, n, h)
    PROVE  Remembered'
<1>1. \A r \in Repos, n \in Names : \A h : h \in Logged(r, n) => (h \in Logged(r, n))'
  BY LoggedIs, LoggedNext
<1> QED BY <1>1, Carries

\* Steps on neither references nor the index's lock.
LEMMA OtherLogs ==
    ASSUME Types, Remembered, NEW p \in Procs, OtherNext(p)
    PROVE  Remembered' \/ Marked("unlogged")'
<1>1. AllPlain /\ (Aside(p) \/ Marked("unlogged")')
  BY OtherSteps
<1>2. CASE Aside(p)
  <2>1. /\ UNCHANGED <<loose, logs, held>> /\ proc[p].todo[1].call \notin {"ref", "remove"}
        /\ \A q \in Procs \ {p} : proc'[q] = proc[q]
    BY <1>2 DEF Aside, Do
  <2>2. \A r \in Repos, n \in Names : \A h : ~Pending(proc[p], r, n, h)
    BY <2>1 DEF Pending, On
  <2>3. proc'[p] = proc[p] \/ Plain(proc[p], proc'[p])
    BY <1>1 DEF AllPlain
  <2>4. \A r \in Repos, n \in Names : \A h \in Commits : Steady(proc'[p], r, n, h)
    BY <2>1, <2>3 DEF Steady, On, Plain
  <2> QED BY <2>1, <2>2, <2>4, Calm
<1> QED BY <1>1, <1>2

\* Steps on the index's lock.
LEMMA LockLogs ==
    ASSUME TInv, Remembered, NEW p \in Procs, LockOpen(p) \/ LockWrite(p) \/ LockRename(p)
    PROVE  Remembered'
<1>1. /\ UNCHANGED <<loose, logs, held>> /\ proc[p].todo[1].call = "index_write" /\ Types
      /\ \A q \in Procs \ {p} : proc'[q] = proc[q]
      /\ proc'[p].at \notin {"open", "unlink"}
      /\ proc'[p].at = "write" => proc'[p].todo = proc[p].todo
  BY LockSteps DEF Do, refVars, TInv
<1>2. \A r \in Repos, n \in Names : \A h : ~Pending(proc[p], r, n, h)
  BY <1>1 DEF Pending, On
<1>3. \A r \in Repos, n \in Names : \A h \in Commits : Steady(proc'[p], r, n, h)
  BY <1>1 DEF Steady, On
<1> QED BY <1>1, <1>2, <1>3, Calm

\* Looking references up.
LEMMA ReadLogs ==
    ASSUME Types, Remembered, NEW p \in Procs, Lookup(p) \/ ReadHead(p) \/ RefSkip(p) \/ RefStat(p)
    PROVE  Remembered'
<1>1. UNCHANGED <<loose, logs, held>> /\ proc[p].at = "call"
  BY DEF Lookup, ReadHead, RefSkip, RefStat, refVars, Doing
<1>2. \A q \in Procs \ {p} : proc'[q] = proc[q]
  <2>1. PICK t : Becomes(p, t)
    BY DEF Lookup, ReadHead, RefSkip, RefStat
  <2> QED BY <2>1 DEF Becomes, Types, ProcsOK
<1>3. \A r \in Repos, n \in Names : \A h : ~Pending(proc[p], r, n, h)
  BY <1>1 DEF Pending, On
<1>4. proc'[p] = proc[p] \/ Plain(proc[p], proc'[p])
  BY LookupPlain, ReadHeadPlain, RefSkipPlain, RefStatPlain DEF AllPlain
<1>5. \A r \in Repos, n \in Names : \A h \in Commits : Steady(proc'[p], r, n, h)
  BY <1>1, <1>4 DEF Steady, On, Plain
<1> QED BY <1>1, <1>2, <1>3, <1>5, Calm

\* Reading the old value: it is what the file holds.
LEMMA OldLogs ==
    ASSUME Types, Remembered, NEW p \in Procs, RefOld(p) \/ RmOld(p)
    PROVE  Remembered'
<1>1. /\ UNCHANGED <<loose, logs, held>> /\ proc[p].at \in {"call", "old"}
      /\ proc[p].todo # <<>> /\ Do(p).call \in {"ref", "remove"}
  BY DEF RefOld, RmOld, refVars, Doing
<1>2. PICK at : Becomes(p, [Goes(proc[p], at) EXCEPT !.old = Resolve(Do(p).repo, Do(p).name)])
  BY DEF RefOld, RmOld
<1>3. proc[p] \in ProcType
  BY DEF Types, ProcsOK
<1>4. /\ \A q \in Procs \ {p} : proc'[q] = proc[q]
      /\ proc'[p] = [Goes(proc[p], at) EXCEPT !.old = Resolve(Do(p).repo, Do(p).name)]
  BY <1>2 DEF Becomes, Types, ProcsOK
<1>5. proc'[p].todo = proc[p].todo /\ proc'[p].at = at /\ proc'[p].old = Resolve(Do(p).repo, Do(p).name)
  BY <1>3, <1>4 DEF Goes, ProcType
<1>6. at \in {"open", "unlink"}
  <2>1. proc'[p].at \in {"open", "unlink"}
    <3>1. proc[p] \in ProcType /\ ProcsOK
      BY DEF Types, ProcsOK
    <3>2. CASE RefOld(p)
      BY <3>1, <3>2 DEF RefOld, Becomes, Goes, ProcsOK, ProcType
    <3>3. CASE RmOld(p)
      BY <3>1, <3>3 DEF RmOld, Becomes, Goes, ProcsOK, ProcType
    <3> QED BY <3>2, <3>3
  <2> QED BY <1>5, <2>1
<1>7. \A r \in Repos, n \in Names : \A h : ~Pending(proc[p], r, n, h)
  BY <1>1 DEF Pending, On
<1>8. ASSUME NEW r \in Repos, NEW n \in Names, NEW h \in Commits, loose[r][n] = h
      PROVE  Steady(proc'[p], r, n, h)
  <2>1. IsCommit(h)
    BY DEF IsCommit, Commits, NoCommit
  <2>2. Do(p).repo = r /\ FileOf(Do(p).name) = n => proc'[p].old = h
    BY <1>5, <1>8, <2>1 DEF Resolve
  <2> QED BY <1>5, <1>6, <2>2 DEF Steady, On, Do
<1> QED BY <1>1, <1>4, <1>7, <1>8, Calm

\* A step within a call.
LEMMA GoesIs ==
    ASSUME NEW s \in ProcType, NEW at
    PROVE  /\ Goes(s, at).at = at /\ Goes(s, at).todo = s.todo /\ Goes(s, at).old = s.old
           /\ Goes(s, at).val = s.val /\ Goes(s, at).lost = s.lost
  BY DEF Goes, ProcType

\* An assignment to the reference that p's call is about.
LEMMA SetRefIs ==
    ASSUME Types, NEW p \in Procs, proc[p].todo # <<>>, Do(p).call \in {"ref", "remove"},
           NEW v \in Commits \cup {Absent, Empty}, SetRef(p, v)
    PROVE  \A r \in Repos, n \in Names :
               loose'[r][n] = IF r = Do(p).repo /\ n = FileOf(Do(p).name) THEN v ELSE loose[r][n]
<1> DEFINE C == Commits \cup {Absent, Empty}
           x == Do(p).repo
           m == FileOf(Do(p).name)
<1>1. loose \in [Repos -> [Names -> C]] /\ v \in C
  BY DEF Types, RefsOK
<1>2. x \in Repos /\ m \in Names
  BY DoOK DEF Types
<1>3. loose' = [loose EXCEPT ![x][m] = v]
  BY DEF SetRef
<1> HIDE DEF C, x, m
<1>4. \A r \in Repos, n \in Names :
          [loose EXCEPT ![x][m] = v][r][n] = IF r = x /\ n = m THEN v ELSE loose[r][n]
  BY <1>1, <1>2, Entry
<1>5. \A r \in Repos, n \in Names : loose'[r][n] = IF r = x /\ n = m THEN v ELSE loose[r][n]
  BY <1>3, <1>4
<1> QED BY <1>5 DEF x, m

\* Truncating the file: what it held has been read.
LEMMA OpenLogs ==
    ASSUME Types, Remembered, NEW p \in Procs, RefOpen(p)
    PROVE  Remembered'
<1>1. /\ UNCHANGED <<logs, held>> /\ proc[p].todo # <<>> /\ Do(p).call = "ref" /\ proc[p].at = "open"
      /\ proc[p] \in ProcType
  BY DEF RefOpen, Doing, Types, ProcsOK
<1>2. \A r \in Repos, n \in Names : \A h : ~Pending(proc[p], r, n, h)
  BY <1>1 DEF Pending, On
<1>3. \A r \in Repos, n \in Names : \A h : h \in Logged(r, n) => (h \in Logged(r, n))'
  BY <1>1, LoggedIs, LoggedNext
<1>4. CASE SetRef(p, Empty) /\ Becomes(p, Goes(proc[p], "write"))
  <2>1. \A q \in Procs : proc'[q] = IF q = p THEN Goes(proc[p], "write") ELSE proc[q]
    BY <1>4 DEF Becomes, Types, ProcsOK
  <2>2. proc'[p].at = "write" /\ proc'[p].todo = proc[p].todo /\ proc'[p].old = proc[p].old
    BY <1>1, <2>1, GoesIs
  <2>3. \A r \in Repos, n \in Names :
            loose'[r][n] = IF r = Do(p).repo /\ n = FileOf(Do(p).name) THEN Empty ELSE loose[r][n]
    BY <1>1, <1>4, SetRefIs
  <2>4. ASSUME NEW r \in Repos, NEW n \in Names, NEW h \in Commits, loose[r][n] = h,
               Steady(proc[p], r, n, h)
        PROVE  \/ Pending(proc'[p], r, n, h)
               \/ loose'[r][n] = h /\ Steady(proc'[p], r, n, h)
    BY <1>1, <2>2, <2>3, <2>4 DEF Steady, Pending, On, Do
  <2> QED BY <1>1, <1>2, <1>3, <2>1, <2>4, Carries
<1>5. CASE Becomes(p, Failed(proc[p])) /\ UNCHANGED loose
  <2>1. \A q \in Procs : proc'[q] = IF q = p THEN Failed(proc[p]) ELSE proc[q]
    BY <1>5 DEF Becomes, Types, ProcsOK
  <2>2. proc'[p].at = "call"
    BY <1>1, <2>1, BackToCall
  <2>3. \A r \in Repos, n \in Names : \A h \in Commits : Steady(proc'[p], r, n, h)
    BY <2>2 DEF Steady, On
  <2> QED BY <1>1, <1>2, <1>5, <2>1, <2>3, Calm
<1> QED BY <1>4, <1>5 DEF RefOpen

\* Writing the file: the new value is logged next; what the file held since it was
\* truncated came from a process that has logged it or will.
LEMMA WriteLogs ==
    ASSUME Types, Remembered, NEW p \in Procs, RefWrite(p)
    PROVE  Remembered'
<1>1. /\ logs' = logs /\ proc[p].todo # <<>> /\ Do(p).call = "ref" /\ proc[p].at = "write"
      /\ proc[p] \in ProcType /\ Becomes(p, Goes(proc[p], "log"))
  BY DEF RefWrite, Doing, Types, ProcsOK
<1>2. Do(p).repo \in Repos /\ FileOf(Do(p).name) \in Names /\ ProcOK(proc[p])
  BY <1>1, DoOK DEF Types
<1>3. \A q \in Procs : proc'[q] = IF q = p THEN Goes(proc[p], "log") ELSE proc[q]
  BY <1>1 DEF Becomes, Types, ProcsOK
<1>4. /\ proc'[p].at = "log" /\ proc'[p].todo = proc[p].todo /\ proc'[p].old = proc[p].old
      /\ proc'[p].val = proc[p].val
  BY <1>1, <1>3, GoesIs
<1>5. \A r \in Repos, n \in Names : \A h : h \in Logged(r, n) => (h \in Logged(r, n))'
  BY <1>1, LoggedIs, LoggedNext
<1>6. \A r \in Repos, n \in Names : \A h : Pending(proc[p], r, n, h) => Pending(proc'[p], r, n, h)
  BY <1>1, <1>4 DEF Pending, On
<1>7. \A r \in Repos, n \in Names : \A h : Steady(proc'[p], r, n, h)
  BY <1>4 DEF Steady, On
<1>8. CASE UNCHANGED <<loose, held>>
  BY <1>3, <1>5, <1>6, <1>7, <1>8, Carries
<1>9. CASE /\ ~proc[p].lost /\ SetRef(p, proc[p].val)
           /\ held' = [held EXCEPT ![Do(p).repo][FileOf(Do(p).name)] = @ \cup {proc[p].val}]
  <2>1. proc[p].val \in Commits
    BY <1>1, <1>2 DEF ProcOK, HasValue, ProcType, Do, Value, Commits, NoCommit
  <2>2. \A r \in Repos, n \in Names :
            loose'[r][n] = IF r = Do(p).repo /\ n = FileOf(Do(p).name) THEN proc[p].val ELSE loose[r][n]
    BY <1>1, <1>9, <2>1, SetRefIs
  <2>3. ASSUME NEW r \in Repos, NEW n \in Names, NEW h \in Commits, loose[r][n] = h,
               Steady(proc[p], r, n, h)
        PROVE  loose'[r][n] = h
    BY <1>1, <1>9, <2>2, <2>3 DEF Steady, On, Do
  <2>4. ASSUME NEW r \in Repos, NEW n \in Names, NEW h \in held'[r][n]
        PROVE  h \in held[r][n] \/ Pending(proc'[p], r, n, h)
    <3> DEFINE x == Do(p).repo
               m == FileOf(Do(p).name)
               V == held[x][m] \cup {proc[p].val}
               H == SUBSET Value
    <3>1. held \in [Repos -> [Names -> H]] /\ V \in H
      <4>1. held \in [Repos -> [Names -> H]]
        BY DEF Types, RefsOK
      <4>2. held[x][m] \in H
        BY <1>2, <4>1
      <4> QED BY <1>1, <4>1, <4>2 DEF ProcType
    <3>2. x \in Repos /\ m \in Names /\ held' = [held EXCEPT ![x][m] = V]
      BY <1>2, <1>9
    <3> HIDE DEF V, H, x, m
    <3>3. held'[r][n] = IF r = x /\ n = m THEN V ELSE held[r][n]
      BY <3>1, <3>2, Entry
    <3>4. CASE r = x /\ n = m /\ h = proc[p].val
      BY <1>1, <1>4, <3>4 DEF Pending, On, Do, x, m
    <3>5. CASE h \in held[r][n]
      BY <3>5
    <3> QED BY <2>4, <3>3, <3>4, <3>5 DEF V
  <2> QED BY <1>3, <1>5, <1>6, <1>7, <2>3, <2>4, Carries
<1> QED BY <1>8, <1>9 DEF RefWrite

\* Appending to the log, or failing to, which is marked.
LEMMA AppendLogs ==
    ASSUME Types, Remembered, NEW p \in Procs, RefLog(p) \/ RmLog(p)
    PROVE  Remembered' \/ Marked("unlogged")'
<1>1. /\ UNCHANGED <<loose, held>> /\ proc[p].todo # <<>> /\ proc[p].at = "log"
      /\ proc[p] \in ProcType /\ Becomes(p, Returned(proc[p])) /\ Do(p).call \in {"ref", "remove"}
  BY DEF RefLog, RmLog, Doing, Types, ProcsOK
<1>2. Do(p).repo \in Repos /\ Do(p).name \in Names \cup {"HEAD"}
  BY <1>1, DoOK DEF Types
<1>3. \A q \in Procs : proc'[q] = IF q = p THEN Returned(proc[p]) ELSE proc[q]
  BY <1>1 DEF Becomes, Types, ProcsOK
<1>4. proc'[p].at = "call"
  BY <1>1, <1>3, BackToCall
<1>5. \A r \in Repos, n \in Names : \A h : Steady(proc'[p], r, n, h)
  BY <1>4 DEF Steady, On
<1> DEFINE new == IF Do(p).call = "ref" THEN proc[p].val ELSE NoCommit
<1>6. AddToLog(p, new)
  BY DEF RefLog, RmLog, Doing
<1>7. CASE logs' = [logs EXCEPT ![Do(p).repo][Do(p).name] = Append(@, <<proc[p].old, new>>)]
  <2> PICK x \in Repos, m \in Names \cup {"HEAD"}, a \in Value, b \in Value :
         x = Do(p).repo /\ m = Do(p).name /\ a = proc[p].old /\ b = new
    <3>1. <<>> \in Seq(Nat)
      OBVIOUS
    <3> QED BY <1>1, <1>2, <3>1 DEF ProcType, Value, NoCommit
  <2>1. /\ \A r \in Repos, n \in Names : \A h : h \in Logged(r, n) => (h \in Logged(r, n))'
        /\ \A h \in {a, b} : (h \in Logged(x, FileOf(m)))'
    <3>1. logs' = [logs EXCEPT ![x][m] = Append(@, <<a, b>>)] /\ RefsOK
      BY <1>7 DEF Types
    <3> HIDE DEF new
    <3>2. \A r \in Repos, n \in Names : \A h : h \in Logged(r, n) => (h \in Logged(r, n))'
      BY ONLY <3>1, LogGrows
    <3>3. \A h \in {a, b} : (h \in Logged(x, FileOf(m)))'
      BY ONLY <3>1, LogGrows
    <3> QED BY <3>2, <3>3
  <2>2. ASSUME NEW r \in Repos, NEW n \in Names, NEW h, Pending(proc[p], r, n, h)
        PROVE  (h \in Logged(r, n))'
    <3>1. r = x /\ n = FileOf(m) /\ h \in {a, b}
      BY <1>1, <2>2 DEF Pending, On, Do
    <3> QED BY <2>1, <3>1
  <2> QED BY <1>1, <1>3, <1>5, <2>1, <2>2, Carries
<1>8. CASE Mark(<<"unlogged", "log">>)
  <2>1. <<"unlogged", "log">> \in marks' /\ <<"unlogged", "log">>[1] = "unlogged"
    BY <1>8 DEF Mark
  <2> QED BY <2>1 DEF Marked
<1> QED BY <1>6, <1>7, <1>8 DEF AddToLog

\* Unlinking the file: what it held has been read, and who has it open writes in vain.
LEMMA UnlinkLogs ==
    ASSUME Types, Remembered, NEW p \in Procs, RmUnlink(p)
    PROVE  Remembered'
<1>1. /\ UNCHANGED <<logs, held>> /\ proc[p].todo # <<>> /\ Do(p).call = "remove"
      /\ proc[p].at = "unlink" /\ proc[p] \in ProcType
  BY DEF RmUnlink, Doing, Types, ProcsOK
<1>2. \A r \in Repos, n \in Names : \A h : ~Pending(proc[p], r, n, h)
  BY <1>1 DEF Pending, On
<1>3. \A r \in Repos, n \in Names : \A h : h \in Logged(r, n) => (h \in Logged(r, n))'
  BY <1>1, LoggedIs, LoggedNext
<1>4. CASE Becomes(p, Failed(proc[p])) /\ UNCHANGED loose
  <2>1. \A q \in Procs : proc'[q] = IF q = p THEN Failed(proc[p]) ELSE proc[q]
    BY <1>4 DEF Becomes, Types, ProcsOK
  <2>2. proc'[p].at = "call"
    BY <1>1, <2>1, BackToCall
  <2>3. \A r \in Repos, n \in Names : \A h \in Commits : Steady(proc'[p], r, n, h)
    BY <2>2 DEF Steady, On
  <2> QED BY <1>1, <1>2, <1>4, <2>1, <2>3, Calm
<1>5. CASE /\ SetRef(p, Absent)
           /\ proc' = [q \in Procs |->
                 CASE q = p -> Goes(proc[p], "log")
                   [] q # p /\ Doing(q, "ref", "write") /\ ThisRef(q) = ThisRef(p) ->
                         [proc[q] EXCEPT !.lost = TRUE]
                   [] OTHER -> proc[q]]
  <2>1. proc'[p] = Goes(proc[p], "log")
    BY <1>5
  <2>2. proc'[p].at = "log" /\ proc'[p].todo = proc[p].todo /\ proc'[p].old = proc[p].old
    BY <1>1, <2>1, GoesIs
  <2>3. \A r \in Repos, n \in Names :
            loose'[r][n] = IF r = Do(p).repo /\ n = FileOf(Do(p).name) THEN Absent ELSE loose[r][n]
    BY <1>1, <1>5, SetRefIs
  <2>4. ASSUME NEW q \in Procs \ {p}
        PROVE  /\ proc'[q].todo = proc[q].todo /\ proc'[q].at = proc[q].at
               /\ proc'[q].old = proc[q].old /\ proc'[q].val = proc[q].val
               /\ proc[q].lost => proc'[q].lost
    <3>1. proc'[q] = proc[q] \/ proc'[q] = [proc[q] EXCEPT !.lost = TRUE]
      BY <1>5
    <3>2. proc[q] \in ProcType
      BY DEF Types, ProcsOK
    <3>3. CASE proc'[q] = proc[q]
      BY <3>3
    <3>4. CASE proc'[q] = [proc[q] EXCEPT !.lost = TRUE]
      BY <3>2, <3>4 DEF ProcType
    <3> QED BY <3>1, <3>3, <3>4
  <2>5. \A q \in Procs \ {p}, r \in Repos, n \in Names : \A h :
            /\ Pending(proc[q], r, n, h) => Pending(proc'[q], r, n, h)
            /\ Steady(proc[q], r, n, h) => Steady(proc'[q], r, n, h)
    BY <2>4 DEF Pending, Steady, On
  <2>6. ASSUME NEW r \in Repos, NEW n \in Names, NEW h \in Commits, loose[r][n] = h,
               Steady(proc[p], r, n, h)
        PROVE  \/ Pending(proc'[p], r, n, h)
               \/ loose'[r][n] = h /\ Steady(proc'[p], r, n, h)
    BY <1>1, <2>2, <2>3, <2>6 DEF Steady, Pending, On, Do
  <2> QED BY <1>1, <1>2, <1>3, <2>5, <2>6, Carries
<1> QED BY <1>4, <1>5 DEF RmUnlink

-----------------------------------------------------------------------------
(* The logs.                                                               *)

\* Initially the file holds all that it has named, and nobody has begun.
LEMMA InitLogs == ASSUME Init PROVE LInv
<1>1. TInv /\ \A p \in Procs : proc[p].at = "call"
  BY InitTypes
<1>2. \A p \in Procs, r \in Repos, n \in Names : \A h : Steady(proc[p], r, n, h)
  BY <1>1 DEF Steady, On
<1>3. held = [r \in Repos |-> [n \in Names |-> {loose[r][n]} \ {Absent}]]
  BY DEF Init
<1>4. \A r \in Repos, n \in Names : \A h \in held[r][n] : loose[r][n] = h
  BY <1>3
<1> QED BY <1>1, <1>2, <1>4 DEF LInv, Remembered, Known

\* Every step keeps what the invariant says, or leaves a mark.
LEMMA LogStep == ASSUME LInv, [Next]_vars PROVE LInv'
<1>1. TInv /\ TInv' /\ Types
  BY TypeStep DEF LInv, TInv
<1>2. marks \subseteq marks'
  <2>1. CASE UNCHANGED vars
    BY <2>1 DEF vars
  <2>2. CASE Next
    <3>1. PICK p \in Procs : \/ RefNext(p) /\ UNCHANGED treeVars
                             \/ LockOpen(p) \/ LockWrite(p) \/ LockRename(p)
                             \/ OtherNext(p)
      BY <2>2, NextSplit
    <3> QED BY <1>1, <3>1, RefSteps, LockSteps, OtherSteps
  <2> QED BY <2>1, <2>2
<1>3. ~Marked("unlogged")' => ~Marked("unlogged")
  BY <1>2 DEF Marked
<1>4. ASSUME Remembered PROVE Remembered' \/ Marked("unlogged")'
  <2>1. CASE UNCHANGED vars
    <3>1. UNCHANGED <<loose, logs, held>> /\ proc' = proc
      BY <2>1 DEF vars, refVars
    <3>2. \A r \in Repos, n \in Names : \A h : h \in Logged(r, n) => (h \in Logged(r, n))'
      BY <3>1, LoggedIs, LoggedNext
    <3> QED BY <1>4, <3>1, <3>2 DEF Remembered, Known
  <2>2. CASE Next
    <3>1. PICK p \in Procs : \/ RefNext(p) /\ UNCHANGED treeVars
                             \/ LockOpen(p) \/ LockWrite(p) \/ LockRename(p)
                             \/ OtherNext(p)
      BY <2>2, NextSplit
    <3>2. CASE RefNext(p)
      BY <1>1, <1>4, <3>2, ReadLogs, OldLogs, OpenLogs, WriteLogs, AppendLogs, UnlinkLogs DEF RefNext
    <3>3. CASE LockOpen(p) \/ LockWrite(p) \/ LockRename(p)
      BY <1>1, <1>4, <3>3, LockLogs
    <3>4. CASE OtherNext(p)
      BY <1>1, <1>4, <3>4, OtherLogs
    <3> QED BY <3>1, <3>2, <3>3, <3>4
  <2> QED BY <2>1, <2>2
<1> QED BY <1>1, <1>3, <1>4 DEF LInv

\* Once every command has ended, each commit a reference ever named is still its value
\* or stands in its log or HEAD's, whatever the order in which any number of commands
\* went that share no lock: unless a log could not be opened, a process was killed
\* (repository.c:398) or a git server moved the reference.
THEOREM LogsCorrect == Spec => []LogsRemember
<1>1. Init => LInv
  BY InitLogs
<1>2. LInv /\ [Next]_vars => LInv'
  BY LogStep
<1>3. LInv => LogsRemember
  <2> SUFFICES ASSUME LInv, Quiet, ~Marked("unlogged"), NEW r \in Repos, NEW n \in Names,
                      NEW h \in held[r][n]
               PROVE  h \in {loose[r][n]} \cup Logged(r, n)
    BY DEF LogsRemember
  <2>1. Known(r, n, h)
    BY DEF LInv, Remembered
  <2>2. \A p \in Procs : ~Pending(proc[p], r, n, h)
    BY DEF Quiet, Pending, On
  <2> QED BY <2>1, <2>2 DEF Known
<1> QED BY <1>1, <1>2, <1>3, PTL DEF Spec
=============================================================================
