------------------------ MODULE RepositoryIndexProofs ------------------------
(***************************************************************************)
(* The index file is whole unless its lock was shared (Repository's        *)
(* IndexWhole), for any set of processes, any commands and any faults.     *)
(*                                                                         *)
(* The invariant says which inodes a repository's index and lock may be:   *)
(* two repositories have none in common, a process that has not opened a   *)
(* lock yet has created none, and where no two processes had the lock open *)
(* at once the one that has it open is writing to index.lock, which is not *)
(* the index.                                                              *)
(*                                                                         *)
(* And a merge or a rebase that has the repository to itself leaves branch *)
(* index and working tree as CheckedOut says.  Every step is one process's *)
(* and here that one's, so that the invariant can say in which phase the   *)
(* command is: deciding, loading or writing the index, checking files out, *)
(* moving the branch, or done.                                             *)
(***************************************************************************)
EXTENDS RepositoryProofs

\* Inode i is r's index, its lock or what a process has open to write r's index.
Uses(r, i) ==
    /\ i # NoFile
    /\ \/ i = idx[r] \/ i = lock[r]
       \/ \E p \in Procs : Locking(p, r) /\ proc[p].fd = i

Apart == \A i \in {0} \cup Procs, r, s \in Repos : Uses(r, i) /\ Uses(s, i) => r = s
Unused == \A p \in Procs, r \in Repos : Fresh(proc[p]) => ~Uses(r, p)

\* Where the lock was not shared.
OneLocker(r) ==
    \A p \in Procs : Locking(p, r) =>
        /\ \A q \in Procs : Locking(q, r) => q = p
        /\ proc[p].fd = lock[r]
        /\ disk[lock[r]] = IF proc[p].at = "write" THEN <<>> ELSE Content(proc[p].mem)
Whole(r) ==
    idx[r] # NoFile => /\ idx[r] # lock[r]
                       /\ disk[idx[r]] # <<>> /\ disk[idx[r]] = Content(disk[idx[r]][1])
Private == \A r \in Repos : <<"shared", r>> \notin marks => OneLocker(r) /\ Whole(r)

IInv == TInv /\ Apart /\ Unused /\ Private

-----------------------------------------------------------------------------
(* Steps that do not touch the lock.                                       *)

\* Who has a lock open, in terms of its own state.
LEMMA LockingIs ==
    ASSUME NEW p, NEW r
    PROVE  Locking(p, r) <=> LocksIndex(proc[p]) /\ Do(p).repo = r
  BY DEF Locking, LocksIndex, Doing, Do

\* The process that locks an index has just that file open, and it is in use.
LEMMA LockerUses ==
    ASSUME TInv, NEW p \in Procs, NEW r, Locking(p, r)
    PROVE  proc[p].fd \in {0} \cup Procs /\ proc[p].fd # NoFile /\ Uses(r, proc[p].fd)
<1>1. LocksIndex(proc[p])
  BY LockingIs
<1>2. proc[p].fd # NoFile /\ proc[p].fd \in {0} \cup Procs
  BY <1>1, HasFile DEF TInv, FilesOpen
<1> QED BY <1>2 DEF Uses

\* A mild step opens no lock.
LEMMA MildLocks ==
    ASSUME AllMild, NEW p \in Procs, NEW r, Locking(p, r)'
    PROVE  proc'[p] = proc[p] /\ Locking(p, r)
<1>1. LocksIndex(proc'[p]) /\ proc'[p].todo[1].repo = r
  BY DEF Locking, LocksIndex, Doing, Do
<1>2. proc'[p] = proc[p]
  BY <1>1 DEF AllMild, Mild
<1> QED BY <1>1, <1>2, LockingIs DEF Do

\* Fewer inodes in use, fewer processes that have an index to write.
LEMMA FewerUses ==
    ASSUME Apart, Unused,
           \A r \in Repos, i \in {0} \cup Procs : Uses(r, i)' => Uses(r, i),
           \A q \in Procs : Fresh(proc'[q]) => Fresh(proc[q])
    PROVE  Apart' /\ Unused'
<1>1. Apart'
  BY DEF Apart
<1>2. Unused'
  BY DEF Unused
<1> QED BY <1>1, <1>2

\* A mild step makes no process have an index to write.
LEMMA MildFresh ==
    ASSUME AllMild, NEW q \in Procs, Fresh(proc'[q]) PROVE Fresh(proc[q])
  BY DEF AllMild, Mild

\* Steps of everything but the lock.
LEMMA MildStep ==
    ASSUME IInv, TInv', AllMild, marks \subseteq marks', UNCHANGED <<disk, idx, lock>>
    PROVE  IInv'
<1>1. ASSUME NEW r \in Repos, NEW i \in {0} \cup Procs, Uses(r, i)'
      PROVE  Uses(r, i)
  BY <1>1, MildLocks DEF Uses
<1>2. Apart' /\ Unused'
  BY <1>1, FewerUses, MildFresh DEF IInv
<1>3. ASSUME NEW r \in Repos, <<"shared", r>> \notin marks'
      PROVE  OneLocker(r)' /\ Whole(r)'
  <2>1. OneLocker(r) /\ Whole(r)
    BY <1>3 DEF IInv, Private
  <2>2. Whole(r)'
    BY <2>1 DEF Whole
  <2>3. OneLocker(r)'
    BY <2>1, MildLocks DEF OneLocker
  <2> QED BY <2>2, <2>3
<1>4. Private'
  BY <1>3 DEF Private
<1> QED BY <1>2, <1>4 DEF IInv

-----------------------------------------------------------------------------
(* Steps on the lock.                                                      *)

\* What a step on r's lock leaves of another repository s.
LEMMA Elsewhere ==
    ASSUME IInv, NEW s \in Repos, NEW f, ~Uses(s, f),
           <<"shared", s>> \notin marks, idx'[s] = idx[s], lock'[s] = lock[s],
           \A i \in {0} \cup Procs : i # f => disk'[i] = disk[i],
           \A q \in Procs : Locking(q, s)' => proc'[q] = proc[q] /\ Locking(q, s)
    PROVE  OneLocker(s)' /\ Whole(s)'
<1>1. OneLocker(s) /\ Whole(s) /\ TInv
  BY DEF IInv, Private
<1>2. idx[s] \in {0, NoFile} \cup Procs /\ lock[s] \in {0, NoFile} \cup Procs
  BY <1>1 DEF TInv, Types, TreeOK
<1>3. idx[s] # NoFile => disk'[idx[s]] = disk[idx[s]]
  BY <1>2 DEF Uses
<1>4. lock[s] # NoFile => disk'[lock[s]] = disk[lock[s]]
  BY <1>2 DEF Uses
<1>5. Whole(s)'
  BY <1>1, <1>3 DEF Whole
<1>6. ASSUME NEW q \in Procs, Locking(q, s)'
      PROVE  /\ \A p \in Procs : Locking(p, s)' => p = q
             /\ proc'[q].fd = lock'[s]
             /\ disk'[lock'[s]] = IF proc'[q].at = "write" THEN <<>> ELSE Content(proc'[q].mem)
  <2>1. proc'[q] = proc[q] /\ Locking(q, s)
    BY <1>6
  <2>2. lock[s] # NoFile
    BY <1>1, <2>1, LockerUses DEF OneLocker
  <2> QED BY <1>1, <1>4, <2>1, <2>2 DEF OneLocker
<1>7. OneLocker(s)'
  BY <1>6 DEF OneLocker
<1> QED BY <1>5, <1>7

\* The lock is opened: it is index.lock if there is one, an inode nobody has used if not.
LEMMA OpenStep == ASSUME IInv, TInv', NEW p \in Procs, LockOpen(p) PROVE IInv'
<1>1. TInv /\ Types /\ Apart /\ Unused /\ Private /\ TreeOK /\ ProcsOK
  BY DEF IInv, TInv, Types
<1>2. proc[p].todo # <<>> /\ Do(p).call = "index_write" /\ proc[p].at = "call" /\ idx' = idx
  BY DEF LockOpen, Doing
<1>3. Do(p).repo \in Repos /\ ProcOK(proc[p]) /\ proc[p].todo \in Seq(CallType)
  BY <1>1, <1>2, DoOK DEF ProcType
<1> PICK r \in Repos : r = Do(p).repo
  BY <1>3
<1> PICK i : i = Inode(p)
  OBVIOUS
<1>4. CASE AllPlain /\ UNCHANGED <<lock, disk, idx, marks>>
  BY <1>4, PlainIsMild, MildStep
<1>5. CASE /\ \A q \in Procs \ {p} : proc'[q] = proc[q]
           /\ proc'[p].todo = proc[p].todo /\ proc'[p].at = "write" /\ proc'[p].fd = Inode(p)
           /\ lock' = [lock EXCEPT ![Do(p).repo] = Inode(p)]
           /\ disk' = [disk EXCEPT ![Inode(p)] = <<>>]
           /\ IF \E q \in Procs \ {p} : Locking(q, Do(p).repo)
              THEN Mark(<<"shared", Do(p).repo>>) ELSE UNCHANGED marks
  <2>1. Fresh(proc[p]) /\ ~Fresh(proc'[p])
    <3>1. 1 \in 1..Len(proc[p].todo) /\ proc[p].todo[1].call \in Writers
      BY <1>2, <1>3, EmptySeq DEF Do, Writers
    <3>2. Fresh(proc[p])
      BY <1>2, <3>1 DEF Fresh
    <3>3. ~Fresh(proc'[p])
      BY <1>3, <1>5, <3>1 DEF Fresh, ProcOK, OneWriter
    <3> QED BY <3>2, <3>3
  <2>2. /\ i \in {0} \cup Procs /\ i # NoFile /\ (i # p => i = lock[r])
        /\ i = lock[r] => Uses(r, i)
    <3>1. lock[r] \in {0, NoFile} \cup Procs
      BY <1>1, <1>3 DEF TreeOK
    <3>2. p # NoFile
      BY ProcsAssumption DEF NoFile
    <3> QED BY <3>1, <3>2 DEF Inode, Uses
  <2>3. ASSUME NEW s \in Repos, s # r PROVE ~Uses(s, i)
    BY <1>1, <1>3, <2>1, <2>2, <2>3 DEF Apart, Unused
  <2>4. ASSUME NEW q \in Procs, NEW s, Locking(q, s)'
        PROVE  \/ q # p /\ proc'[q] = proc[q] /\ Locking(q, s)
               \/ q = p /\ s = r
    <3>1. q # p => proc'[q] = proc[q]
      BY <1>5
    <3> QED BY <1>2, <1>5, <2>4, <3>1 DEF Locking, Doing, Do
  <2>5. ASSUME NEW s \in Repos, NEW j \in {0} \cup Procs, Uses(s, j)'
        PROVE  Uses(s, j) \/ (s = r /\ j = i)
    <3>1. lock'[s] = IF s = r THEN i ELSE lock[s]
      BY <1>1, <1>3, <1>5 DEF TreeOK
    <3>2. CASE j = idx'[s] \/ j = lock'[s]
      BY <1>2, <2>2, <2>5, <3>1, <3>2 DEF Uses
    <3>3. CASE \E q \in Procs : Locking(q, s)' /\ proc'[q].fd = j
      <4>1. PICK q \in Procs : Locking(q, s)' /\ proc'[q].fd = j
        BY <3>3
      <4>2. CASE q # p /\ proc'[q] = proc[q] /\ Locking(q, s)
        BY <2>5, <4>1, <4>2 DEF Uses
      <4>3. CASE q = p /\ s = r
        BY <1>5, <4>1, <4>3
      <4> QED BY <2>4, <4>1, <4>2, <4>3
    <3> QED BY <2>5, <3>2, <3>3 DEF Uses
  <2>6. Apart'
    <3> SUFFICES ASSUME NEW j \in {0} \cup Procs, NEW s \in Repos, NEW u \in Repos, Uses(s, j)', Uses(u, j)'
                 PROVE  s = u
      BY DEF Apart
    <3> QED BY <1>1, <2>3, <2>5 DEF Apart
  <2>7. Unused'
    <3> SUFFICES ASSUME NEW q \in Procs, NEW s \in Repos, Fresh(proc'[q]), Uses(s, q)' PROVE FALSE
      BY DEF Unused
    <3>1. q # p /\ Fresh(proc[q])
      BY <1>5, <2>1
    <3>2. ~Uses(s, q)
      BY <1>1, <3>1 DEF Unused
    <3>3. s = r /\ q = i
      BY <2>5, <3>2
    <3> QED BY <2>2, <3>1, <3>2, <3>3
  <2>8. ASSUME NEW s \in Repos, <<"shared", s>> \notin marks' PROVE OneLocker(s)' /\ Whole(s)'
    <3>0. <<"shared", s>> \notin marks
      BY <1>5, <2>8 DEF Mark
    <3>1. \A j \in {0} \cup Procs : j # i => disk'[j] = disk[j]
      BY <1>1, <1>5 DEF TreeOK
    <3>2. CASE s # r
      <4>1. idx'[s] = idx[s] /\ lock'[s] = lock[s]
        BY <1>1, <1>2, <1>5, <3>2 DEF TreeOK
      <4>2. \A q \in Procs : Locking(q, s)' => proc'[q] = proc[q] /\ Locking(q, s)
        BY <2>4, <3>2
      <4>3. ~Uses(s, i)
        BY <2>3, <3>2
      <4> QED BY <3>0, <3>1, <4>1, <4>2, <4>3, Elsewhere
    <3>3. CASE s = r
      <4>1. OneLocker(r) /\ Whole(r)
        BY <1>1, <1>3, <3>0, <3>3 DEF Private
      <4>2. lock'[r] = i /\ disk'[i] = <<>>
        BY <1>1, <1>3, <1>5, <2>2 DEF TreeOK
      <4>3. \A q \in Procs \ {p} : ~Locking(q, r)
        BY <1>5, <2>8, <3>3 DEF Mark
      <4>4. \A q \in Procs : Locking(q, r)' => q = p
        BY <2>4, <4>3
      <4>5. OneLocker(r)'
        BY <1>5, <4>2, <4>4 DEF OneLocker
      <4>6. idx[r] # NoFile => idx[r] # i
        BY <1>1, <1>3, <2>1, <2>2, <4>1 DEF Unused, Uses, Whole
      <4>7. idx[r] \in {0, NoFile} \cup Procs
        BY <1>1, <1>3 DEF TreeOK
      <4>8. Whole(r)'
        BY <1>2, <3>1, <4>1, <4>2, <4>6, <4>7 DEF Whole
      <4> QED BY <3>3, <4>5, <4>8
    <3> QED BY <3>2, <3>3
  <2> QED BY <2>6, <2>7, <2>8 DEF IInv, Private
<1> QED BY <1>1, <1>4, <1>5, LockOpenOK

\* It is written to, whole or, when the write is short, in vain.
LEMMA WriteStep == ASSUME IInv, TInv', NEW p \in Procs, LockWrite(p) PROVE IInv'
<1>1. TInv /\ Types /\ Apart /\ Unused /\ Private /\ TreeOK /\ ProcsOK
  BY DEF IInv, TInv, Types
<1>2. /\ proc[p].todo # <<>> /\ Do(p).call = "index_write" /\ proc[p].at = "write"
      /\ idx' = idx /\ marks' = marks /\ Locking(p, Do(p).repo) /\ LocksIndex(proc[p])
  BY DEF LockWrite, Doing, Locking, LocksIndex, Do
<1>3. Do(p).repo \in Repos /\ proc[p] \in ProcType /\ proc[p].mem \in Value
  BY <1>1, <1>2, DoOK DEF ProcType
<1> PICK r \in Repos : r = Do(p).repo
  BY <1>3
<1> PICK f : f = proc[p].fd
  OBVIOUS
<1>4. f \in {0} \cup Procs /\ Uses(r, f) /\ f # NoFile
  BY <1>1, <1>2, LockerUses
<1>5. PICK new \in Seq(Value) :
        /\ disk' = [disk EXCEPT ![proc[p].fd] = Overlay(new, @)]
        /\ \/ /\ \A q \in Procs \ {p} : proc'[q] = proc[q]
              /\ proc'[p].todo = proc[p].todo /\ proc'[p].at = "rename"
              /\ proc'[p].fd = proc[p].fd /\ proc'[p].mem = proc[p].mem
              /\ new = Content(proc[p].mem) /\ lock' = lock
           \/ AllPlain /\ lock' = [lock EXCEPT ![Do(p).repo] = NoFile]
  BY <1>1, <1>4, LockWriteOK
<1> DEFINE Full == /\ \A q \in Procs \ {p} : proc'[q] = proc[q]
                   /\ proc'[p].todo = proc[p].todo /\ proc'[p].at = "rename"
                   /\ proc'[p].fd = proc[p].fd /\ proc'[p].mem = proc[p].mem
                   /\ new = Content(proc[p].mem) /\ lock' = lock
           Short == AllPlain /\ lock' = [lock EXCEPT ![Do(p).repo] = NoFile]
<1>6. \A q \in Procs : \A s : Locking(q, s)' =>
         /\ Locking(q, s) /\ proc'[q].fd = proc[q].fd
         /\ q # p => proc'[q] = proc[q]
         /\ q = p => Full
  <2>1. CASE Full
    <3> SUFFICES ASSUME NEW q \in Procs, NEW s, Locking(q, s)'
                 PROVE  /\ Locking(q, s) /\ proc'[q].fd = proc[q].fd
                        /\ q # p => proc'[q] = proc[q]
      BY <2>1
    <3>1. CASE q # p
      BY <2>1, <3>1 DEF Locking, Doing, Do
    <3>2. CASE q = p
      BY <1>2, <2>1, <3>2 DEF Locking, Doing, Do
    <3> QED BY <3>1, <3>2
  <2>2. CASE Short
    <3>1. AllMild
      BY <2>2, PlainIsMild
    <3>2. proc'[p] # proc[p]
      <4>1. Becomes(p, Failed(proc[p])) \/ Becomes(p, Goes(proc[p], "rename"))
        BY DEF LockWrite
      <4>2. Goes(proc[p], "rename").at = "rename"
        BY <1>1 DEF Goes, ProcsOK, ProcType
      <4>3. Failed(proc[p]).at = "call"
        BY <1>2, <1>3, BackToCall
      <4> QED BY <1>1, <1>2, <4>1, <4>2, <4>3 DEF Becomes, ProcsOK
    <3> QED BY <3>1, <3>2, MildLocks
  <2> QED BY <1>5, <2>1, <2>2
<1>7. \A q \in Procs : Fresh(proc'[q]) => Fresh(proc[q])
  <2>1. CASE Full
    BY <1>2, <2>1 DEF Fresh
  <2>2. CASE Short
    BY <2>2, PlainIsMild, MildFresh
  <2> QED BY <1>5, <2>1, <2>2
<1>8. \A s \in Repos : lock'[s] = lock[s] \/ lock'[s] = NoFile
  BY <1>1, <1>3, <1>5 DEF TreeOK
<1>9. Apart' /\ Unused'
  <2>1. ASSUME NEW s \in Repos, NEW i \in {0} \cup Procs, Uses(s, i)' PROVE Uses(s, i)
    BY <1>2, <1>6, <1>8, <2>1 DEF Uses
  <2> QED BY <1>1, <1>7, <2>1, FewerUses
<1>10. \A j \in {0} \cup Procs : j # f => disk'[j] = disk[j]
  BY <1>1, <1>5 DEF TreeOK
<1>11. ASSUME NEW s \in Repos, <<"shared", s>> \notin marks', s # r PROVE OneLocker(s)' /\ Whole(s)'
  <2>1. lock'[s] = lock[s]
    BY <1>1, <1>5, <1>11 DEF TreeOK
  <2>2. \A q \in Procs : Locking(q, s)' => proc'[q] = proc[q] /\ Locking(q, s)
    BY <1>2, <1>6, <1>11 DEF Locking
  <2>3. ~Uses(s, f)
    BY <1>1, <1>3, <1>4, <1>11 DEF Apart
  <2> QED BY <1>2, <1>10, <1>11, <2>1, <2>2, <2>3, Elsewhere
<1>12. ASSUME <<"shared", r>> \notin marks' PROVE OneLocker(r)' /\ Whole(r)'
  <2>1. OneLocker(r) /\ Whole(r)
    BY <1>1, <1>2, <1>3, <1>12 DEF Private
  <2>2. f = lock[r] /\ disk[f] = <<>> /\ \A q \in Procs : Locking(q, r) => q = p
    BY <1>2, <2>1 DEF OneLocker
  <2>3. Whole(r)'
    <3>1. idx[r] # NoFile => idx[r] # f /\ idx[r] \in {0} \cup Procs
      BY <1>1, <1>3, <2>1, <2>2 DEF Whole, TreeOK
    <3> QED BY <1>2, <1>3, <1>8, <1>10, <2>1, <3>1 DEF Whole
  <2>4. OneLocker(r)'
    <3>1. \A q \in Procs : Locking(q, r)' => q = p /\ Full
      BY <1>6, <2>2
    <3>2. Full => disk'[f] = Content(proc[p].mem)
      <4>1. disk'[f] = Overlay(new, <<>>)
        BY <1>1, <1>4, <1>5, <2>2 DEF TreeOK
      <4>2. Overlay(new, <<>>) = new
        BY OverlayOK
      <4> QED BY <4>1, <4>2
    <3> QED BY <2>2, <3>1, <3>2 DEF OneLocker
  <2> QED BY <2>3, <2>4
<1> QED BY <1>9, <1>11, <1>12 DEF IInv, Private

\* It becomes the index, or is dropped.
LEMMA RenameStep == ASSUME IInv, TInv', NEW p \in Procs, LockRename(p) PROVE IInv'
<1>1. TInv /\ Types /\ Apart /\ Unused /\ Private /\ TreeOK /\ ProcsOK
  BY DEF IInv, TInv, Types
<1>2. /\ proc[p].todo # <<>> /\ Do(p).call = "index_write" /\ proc[p].at = "rename"
      /\ disk' = disk /\ marks' = marks /\ Locking(p, Do(p).repo) /\ LocksIndex(proc[p])
  BY DEF LockRename, Doing, Locking, LocksIndex, Do
<1>3. Do(p).repo \in Repos /\ proc[p] \in ProcType /\ proc[p].mem \in Value
  BY <1>1, <1>2, DoOK DEF ProcType
<1> PICK r \in Repos : r = Do(p).repo
  BY <1>3
<1>4. /\ AllPlain /\ TreeOK' /\ lock' = [lock EXCEPT ![r] = NoFile]
      /\ idx' = idx \/ (lock[r] # NoFile /\ idx' = [idx EXCEPT ![r] = lock[r]])
  <2>1. /\ AllPlain /\ TreeOK' /\ lock' = [lock EXCEPT ![Do(p).repo] = NoFile]
        /\ \/ idx' = idx
           \/ lock[Do(p).repo] # NoFile /\ idx' = [idx EXCEPT ![Do(p).repo] = lock[Do(p).repo]]
    BY <1>1, LockRenameOK
  <2> QED BY <2>1
<1>5. AllMild
  BY <1>4, PlainIsMild
<1>6. \A s \in Repos : /\ lock'[s] = IF s = r THEN NoFile ELSE lock[s]
                       /\ idx'[s] = idx[s] \/ (s = r /\ lock[r] # NoFile /\ idx'[s] = lock[r])
  <2>1. ASSUME NEW s \in Repos PROVE lock'[s] = IF s = r THEN NoFile ELSE lock[s]
    BY <1>1, <1>4 DEF TreeOK
  <2>2. ASSUME NEW s \in Repos
        PROVE  idx'[s] = idx[s] \/ (s = r /\ lock[r] # NoFile /\ idx'[s] = lock[r])
    BY <1>1, <1>4 DEF TreeOK
  <2> QED BY <2>1, <2>2
<1>7. Apart' /\ Unused'
  <2>1. ASSUME NEW s \in Repos, NEW i \in {0} \cup Procs, Uses(s, i)' PROVE Uses(s, i)
    BY <1>5, <1>6, <2>1, MildLocks DEF Uses
  <2> QED BY <1>1, <1>5, <2>1, FewerUses, MildFresh
<1>8. ASSUME NEW s \in Repos, <<"shared", s>> \notin marks', s # r PROVE OneLocker(s)' /\ Whole(s)'
  <2>1. \A q \in Procs : Locking(q, s)' => proc'[q] = proc[q] /\ Locking(q, s)
    BY <1>5, MildLocks
  <2>2. ~Uses(s, NoFile)
    BY DEF Uses
  <2> QED BY <1>2, <1>6, <1>8, <2>1, <2>2, Elsewhere
<1>9. ASSUME <<"shared", r>> \notin marks' PROVE OneLocker(r)' /\ Whole(r)'
  <2>1. OneLocker(r) /\ Whole(r)
    BY <1>1, <1>2, <1>9 DEF Private
  <2>2. disk[lock[r]] = Content(proc[p].mem) /\ \A q \in Procs : Locking(q, r) => q = p
    BY <1>2, <2>1 DEF OneLocker
  <2>3. proc'[p] # proc[p]
    <3>1. Becomes(p, Failed(proc[p])) \/ Becomes(p, Returned(proc[p]))
      BY DEF LockRename
    <3>2. Failed(proc[p]).at = "call" /\ Returned(proc[p]).at = "call"
      BY <1>2, <1>3, BackToCall
    <3> QED BY <1>1, <1>2, <3>1, <3>2 DEF Becomes, ProcsOK
  <2>4. OneLocker(r)'
    BY <1>5, <2>2, <2>3, MildLocks DEF OneLocker
  <2>5. Content(proc[p].mem) # <<>> /\ Content(proc[p].mem)[1] = proc[p].mem
    BY <1>3, ContentOK
  <2>6. Whole(r)'
    <3>1. CASE idx'[r] = idx[r]
      BY <1>2, <1>6, <2>1, <3>1 DEF Whole
    <3>2. CASE idx'[r] = lock[r]
      BY <1>2, <1>6, <2>2, <2>5, <3>2 DEF Whole
    <3> QED BY <1>6, <3>1, <3>2
  <2> QED BY <2>4, <2>6
<1> QED BY <1>7, <1>8, <1>9 DEF IInv, Private

-----------------------------------------------------------------------------
(* The index.                                                              *)

\* Initially nobody has a lock, and only the local repository has an index.
LEMMA InitIndex == ASSUME Init PROVE IInv
<1>1. TInv /\ \A p \in Procs : proc[p].at = "call"
  BY InitTypes
<1>2. PICK scene \in Scenes, main \in {<<0>>, <<0, 2>>}, topic \in {Absent, <<0, 1>>},
           away, fresh, gc \in BOOLEAN, given \in {<<0>>, <<0, 1>>} :
        LET none == [n \in Names |-> Absent]
        IN  /\ scene[1].cmd = "clone" => fresh
            /\ fresh => main = <<0>> /\ topic = Absent /\ ~away
                        /\ \A p \in Procs : scene[p].home = "local" => scene[p].cmd \in Importers \cup {"none"}
            /\ given = <<0>> => scene[1].cmd \in {"merge", "rebase"}
            /\ proc = [p \in Procs |-> Started(scene[p], IF p = 1 THEN given ELSE <<0, 3>>)]
            /\ loose = [local |-> IF fresh THEN none
                                  ELSE [main |-> IF away THEN Absent ELSE main, topic |-> topic,
                                        stash |-> <<0, 3>>],
                        peer |-> [none EXCEPT !.main = <<0, 4>>]]
            /\ packed = [r \in Repos |-> [n \in Names |->
                            IF away /\ r = "local" /\ n = "main" THEN main ELSE NoCommit]]
            /\ logs = [r \in Repos |-> [n \in Names \cup {"HEAD"} |-> <<>>]]
            /\ held = [r \in Repos |-> [n \in Names |-> {loose[r][n]} \ {Absent}]]
            /\ odb = [local |-> IF fresh THEN {} ELSE {<<0>>, <<0, 1>>, <<0, 2>>, <<0, 3>>},
                      peer |-> {<<0>>, <<0, 4>>}]
            /\ packs = [r \in Repos |-> IF gc THEN odb[r] ELSE {}]
            /\ faults = MaxFaults /\ marks = {}
            /\ disk = [i \in {0} \cup Procs |-> IF i = 0 /\ ~fresh THEN Content(main) ELSE <<>>]
            /\ idx = [local |-> IF fresh THEN NoFile ELSE 0, peer |-> NoFile]
            /\ lock = [r \in Repos |-> NoFile]
            /\ work = [r \in Repos |-> [x \in Paths |->
                          IF r = "local" /\ ~fresh /\ x \in Files(main) THEN main ELSE Absent]]
  BY DEF Init
<1>3. \A p \in Procs : \A r : ~Locking(p, r)
  BY <1>1 DEF Locking, Doing
<1>4. /\ \A r \in Repos : lock[r] = NoFile /\ idx[r] \in {0, NoFile}
      /\ \A r \in Repos : idx[r] # NoFile => r = "local" /\ ~fresh /\ idx[r] = 0
  BY <1>2 DEF Repos, NoFile
<1>5. \A r \in Repos : \A i : Uses(r, i) => r = "local" /\ i = 0
  BY <1>3, <1>4 DEF Uses
<1>6. Apart /\ Unused
  BY <1>5, ProcsAssumption DEF Apart, Unused
<1>7. main \in Value
  <2>1. <<0>> \in Seq(Nat) /\ <<0, 2>> \in Seq(Nat)
    OBVIOUS
  <2> QED BY <2>1 DEF Value
<1>8. Content(main) # <<>> /\ Content(main)[1] = main
  BY <1>7, ContentOK
<1>9. ~fresh => disk[0] = Content(main)
  BY <1>2
<1>10. \A r \in Repos : OneLocker(r) /\ Whole(r)
  BY <1>3, <1>4, <1>8, <1>9 DEF OneLocker, Whole
<1> QED BY <1>1, <1>6, <1>10 DEF IInv, Private

\* The invariant is kept by every step.
LEMMA IndexStep == ASSUME IInv, [Next]_vars PROVE IInv'
<1>1. TInv /\ TInv'
  BY TypeStep DEF IInv
<1>2. CASE UNCHANGED vars
  <2>1. UNCHANGED <<disk, idx, lock, marks>> /\ proc' = proc
    BY <1>2 DEF vars, treeVars
  <2>2. AllMild
    BY <1>1, <2>1 DEF AllMild, TInv, Types
  <2> QED BY <1>1, <2>1, <2>2, MildStep
<1>3. CASE Next
  <2>1. PICK p \in Procs : \/ RefNext(p) /\ UNCHANGED treeVars
                           \/ LockOpen(p) \/ LockWrite(p) \/ LockRename(p)
                           \/ OtherNext(p)
    BY <1>3, NextSplit
  <2>2. Types
    BY <1>1 DEF TInv
  <2>3. CASE RefNext(p) /\ UNCHANGED treeVars
    BY <1>1, <2>2, <2>3, RefSteps, MildStep
  <2>4. CASE OtherNext(p)
    BY <1>1, <2>2, <2>4, OtherSteps, PlainIsMild, MildStep
  <2>5. CASE LockOpen(p) \/ LockWrite(p) \/ LockRename(p)
    BY <1>1, <2>5, OpenStep, WriteStep, RenameStep
  <2> QED BY <2>1, <2>3, <2>4, <2>5
<1> QED BY <1>2, <1>3

\* The index file is the whole of one index in every state, through short writes, failed
\* renames, killed writers and the locks they leave behind, unless two processes had
\* index.lock open at once - the only thing that can break it, since the lock is opened
\* without O_EXCL (index.c:495).
THEOREM IndexCorrect == Spec => []IndexWhole
<1>1. Init => IInv
  BY InitIndex
<1>2. IInv /\ [Next]_vars => IInv'
  BY IndexStep
<1>3. IInv => IndexWhole
  BY DEF IInv, Private, Whole, IndexWhole
<1> QED BY <1>1, <1>2, <1>3, PTL DEF Spec

-----------------------------------------------------------------------------
(* Who makes a step.                                                       *)

\* The command and the repository of a process are the same.
Kin(s, t) == t.cmd = s.cmd /\ t.home = s.home
\* And it is not told that its file is gone.
Tame(s, t) == Kin(s, t) /\ (t.lost => s.lost)

\* A step by process p.
StepOf(p) ==
    \/ RefNext(p) /\ UNCHANGED treeVars
    \/ LockOpen(p) \/ LockWrite(p) \/ LockRename(p)
    \/ OtherNext(p)

\* No step changes what command a process runs.
LEMMA KinOf ==
    ASSUME NEW s, NEW u \in ProcType, u.todo # <<>>, Tame(s, u)
    PROVE  /\ \A e : Tame(s, Ended(u, e))
           /\ Tame(s, Returned(u)) /\ Tame(s, Failed(u))
           /\ \A a : Tame(s, Goes(u, a))
           /\ \A calls : Tame(s, Loop(u, calls))
<1>1. \A e : Tame(s, Ended(u, e))
  BY DEF Tame, Kin, Ended, Idle
<1>2. Tame(s, Returned(u))
  BY <1>1 DEF Returned, Tame, Kin, ProcType
<1>3. u.todo[1].onerr \in {"go", "stop", "end"}
  BY EmptySeq DEF ProcType, CallType
<1>4. Tame(s, Failed(u))
  BY <1>1, <1>2, <1>3 DEF Failed
<1>5. \A a : Tame(s, Goes(u, a))
  BY DEF Tame, Kin, Goes, ProcType
<1>6. \A calls : Tame(s, Loop(u, calls))
  BY <1>1 DEF Loop, Tame, Kin, ProcType
<1> QED BY <1>1, <1>2, <1>4, <1>5, <1>6

\* A call that returns or fails after it has set a field.
LEMMA KinCalls ==
    ASSUME NEW s \in ProcType, s.todo # <<>>
    PROVE  /\ Tame(s, Returned(s)) /\ Tame(s, Failed(s))
           /\ \A v : Tame(s, Returned([s EXCEPT !.val = v])) /\ Tame(s, Failed([s EXCEPT !.val = v]))
           /\ \A v : LET u == [s EXCEPT !.head = v, !.seen = v]
                     IN  Tame(s, Returned(u)) /\ Tame(s, Failed(u))
           /\ \A v : Tame(s, Returned([s EXCEPT !.mem = v])) /\ Tame(s, Failed([s EXCEPT !.mem = v]))
           /\ \A v : Tame(s, Returned([s EXCEPT !.list = v])) /\ Tame(s, AfterUnpack([s EXCEPT !.list = v]))
           /\ \A v : Tame(s, Returned([s EXCEPT !.bundle = v]))
           /\ \A v : Tame(s, Returned([s EXCEPT !.adv = v]))
<1>1. s.todo[1].onerr \in {"go", "stop", "end"}
  BY EmptySeq DEF ProcType, CallType
<1>2. ASSUME NEW u, Tame(s, u), DOMAIN u = DOMAIN s, u = [f \in DOMAIN s |-> u[f]], u.todo = s.todo
      PROVE  Tame(s, Returned(u)) /\ Tame(s, Failed(u)) /\ \A a : Tame(s, Goes(u, a))
  <2>0. {"cmd", "home", "todo", "at", "old", "lost"} \subseteq DOMAIN u
    BY <1>2 DEF ProcType
  <2>1. \A e : Tame(s, Ended(u, e))
    BY <1>2 DEF Tame, Kin, Ended, Idle
  <2>2. Tame(s, Returned(u))
    BY <1>2, <2>0, <2>1 DEF Returned, Tame, Kin
  <2>3. Tame(s, Failed(u))
    BY <1>1, <1>2, <2>1, <2>2 DEF Failed
  <2>4. \A a : Tame(s, Goes(u, a))
    BY <1>2, <2>0 DEF Tame, Kin, Goes
  <2> QED BY <2>2, <2>3, <2>4
<1> DEFINE OK(u) == Tame(s, u) /\ DOMAIN u = DOMAIN s /\ u = [f \in DOMAIN s |-> u[f]] /\ u.todo = s.todo
<1>3. OK(s)
  BY DEF ProcType, Tame, Kin
<1>4. \A v : OK([s EXCEPT !.val = v]) /\ OK([s EXCEPT !.mem = v])
  BY DEF ProcType, Tame, Kin
<1>5. \A v : OK([s EXCEPT !.head = v, !.seen = v])
  BY DEF ProcType, Tame, Kin
<1>6. \A v : OK([s EXCEPT !.list = v]) /\ OK([s EXCEPT !.bundle = v]) /\ OK([s EXCEPT !.adv = v])
  BY DEF ProcType, Tame, Kin
<1>7. \A u : OK(u) => Tame(s, Returned(u)) /\ Tame(s, Failed(u)) /\ \A a : Tame(s, Goes(u, a))
  BY <1>2
<1> HIDE DEF OK
<1>8. \A v : Tame(s, AfterUnpack([s EXCEPT !.list = v]))
  BY <1>6, <1>7 DEF AfterUnpack
<1> QED BY <1>3, <1>4, <1>5, <1>6, <1>7, <1>8

\* A step of one process.
LEMMA KinBecomes ==
    ASSUME ProcsOK, NEW p \in Procs, NEW t, Becomes(p, t), Tame(proc[p], t)
    PROVE  \A q \in Procs : /\ Tame(proc[q], proc'[q])
                            /\ q # p => proc'[q] = proc[q]
<1>1. \A q \in Procs : proc'[q] = IF q = p THEN t ELSE proc[q]
  BY DEF ProcsOK, Becomes
<1> QED BY <1>1 DEF Tame, Kin

Kindred(p) ==
    /\ proc[p].todo # <<>>
    /\ \A q \in Procs : /\ Kin(proc[q], proc'[q])
                        /\ q # p => proc'[q] \in {proc[q], [proc[q] EXCEPT !.lost = TRUE]}
                        /\ q # p /\ proc'[q] # proc[q] => Doing(q, "ref", "write")
    /\ proc'[p].lost => proc[p].lost

\* Two actions step more than one process: they tell others that their file is gone.
LEMMA KinLosing ==
    ASSUME ProcsOK, NEW p \in Procs, proc[p].todo # <<>>, Tame(proc[p], proc'[p]),
           \A q \in Procs : q # p =>
              proc'[q] = proc[q] \/ (Doing(q, "ref", "write") /\ proc'[q] = [proc[q] EXCEPT !.lost = TRUE])
    PROVE  Kindred(p)
<1>1. ASSUME NEW q \in Procs, q # p PROVE Kin(proc[q], proc'[q])
  <2>1. proc[q] \in ProcType /\ Kin(proc[q], proc[q])
    BY DEF ProcsOK, Kin
  <2>2. Kin(proc[q], [proc[q] EXCEPT !.lost = TRUE])
    BY <2>1 DEF Kin, ProcType
  <2> QED BY <1>1, <2>1, <2>2
<1> QED BY <1>1 DEF Kindred, Tame

\* Steps on references.
LEMMA KinRefs == ASSUME Types, NEW p \in Procs, RefNext(p) PROVE Kindred(p)
<1> DEFINE s == proc[p]
<1>1. ProcsOK /\ s \in ProcType
  BY DEF Types, ProcsOK
<1>2. s.todo # <<>>
  BY DEF RefNext, Lookup, ReadHead, RefSkip, RefStat, RefOld, RefOpen, RefWrite, RefLog, RmOld,
         RmUnlink, RmLog, Doing
<1>3. ASSUME NEW t, Becomes(p, t), Tame(s, t) PROVE Kindred(p)
  BY <1>1, <1>2, <1>3, KinBecomes DEF Kindred, Tame
<1>4. /\ Tame(s, s) /\ Tame(s, Returned(s)) /\ Tame(s, Failed(s)) /\ \A a : Tame(s, Goes(s, a))
  BY <1>1, <1>2, KinOf DEF Tame, Kin
<1>5. ASSUME NEW a, NEW v PROVE Tame(s, [Goes(s, a) EXCEPT !.old = v]) /\ Tame(s, [Goes(s, a) EXCEPT !.seen = v])
  BY <1>1 DEF Tame, Kin, Goes, ProcType
<1>6. CASE Lookup(p)
  BY <1>1, <1>2, <1>3, <1>6, KinCalls DEF Lookup
<1>7. CASE ReadHead(p)
  <2>1. PICK v : \/ Becomes(p, Returned([s EXCEPT !.head = v, !.seen = v]))
                 \/ Becomes(p, Failed([s EXCEPT !.head = v, !.seen = v]))
    BY <1>7 DEF ReadHead
  <2> QED BY <1>1, <1>2, <1>3, <2>1, KinCalls
<1>8. CASE RefSkip(p) \/ RefOpen(p) \/ RefWrite(p) \/ RefLog(p) \/ RmLog(p)
  BY <1>3, <1>4, <1>8 DEF RefSkip, RefOpen, RefWrite, RefLog, RmLog
<1>9. CASE RefStat(p)
  BY <1>3, <1>4, <1>5, <1>9 DEF RefStat
<1>10. CASE RefOld(p) \/ RmOld(p)
  BY <1>3, <1>5, <1>10 DEF RefOld, RmOld
<1>11. CASE RmUnlink(p)
  <2>1. CASE RefFile(p) = Absent
    BY <1>3, <1>4, <1>11, <2>1 DEF RmUnlink
  <2>2. CASE RefFile(p) # Absent
    <3>1. proc' = [q \in Procs |-> CASE q = p -> Goes(proc[p], "log")
                    [] q # p /\ Doing(q, "ref", "write") /\ ThisRef(q) = ThisRef(p) ->
                          [proc[q] EXCEPT !.lost = TRUE]
                    [] OTHER -> proc[q]]
      BY <1>11, <2>2 DEF RmUnlink
    <3>2. /\ proc'[p] = Goes(s, "log")
          /\ \A q \in Procs : q # p =>
                proc'[q] = proc[q] \/ (Doing(q, "ref", "write") /\ proc'[q] = [proc[q] EXCEPT !.lost = TRUE])
      BY <3>1
    <3> QED BY <1>1, <1>2, <1>4, <3>2, KinLosing
  <2> QED BY <2>1, <2>2
<1> QED BY <1>6, <1>7, <1>8, <1>9, <1>10, <1>11 DEF RefNext

\* Steps on the index and the working tree.
LEMMA KinTree ==
    ASSUME Types, NEW p \in Procs, TreeNext(p)
    PROVE  Kindred(p)
<1> DEFINE s == proc[p]
<1>1. ProcsOK /\ s \in ProcType
  BY DEF Types, ProcsOK
<1>2. s.todo # <<>>
  BY DEF TreeNext, LoadTree, LockOpen, LockWrite, LockRename, TreeOpen, FileOpen, FileWrite, Doing
<1>3. ASSUME NEW t, Becomes(p, t), Tame(s, t) PROVE Kindred(p)
  BY <1>1, <1>2, <1>3, KinBecomes DEF Kindred, Tame
<1>4. /\ Tame(s, s) /\ Tame(s, Returned(s)) /\ Tame(s, Failed(s)) /\ \A a : Tame(s, Goes(s, a))
  BY <1>1, <1>2, KinOf DEF Tame, Kin
<1>5. CASE LoadTree(p)
  <2>1. PICK v : \/ Becomes(p, Returned([s EXCEPT !.mem = v]))
                 \/ Becomes(p, Failed([s EXCEPT !.mem = v]))
    BY <1>5 DEF LoadTree
  <2> QED BY <1>1, <1>2, <1>3, <2>1, KinCalls
<1>6. CASE LockOpen(p)
  <2>1. ASSUME NEW f PROVE Tame(s, [Goes(s, "write") EXCEPT !.fd = f])
    BY <1>1 DEF Tame, Kin, Goes, ProcType
  <2> QED BY <1>3, <1>4, <1>6, <2>1 DEF LockOpen
<1>7. CASE LockWrite(p) \/ LockRename(p)
  BY <1>3, <1>4, <1>7 DEF LockWrite, LockRename
<1>8. ASSUME NEW v PROVE Tame(s, [Goes(s, "file") EXCEPT !.left = v])
  BY <1>1 DEF Tame, Kin, Goes, ProcType
<1>9. CASE TreeOpen(p)
  BY <1>3, <1>4, <1>8, <1>9 DEF TreeOpen
<1>10. Tame(s, FileDone(p)) /\ Tame(s, FileFailed(p))
  <2> DEFINE u == [Goes(s, "file") EXCEPT !.left = @ \ {NextPath(p)}]
  <2>1. u \in ProcType /\ u.todo = s.todo
    <3>1. Goes(s, "file") \in ProcType /\ Goes(s, "file").todo = s.todo
      BY <1>1 DEF Goes, ProcType, Steps
    <3>2. Goes(s, "file").left \ {NextPath(p)} \in SUBSET Paths
      BY <3>1 DEF ProcType
    <3>3. u \in ProcType
      BY <3>1, <3>2, Fields
    <3> QED BY <1>1, <3>1, <3>3 DEF ProcType
  <2>2. Tame(s, u)
    BY <1>1 DEF Tame, Kin, Goes, ProcType
  <2> HIDE DEF u
  <2>3. Tame(s, Returned(u))
    BY <1>2, <2>1, <2>2, KinOf
  <2>4. FileDone(p) = IF u.left = {} THEN Returned(u) ELSE u
    BY DEF FileDone, u
  <2> QED BY <1>4, <2>2, <2>3, <2>4 DEF FileFailed
<1>11. CASE FileOpen(p) \/ FileWrite(p)
  BY <1>3, <1>4, <1>10, <1>11 DEF FileOpen, FileWrite
<1> QED BY <1>5, <1>6, <1>7, <1>9, <1>11 DEF TreeNext

\* What git receive-pack does: nothing, or the references in done are moved.
Served(p, done, end) ==
    LET r == Do(p).repo
        all == odb[r] \cup proc[p].list
    IN  /\ done \subseteq {e \in ToSet(proc[p].bundle) :
                              Resolve(r, e[1]) = proc[p].adv[e[1]] /\ History(e[2]) \subseteq all}
        /\ odb' = [odb EXCEPT ![r] = IF done = {} THEN @ ELSE all]
        /\ loose' = [loose EXCEPT ![r] = [n \in Names |->
                       IF Sent(done, n) = {} THEN @[n] ELSE CHOOSE c \in Sent(done, n) : TRUE]]
        /\ proc' = [q \in Procs |->
              CASE q = p -> end
                [] q # p /\ Doing(q, "ref", "write") /\ ThisRef(q)[1] = r /\ Sent(done, ThisRef(q)[2]) # {} ->
                      [proc[q] EXCEPT !.lost = TRUE]
                [] OTHER -> proc[q]]
        /\ IF done = {} THEN UNCHANGED marks ELSE Mark(<<"unlogged", "server">>)
\* A request that is answered does that.
LEMMA ReceiveIs ==
    ASSUME NEW p \in Procs, Receive(p)
    PROVE  \/ Becomes(p, Failed(proc[p])) /\ UNCHANGED <<odb, loose, marks>>
           \/ \E done : \E end \in {Returned(proc[p]), Failed(proc[p])} : Served(p, done, end)
<1> DEFINE r == Do(p).repo
           s == proc[p]
           all == odb[r] \cup s.list
           fit == {e \in ToSet(s.bundle) : Resolve(r, e[1]) = s.adv[e[1]] /\ History(e[2]) \subseteq all}
           Serves(end) ==
              \E done \in SUBSET fit :
                 /\ odb' = [odb EXCEPT ![r] = IF done = {} THEN @ ELSE all]
                 /\ loose' = [loose EXCEPT ![r] = [n \in Names |->
                                IF Sent(done, n) = {} THEN @[n] ELSE CHOOSE c \in Sent(done, n) : TRUE]]
                 /\ held' = [held EXCEPT ![r] = [n \in Names |-> @[n] \cup Sent(done, n)]]
                 /\ proc' = [q \in Procs |->
                       CASE q = p -> end
                         [] q # p /\ Doing(q, "ref", "write") /\ ThisRef(q)[1] = r /\ Sent(done, ThisRef(q)[2]) # {} ->
                               [proc[q] EXCEPT !.lost = TRUE]
                         [] OTHER -> proc[q]]
                 /\ IF done = {} THEN UNCHANGED marks ELSE Mark(<<"unlogged", "server">>)
<1>1. \/ Becomes(p, Failed(s)) /\ UNCHANGED <<odb, loose, marks>>
      \/ Serves(Returned(s)) \/ Serves(Failed(s))
  BY DEF Receive
<1>2. ASSUME NEW end, Serves(end) PROVE \E done : Served(p, done, end)
  <2>1. PICK done \in SUBSET fit :
           /\ odb' = [odb EXCEPT ![r] = IF done = {} THEN @ ELSE all]
           /\ loose' = [loose EXCEPT ![r] = [n \in Names |->
                          IF Sent(done, n) = {} THEN @[n] ELSE CHOOSE c \in Sent(done, n) : TRUE]]
           /\ held' = [held EXCEPT ![r] = [n \in Names |-> @[n] \cup Sent(done, n)]]
           /\ proc' = [q \in Procs |->
                 CASE q = p -> end
                   [] q # p /\ Doing(q, "ref", "write") /\ ThisRef(q)[1] = r /\ Sent(done, ThisRef(q)[2]) # {} ->
                         [proc[q] EXCEPT !.lost = TRUE]
                   [] OTHER -> proc[q]]
           /\ IF done = {} THEN UNCHANGED marks ELSE Mark(<<"unlogged", "server">>)
    BY <1>2, Zenon
  <2>2. done \subseteq fit
    OBVIOUS
  <2>3. Served(p, done, end)
    BY <2>1, <2>2, Zenon DEF Served
  <2> QED BY <2>3
<1> HIDE DEF Serves
<1> QED BY <1>1, <1>2

\* The others.
LEMMA KinOthers ==
    ASSUME Types, NEW p \in Procs, OtherNext(p)
    PROVE  Kindred(p)
<1> DEFINE s == proc[p]
<1>1. ProcsOK /\ s \in ProcType
  BY DEF Types, ProcsOK
<1>3. ASSUME NEW t, Becomes(p, t), Tame(s, t), s.todo # <<>> PROVE Kindred(p)
  BY <1>1, <1>3, KinBecomes DEF Kindred, Tame
<1>4. ASSUME s.todo # <<>>
      PROVE /\ Tame(s, s) /\ Tame(s, Returned(s)) /\ Tame(s, Failed(s)) /\ (\A a : Tame(s, Goes(s, a)))
            /\ (\A e : Tame(s, Ended(s, e))) /\ (\A calls : Tame(s, Loop(s, calls)))
  BY <1>1, <1>4, KinOf DEF Tame, Kin
<1>5. CASE LoadTree(p) \/ TreeOpen(p) \/ FileOpen(p) \/ FileWrite(p)
  BY <1>5, KinTree DEF TreeNext
<1>6. CASE Stage(p)
  BY <1>1, <1>3, <1>6, KinCalls DEF Stage, Doing
<1>7. CASE WriteTrees(p) \/ Peel(p)
  BY <1>3, <1>4, <1>7 DEF WriteTrees, Peel, Doing
<1>8. CASE MakeCommit(p)
  BY <1>1, <1>3, <1>8, KinCalls DEF MakeCommit, Doing
<1>9. CASE Decide(p)
  <2>1. s.todo # <<>>
    BY <1>9 DEF Decide, Doing
  <2>2. ASSUME NEW v PROVE Tame(s, [s EXCEPT !.todo = v, !.at = "call"])
    BY <1>1 DEF Tame, Kin, ProcType
  <2>3. PICK v, e : Becomes(p, [s EXCEPT !.todo = v, !.at = "call"]) \/ Becomes(p, Ended(s, e))
    <3>1. Decide(p)!2
      BY <1>9 DEF Decide
    <3> QED BY <3>1
  <2> QED BY <1>3, <1>4, <2>1, <2>2, <2>3
<1>10. CASE CopyList(p)
  <2>1. PICK v : Becomes(p, [Goes(s, "copy") EXCEPT !.list = v])
    BY <1>10 DEF CopyList
  <2>2. Tame(s, [Goes(s, "copy") EXCEPT !.list = v])
    BY <1>1 DEF Tame, Kin, Goes, ProcType
  <2> QED BY <1>3, <1>10, <2>1, <2>2 DEF CopyList, Doing
<1>11. CASE CopyObjects(p)
  BY <1>3, <1>4, <1>11 DEF CopyObjects, Doing
<1>12. CASE CopyRefs(p) \/ BundleRefs(p)
  BY <1>3, <1>4, <1>12 DEF CopyRefs, BundleRefs, Doing
<1>13. CASE RemoteHead(p)
  BY <1>1, <1>3, <1>4, <1>13, KinCalls DEF RemoteHead, Doing
<1>14. CASE BundleRef(p)
  <2>1. PICK v : Becomes(p, Returned([s EXCEPT !.bundle = v]))
    BY <1>14 DEF BundleRef
  <2> QED BY <1>1, <1>3, <1>14, <2>1, KinCalls DEF BundleRef, Doing
<1>15. CASE BundlePack(p)
  BY <1>1, <1>3, <1>4, <1>15, KinCalls DEF BundlePack, Doing
<1>16. CASE Unbundle(p)
  <2>1. PICK v : Becomes(p, Loop(s, v)) \/ Becomes(p, Failed(s))
    BY <1>16 DEF Unbundle
  <2> QED BY <1>3, <1>4, <1>16, <2>1 DEF Unbundle, Doing
<1>17. CASE Bundled(p)
  BY <1>1, <1>3, <1>17, KinCalls DEF Bundled, Doing
<1>18. CASE Advert(p)
  <2>1. PICK v : Becomes(p, Returned([s EXCEPT !.adv = v])) \/ Becomes(p, Failed(s))
    BY <1>18 DEF Advert
  <2> QED BY <1>1, <1>3, <1>4, <1>18, <2>1, KinCalls DEF Advert, Doing
<1>19. CASE Request(p)
  <2>1. PICK v : Becomes(p, Returned(s)) \/ Becomes(p, AfterUnpack([s EXCEPT !.list = v])) \/ Becomes(p, Failed(s))
    BY <1>19 DEF Request
  <2> QED BY <1>1, <1>3, <1>4, <1>19, <2>1, KinCalls DEF Request, Doing
<1>20. CASE UnpackOne(p)
  <2>1. PICK v : Becomes(p, AfterUnpack([s EXCEPT !.list = v])) \/ Becomes(p, Returned(s))
    BY <1>20 DEF UnpackOne
  <2> QED BY <1>1, <1>3, <1>4, <1>20, <2>1, KinCalls DEF UnpackOne, Doing
<1>21. CASE Receive(p)
  <2>1. s.todo # <<>>
    BY <1>21 DEF Receive, Doing
  <2>2. CASE Becomes(p, Failed(s))
    BY <1>3, <1>4, <2>1, <2>2
  <2>3. CASE ~Becomes(p, Failed(s))
    <3>0. PICK done : \E end \in {Returned(s), Failed(s)} : Served(p, done, end)
      BY <1>21, <2>3, ReceiveIs
    <3>1. PICK end \in {Returned(s), Failed(s)} : Served(p, done, end)
      BY <3>0
    <3>2. /\ proc'[p] = end
          /\ \A q \in Procs : q # p =>
                proc'[q] = proc[q] \/ (Doing(q, "ref", "write") /\ proc'[q] = [proc[q] EXCEPT !.lost = TRUE])
      BY <3>1 DEF Served
    <3> QED BY <1>1, <1>4, <2>1, <3>2, KinLosing
  <2> QED BY <2>2, <2>3
<1>22. CASE Crash(p)
  BY <1>3, <1>4, <1>22 DEF Crash
<1> QED BY <1>5, <1>6, <1>7, <1>8, <1>9, <1>10, <1>11, <1>12, <1>13, <1>14, <1>15, <1>16, <1>17,
           <1>18, <1>19, <1>20, <1>21, <1>22 DEF OtherNext

\* Every step is one process's, and changes at most a flag of the others.
LEMMA OneSteps ==
    ASSUME Types, NEW p \in Procs, StepOf(p)
    PROVE  Kindred(p)
  BY KinRefs, KinTree, KinOthers DEF StepOf, TreeNext

-----------------------------------------------------------------------------
(* A merge or a rebase that has the repository to itself.                  *)

Alone(p) == /\ proc[p].cmd \in {"merge", "rebase"}
            /\ \A q \in Procs \ {p} : proc[q].cmd = "none"

\* One member at most.
Single(S) == \A a, b \in S : a = b
\* The branch has only ever named what it names now.
Kept(r) == held[r]["main"] \subseteq {loose[r]["main"]}

\* Before the command has decided: the branch is a commit, or stands in packed-refs, and
\* nothing but a commit of the local repository can be ahead of it.
Deciding(s) ==
    LET r == s.home
    IN  /\ s.at = "call" /\ Kept(r) /\ lock[r] = NoFile
        /\ IsCommit(loose[r]["main"]) \/ packed[r]["main"] # NoCommit
        /\ \/ r = "local" /\ \A x \in Paths : work[r][x] # Absent
           \/ loose[r]["main"] = <<0, 4>> /\ s.val \in {<<0>>, <<0, 1>>, <<0, 3>>}
        /\ \/ s.todo = <<Stops(Call("head", r, "")), Call(s.cmd, r, "")>>
           \/ s.todo = <<Call(s.cmd, r, "")>> /\ s.head = Resolve(r, "HEAD")

\* The last call, which moves the branch; where it fails the branch has not moved.
Moving(s) ==
    LET r == s.home
    IN  /\ s.todo = <<Stops(Call("ref", r, "HEAD"))>>
        /\ s.at \in {"call", "open"} => Kept(r)
        /\ s.at = "write" => Single(held[r]["main"])
        /\ s.at = "log" => Single(held[r]["main"]) \/ loose[r]["main"] = s.val
        /\ s.at \in {"call", "open", "write", "log"}

\* The index is that of commit v, and so is every file but those in left: for certain
\* only in a rebase, or if nothing failed.
Showing(s, v, left) ==
    LET r == s.home
    IN  /\ disk[idx[r]] = Content(v)
        /\ s.cmd = "rebase" \/ faults = MaxFaults => \A x \in Files(v) \ left : work[r][x] = v
        /\ \A x \in Paths : work[r][x] # Absent

\* A fast forward, call by call.
Loading(s) == s.todo = FastForward(s) /\ s.at = "call" /\ lock[s.home] = NoFile
Writing(p, s) ==
    /\ s.todo = Tail(FastForward(s)) /\ s.mem = s.val
    /\ \/ s.at = "call" /\ lock[s.home] = NoFile
       \/ s.at = "write" /\ lock[s.home] = p /\ s.fd = p /\ disk[p] = <<>>
       \/ s.at = "rename" /\ lock[s.home] = p /\ disk[p] = Content(s.val)
Checking(s) ==
    /\ s.todo = Tail(Tail(FastForward(s)))
    /\ \/ s.at = "call" /\ Showing(s, s.val, Paths)
       \/ /\ s.at \in {"file", "filewrite"} /\ s.left # {} /\ s.left \subseteq Files(s.val)
          /\ Showing(s, s.val, s.left)
Forwarding(p, s) ==
    /\ s.home = "local" /\ s.val # NoCommit
    /\ Kept(s.home) /\ (\A x \in Paths : work[s.home][x] # Absent)
    /\ Loading(s) \/ Writing(p, s) \/ Checking(s)

\* What CheckedOut says of a command that has ended.
Outcome(s) ==
    LET r == s.home
        h == loose[r]["main"]
    IN  /\ s.result = "error" => Kept(r)
        /\ s.result # "crashed" /\ packed[r]["main"] = NoCommit /\ Cardinality(held[r]["main"]) > 1
              => Showing(s, h, {})

WorkOK == work \in [Repos -> [Paths -> Seq(Int)]]
Phase(p) ==
    LET s == proc[p]
    IN  \/ s.todo = <<>> /\ Outcome(s)
        \/ Deciding(s)
        \/ Moving(s) /\ (packed[s.home]["main"] # NoCommit \/ Showing(s, s.val, {}))
        \/ Forwarding(p, s)
MergeOK(p) == WorkOK /\ Phase(p) /\ \A q \in Procs \ {p} : proc[q].todo = <<>>
MInv == \A p \in Procs : Alone(p) => MergeOK(p)

\* Which steps a process can make is told by the call it is at.
LEMMA ActsOf ==
    ASSUME NEW p \in Procs, StepOf(p), ~Crash(p)
    PROVE  /\ Do(p).call = "head" => ReadHead(p) /\ UNCHANGED treeVars
           /\ Do(p).call \in {"merge", "rebase"} => Decide(p)
           /\ Do(p).call = "read_tree" => LoadTree(p)
           /\ Do(p).call = "index_write" => LockOpen(p) \/ LockWrite(p) \/ LockRename(p)
           /\ Do(p).call = "checkout" => TreeOpen(p) \/ FileOpen(p) \/ FileWrite(p)
           /\ Do(p).call = "advert" => Advert(p)
           /\ Do(p).call = "request" => Request(p) \/ UnpackOne(p)
           /\ Do(p).call = "ref" =>
                 /\ RefSkip(p) \/ RefStat(p) \/ RefOld(p) \/ RefOpen(p) \/ RefWrite(p) \/ RefLog(p)
                 /\ UNCHANGED treeVars
<1>1. /\ Lookup(p) => Do(p).call = "lookup"
      /\ ReadHead(p) => Do(p).call = "head"
      /\ RefSkip(p) \/ RefStat(p) \/ RefOld(p) \/ RefOpen(p) \/ RefWrite(p) \/ RefLog(p) => Do(p).call = "ref"
      /\ RmOld(p) \/ RmUnlink(p) \/ RmLog(p) => Do(p).call = "remove"
  BY DEF Lookup, ReadHead, RefSkip, RefStat, RefOld, RefOpen, RefWrite, RefLog, RmOld, RmUnlink, RmLog, Doing
<1>2. /\ LoadTree(p) => Do(p).call = "read_tree"
      /\ LockOpen(p) \/ LockWrite(p) \/ LockRename(p) => Do(p).call = "index_write"
      /\ TreeOpen(p) \/ FileOpen(p) \/ FileWrite(p) => Do(p).call = "checkout"
  BY DEF LoadTree, LockOpen, LockWrite, LockRename, TreeOpen, FileOpen, FileWrite, Doing
<1>3. /\ Stage(p) => Do(p).call = "stage"
      /\ WriteTrees(p) => Do(p).call = "write_tree"
      /\ MakeCommit(p) => Do(p).call = "commit"
      /\ Peel(p) => Do(p).call = "peel"
      /\ Decide(p) => Do(p).call \in {"merge", "rebase"}
      /\ CopyList(p) \/ CopyObjects(p) => Do(p).call = "copy"
      /\ CopyRefs(p) => Do(p).call = "copy_refs"
      /\ RemoteHead(p) => Do(p).call = "remote_head"
  BY DEF Stage, WriteTrees, MakeCommit, Peel, Decide, CopyList, CopyObjects, CopyRefs, RemoteHead, Doing
<1>4. /\ BundleRefs(p) => Do(p).call = "bundle_refs"
      /\ BundleRef(p) => Do(p).call = "bundle_ref"
      /\ BundlePack(p) => Do(p).call = "bundle_pack"
      /\ Unbundle(p) => Do(p).call = "unbundle"
      /\ Bundled(p) => Do(p).call = "bundled"
      /\ Advert(p) => Do(p).call = "advert"
      /\ Request(p) \/ UnpackOne(p) => Do(p).call = "request"
      /\ Receive(p) => Do(p).call = "receive"
  BY DEF BundleRefs, BundleRef, BundlePack, Unbundle, Bundled, Advert, Request, UnpackOne, Receive, Doing
<1> QED BY <1>1, <1>2, <1>3, <1>4 DEF StepOf, RefNext, OtherNext

\* What has one member at most does not have more than one.
LEMMA SingleCard == ASSUME NEW S, Single(S) PROVE ~(Cardinality(S) > 1)
<1>1. S = {} \/ \E a : S = {a}
  BY DEF Single
<1>2. CASE S = {}
  <2>1. Cardinality(S) = 0
    BY <1>2, FS_EmptySet
  <2> QED BY <2>1
<1>3. CASE \E a : S = {a}
  <2>1. Cardinality(S) = 1
    BY <1>3, FS_Singleton
  <2> QED BY <2>1
<1> QED BY <1>1, <1>2, <1>3
\* A branch that was kept has named one commit at most.
LEMMA KeptSingle == ASSUME NEW r, Kept(r) PROVE Single(held[r]["main"])
  BY DEF Kept, Single

\* The calls of a fast forward.
ForwardCalls(s, q, t, u, last) ==
    /\ q # <<>> /\ Len(q) = 4 /\ q[1].call = "read_tree" /\ q[1].onerr = "stop"
    /\ t = Tail(q) /\ t # <<>> /\ Len(t) = 3
    /\ t[1].call = "index_write" /\ t[1].onerr = "stop" /\ t[1].repo = s.home
    /\ u = Tail(t) /\ u # <<>> /\ Len(u) = 2
    /\ u[1].call = "checkout" /\ u[1].force = FALSE /\ u[1].repo = s.home /\ u[1].name = "tree"
    /\ u[1].onerr = IF s.cmd = "rebase" THEN "stop" ELSE "go"
    /\ Tail(u) = <<last>> /\ <<last>> # <<>> /\ Len(<<last>>) = 1 /\ <<last>>[1] = last
    /\ last.call = "ref" /\ last.repo = s.home /\ last.name = "HEAD" /\ last.force = TRUE
    /\ last.onerr = "stop"
\* They are that.
LEMMA ForwardIs ==
    ASSUME NEW s
    PROVE  LET q == FastForward(s)
           IN  ForwardCalls(s, q, Tail(q), Tail(Tail(q)), Stops(Call("ref", s.home, "HEAD")))
<1> DEFINE a == Stops(Call("read_tree", s.home, ""))
           b == Stops(Call("index_write", s.home, ""))
           g == Gently(Call("checkout", s.home, "tree"))
           c == IF s.cmd = "rebase" THEN Stops(g) ELSE g
           d == Stops(Call("ref", s.home, "HEAD"))
<1> PICK q : q = FastForward(s)
  OBVIOUS
<1>1. q = <<a, b, c, d>>
  BY DEF FastForward
<1>2. /\ a.call = "read_tree" /\ a.onerr = "stop"
      /\ b.call = "index_write" /\ b.onerr = "stop" /\ b.repo = s.home
      /\ d.call = "ref" /\ d.repo = s.home /\ d.name = "HEAD" /\ d.force = TRUE /\ d.onerr = "stop"
  BY DEF Stops, Call
<1>3. /\ c.call = "checkout" /\ c.force = FALSE /\ c.repo = s.home /\ c.name = "tree"
      /\ c.onerr = IF s.cmd = "rebase" THEN "stop" ELSE "go"
  BY DEF Stops, Call, Gently
<1> HIDE DEF a, b, c, d
<1>4. /\ Tail(q) = <<b, c, d>> /\ Tail(<<b, c, d>>) = <<c, d>> /\ Tail(<<c, d>>) = <<d>>
      /\ Len(q) = 4 /\ Len(<<b, c, d>>) = 3 /\ Len(<<c, d>>) = 2 /\ Len(<<d>>) = 1
      /\ q[1] = a /\ <<b, c, d>>[1] = b /\ <<c, d>>[1] = c /\ <<d>>[1] = d
      /\ q # <<>> /\ <<b, c, d>> # <<>> /\ <<c, d>> # <<>> /\ <<d>> # <<>>
  BY <1>1
<1>5. ForwardCalls(s, q, <<b, c, d>>, <<c, d>>, d)
  BY <1>2, <1>3, <1>4 DEF ForwardCalls
<1> QED BY <1>4, <1>5 DEF d

\* A process after its call returned, failed or ended its command.
LEMMA NextCall ==
    ASSUME NEW s \in ProcType, NEW u, u.todo = s.todo, u.cmd = s.cmd, u.home = s.home,
           u = [f \in DOMAIN s |-> u[f]]
    PROVE  /\ \A e : LET t == Ended(u, e)
                     IN  t.todo = <<>> /\ t.result = e /\ t.cmd = s.cmd /\ t.home = s.home
           /\ Len(s.todo) = 1 => Returned(u) = Ended(u, "ok")
           /\ Len(s.todo) # 1 =>
                 LET t == Returned(u)
                 IN  /\ t.todo = Tail(s.todo) /\ t.at = "call" /\ t.cmd = s.cmd /\ t.home = s.home
                     /\ t.val = u.val /\ t.head = u.head /\ t.mem = u.mem /\ t.left = u.left
           /\ s.todo[1].onerr = "stop" => Failed(u) = Ended(u, "error")
           /\ s.todo[1].onerr = "go" => Failed(u) = Returned(u)
<1>1. {"cmd", "home", "todo", "at", "old", "lost", "val", "head", "mem", "left"} \subseteq DOMAIN s
  BY DEF ProcType
<1>2. \A e : LET t == Ended(u, e)
             IN  t.todo = <<>> /\ t.result = e /\ t.cmd = s.cmd /\ t.home = s.home
  BY DEF Ended, Idle
<1>3. Len(s.todo) = 1 => Returned(u) = Ended(u, "ok")
  BY DEF Returned
<1>4. Len(s.todo) # 1 =>
         LET t == Returned(u)
         IN  /\ t.todo = Tail(s.todo) /\ t.at = "call" /\ t.cmd = s.cmd /\ t.home = s.home
             /\ t.val = u.val /\ t.head = u.head /\ t.mem = u.mem /\ t.left = u.left
  <2> SUFFICES ASSUME Len(s.todo) # 1
               PROVE LET t == Returned(u)
                     IN  /\ t.todo = Tail(s.todo) /\ t.at = "call" /\ t.cmd = s.cmd /\ t.home = s.home
                         /\ t.val = u.val /\ t.head = u.head /\ t.mem = u.mem /\ t.left = u.left
    OBVIOUS
  <2>1. Returned(u) = [u EXCEPT !.todo = Tail(@), !.at = "call", !.old = NoCommit, !.lost = FALSE]
    BY DEF Returned
  <2> QED BY <1>1, <2>1
<1>5. /\ s.todo[1].onerr = "stop" => Failed(u) = Ended(u, "error")
      /\ s.todo[1].onerr = "go" => Failed(u) = Returned(u)
  BY DEF Failed
<1> QED BY <1>2, <1>3, <1>4, <1>5

\* The state of the process that made the step.
LEMMA IsNow ==
    ASSUME ProcsOK, NEW p \in Procs, NEW t, Becomes(p, t)
    PROVE  proc'[p] = t
  BY DEF ProcsOK, Becomes

\* A command that ends before it has moved the branch.
LEMMA EndsKept ==
    ASSUME NEW p \in Procs, ProcsOK, NEW u, NEW e, Becomes(p, Ended(u, e)), u.home = proc[p].home,
           Kept(proc[p].home), UNCHANGED <<loose, held>>
    PROVE  Phase(p)'
<1>1. proc'[p].todo = <<>> /\ proc'[p].home = proc[p].home
  BY IsNow DEF Ended, Idle
<1> PICK r : r = proc[p].home
  OBVIOUS
<1>2. ~(Cardinality(held[r]["main"]) > 1)
  BY KeptSingle, SingleCard
<1>3. Kept(r)'
  BY DEF Kept
<1>4. ~(Cardinality(held'[r]["main"]) > 1)
  BY <1>2
<1>5. Outcome(proc[p])'
  BY <1>1, <1>3, <1>4 DEF Outcome, Kept
<1> QED BY <1>1, <1>5 DEF Phase

\* HEAD is read.
LEMMA HeadStep ==
    ASSUME TInv, NEW p \in Procs, Alone(p), WorkOK, Deciding(proc[p]), ReadHead(p), UNCHANGED treeVars
    PROVE  WorkOK' /\ Phase(p)'
<1> DEFINE s == proc[p]
           v == Resolve(Do(p).repo, "HEAD")
           u == [s EXCEPT !.head = v, !.seen = v]
<1>1. ProcsOK /\ s \in ProcType
  BY DEF TInv, Types, ProcsOK
<1>2. /\ UNCHANGED <<loose, packed, held, lock, work>> /\ WorkOK'
      /\ Becomes(p, Returned(u)) \/ Becomes(p, Failed(u))
  BY DEF ReadHead, refVars, treeVars, WorkOK
<1> DEFINE a == Stops(Call("head", s.home, ""))
           b == Call(s.cmd, s.home, "")
<1>3. s.todo = <<a, b>> /\ a.onerr = "stop" /\ a.repo = s.home
  <2>1. s.todo # <<>> /\ s.todo[1].call = "head"
    BY DEF ReadHead, Doing, Do
  <2>2. /\ a.call = "head" /\ a.onerr = "stop" /\ a.repo = s.home /\ b.call \in {"merge", "rebase"}
    BY DEF Stops, Call, Alone
  <2>3. <<b>>[1] = b
    OBVIOUS
  <2>4. s.todo = <<a, b>> \/ s.todo = <<b>>
    BY DEF Deciding
  <2> HIDE DEF a, b
  <2> QED BY <2>1, <2>2, <2>3, <2>4
<1>4. /\ u.todo = s.todo /\ u.cmd = s.cmd /\ u.home = s.home /\ u = [f \in DOMAIN s |-> u[f]]
      /\ u.head = v /\ u.val = s.val
  BY <1>1 DEF ProcType
<1> HIDE DEF a, b, u
<1>5. Len(s.todo) = 2 /\ s.todo[1] = a /\ Tail(s.todo) = <<b>>
  BY <1>3
<1>6. CASE Becomes(p, Failed(u))
  <2>1. Failed(u) = Ended(u, "error")
    BY <1>1, <1>3, <1>4, <1>5, NextCall
  <2> QED BY <1>1, <1>2, <1>4, <1>6, <2>1, EndsKept DEF Deciding
<1>7. CASE Becomes(p, Returned(u))
  <2>1. proc'[p] = Returned(u)
    BY <1>1, <1>2, <1>7, IsNow
  <2>2. LET t == Returned(u)
        IN  /\ t.todo = Tail(s.todo) /\ t.at = "call" /\ t.cmd = s.cmd /\ t.home = s.home
            /\ t.val = u.val /\ t.head = u.head
    <3>1. Len(s.todo) # 1
      BY <1>5
    <3> HIDE DEF s
    <3> QED BY ONLY <1>1, <1>4, <3>1, NextCall
  <2>3. v = Resolve(s.home, "HEAD")
    BY <1>3, <1>5 DEF Do
  <2>5. Deciding(s)'
    BY <1>2, <1>4, <1>5, <2>1, <2>2, <2>3 DEF Deciding, b, Kept, Resolve
  <2> QED BY <1>2, <2>5 DEF Phase
<1> QED BY <1>2, <1>6, <1>7

\* What a fast forward goes from is a commit it descends from; the peer's branch is no
\* such commit.
LEMMA Ahead ==
    ASSUME NEW h, NEW v \in Value, IsPrefix(h, v), h \in Value, h # NoCommit
    PROVE  v # NoCommit /\ (h = <<0, 4>> => v \notin {<<0>>, <<0, 1>>, <<0, 3>>})
<1>1. Len(h) \in Nat /\ Len(h) # 0
  BY EmptySeq DEF Value, NoCommit
<1>2. Len(h) <= Len(v) /\ SubSeq(h, 1, Len(h)) = SubSeq(v, 1, Len(h))
  BY DEF IsPrefix
<1>3. v # NoCommit
  BY <1>1, <1>2 DEF NoCommit
<1>4. ASSUME h = <<0, 4>>, v \in {<< 0 >>, <<0, 1>>, <<0, 3>>} PROVE FALSE
  <2>1. Len(<<0>>) = 1 /\ Len(<<0, 1>>) = 2 /\ Len(<<0, 3>>) = 2 /\ Len(h) = 2
    BY <1>4
  <2>2. SubSeq(h, 1, 2)[2] = 4 /\ SubSeq(<<0, 1>>, 1, 2)[2] = 1 /\ SubSeq(<<0, 3>>, 1, 2)[2] = 3
    BY <1>4
  <2> QED BY <1>2, <1>4, <2>1, <2>2
<1> QED BY <1>3, <1>4

\* The command decides.
LEMMA DecideStep ==
    ASSUME TInv, NEW p \in Procs, Alone(p), WorkOK, Deciding(proc[p]), Decide(p)
    PROVE  WorkOK' /\ Phase(p)'
<1> PICK r : r = proc[p].home
  OBVIOUS
<1> DEFINE s == proc[p]
           h == s.head
           Runs(calls) == [s EXCEPT !.todo = calls, !.at = "call"]
           last == <<Stops(Call("ref", r, "HEAD"))>>
<1>1. ProcsOK /\ s \in ProcType /\ r \in Repos /\ RefsOK
  BY DEF TInv, Types, ProcsOK, ProcType
<1>2. UNCHANGED <<loose, packed, held, lock, work, disk, idx, faults>> /\ WorkOK'
  BY DEF Decide, refVars, treeVars, WorkOK, Fine
<1>3. h = Resolve(r, "HEAD")
  <2> DEFINE a == Stops(Call("head", s.home, ""))
             b == Call(s.cmd, s.home, "")
  <2>1. s.todo # <<>> /\ s.todo[1].call \in {"merge", "rebase"}
    BY DEF Decide, Doing, Do
  <2>2. a.call = "head"
    BY DEF Stops, Call
  <2>3. <<a, b>>[1] = a
    OBVIOUS
  <2>4. s.todo = <<a, b>> \/ (s.todo = <<b>> /\ h = Resolve(r, "HEAD"))
    BY DEF Deciding
  <2> HIDE DEF a, b
  <2> QED BY <2>1, <2>2, <2>3, <2>4
<1>4. h = IF IsCommit(loose[r]["main"]) THEN loose[r]["main"] ELSE NoCommit
  BY <1>3 DEF Resolve, FileOf
<1>5. Becomes(p, CASE h = NoCommit -> Runs(last)
                   [] h = s.val -> Ended(s, "ok")
                   [] h # NoCommit /\ h # s.val /\ IsAncestor(s.home, h, s.val) -> Runs(FastForward(s))
                   [] OTHER -> Ended(s, IF IsAncestor(s.home, s.val, h) THEN "ok" ELSE "error"))
  BY DEF Decide
<1>6. ASSUME NEW calls
      PROVE  LET t == Runs(calls)
             IN  /\ t.todo = calls /\ t.at = "call" /\ t.home = r /\ t.cmd = s.cmd /\ t.val = s.val
  BY <1>1 DEF ProcType
<1>7. Kept(r) /\ Kept(r)'
  BY <1>2 DEF Deciding, Kept
<1> DEFINE moves == Runs(last)
           forwards == Runs(FastForward(s))
<1>8. /\ moves.todo = last /\ moves.at = "call" /\ moves.home = r
      /\ forwards.todo = FastForward(s) /\ forwards.at = "call" /\ forwards.home = r
      /\ forwards.cmd = s.cmd /\ forwards.val = s.val
  BY <1>6
<1> HIDE DEF Runs, moves, forwards
<1>9. \/ h = NoCommit /\ Becomes(p, moves)
      \/ \E e : Becomes(p, Ended(s, e))
      \/ h # NoCommit /\ IsAncestor(s.home, h, s.val) /\ Becomes(p, forwards)
  <2>1. CASE h = NoCommit
    <3>1. \/ Becomes(p, Runs(last))
          \/ h = s.val /\ Becomes(p, Ended(s, "ok"))
      BY <1>5, <2>1
    <3> QED BY <2>1, <3>1 DEF moves
  <2>2. CASE h # NoCommit
    BY <1>5, <2>2 DEF forwards
  <2> QED BY <2>1, <2>2
<1>10. CASE h = NoCommit /\ Becomes(p, moves)
  <2>1. proc'[p] = moves
    BY <1>1, <1>10, IsNow
  <2>2. packed'[r]["main"] # NoCommit
    BY <1>2, <1>4, <1>10 DEF Deciding, IsCommit
  <2>3. Moving(proc[p])'
    BY <1>7, <1>8, <2>1 DEF Moving, Kept
  <2> QED BY <1>2, <1>8, <2>1, <2>2, <2>3 DEF Phase
<1>11. CASE \E e : Becomes(p, Ended(s, e))
  BY <1>1, <1>2, <1>7, <1>11, EndsKept
<1>12. CASE h # NoCommit /\ IsAncestor(s.home, h, s.val) /\ Becomes(p, forwards)
  <2>1. proc'[p] = forwards
    BY <1>1, <1>12, IsNow
  <2>2. h = loose[r]["main"] /\ h \in Value /\ s.val \in Value
    <3>1. "HEAD" \in Names \cup {"HEAD"}
      OBVIOUS
    <3> QED BY <1>1, <1>3, <1>4, <1>12, <3>1, ResolveOK DEF ProcType
  <2>3. IsPrefix(h, s.val)
    BY <1>12 DEF IsAncestor
  <2>4. s.val # NoCommit /\ (h = <<0, 4>> => s.val \notin {<<0>>, <<0, 1>>, <<0, 3>>})
    <3> HIDE DEF h, s
    <3> QED BY <1>12, <2>2, <2>3, Ahead
  <2>5. r = "local" /\ (\A x \in Paths : work[r][x] # Absent) /\ lock[r] = NoFile
    BY <2>2, <2>4 DEF Deciding
  <2>6. FastForward(forwards) = FastForward(s)
    BY <1>8 DEF FastForward
  <2>7. Loading(proc[p])'
    BY <1>2, <1>8, <2>1, <2>5, <2>6 DEF Loading, FastForward
  <2>8. Forwarding(p, proc[p])'
    BY <1>2, <1>7, <1>8, <2>1, <2>4, <2>5, <2>7 DEF Forwarding, Kept
  <2> QED BY <1>2, <2>8 DEF Phase
<1> QED BY <1>9, <1>10, <1>11, <1>12

\* The index in memory becomes that of the commit.
LEMMA LoadStep ==
    ASSUME TInv, NEW p \in Procs, WorkOK, Forwarding(p, proc[p]), Loading(proc[p]), LoadTree(p)
    PROVE  WorkOK' /\ Phase(p)'
<1> DEFINE s == proc[p]
<1>1. ProcsOK /\ s \in ProcType
  BY DEF TInv, Types, ProcsOK
<1>2. UNCHANGED <<loose, held, lock, work>> /\ WorkOK'
  BY DEF LoadTree, refVars, treeVars, WorkOK
<1>3. /\ s.todo # <<>> /\ Len(s.todo) # 1 /\ s.todo[1].onerr = "stop"
      /\ Kept(s.home) /\ s.todo = FastForward(s)
  <2>1. PICK q : q = FastForward(s)
    OBVIOUS
  <2>2. q # <<>> /\ Len(q) = 4 /\ q[1].onerr = "stop"
    BY <2>1, ForwardIs DEF ForwardCalls
  <2> QED BY <2>1, <2>2 DEF Forwarding, Loading
<1>4. ASSUME NEW v
      PROVE  LET u == [s EXCEPT !.mem = v]
             IN  /\ u.todo = s.todo /\ u.cmd = s.cmd /\ u.home = s.home /\ u = [f \in DOMAIN s |-> u[f]]
                 /\ u.mem = v /\ u.val = s.val
  BY <1>1 DEF ProcType
<1>5. CASE \E v : Becomes(p, Failed([s EXCEPT !.mem = v]))
  <2>1. PICK v : Becomes(p, Failed([s EXCEPT !.mem = v]))
    BY <1>5
  <2> PICK u : u = [s EXCEPT !.mem = v]
    OBVIOUS
  <2>2. u.todo = s.todo /\ u.cmd = s.cmd /\ u.home = s.home /\ u = [f \in DOMAIN s |-> u[f]]
    BY <1>4
  <2>3. Failed(u) = Ended(u, "error")
    BY <1>3, <2>2 DEF Failed
  <2>4. Becomes(p, Ended(u, "error"))
    BY <2>1, <2>3
  <2> QED BY <1>1, <1>2, <1>3, <2>2, <2>4, EndsKept
<1>6. CASE Becomes(p, Returned([s EXCEPT !.mem = s.val]))
  <2> PICK u : u = [s EXCEPT !.mem = s.val]
    OBVIOUS
  <2>1. /\ u.todo = s.todo /\ u.cmd = s.cmd /\ u.home = s.home /\ u = [f \in DOMAIN s |-> u[f]]
        /\ u.mem = s.val /\ u.val = s.val
    BY <1>4
  <2> PICK t : t = Returned(u)
    OBVIOUS
  <2>2. /\ t.todo = Tail(s.todo) /\ t.at = "call" /\ t.cmd = s.cmd /\ t.home = s.home
        /\ t.val = s.val /\ t.mem = s.val
    <3> HIDE DEF s
    <3> QED BY ONLY <1>1, <1>3, <2>1, t = Returned(u), NextCall
  <2>3. proc'[p] = t
    BY <1>1, <1>6, IsNow
  <2>4. FastForward(t) = FastForward(s)
    BY <2>2 DEF FastForward
  <2>5. Writing(p, proc[p])'
    BY <1>2, <1>3, <2>2, <2>3, <2>4 DEF Writing, Loading, FastForward
  <2>6. Forwarding(p, proc[p])'
    BY <1>2, <2>2, <2>3, <2>5 DEF Forwarding, Kept
  <2> QED BY <1>2, <2>6 DEF Phase
<1> QED BY <1>5, <1>6 DEF LoadTree

\* The index is written to its lock, which becomes the index.
LEMMA WritingStep ==
    ASSUME TInv, NEW p \in Procs, WorkOK, Forwarding(p, proc[p]), Writing(p, proc[p]),
           LockOpen(p) \/ LockWrite(p) \/ LockRename(p)
    PROVE  WorkOK' /\ Phase(p)'
<1> DEFINE s == proc[p]
<1> PICK r : r = s.home
  OBVIOUS
<1>1. /\ ProcsOK /\ s \in ProcType /\ r \in Repos /\ TreeOK /\ s.val \in Value
      /\ p # NoFile /\ p \in {0} \cup Procs
  BY ProcsAssumption DEF TInv, Types, ProcsOK, ProcType, NoFile
<1>2. UNCHANGED <<loose, held, work>> /\ WorkOK'
  BY DEF LockOpen, LockWrite, LockRename, refVars, WorkOK
<1>3. /\ s.todo # <<>> /\ Len(s.todo) # 1 /\ s.todo[1].onerr = "stop" /\ s.todo[1].repo = r
      /\ Kept(s.home) /\ s.todo = Tail(FastForward(s)) /\ s.mem = s.val
  <2>1. PICK t : t = Tail(FastForward(s))
    OBVIOUS
  <2>2. t # <<>> /\ Len(t) = 3 /\ t[1].onerr = "stop" /\ t[1].repo = s.home
    BY <2>1, ForwardIs DEF ForwardCalls
  <2>3. s.todo = t /\ s.mem = s.val /\ s.todo = Tail(FastForward(s))
    BY <2>1 DEF Writing
  <2>4. Kept(s.home)
    BY DEF Forwarding
  <2>5. t # <<>> /\ Len(t) # 1 /\ t[1].onerr = "stop" /\ t[1].repo = r
    BY <2>2
  <2> HIDE DEF s
  <2> QED BY <2>3, <2>4, <2>5
<1>4. Do(p).repo = r
  BY <1>3 DEF Do
<1>5. CASE Becomes(p, Failed(s))
  <2>1. Failed(s) = Ended(s, "error")
    BY <1>3 DEF Failed
  <2> QED BY <1>1, <1>2, <1>3, <1>5, <2>1, EndsKept
<1>6. ASSUME NEW t, Becomes(p, t), t.cmd = s.cmd, t.home = s.home, t.val = s.val,
             \/ /\ t.todo = s.todo /\ t.mem = s.mem
                /\ \/ t.at = "write" /\ lock'[r] = p /\ t.fd = p /\ disk'[p] = <<>>
                   \/ t.at = "rename" /\ lock'[r] = p /\ disk'[p] = Content(s.val)
             \/ t.todo = Tail(s.todo) /\ t.at = "call" /\ disk'[idx'[r]] = Content(s.val)
      PROVE  Phase(p)'
  <2>1. proc'[p] = t
    BY <1>1, <1>6, IsNow
  <2>2. FastForward(t) = FastForward(s)
    BY <1>6 DEF FastForward
  <2>3. Writing(p, proc[p])' \/ Checking(proc[p])'
    <3>0. FastForward(proc[p])' = FastForward(proc[p])
      BY <1>6, <2>1 DEF FastForward
    <3>3. Tail(s.todo) # s.todo
      <4>1. s.todo \in Seq(CallType)
        BY <1>1 DEF ProcType
      <4>2. Len(Tail(s.todo)) = Len(s.todo) - 1 /\ Len(s.todo) \in Nat
        BY <1>3, <4>1
      <4>3. Len(Tail(s.todo)) # Len(s.todo)
        BY <4>2
      <4> QED BY <4>3, Zenon
    <3>1. CASE t.todo = s.todo
      <4>1. \/ t.at = "write" /\ lock'[r] = p /\ t.fd = p /\ disk'[p] = <<>>
            \/ t.at = "rename" /\ lock'[r] = p /\ disk'[p] = Content(s.val)
        BY <1>6, <3>1, <3>3
      <4> QED BY <1>3, <1>6, <2>1, <3>0, <3>1, <4>1 DEF Writing
    <3>2. CASE t.todo = Tail(s.todo) /\ t.at = "call" /\ disk'[idx'[r]] = Content(s.val)
      <4>1. Showing(proc[p], proc[p].val, Paths)'
        <5>1. \A v : Files(v) \subseteq Paths
          BY DEF Files, Paths
        <5>2. \A x \in Paths : work'[r][x] # Absent
          BY <1>2 DEF Forwarding
        <5>3. disk'[idx'[r]] = Content(s.val) /\ proc'[p].home = r /\ proc'[p].val = s.val
          BY <1>6, <2>1, <3>2
        <5> QED BY <5>1, <5>2, <5>3 DEF Showing
      <4> QED BY <1>3, <1>6, <2>1, <3>0, <3>2, <4>1 DEF Checking
    <3> QED BY <1>6, <3>1, <3>2
  <2>4. Forwarding(p, proc[p])'
    BY <1>2, <1>6, <2>1, <2>3 DEF Forwarding, Kept
  <2> QED BY <2>4 DEF Phase
<1>7. CASE LockOpen(p) /\ ~Becomes(p, Failed(s))
  <2>1. lock[r] = NoFile
    BY <1>7 DEF Writing, LockOpen, Doing
  <2>2. Inode(p) = p
    BY <1>4, <2>1 DEF Inode
  <2> DEFINE t == [Goes(s, "write") EXCEPT !.fd = p]
  <2>3. Becomes(p, t) /\ lock' = [lock EXCEPT ![r] = p] /\ disk' = [disk EXCEPT ![p] = <<>>]
    BY <1>4, <1>7, <2>2 DEF LockOpen
  <2>4. /\ t.todo = s.todo /\ t.cmd = s.cmd /\ t.home = s.home /\ t.val = s.val /\ t.mem = s.mem
        /\ t.at = "write" /\ t.fd = p
    BY <1>1 DEF Goes, ProcType
  <2>5. lock'[r] = p /\ disk'[p] = <<>>
    BY <1>1, <2>3 DEF TreeOK
  <2> HIDE DEF t
  <2> QED BY <1>2, <1>6, <2>3, <2>4, <2>5
<1>8. CASE LockWrite(p) /\ ~Becomes(p, Failed(s))
  <2>1. lock[r] = p /\ s.fd = p /\ disk[p] = <<>>
    BY <1>8 DEF Writing, LockWrite, Doing
  <2> DEFINE t == Goes(s, "rename")
  <2>2. Becomes(p, t) /\ lock' = lock /\ disk' = [disk EXCEPT ![p] = Overlay(Content(s.val), disk[p])]
    BY <1>3, <1>8, <2>1 DEF LockWrite
  <2>3. /\ t.todo = s.todo /\ t.cmd = s.cmd /\ t.home = s.home /\ t.val = s.val /\ t.mem = s.mem
        /\ t.at = "rename"
    BY <1>1 DEF Goes, ProcType
  <2>4. Overlay(Content(s.val), <<>>) = Content(s.val)
    <3>1. Content(s.val) \in Seq(Value)
      BY <1>1, ContentOK
    <3> QED BY <3>1, OverlayOK
  <2>5. disk'[p] = Content(s.val)
    BY <1>1, <2>1, <2>2, <2>4 DEF TreeOK
  <2> HIDE DEF t
  <2> QED BY <1>2, <1>6, <2>1, <2>2, <2>3, <2>5
<1>9. CASE LockRename(p) /\ ~Becomes(p, Failed(s))
  <2>1. lock[r] = p /\ disk[p] = Content(s.val)
    BY <1>9 DEF Writing, LockRename, Doing
  <2>2. Becomes(p, Returned(s)) /\ idx' = [idx EXCEPT ![r] = p] /\ disk' = disk
    BY <1>4, <1>9, <2>1 DEF LockRename
  <2> PICK t : t = Returned(s)
    OBVIOUS
  <2>3. t.todo = Tail(s.todo) /\ t.at = "call" /\ t.cmd = s.cmd /\ t.home = s.home /\ t.val = s.val
    <3>1. s = [f \in DOMAIN s |-> s[f]]
      BY <1>1 DEF ProcType
    <3> QED BY <1>1, <1>3, <3>1, NextCall
  <2>4. disk'[idx'[r]] = Content(s.val)
    BY <1>1, <2>1, <2>2 DEF TreeOK
  <2> QED BY <1>2, <1>6, <2>2, <2>3, <2>4
<1> QED BY <1>2, <1>5, <1>7, <1>8, <1>9

\* The working tree is written, file by file.
LEMMA CheckingStep ==
    ASSUME TInv, NEW p \in Procs, Alone(p), WorkOK, Forwarding(p, proc[p]), Checking(proc[p]),
           TreeOpen(p) \/ FileOpen(p) \/ FileWrite(p)
    PROVE  WorkOK' /\ Phase(p)'
<1> DEFINE s == proc[p]
<1> PICK r : r = s.home
  OBVIOUS
<1> PICK v : v = s.val
  OBVIOUS
<1> PICK x : x = NextPath(p)
  OBVIOUS
<1>1. /\ ProcsOK /\ s \in ProcType /\ r \in Repos /\ v \in Value /\ s.left \in SUBSET Paths
      /\ faults \in 0..MaxFaults /\ s = [f \in DOMAIN s |-> s[f]] /\ s.todo \in Seq(CallType)
  BY DEF TInv, Types, ProcsOK, ProcType, FaultsOK
<1>2. UNCHANGED <<loose, held, packed, disk, idx>>
  BY DEF TreeOpen, FileOpen, FileWrite, refVars, treeVars
<1> PICK c : c = Tail(Tail(FastForward(s)))
  OBVIOUS
<1> PICK last : last = Stops(Call("ref", r, "HEAD"))
  OBVIOUS
<1>3. /\ s.todo = c /\ s.todo # <<>> /\ Len(c) = 2 /\ c[1].repo = r /\ c[1].force = FALSE
      /\ c[1].name = "tree" /\ c[1].onerr = IF s.cmd = "rebase" THEN "stop" ELSE "go"
      /\ Tail(c) = <<last>>
  <2>1. /\ c # <<>> /\ Len(c) = 2 /\ c[1].repo = s.home /\ c[1].force = FALSE
        /\ c[1].name = "tree" /\ c[1].onerr = IF s.cmd = "rebase" THEN "stop" ELSE "go"
        /\ Tail(c) = <<last>>
    BY ForwardIs DEF ForwardCalls
  <2> QED BY <2>1 DEF Checking
<1>4. Do(p) = c[1] /\ Source(p) = v
  BY <1>3 DEF Do, Source
<1>5. /\ disk[idx[r]] = Content(v) /\ Kept(r) /\ v # NoCommit /\ r = "local"
      /\ \A y \in Paths : work[r][y] # Absent
  BY DEF Checking, Showing, Forwarding
<1> DEFINE safe == s.cmd = "rebase" \/ faults' = MaxFaults
           Shown(left) == \A y \in Files(v) \ left : work'[r][y] = v
<1>6. ASSUME NEW t, Becomes(p, t), t.todo = c, t.cmd = s.cmd, t.home = r, t.val = v,
             t.at \in {"file", "filewrite"}, t.left # {}, t.left \subseteq Files(v),
             safe => Shown(t.left), \A y \in Paths : work'[r][y] # Absent
      PROVE  Phase(p)'
  <2>1. proc'[p] = t
    BY <1>1, <1>6, IsNow
  <2>2. FastForward(proc[p])' = FastForward(proc[p])
    BY <1>6, <2>1 DEF FastForward
  <2>3. Showing(proc[p], proc[p].val, proc[p].left)'
    BY <1>2, <1>5, <1>6, <2>1 DEF Showing
  <2>4. Checking(proc[p])'
    BY <1>6, <2>1, <2>2, <2>3 DEF Checking
  <2>5. Forwarding(p, proc[p])'
    BY <1>2, <1>5, <1>6, <2>1, <2>4 DEF Forwarding, Kept
  <2> QED BY <2>5 DEF Phase
<1>7. ASSUME NEW u, Becomes(p, Returned(u)), u.todo = s.todo, u.cmd = s.cmd, u.home = s.home,
             u = [f \in DOMAIN s |-> u[f]], u.val = v,
             safe => Shown({}), \A y \in Paths : work'[r][y] # Absent
      PROVE  Phase(p)'
  <2> PICK t : t = Returned(u)
    OBVIOUS
  <2>1. t.todo = Tail(s.todo) /\ t.at = "call" /\ t.cmd = s.cmd /\ t.home = s.home /\ t.val = u.val
    <3>0. s.todo = c /\ Len(c) = 2
      BY <1>3
    <3> HIDE DEF s
    <3>1. Len(s.todo) # 1
      BY ONLY <3>0
    <3> QED BY ONLY <1>1, <1>7, <3>1, t = Returned(u), NextCall
  <2>2. proc'[p] = t
    BY <1>1, <1>7, IsNow
  <2>3. t.todo = <<last>> /\ t.home = r /\ t.cmd = s.cmd /\ t.val = v
    BY <1>3, <1>7, <2>1
  <2>4. Moving(proc[p])'
    BY <1>2, <1>5, <2>1, <2>2, <2>3 DEF Moving, Kept
  <2>5. Showing(proc[p], proc[p].val, {})'
    BY <1>2, <1>5, <1>7, <2>1, <2>2, <2>3 DEF Showing
  <2> QED BY <2>2, <2>4, <2>5 DEF Phase
<1>8. ASSUME Becomes(p, Failed(s)), Fault, work' = work
      PROVE  Phase(p)'
  <2>1. CASE s.cmd = "rebase"
    <3>1. Failed(s) = Ended(s, "error")
      BY <1>3, <2>1 DEF Failed
    <3>2. Becomes(p, Ended(s, "error")) /\ Kept(proc[p].home)
      BY <1>5, <1>8, <3>1
    <3> QED BY <1>1, <1>2, <3>2, EndsKept
  <2>2. CASE s.cmd # "rebase"
    <3>1. Failed(s) = Returned(s)
      BY <1>3, <2>2 DEF Failed
    <3>2. ~safe
      BY <1>1, <1>8, <2>2 DEF Fault
    <3> QED BY <1>1, <1>5, <1>7, <1>8, <3>1, <3>2
  <2> QED BY <2>1, <2>2
<1> HIDE DEF safe, Shown
<1>9. CASE TreeOpen(p)
  <2>1. work' = work /\ WorkOK'
    BY <1>9 DEF TreeOpen, treeVars, WorkOK
  <2>2. CASE Becomes(p, Failed(s)) /\ Fault
    BY <1>8, <2>1, <2>2
  <2>3. CASE Files(v) = {} /\ Becomes(p, Returned(s))
    <3>1. Shown({})
      BY <2>3 DEF Shown
    <3> QED BY <1>1, <1>5, <1>7, <2>1, <2>3, <3>1
  <2>4. CASE Files(v) # {} /\ Becomes(p, [Goes(s, "file") EXCEPT !.left = Files(v)])
    <3> DEFINE t == [Goes(s, "file") EXCEPT !.left = Files(v)]
    <3>1. /\ t.todo = s.todo /\ t.cmd = s.cmd /\ t.home = s.home /\ t.val = s.val /\ t.at = "file"
          /\ t.left = Files(v)
      BY <1>1 DEF Goes, ProcType
    <3> HIDE DEF t
    <3>2. Shown(t.left)
      BY <3>1 DEF Shown
    <3>3. Becomes(p, t)
      BY <2>4 DEF t
    <3> QED BY <1>3, <1>5, <1>6, <2>1, <2>4, <3>1, <3>2, <3>3
  <2> QED BY <1>4, <1>9, <2>1, <2>2, <2>3, <2>4 DEF TreeOpen
<1>10. ASSUME s.at \in {"file", "filewrite"}
       PROVE  /\ s.left # {} /\ s.left \subseteq Files(v) /\ x \in s.left /\ x \in Paths
              /\ s.cmd = "rebase" \/ faults = MaxFaults => \A y \in Files(v) \ s.left : work[r][y] = v
  <2>1. /\ s.left # {} /\ s.left \subseteq Files(v)
        /\ s.cmd = "rebase" \/ faults = MaxFaults => \A y \in Files(v) \ s.left : work[r][y] = v
    BY <1>10 DEF Checking, Showing
  <2>2. \E y \in s.left : \A z \in s.left : y = "a" \/ z = y
    BY <1>1, <2>1 DEF Paths
  <2>3. x \in s.left
    BY <2>2 DEF NextPath
  <2> QED BY <1>1, <2>1, <2>3
<1>11. ASSUME NEW w \in Seq(Int), SetFile(p, x, w), s.at \in {"file", "filewrite"}
       PROVE  /\ WorkOK' /\ work'[r][x] = w
              /\ \A y \in Paths : y # x => work'[r][y] = work[r][y]
  <2>1. work' = [work EXCEPT ![r][x] = w]
    BY <1>3, <1>4, <1>11 DEF SetFile
  <2>2. work \in [Repos -> [Paths -> Seq(Int)]] /\ x \in Paths
    BY <1>10, <1>11 DEF WorkOK
  <2> QED BY <1>1, <2>1, <2>2 DEF WorkOK
<1>12. /\ Empty \in Seq(Int) /\ v \in Seq(Int) /\ Empty # Absent /\ v # Absent
  <2>1. v \in Seq(Nat)
    BY <1>1 DEF Value
  <2>2. v \in Seq(Int)
    BY <2>1
  <2>3. Empty \in Seq(Int) /\ Empty[1] = -2 /\ Absent[1] = -1 /\ Len(Absent) = 1
    BY DEF Empty, Absent
  <2>4. v # Absent
    <3>1. SUFFICES ASSUME v = Absent PROVE FALSE
      OBVIOUS
    <3>2. Len(v) = 1 /\ v[1] = -1
      BY <2>3, <3>1
    <3>3. v[1] \in Nat
      BY <2>1, <3>2
    <3> QED BY <3>2, <3>3
  <2> QED BY <2>2, <2>3, <2>4
<1>13. FileFailed(p) = Failed(s)
  BY <1>3, <1>4 DEF FileFailed
<1>14. CASE FileOpen(p)
  <2>0. s.at = "file"
    BY <1>14 DEF FileOpen, Doing
  <2>1. CASE Becomes(p, Failed(s)) /\ Fault /\ work' = work
    BY <1>8, <2>1 DEF WorkOK
  <2>2. CASE SetFile(p, x, Empty) /\ Becomes(p, Goes(s, "filewrite")) /\ Fine
    <3> DEFINE t == Goes(s, "filewrite")
    <3>1. /\ t.todo = s.todo /\ t.cmd = s.cmd /\ t.home = s.home /\ t.val = s.val /\ t.at = "filewrite"
          /\ t.left = s.left
      BY <1>1 DEF Goes, ProcType
    <3> HIDE DEF t
    <3>2. /\ WorkOK' /\ work'[r][x] = Empty /\ \A y \in Paths : y # x => work'[r][y] = work[r][y]
      BY <1>11, <1>12, <2>0, <2>2
    <3>3. \A y \in Paths : work'[r][y] # Absent
      BY <1>5, <1>12, <3>2
    <3>4. safe => Shown(t.left)
      <4>1. \A y \in Files(v) : y \in Paths
        BY DEF Files, Paths
      <4> QED BY <1>10, <2>0, <2>2, <3>1, <3>2, <4>1 DEF safe, Shown, Fine
    <3>5. Becomes(p, t)
      BY <2>2 DEF t
    <3> QED BY <1>3, <1>6, <1>10, <2>0, <3>1, <3>2, <3>3, <3>4, <3>5
  <2> QED BY <1>13, <1>14, <2>1, <2>2 DEF FileOpen
<1>15. CASE FileWrite(p)
  <2>0. s.at = "filewrite"
    BY <1>15 DEF FileWrite, Doing
  <2>1. CASE Becomes(p, Failed(s)) /\ Fault /\ work' = work
    BY <1>8, <2>1 DEF WorkOK
  <2>2. CASE SetFile(p, x, v) /\ Becomes(p, FileDone(p)) /\ Fine
    <3> DEFINE u == [Goes(s, "file") EXCEPT !.left = @ \ {x}]
    <3>1. /\ u.todo = s.todo /\ u.cmd = s.cmd /\ u.home = s.home /\ u.val = s.val /\ u.at = "file"
          /\ u.left = s.left \ {x} /\ u = [f \in DOMAIN s |-> u[f]]
      BY <1>1 DEF Goes, ProcType
    <3>2. FileDone(p) = IF u.left = {} THEN Returned(u) ELSE u
      BY DEF FileDone
    <3> HIDE DEF u
    <3>3. /\ WorkOK' /\ work'[r][x] = v /\ \A y \in Paths : y # x => work'[r][y] = work[r][y]
      BY <1>11, <1>12, <2>0, <2>2
    <3>4. \A y \in Paths : work'[r][y] # Absent
      BY <1>5, <1>12, <3>3
    <3>5. safe => Shown(u.left)
      <4>1. \A y \in Files(v) : y \in Paths
        BY DEF Files, Paths
      <4> QED BY <1>10, <2>0, <2>2, <3>1, <3>3, <4>1 DEF safe, Shown, Fine
    <3>6. CASE u.left = {}
      BY <1>7, <2>2, <3>1, <3>2, <3>3, <3>4, <3>5, <3>6
    <3>7. CASE u.left # {}
      <4>1. u.left \subseteq Files(v)
        BY <1>10, <2>0, <3>1
      <4> QED BY <1>3, <1>6, <2>2, <3>1, <3>2, <3>3, <3>4, <3>5, <3>7, <4>1
    <3> QED BY <3>6, <3>7
  <2> QED BY <1>4, <1>13, <1>15, <2>1, <2>2 DEF FileWrite
<1> QED BY <1>9, <1>14, <1>15

\* A failure only weakens what is shown.
LEMMA ShowsOn ==
    ASSUME NEW s, NEW t, NEW v, t.cmd = s.cmd, t.home = s.home, Showing(s, v, {}), FaultsOK,
           Fine \/ Fault, UNCHANGED <<disk, idx, work>>
    PROVE  Showing(t, v, {})'
<1>1. faults' = MaxFaults => faults = MaxFaults
  BY RepositoryConstants DEF FaultsOK, Fine, Fault
<1> QED BY <1>1 DEF Showing

\* The branch is moved.
LEMMA MovingStep ==
    ASSUME TInv, NEW p \in Procs, WorkOK, Moving(proc[p]),
           packed[proc[p].home]["main"] # NoCommit \/ Showing(proc[p], proc[p].val, {}),
           RefSkip(p) \/ RefStat(p) \/ RefOld(p) \/ RefOpen(p) \/ RefWrite(p) \/ RefLog(p),
           UNCHANGED treeVars
    PROVE  WorkOK' /\ Phase(p)'
<1> DEFINE s == proc[p]
<1> PICK r : r = s.home
  OBVIOUS
<1> PICK v : v = s.val
  OBVIOUS
<1> PICK last : last = Stops(Call("ref", r, "HEAD"))
  OBVIOUS
<1>1. /\ ProcsOK /\ s \in ProcType /\ r \in Repos /\ RefsOK /\ FaultsOK /\ v \in Value
      /\ s = [f \in DOMAIN s |-> s[f]]
  BY DEF TInv, Types, ProcsOK, ProcType
<1>2. UNCHANGED <<disk, idx, work, packed>> /\ WorkOK' /\ (Fine \/ Fault)
  BY DEF treeVars, WorkOK, refVars, RefSkip, RefStat, RefOld, RefOpen, RefWrite, RefLog, AddToLog
<1>3. s.todo = <<last>>
  BY DEF Moving
<1>4. last.force = TRUE /\ last.onerr = "stop" /\ last.repo = r /\ last.name = "HEAD"
  BY DEF Stops, Call
<1>5. Do(p) = last /\ Len(s.todo) = 1 /\ s.todo[1].onerr = "stop"
  BY <1>3, <1>4 DEF Do
<1>6. RefFile(p) = loose[r]["main"] /\ ThisRef(p) = <<r, "main">>
  BY <1>4, <1>5 DEF RefFile, ThisRef, FileOf
<1>7. Returned(s) = Ended(s, "ok") /\ Failed(s) = Ended(s, "error")
  BY <1>5 DEF Returned, Failed
<1>8. packed[r]["main"] # NoCommit \/ Showing(s, v, {})
  OBVIOUS
<1>9. ASSUME NEW t, Becomes(p, t), t.todo = s.todo, t.cmd = s.cmd, t.home = s.home, t.val = v,
             \/ t.at = "open" /\ Kept(r)'
             \/ t.at = "write" /\ Single(held'[r]["main"])
             \/ t.at = "log" /\ (Single(held'[r]["main"]) \/ loose'[r]["main"] = v)
      PROVE  Phase(p)'
  <2>1. proc'[p] = t
    BY <1>1, <1>9, IsNow
  <2>2. proc'[p].home = r /\ proc'[p].val = v /\ proc'[p].todo = <<last>>
    BY <1>3, <1>9, <2>1
  <2>3. Moving(proc[p])'
    BY <1>9, <2>1, <2>2 DEF Moving
  <2>4. packed'[r]["main"] # NoCommit \/ Showing(t, v, {})'
    <3> HIDE DEF s
    <3> QED BY <1>1, <1>2, <1>8, <1>9, ShowsOn
  <2>5. packed'[r]["main"] # NoCommit \/ Showing(proc[p], proc[p].val, {})'
    BY <2>1, <2>2, <2>4 DEF Showing
  <2> QED BY <2>2, <2>3, <2>5 DEF Phase
<1>10. ASSUME NEW a
       PROVE  LET t == Goes(s, a)
              IN  /\ t.todo = s.todo /\ t.cmd = s.cmd /\ t.home = s.home /\ t.val = v /\ t.at = a
  BY <1>1 DEF Goes, ProcType
<1>11. CASE RefSkip(p)
  <2>1. Becomes(p, Ended(s, "ok")) /\ Kept(s.home) /\ UNCHANGED <<loose, held>>
    BY <1>7, <1>11 DEF RefSkip, Doing, Moving, refVars
  <2> QED BY <1>1, <1>2, <2>1, EndsKept
<1>12. CASE RefStat(p)
  BY <1>4, <1>5, <1>12 DEF RefStat
<1>13. CASE RefOld(p)
  <2>1. Kept(r) /\ UNCHANGED <<loose, held>>
    BY <1>13 DEF RefOld, Doing, Moving, refVars
  <2>2. PICK t : t = [Goes(s, "open") EXCEPT !.old = Resolve(Do(p).repo, Do(p).name)]
    OBVIOUS
  <2>3. /\ t.todo = s.todo /\ t.cmd = s.cmd /\ t.home = s.home /\ t.val = v /\ t.at = "open"
    BY <1>1, <2>2 DEF Goes, ProcType
  <2>4. Becomes(p, t) /\ Kept(r)'
    BY <1>13, <2>1, <2>2 DEF RefOld, Kept
  <2> QED BY <1>2, <1>9, <2>3, <2>4
<1>14. CASE RefOpen(p)
  <2>1. Kept(r) /\ held' = held
    BY <1>14 DEF RefOpen, Doing, Moving
  <2>2. CASE Becomes(p, Failed(s)) /\ UNCHANGED loose
    BY <1>1, <1>2, <1>7, <2>1, <2>2, EndsKept
  <2>3. CASE Becomes(p, Goes(s, "write"))
    <3>1. PICK t : t = Goes(s, "write")
      OBVIOUS
    <3>2. Single(held'[r]["main"])
      BY <2>1, KeptSingle
    <3>3. /\ t.todo = s.todo /\ t.cmd = s.cmd /\ t.home = s.home /\ t.val = v /\ t.at = "write"
      BY <1>10, <3>1
    <3> QED BY <1>2, <1>9, <2>3, <3>1, <3>2, <3>3
  <2> QED BY <1>14, <2>2, <2>3 DEF RefOpen
<1>15. CASE RefWrite(p)
  <2>1. PICK t : t = Goes(s, "log")
    OBVIOUS
  <2>2. /\ t.todo = s.todo /\ t.cmd = s.cmd /\ t.home = s.home /\ t.val = v /\ t.at = "log"
    BY <1>10, <2>1
  <2>3. Becomes(p, t)
    BY <1>15, <2>1 DEF RefWrite
  <2>4. Single(held[r]["main"])
    BY <1>15 DEF RefWrite, Doing, Moving
  <2>5. UNCHANGED <<loose, held>> \/ SetRef(p, v)
    BY <1>15 DEF RefWrite
  <2>6. CASE SetRef(p, v)
    <3>1. loose'[r]["main"] = v
      <4>1. loose' = [loose EXCEPT ![r]["main"] = v]
        BY <1>4, <1>5, <2>6 DEF SetRef, FileOf
      <4> QED BY <1>1, <4>1 DEF RefsOK, Names, Branches
    <3> QED BY <1>2, <1>9, <2>2, <2>3, <3>1
  <2>7. CASE UNCHANGED <<loose, held>>
    <3>1. Single(held'[r]["main"])
      BY <2>4, <2>7
    <3> QED BY <1>2, <1>9, <2>2, <2>3, <3>1
  <2> QED BY <2>5, <2>6, <2>7
<1>16. CASE RefLog(p)
  <2>1. Becomes(p, Ended(s, "ok")) /\ UNCHANGED <<loose, held>>
    BY <1>7, <1>16 DEF RefLog
  <2>2. Single(held[r]["main"]) \/ loose[r]["main"] = v
    BY <1>16 DEF RefLog, Doing, Moving
  <2>3. PICK t : t = Ended(s, "ok")
    OBVIOUS
  <2>4. proc'[p] = t
    BY <1>1, <2>1, <2>3, IsNow
  <2>5. t.todo = <<>> /\ t.result = "ok" /\ t.home = s.home /\ t.cmd = s.cmd
    BY <2>3 DEF Ended, Idle
  <2>6. packed'[r]["main"] # NoCommit \/ Showing(t, v, {})'
    <3> HIDE DEF s
    <3> QED BY <1>1, <1>2, <1>8, <2>5, ShowsOn
  <2>7. ASSUME packed'[r]["main"] = NoCommit, Cardinality(held'[r]["main"]) > 1
        PROVE  Showing(t, v, {})' /\ loose'[r]["main"] = v
    <3>1. held' = held /\ loose' = loose
      BY <2>1
    <3>2. ~Single(held[r]["main"])
      BY <2>7, <3>1, SingleCard
    <3>3. loose[r]["main"] = v
      BY <2>2, <3>2
    <3> QED BY <2>6, <2>7, <3>1, <3>3
  <2>8. Outcome(proc[p])'
    <3>1. proc'[p].result = "ok" /\ proc'[p].home = r
      BY <2>4, <2>5
    <3>2. packed'[r]["main"] = NoCommit /\ Cardinality(held'[r]["main"]) > 1
             => Showing(proc[p], loose[r]["main"], {})'
      BY <2>4, <2>7 DEF Showing
    <3> QED BY <3>1, <3>2 DEF Outcome
  <2> QED BY <1>2, <2>4, <2>5, <2>8 DEF Phase
<1> QED BY <1>2, <1>11, <1>12, <1>13, <1>14, <1>15, <1>16

\* The process is killed.
LEMMA CrashStep ==
    ASSUME TInv, NEW p \in Procs, WorkOK, Crash(p)
    PROVE  WorkOK' /\ Phase(p)'
<1>1. Becomes(p, Ended(proc[p], "crashed")) /\ WorkOK' /\ ProcsOK
  BY DEF Crash, treeVars, WorkOK, TInv, Types
<1>2. proc'[p].todo = <<>> /\ proc'[p].result = "crashed"
  BY <1>1, IsNow DEF Ended, Idle
<1> QED BY <1>1, <1>2 DEF Phase, Outcome

\* Every step of the command.
LEMMA PhaseStep ==
    ASSUME TInv, NEW p \in Procs, Alone(p), WorkOK, Phase(p), StepOf(p)
    PROVE  WorkOK' /\ Phase(p)'
<1>1. proc[p].todo # <<>>
  BY OneSteps DEF TInv, Kindred
<1>2. CASE Crash(p)
  BY <1>2, CrashStep
<1>3. CASE ~Crash(p) /\ Deciding(proc[p])
  <2> DEFINE a == Stops(Call("head", proc[p].home, ""))
             b == Call(proc[p].cmd, proc[p].home, "")
  <2>1. a.call = "head" /\ b.call \in {"merge", "rebase"} /\ <<a, b>>[1] = a /\ <<b>>[1] = b
    BY DEF Stops, Call, Alone
  <2>2. proc[p].todo = <<a, b>> \/ proc[p].todo = <<b>>
    BY <1>3 DEF Deciding
  <2> HIDE DEF a, b
  <2>3. Do(p).call \in {"head", "merge", "rebase"}
    BY <2>1, <2>2 DEF Do
  <2> QED BY <1>3, <2>3, ActsOf, HeadStep, DecideStep
<1>4. CASE /\ ~Crash(p) /\ Moving(proc[p])
           /\ packed[proc[p].home]["main"] # NoCommit \/ Showing(proc[p], proc[p].val, {})
  <2> DEFINE a == Stops(Call("ref", proc[p].home, "HEAD"))
  <2>1. a.call = "ref" /\ <<a>>[1] = a
    BY DEF Stops, Call
  <2>2. proc[p].todo = <<a>>
    BY <1>4 DEF Moving
  <2> HIDE DEF a
  <2>3. Do(p).call = "ref"
    BY <2>1, <2>2 DEF Do
  <2>4. /\ RefSkip(p) \/ RefStat(p) \/ RefOld(p) \/ RefOpen(p) \/ RefWrite(p) \/ RefLog(p)
        /\ UNCHANGED treeVars
    BY <1>4, <2>3, ActsOf
  <2> QED BY <1>4, <2>4, MovingStep
<1>5. CASE ~Crash(p) /\ Forwarding(p, proc[p])
  <2> PICK q : q = FastForward(proc[p])
    OBVIOUS
  <2>1. /\ q[1].call = "read_tree" /\ Tail(q)[1].call = "index_write"
        /\ Tail(Tail(q))[1].call = "checkout"
    BY ForwardIs DEF ForwardCalls
  <2>2. CASE Loading(proc[p])
    <3>1. Do(p).call = "read_tree"
      BY <2>1, <2>2 DEF Loading, Do
    <3> QED BY <1>5, <2>2, <3>1, ActsOf, LoadStep
  <2>3. CASE Writing(p, proc[p])
    <3>1. Do(p).call = "index_write"
      BY <2>1, <2>3 DEF Writing, Do
    <3> QED BY <1>5, <2>3, <3>1, ActsOf, WritingStep
  <2>4. CASE Checking(proc[p])
    <3>1. Do(p).call = "checkout"
      BY <2>1, <2>4 DEF Checking, Do
    <3> QED BY <1>5, <2>4, <3>1, ActsOf, CheckingStep
  <2> QED BY <1>5, <2>2, <2>3, <2>4 DEF Forwarding
<1> QED BY <1>1, <1>2, <1>3, <1>4, <1>5 DEF Phase

\* The invariant is kept by every step.
LEMMA MergeStep == ASSUME TInv, MInv, [Next]_vars PROVE MInv'
<1>1. CASE UNCHANGED vars
  <2>1. UNCHANGED <<proc, loose, packed, held, faults, disk, idx, lock, work>>
    BY <1>1 DEF vars, refVars, treeVars
  <2>2. ASSUME NEW p \in Procs PROVE /\ Outcome(proc[p]) => Outcome(proc[p])'
                                     /\ Moving(proc[p]) => Moving(proc[p])'
                                     /\ \A v : Showing(proc[p], v, {}) => Showing(proc[p], v, {})'
    BY <2>1 DEF Outcome, Moving, Showing, Kept
  <2>3. ASSUME NEW p \in Procs PROVE Deciding(proc[p]) => Deciding(proc[p])'
    BY <2>1 DEF Deciding, Kept, Resolve
  <2>4. ASSUME NEW p \in Procs PROVE Forwarding(p, proc[p]) => Forwarding(p, proc[p])'
    <3>1. FastForward(proc[p])' = FastForward(proc[p])
      BY <2>1 DEF FastForward
    <3> QED BY <2>1, <3>1 DEF Forwarding, Loading, Writing, Checking, Showing, Kept
  <2>5. ASSUME NEW p \in Procs PROVE Phase(p) => Phase(p)'
    BY <2>1, <2>2, <2>3, <2>4 DEF Phase
  <2> QED BY <2>1, <2>5 DEF MInv, Alone, MergeOK, WorkOK
<1>2. CASE Next
  <2>1. PICK q \in Procs : StepOf(q)
    BY <1>2, NextSplit DEF StepOf
  <2>2. Kindred(q) /\ ProcsOK
    BY <2>1, OneSteps DEF TInv, Types
  <2>3. SUFFICES ASSUME NEW p \in Procs, Alone(p)' PROVE MergeOK(p)'
    BY DEF MInv
  <2>4. Alone(p)
    BY <2>2, <2>3 DEF Alone, Kindred, Kin
  <2>5. WorkOK /\ Phase(p) /\ \A x \in Procs \ {p} : proc[x].todo = <<>>
    BY <2>4 DEF MInv, MergeOK
  <2>6. q = p
    BY <2>2, <2>5 DEF Kindred
  <2>7. \A x \in Procs \ {p} : proc'[x].todo = <<>>
    <3>1. TAKE x \in Procs \ {p}
    <3>2. proc'[x] \in {proc[x], [proc[x] EXCEPT !.lost = TRUE]} /\ proc[x].todo = <<>>
      BY <2>2, <2>5, <2>6 DEF Kindred
    <3>3. proc[x] \in ProcType
      BY <2>2 DEF ProcsOK
    <3> QED BY <3>2, <3>3 DEF ProcType
  <2>8. WorkOK' /\ Phase(p)'
    BY <2>1, <2>4, <2>5, <2>6, PhaseStep
  <2> QED BY <2>7, <2>8 DEF MergeOK
<1> QED BY <1>1, <1>2

\* Initially.
LEMMA InitMerge == ASSUME Init PROVE MInv
<1>1. TInv /\ \A p \in Procs : proc[p].at = "call"
  BY InitTypes
<1>2. PICK scene \in Scenes, main \in {<<0>>, <<0, 2>>}, topic \in {Absent, <<0, 1>>},
           away, fresh, gc \in BOOLEAN, given \in {<<0>>, <<0, 1>>} :
        LET none == [n \in Names |-> Absent]
        IN  /\ scene[1].cmd = "clone" => fresh
            /\ fresh => main = <<0>> /\ topic = Absent /\ ~away
                        /\ \A p \in Procs : scene[p].home = "local" => scene[p].cmd \in Importers \cup {"none"}
            /\ given = <<0>> => scene[1].cmd \in {"merge", "rebase"}
            /\ proc = [p \in Procs |-> Started(scene[p], IF p = 1 THEN given ELSE <<0, 3>>)]
            /\ loose = [local |-> IF fresh THEN none
                                  ELSE [main |-> IF away THEN Absent ELSE main, topic |-> topic,
                                        stash |-> <<0, 3>>],
                        peer |-> [none EXCEPT !.main = <<0, 4>>]]
            /\ packed = [r \in Repos |-> [n \in Names |->
                            IF away /\ r = "local" /\ n = "main" THEN main ELSE NoCommit]]
            /\ logs = [r \in Repos |-> [n \in Names \cup {"HEAD"} |-> <<>>]]
            /\ held = [r \in Repos |-> [n \in Names |-> {loose[r][n]} \ {Absent}]]
            /\ odb = [local |-> IF fresh THEN {} ELSE {<<0>>, <<0, 1>>, <<0, 2>>, <<0, 3>>},
                      peer |-> {<<0>>, <<0, 4>>}]
            /\ packs = [r \in Repos |-> IF gc THEN odb[r] ELSE {}]
            /\ faults = MaxFaults /\ marks = {}
            /\ disk = [i \in {0} \cup Procs |-> IF i = 0 /\ ~fresh THEN Content(main) ELSE <<>>]
            /\ idx = [local |-> IF fresh THEN NoFile ELSE 0, peer |-> NoFile]
            /\ lock = [r \in Repos |-> NoFile]
            /\ work = [r \in Repos |-> [x \in Paths |->
                          IF r = "local" /\ ~fresh /\ x \in Files(main) THEN main ELSE Absent]]
  BY DEF Init
<1>3. Files(main) = Paths
  <2>1. Last(<<0>>) = 0 /\ Last(<<0, 2>>) = 2 /\ <<0>> # <<>> /\ <<0, 2>> # <<>>
    BY DEF Last
  <2>2. main = <<0>> \/ main = <<0, 2>>
    OBVIOUS
  <2>3. Last(main) = 0 \/ Last(main) = 2
    BY ONLY <2>1, <2>2
  <2>4. main # <<>>
    BY ONLY <2>1, <2>2
  <2>5. Last(main) \notin Small /\ main # NoCommit
    BY ONLY <2>3, <2>4 DEF Small, NoCommit
  <2> QED BY ONLY <2>5 DEF Files
<1>4. /\ main \in Seq(Int) /\ Absent \in Seq(Int) /\ main # Absent /\ IsCommit(main)
      /\ IsCommit(<<0, 4>>) /\ <<0, 4>> # Absent
  <2>0. \A v \in {<<0>>, <<0, 2>>, <<0, 4>>} : v[1] = 0 /\ v # <<>>
    OBVIOUS
  <2>1. main[1] = 0 /\ Absent[1] = -1 /\ <<0, 4>>[1] = 0 /\ main # <<>> /\ <<0, 4>> # <<>>
    BY <2>0 DEF Absent
  <2>2. main \in Seq(Int)
    <3>1. <<0>> \in Seq(Int) /\ <<0, 2>> \in Seq(Int)
      OBVIOUS
    <3> QED BY <3>1
  <2>3. Absent \in Seq(Int)
    BY DEF Absent
  <2> QED BY <2>1, <2>2, <2>3 DEF IsCommit, NoCommit
<1>5. WorkOK
  BY <1>2, <1>4 DEF WorkOK
<1>6. SUFFICES ASSUME NEW p \in Procs, Alone(p) PROVE MergeOK(p)
  BY DEF MInv
<1>7. \A q \in Procs : proc[q].cmd = scene[q].cmd /\ proc[q].home = scene[q].home
  BY <1>2 DEF Started, Idle
<1>8. \A q \in Procs \ {p} : proc[q].todo = <<>>
  BY <1>2, <1>6, <1>7 DEF Alone, Started, Idle
<1> PICK r : r = proc[p].home
  OBVIOUS
<1>9. r \in Repos /\ proc[p].cmd \in {"merge", "rebase"}
  BY <1>1, <1>6 DEF TInv, Types, ProcsOK, ProcType, Alone
<1>10. /\ proc[p].todo = <<Stops(Call("head", r, "")), Call(proc[p].cmd, r, "")>>
       /\ proc[p].val \in {<<0>>, <<0, 1>>, <<0, 3>>}
  <2> DEFINE c == scene[p]
             g == IF p = 1 THEN given ELSE <<0, 3>>
  <2>1. proc[p] = Started(c, g) /\ c.cmd \in {"merge", "rebase"} /\ c.home = r
    BY <1>2, <1>7, <1>9
  <2>2. g \in {<<0>>, <<0, 1>>, <<0, 3>>}
    OBVIOUS
  <2> HIDE DEF c, g
  <2>3. proc[p].val = g /\ proc[p].todo = Script(c.cmd, c.home)
    BY <2>1 DEF Started, Idle
  <2>4. Script(c.cmd, c.home) = <<Stops(Call("head", r, "")), Call(c.cmd, r, "")>>
    BY <2>1 DEF Script, Merge, Rebase
  <2> QED BY <1>7, <2>2, <2>3, <2>4 DEF c
<1>11. r = "local" => ~fresh
  BY <1>2, <1>7, <1>9 DEF Importers
<1>12. lock[r] = NoFile /\ held[r]["main"] = {loose[r]["main"]} \ {Absent}
  BY <1>2, <1>9 DEF Names, Branches
<1>13. r = "local" => /\ loose[r]["main"] = IF away THEN Absent ELSE main
                      /\ packed[r]["main"] = IF away THEN main ELSE NoCommit
                      /\ \A x \in Paths : work[r][x] = main
  BY <1>2, <1>3, <1>9, <1>11 DEF Names, Branches
<1>14. r = "peer" => loose[r]["main"] = <<0, 4>>
  BY <1>2 DEF Names, Branches
<1>15. Deciding(proc[p])
  <2>1. IsCommit(loose[r]["main"]) \/ packed[r]["main"] # NoCommit
    BY <1>4, <1>9, <1>13, <1>14 DEF Repos, IsCommit
  <2>2. \/ r = "local" /\ \A x \in Paths : work[r][x] # Absent
        \/ loose[r]["main"] = <<0, 4>>
    BY <1>4, <1>9, <1>13, <1>14 DEF Repos
  <2> QED BY <1>1, <1>10, <1>12, <2>1, <2>2 DEF Deciding, Kept
<1> QED BY <1>5, <1>8, <1>15 DEF MergeOK, Phase

\* A merge or a rebase that had the repository to itself and returned an error has not
\* moved the branch; one that moved it forward has written the new commit's index, and
\* the working tree shows its paths as current - after a merge only if no step failed,
\* since it ignores what the checkout returned - and the paths the commit removed as
\* untracked: whichever of its steps fail, with any number of failures, and whether its
\* branch stands in a file or in packed-refs (merge.c:72-86, rebase.c:70-79,
\* worktree.c:217).
THEOREM CheckedOutCorrect == Spec => []CheckedOut
<1>1. Init => TInv /\ MInv
  BY InitTypes, InitMerge
<1>2. TInv /\ MInv /\ [Next]_vars => (TInv /\ MInv)'
  BY TypeStep, MergeStep
<1>3. ASSUME TInv, MInv PROVE CheckedOut
  <2>1. SUFFICES ASSUME NEW p \in Procs, proc[p].cmd \in {"merge", "rebase"},
                        proc[p].result \in {"ok", "error"},
                        \A q \in Procs \ {p} : proc[q].cmd = "none"
                 PROVE  LET s == proc[p]
                            r == s.home
                            h == loose[r]["main"]
                            shows == Status(h, work[r])
                        IN  /\ s.result = "error" => held[r]["main"] \subseteq {h}
                            /\ packed[r]["main"] = NoCommit /\ Cardinality(held[r]["main"]) > 1 =>
                                 /\ disk[idx[r]] = Content(h)
                                 /\ s.cmd = "rebase" \/ faults = MaxFaults =>
                                       \A x \in Files(h) : shows[x] = "current"
                                 /\ \A x \in Paths \ Files(h) : shows[x] = "new"
    BY DEF CheckedOut
  <2>2. Phase(p)
    BY <1>3, <2>1 DEF MInv, Alone, MergeOK
  <2>3. proc[p].todo = <<>>
    BY <1>3, <2>1 DEF TInv, Types, ProcsOK, ProcOK
  <2>4. ~Deciding(proc[p]) /\ ~Moving(proc[p])
    <3>1. \A a, b : <<a, b>> # <<>> /\ <<a>> # <<>>
      OBVIOUS
    <3> QED BY <2>3, <3>1 DEF Deciding, Moving
  <2>5. ~Forwarding(p, proc[p])
    <3> PICK q : q = FastForward(proc[p])
      OBVIOUS
    <3>1. q # <<>> /\ Tail(q) # <<>> /\ Tail(Tail(q)) # <<>>
      BY ForwardIs DEF ForwardCalls
    <3> QED BY <2>3, <3>1 DEF Forwarding, Loading, Writing, Checking
  <2>6. Outcome(proc[p])
    BY <2>2, <2>4, <2>5 DEF Phase
  <2> PICK r : r = proc[p].home
    OBVIOUS
  <2> PICK h : h = loose[r]["main"]
    OBVIOUS
  <2>7. proc[p].result = "error" => held[r]["main"] \subseteq {h}
    BY <2>6 DEF Outcome, Kept
  <2>8. ASSUME packed[r]["main"] = NoCommit, Cardinality(held[r]["main"]) > 1
        PROVE  /\ disk[idx[r]] = Content(h)
               /\ proc[p].cmd = "rebase" \/ faults = MaxFaults =>
                     \A x \in Files(h) : Status(h, work[r])[x] = "current"
               /\ \A x \in Paths \ Files(h) : Status(h, work[r])[x] = "new"
    <3>1. Showing(proc[p], h, {})
      BY <2>1, <2>6, <2>8 DEF Outcome
    <3>2. /\ disk[idx[r]] = Content(h)
          /\ proc[p].cmd = "rebase" \/ faults = MaxFaults => \A x \in Files(h) : work[r][x] = h
          /\ \A x \in Paths : work[r][x] # Absent
      BY <3>1 DEF Showing
    <3>3. Files(h) \subseteq Paths
      BY DEF Files, Paths
    <3>4. \A x \in Files(h) : work[r][x] = h => Status(h, work[r])[x] = "current"
      BY <3>2, <3>3 DEF Status, CompareEntry
    <3>5. \A x \in Paths \ Files(h) : Status(h, work[r])[x] = "new"
      BY <3>2 DEF Status
    <3> QED BY <3>2, <3>4, <3>5
  <2> QED BY <2>7, <2>8
<1>4. Spec => [](TInv /\ MInv)
  BY <1>1, <1>2, PTL DEF Spec
<1> QED BY <1>3, <1>4, PTL
=============================================================================
