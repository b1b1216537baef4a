------------------------------ MODULE Checkout ------------------------------
(***************************************************************************)
(* The index file and the working tree, as several processes write them:   *)
(* the end of fastgit_index_write (index.c), fastgit_checkout_tree and     *)
(* fastgit_status (worktree.c).  What the entries of an index are is       *)
(* module Index's concern; here an index or a tree is the commit it        *)
(* belongs to, NoCommit without entries; its bytes are that commit, once   *)
(* for the header and once for each path, so that indexes differ in length *)
(* and a mixture of two can be told.                                       *)
(***************************************************************************)
EXTENDS Refs, FiniteSetsExt

VARIABLES
    disk,       \* disk[i]: the bytes of inode i
    idx,        \* idx[r]: the inode of .git/index, NoFile without one
    lock,       \* lock[r]: the inode of .git/index.lock
    work        \* work[r][x]: the file at path x, Absent, Empty or a commit's

treeVars == <<disk, idx, lock, work>>

Paths == {"a", "b"}
\* The tags whose commits have removed path b.
Small == {1, 11}
Files(c) == IF c = NoCommit THEN {} ELSE IF Last(c) \in Small THEN {"a"} ELSE Paths
Content(c) == [i \in 1..(1 + Cardinality(Files(c))) |-> c]

-----------------------------------------------------------------------------
(* The index file.                                                         *)

\* fastgit_index_read_tree: the index in memory becomes that of the tree, and is left
\* without entries when the tree cannot be read.
LoadTree(p) ==
    /\ Doing(p, "read_tree", "call")
    /\ \/ Becomes(p, Returned([proc[p] EXCEPT !.mem = proc[p].val])) /\ Fine
       \/ Becomes(p, Failed([proc[p] EXCEPT !.mem = NoCommit])) /\ Fault
    /\ UNCHANGED <<refVars, odb, marks, treeVars>>

Locking(p, r) == \/ Doing(p, "index_write", "write") /\ Do(p).repo = r
                 \/ Doing(p, "index_write", "rename") /\ Do(p).repo = r
Inode(p) == IF lock[Do(p).repo] = NoFile THEN p ELSE lock[Do(p).repo]

LockOpenKeep(p) ==
    /\ Doing(p, "index_write", "call")
    /\ LET r == Do(p).repo
       IN  /\ lock' = [lock EXCEPT ![r] = Inode(p)]
           /\ Becomes(p, [Goes(proc[p], "write") EXCEPT !.fd = Inode(p)])
           /\ IF \E q \in Procs \ {p} : Locking(q, r) THEN Mark(<<"shared", r>>) ELSE UNCHANGED marks
    /\ Fine /\ UNCHANGED <<refVars, odb, idx, work, disk>>

\* open(index.lock, O_CREAT | O_TRUNC): without O_EXCL a lock that is there is shared.
LockOpen(p) ==
    /\ Doing(p, "index_write", "call")
    /\ LET r == Do(p).repo
       IN  \/ /\ lock' = [lock EXCEPT ![r] = Inode(p)]
              /\ disk' = [disk EXCEPT ![Inode(p)] = <<>>]
              /\ Becomes(p, [Goes(proc[p], "write") EXCEPT !.fd = Inode(p)])
              /\ IF \E q \in Procs \ {p} : Locking(q, r) THEN Mark(<<"shared", r>>) ELSE UNCHANGED marks
              /\ Fine
           \/ Becomes(p, Failed(proc[p])) /\ Fault /\ UNCHANGED <<lock, disk, marks>>
    /\ UNCHANGED <<refVars, odb, idx, work>>

\* One write at the start of the file; bytes beyond its end stay.  When it is short the
\* lock is unlinked.
Overlay(new, old) == new \o SubSeq(old, Len(new) + 1, Len(old))
LockWrite(p) ==
    /\ Doing(p, "index_write", "write")
    /\ LET Put(bytes) == disk' = [disk EXCEPT ![proc[p].fd] = Overlay(bytes, @)]
       IN  \/ Put(Content(proc[p].mem)) /\ Becomes(p, Goes(proc[p], "rename")) /\ Fine /\ UNCHANGED lock
           \/ /\ Put(SubSeq(Content(proc[p].mem), 1, 1))
              /\ lock' = [lock EXCEPT ![Do(p).repo] = NoFile]
              /\ Becomes(p, Failed(proc[p])) /\ Fault
    /\ UNCHANGED <<refVars, odb, marks, idx, work>>

\* rename(index.lock, index) moves whatever is called index.lock by then.
LockRename(p) ==
    /\ Doing(p, "index_write", "rename")
    /\ LET r == Do(p).repo
           drop == lock' = [lock EXCEPT ![r] = NoFile] /\ Becomes(p, Failed(proc[p])) /\ UNCHANGED idx
       IN  \/ lock[r] = NoFile /\ drop /\ Fine
           \/ drop /\ Fault
           \/ /\ lock[r] # NoFile /\ Fine
              /\ idx' = [idx EXCEPT ![r] = lock[r]] /\ lock' = [lock EXCEPT ![r] = NoFile]
              /\ Becomes(p, Returned(proc[p]))
    /\ UNCHANGED <<refVars, odb, marks, disk, work>>

-----------------------------------------------------------------------------
(* The working tree.                                                       *)

SetFile(p, x, v) == work' = [work EXCEPT ![Do(p).repo][x] = v]
NextPath(p) == CHOOSE x \in proc[p].left : \A y \in proc[p].left : x = "a" \/ y = x

\* fastgit_checkout_tree takes the paths from the tree, fastgit_checkout_head (the name
\* "index") from the index in memory.
Source(p) == IF Do(p).name = "index" THEN proc[p].mem ELSE proc[p].val
TreeOpen(p) ==
    /\ Doing(p, "checkout", "call")
    /\ \/ /\ Becomes(p, IF Files(Source(p)) = {} THEN Returned(proc[p])
                        ELSE [Goes(proc[p], "file") EXCEPT !.left = Files(Source(p))])
          /\ Fine
       \/ Do(p).name # "index" /\ Becomes(p, Failed(proc[p])) /\ Fault
    /\ UNCHANGED <<refVars, odb, marks, treeVars>>

\* After the entry: an error ends the checkout unless force was given.
FileDone(p) == LET s == [Goes(proc[p], "file") EXCEPT !.left = @ \ {NextPath(p)}]
               IN  IF s.left = {} THEN Returned(s) ELSE s
FileFailed(p) == IF Do(p).force THEN FileDone(p) ELSE Failed(proc[p])

\* checkout_entry: the blob is read, the file truncated, then written.
FileOpen(p) ==
    /\ Doing(p, "checkout", "file")
    /\ \/ SetFile(p, NextPath(p), Empty) /\ Becomes(p, Goes(proc[p], "filewrite")) /\ Fine
       \/ Becomes(p, FileFailed(p)) /\ Fault /\ UNCHANGED work
    /\ UNCHANGED <<refVars, odb, marks, disk, idx, lock>>
FileWrite(p) ==
    /\ Doing(p, "checkout", "filewrite")
    /\ \/ SetFile(p, NextPath(p), Source(p)) /\ Becomes(p, FileDone(p)) /\ Fine
       \/ Becomes(p, FileFailed(p)) /\ Fault /\ UNCHANGED work
    /\ UNCHANGED <<refVars, odb, marks, disk, idx, lock>>

\* status_compare_entry: an entry against its file, by content.
CompareEntry(c, file) == CASE file = Absent -> "deleted" [] file = c -> "current" [] OTHER -> "modified"
\* fastgit_status: the entries of the index, then the files the index does not have.
Status(c, files) ==
    [x \in Paths |-> IF x \in Files(c) THEN CompareEntry(c, files[x])
                     ELSE IF files[x] = Absent THEN "none" ELSE "new"]

TreeNext(p) == \/ LoadTree(p) \/ LockOpen(p) \/ LockWrite(p) \/ LockRename(p)
               \/ TreeOpen(p) \/ FileOpen(p) \/ FileWrite(p)
=============================================================================
