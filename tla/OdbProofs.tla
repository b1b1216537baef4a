----------------------------- MODULE OdbProofs -----------------------------
(***************************************************************************)
(* Proofs about the loose object store, for every set of objects and       *)
(* processes, both builds, any set of failing system calls and any number  *)
(* of kills and power losses.                                              *)
(***************************************************************************)
EXTENDS Odb, TLAPS

-----------------------------------------------------------------------------
(* Results and temporary files *)

\* What odb_write returns is a result.
LEMMA ResultsType ==
    /\ None \in Results
    /\ \A o \in Oid, code \in {"OK", "EIO"} : [oid |-> o, code |-> code] \in Results
BY DEF Results

\* A result that reports success names an object.
LEMMA OKNamesObject == \A r \in Results : r.code = "OK" => r # None /\ r.oid \in Oid
BY DEF Results, None

\* Changing one temporary file changes no other.
LEMMA TmpUpdate ==
    ASSUME tmp \in [Oid -> [Proc -> Contents]], NEW o \in Oid, NEW p \in Proc,
           NEW v \in Contents, tmp' = [tmp EXCEPT ![o][p] = v]
    PROVE  /\ tmp' \in [Oid -> [Proc -> Contents]]
           /\ tmp'[o][p] = v
           /\ \A a \in Oid, q \in Proc : <<a, q>> # <<o, p>> => tmp'[a][q] = tmp[a][q]
OBVIOUS

\* Making a directory leaves it there, and leaves the others as they are.
LEMMA MakeDirType ==
    ASSUME fan \in [Dir -> DirStates], NEW o \in Oid, MakeDir(DirOf[o])
    PROVE  /\ fan' \in [Dir -> DirStates]
           /\ fan'[DirOf[o]] # "absent"
           /\ \A d \in Dir : fan[d] # "absent" => fan'[d] = fan[d]
<1>1. DirOf[o] \in Dir
  BY OdbAssumption
<1>2. \E s \in DirStates : s # "absent" /\ fan' = [fan EXCEPT ![DirOf[o]] = s]
                         /\ (fan[DirOf[o]] # "absent" => s = fan[DirOf[o]])
  BY <1>1 DEF MakeDir, DirStates
<1> QED BY <1>1, <1>2

-----------------------------------------------------------------------------
(* The inductive invariant *)

\* A process inside odb_write has an object and no result yet; the steps of the
\* io_uring path are taken in that build only.
Control ==
    \A p \in Proc :
        /\ pc[p] # "idle" => obj[p] \in Oid /\ ret[p] = None
        /\ pc[p] \in {"uropen", "uring"} => uring

\* What the temporary file of a writer holds, by the step the writer is at: it is
\* there from open to rename, and complete before the fsync.
TmpHolds ==
    \A p \in Proc :
        /\ pc[p] \in {"uring", "write", "fsync", "rename"} => tmp[obj[p]][p] # "absent"
        /\ pc[p] = "fsync" => tmp[obj[p]][p] = "cached"
        /\ pc[p] = "rename" /\ ~unseen => tmp[obj[p]][p] = "whole"

\* Unless a failure went unseen, what has the name of an object is on the medium in
\* full, in the latest directory and in the one on the medium.
Synchronised ==
    ~unseen => \A o \in Oid : {loose[o], durable[o]} \subseteq {"absent", "whole"}

\* A writer that has renamed its file finds it, or somebody deleted it.
Renamed ==
    \A p \in Proc : pc[p] = "dirsync" => loose[obj[p]] # "absent" \/ obj[p] \in deleted

\* The fan-out directory of an object that is being written exists: without a power loss
\* nobody removes one.
DirThere == \A p \in Proc : pc[p] # "idle" => fan[DirOf[obj[p]]] # "absent"

\* A directory that is on the medium stays there.
DirKept == \A a \in acked : a.dir = "durable" => fan[DirOf[a.oid]] = "durable"

\* The inductive invariant.  VisibleWhole needs Synchronised (power loss brings back
\* the entry on the medium) and that needs TmpHolds; AckedSurvives, WriteStores and
\* CacheBacked need Renamed; AckedSurvives needs DirThere and DirKept as well, since what
\* an acknowledgement is worth depends on the directory it was given in.
IInv ==
    /\ TypeOK
    /\ Control
    /\ TmpHolds
    /\ Synchronised
    /\ Renamed
    /\ DirThere
    /\ DirKept
    /\ AckedSurvives
    /\ CacheBacked
    /\ WriteStores
    /\ NoTmpLeft

\* An empty store satisfies the inductive invariant.
LEMMA InitIInv == Init => IInv
<1> SUFFICES ASSUME Init PROVE IInv
  OBVIOUS
<1> USE OdbAssumption DEF Init
<1>1. TypeOK
  <2>1. uring \in BOOLEAN
    <3> HIDE DEF Init
    <3>1. uring \in Builds
      BY DEF Init
    <3> QED BY <3>1
  <2>2. unseen \in BOOLEAN
    <3> HIDE DEF Init
    <3>1. unseen = FALSE
      BY DEF Init
    <3> QED BY <3>1
  <2>8. crashes \in 0 .. MaxCrashes /\ deleted \subseteq Oid
    OBVIOUS
  <2>3. acked \subseteq Acks /\ lost \subseteq Dir /\ cache \in [Proc -> SUBSET Oid]
    BY DEF EmptyCache
  <2>9. fan \in [Dir -> DirStates]
    OBVIOUS
  <2>4. loose \in [Oid -> Contents] /\ durable \in [Oid -> Contents]
    BY DEF Contents
  <2>5. tmp \in [Oid -> [Proc -> Contents]]
    BY DEF Contents
  <2>6. pc \in [Proc -> Steps] /\ obj \in [Proc -> Oid \cup {NoOid}]
    BY DEF Steps
  <2>7. ret \in [Proc -> Results]
    BY ResultsType
  <2> QED BY <2>1, <2>2, <2>3, <2>4, <2>5, <2>6, <2>7, <2>8, <2>9 DEF TypeOK
<1>2. Control /\ TmpHolds /\ Synchronised /\ Renamed /\ DirThere /\ DirKept
  BY DEF Control, TmpHolds, Synchronised, Renamed, DirThere, DirKept
<1>3. AckedSurvives /\ CacheBacked
  BY DEF AckedSurvives, CacheBacked, InCache, EmptyCache
<1>4. WriteStores /\ NoTmpLeft
  BY DEF WriteStores, NoTmpLeft, None
<1> QED BY <1>1, <1>2, <1>3, <1>4 DEF IInv

-----------------------------------------------------------------------------
(* Type correctness *)

\* Every step of the store preserves the type invariant.
LEMMA TypeStep == TypeOK /\ Control /\ DirThere /\ [Next]_vars => TypeOK'
<1> SUFFICES ASSUME TypeOK, Control, DirThere, [Next]_vars PROVE TypeOK'
  OBVIOUS
<1> USE OdbAssumption, ResultsType DEF TypeOK
<1>0. /\ {"absent", "partial", "cached", "whole"} = Contents
      /\ Steps = {"idle", "stat", "uropen", "uring", "open", "write", "fsync", "rename", "dirsync"}
  BY DEF Contents, Steps
<1>a. ASSUME NEW p \in Proc, NEW code \in {"OK", "EIO"}, obj[p] \in Oid, Return(p, code)
      PROVE  /\ pc' \in [Proc -> Steps]
             /\ obj' \in [Proc -> Oid \cup {NoOid}]
             /\ ret' \in [Proc -> Results]
  BY <1>a, <1>0 DEF Return
<1>b. ASSUME NEW p \in Proc, NEW step \in Steps, Goto(p, step)
      PROVE  /\ pc' \in [Proc -> Steps]
             /\ obj' \in [Proc -> Oid \cup {NoOid}]
             /\ ret' \in [Proc -> Results]
  BY <1>b DEF Goto
<1>c. ASSUME NEW p \in Proc, NEW o \in Oid, Cached(p, o)
      PROVE  cache' \in [Proc -> SUBSET Oid]
  BY <1>c DEF Cached, Fill
<1>d. \A p \in Proc : pc[p] # "idle" => obj[p] \in Oid
  BY DEF Control
<1>1. ASSUME NEW p \in Proc, NEW o \in Oid, WriteCacheHit(p, o) PROVE TypeOK'
  BY <1>1 DEF WriteCacheHit
<1>2. ASSUME NEW p \in Proc, NEW o \in Oid, WriteCall(p, o) PROVE TypeOK'
  <2>1. ret' \in [Proc -> Results]
    <3>1. \E r \in Results : ret' = [ret EXCEPT ![p] = r]
      BY <1>2 DEF WriteCall
    <3> QED BY <3>1
  <2>2. pc' \in [Proc -> Steps]
    BY <1>0, <1>2 DEF WriteCall
  <2>3. obj' \in [Proc -> Oid \cup {NoOid}]
    <3>1. \E r \in Oid : obj' = [obj EXCEPT ![p] = r] \/ obj' = obj
      BY <1>2 DEF WriteCall
    <3> QED BY <3>1
  <2>4. fan' \in [Dir -> DirStates]
    BY <1>2, MakeDirType DEF WriteCall
  <2> QED BY <1>2, <2>1, <2>2, <2>3, <2>4 DEF WriteCall
<1>3. ASSUME NEW p \in Proc, NEW o \in Oid, Read(p, o) PROVE TypeOK'
  BY <1>3, <1>c DEF Read
<1>4. ASSUME NEW p \in Proc, NEW o \in Oid, Delete(p, o) PROVE TypeOK'
  BY <1>0, <1>4 DEF Delete
<1>5. ASSUME NEW p \in Proc, StatHit(p) PROVE TypeOK'
  BY <1>5, <1>a, <1>c, <1>d DEF StatHit
<1>6. ASSUME NEW p \in Proc, StatMiss(p) PROVE TypeOK'
  BY <1>0, <1>6, <1>b DEF StatMiss
<1>7. ASSUME NEW p \in Proc, NEW step \in Steps \ {"idle"}, NEW next \in Steps,
             OpenTmp(p, step, next) PROVE TypeOK'
  <2>1. obj[p] \in Oid /\ OpenError("EEXIST") = "OK" /\ OpenError("EACCES") = "EIO"
    BY <1>7, <1>d DEF OpenTmp, OpenError
  <2>2. tmp' \in [Oid -> [Proc -> Contents]]
    BY <1>7, <1>0, <2>1, TmpUpdate DEF OpenTmp
  <2> QED BY <1>7, <1>a, <1>b, <2>1, <2>2 DEF OpenTmp
<1>8. ASSUME NEW p \in Proc, UringComplete(p) PROVE TypeOK'
  <2>1. tmp' \in [Oid -> [Proc -> Contents]]
    BY <1>8, <1>0, <1>d, TmpUpdate DEF UringComplete
  <2> QED BY <1>8, <1>0, <1>b, <2>1 DEF UringComplete
<1>9. ASSUME NEW p \in Proc, UringFallback(p) PROVE TypeOK'
  <2>1. tmp' \in [Oid -> [Proc -> Contents]]
    BY <1>9, <1>0, <1>d, TmpUpdate DEF UringFallback
  <2> QED BY <1>9, <1>0, <1>b, <2>1 DEF UringFallback
<1>10. ASSUME NEW p \in Proc, WriteTmp(p) PROVE TypeOK'
  <2>1. tmp' \in [Oid -> [Proc -> Contents]]
    BY <1>10, <1>0, <1>d, TmpUpdate DEF WriteTmp
  <2> QED BY <1>10, <1>0, <1>a, <1>b, <1>d, <2>1 DEF WriteTmp
<1>11. ASSUME NEW p \in Proc, SyncTmp(p) PROVE TypeOK'
  <2>1. Synced(tmp[obj[p]][p]) \in Contents
    BY <1>11, <1>0, <1>d DEF SyncTmp, Synced
  <2>2. tmp' \in [Oid -> [Proc -> Contents]]
    BY <1>11, <1>d, <2>1, TmpUpdate DEF SyncTmp
  <2> QED BY <1>11, <1>0, <1>b, <2>2 DEF SyncTmp
<1>12. ASSUME NEW p \in Proc, RenameTmp(p) PROVE TypeOK'
  <2>1. tmp' \in [Oid -> [Proc -> Contents]]
    BY <1>12, <1>0, <1>d, TmpUpdate DEF RenameTmp
  <2>2. loose' \in [Oid -> Contents]
    <3>1. obj[p] \in Oid /\ tmp[obj[p]][p] \in Contents
      BY <1>12, <1>d DEF RenameTmp
    <3>2. loose' = loose \/ loose' = [loose EXCEPT ![obj[p]] = tmp[obj[p]][p]]
      BY <1>12 DEF RenameTmp
    <3> QED BY <3>1, <3>2
  <2> QED BY <1>12, <1>0, <1>a, <1>b, <1>d, <2>1, <2>2 DEF RenameTmp
<1>13. ASSUME NEW p \in Proc, DirSync(p) PROVE TypeOK'
  <2>1. durable' \in [Oid -> Contents]
    BY <1>13, <1>d DEF DirSync, DirSynced
  <2>2. obj[p] \in Oid /\ fan[DirOf[obj[p]]] \in {"made", "durable"}
    BY <1>13, <1>d DEF DirSync, DirThere, DirStates
  <2>3. acked' \subseteq Acks
    BY <1>13, <2>2 DEF DirSync, Acks
  <2> QED BY <1>13, <1>a, <1>c, <1>d, <2>1, <2>3 DEF DirSync
<1>14. ASSUME NEW p \in Proc, Reopen(p) PROVE TypeOK'
  BY <1>14 DEF Reopen, EmptyCache
<1>15. ASSUME NEW p \in Proc, Kill(p) PROVE TypeOK'
  BY <1>0, <1>15 DEF Kill, EmptyCache
<1>16. CASE PowerLoss
  <2>1. \A c \in Contents, out \in BOOLEAN : Survives(c, out) \in Contents
    BY DEF Survives, Contents
  <2>2. loose' \in [Oid -> Contents] /\ tmp' \in [Oid -> [Proc -> Contents]]
    BY <1>16, <1>0, <2>1 DEF PowerLoss
  <2>3. fan' \in [Dir -> DirStates] /\ lost' \subseteq Dir
    BY <1>16 DEF PowerLoss, DirStates
  <2> QED BY <1>16, <1>0, <2>2, <2>3 DEF PowerLoss, EmptyCache
<1>17. CASE UNCHANGED vars
  BY <1>17 DEF vars
<1> QED BY <1>0, <1>1, <1>2, <1>3, <1>4, <1>5, <1>6, <1>7, <1>8, <1>9, <1>10, <1>11, <1>12, <1>13,
           <1>14, <1>15, <1>16, <1>17 DEF Next, Call, WriteStep, UringOpen, PortableOpen

-----------------------------------------------------------------------------
(* One process at a time *)

\* A step of one process changes the place, the object, the result and the cache of no
\* other.
Others(p) ==
    \A q \in Proc \ {p} :
        pc'[q] = pc[q] /\ obj'[q] = obj[q] /\ ret'[q] = ret[q] /\ cache'[q] = cache[q]

\* The other processes are left alone, whichever call the process makes.
LEMMA StepIsLocal ==
    ASSUME TypeOK, NEW p \in Proc, Call(p) \/ WriteStep(p) \/ Reopen(p) \/ Kill(p)
    PROVE  Others(p)
<1> USE DEF TypeOK, Others
<1>1. CASE Call(p)
  BY <1>1 DEF Call, WriteCacheHit, WriteCall, Read, Delete, Cached
<1>2. CASE StatHit(p) \/ StatMiss(p)
  BY <1>2 DEF StatHit, StatMiss, Cached, Return, Goto
<1>3. CASE UringOpen(p) \/ PortableOpen(p)
  BY <1>3 DEF UringOpen, PortableOpen, OpenTmp, Return, Goto
<1>4. CASE UringComplete(p) \/ UringFallback(p)
  BY <1>4 DEF UringComplete, UringFallback, Goto
<1>5. CASE WriteTmp(p) \/ SyncTmp(p) \/ RenameTmp(p)
  BY <1>5 DEF WriteTmp, SyncTmp, RenameTmp, Return, Goto
<1>6. CASE DirSync(p)
  BY <1>6 DEF DirSync, Cached, Return
<1>7. CASE Reopen(p) \/ Kill(p)
  BY <1>7 DEF Reopen, Kill
<1> QED BY <1>1, <1>2, <1>3, <1>4, <1>5, <1>6, <1>7 DEF WriteStep

\* A step of a process creates, fills or removes at most one temporary file, that of
\* the object it writes under its own name, and that only in the middle of a write.
LEMMA OwnTmp ==
    ASSUME TypeOK, Control, NEW p \in Proc,
           Call(p) \/ WriteStep(p) \/ Reopen(p) \/ Kill(p)
    PROVE  \A o \in Oid, q \in Proc :
               (pc[p] \in {"idle", "stat", "dirsync"} \/ <<o, q>> # <<obj[p], p>>)
                   => tmp'[o][q] = tmp[o][q]
<1> USE DEF TypeOK
<1>1. CASE UNCHANGED tmp
  BY <1>1
<1>2. CASE ~UNCHANGED tmp
  <2>1. obj[p] \in Oid /\ pc[p] \notin {"idle", "stat", "dirsync"}
    BY <1>2 DEF Control, Call, WriteStep, WriteCacheHit, WriteCall, Read, Delete, Reopen, Kill,
       StatHit, StatMiss, UringOpen, PortableOpen, OpenTmp, UringComplete, UringFallback,
       WriteTmp, SyncTmp, RenameTmp, DirSync
  <2>2. Synced(tmp[obj[p]][p]) \in Contents /\ {"absent", "partial", "cached", "whole"} = Contents
    BY <2>1 DEF Synced, Contents
  <2>3. \E v \in Contents : tmp' = [tmp EXCEPT ![obj[p]][p] = v]
    BY <1>2, <2>2 DEF Call, WriteStep, WriteCacheHit, WriteCall, Read, Delete, Reopen, Kill,
       StatHit, StatMiss, UringOpen, PortableOpen, OpenTmp, UringComplete, UringFallback,
       WriteTmp, SyncTmp, RenameTmp, DirSync
  <2> QED BY <2>1, <2>3, TmpUpdate
<1> QED BY <1>1, <1>2

-----------------------------------------------------------------------------
(* The inductive steps *)

\* A process gets its object when its write begins and has no result before it returns.
LEMMA ControlStep == TypeOK /\ Control /\ [Next]_vars => Control'
<1> SUFFICES ASSUME TypeOK, Control, [Next]_vars PROVE Control'
  OBVIOUS
<1>1. ASSUME NEW p \in Proc, Call(p) \/ WriteStep(p) \/ Reopen(p) \/ Kill(p) PROVE Control'
  <2>0. /\ Others(p)
        /\ pc \in [Proc -> Steps] /\ obj \in [Proc -> Oid \cup {NoOid}]
        /\ ret \in [Proc -> Results]
    BY <1>1, StepIsLocal DEF TypeOK
  <2>c. /\ pc[p] # "idle" => obj[p] \in Oid /\ ret[p] = None
        /\ pc[p] \in {"uropen", "uring"} => uring
    BY DEF Control
  <2>1. /\ uring' = uring
        /\ pc'[p] # "idle" => obj'[p] \in Oid /\ ret'[p] = None
        /\ pc'[p] \in {"uropen", "uring"} => uring'
    <3>1. CASE Call(p)
      BY <1>1, <2>0, <2>c, <3>1 DEF Call, WriteCacheHit, WriteCall, Read, Delete
    <3>2. CASE StatHit(p)
      BY <2>0, <2>c, <3>2 DEF StatHit, Return
    <3>3. CASE StatMiss(p)
      BY <2>0, <2>c, <3>3 DEF StatMiss, Goto
    <3>4. CASE UringOpen(p)
      BY <2>0, <2>c, <3>4 DEF UringOpen, OpenTmp, Return, Goto
    <3>5. CASE PortableOpen(p)
      BY <2>0, <2>c, <3>5 DEF PortableOpen, OpenTmp, Return, Goto
    <3>6. CASE UringComplete(p) \/ UringFallback(p)
      BY <2>0, <2>c, <3>6 DEF UringComplete, UringFallback, Goto
    <3>7. CASE WriteTmp(p) \/ SyncTmp(p)
      BY <2>0, <2>c, <3>7 DEF WriteTmp, SyncTmp, Return, Goto
    <3>8. CASE RenameTmp(p) \/ DirSync(p)
      BY <2>0, <2>c, <3>8 DEF RenameTmp, DirSync, Return, Goto
    <3>9. CASE Reopen(p) \/ Kill(p)
      BY <2>0, <2>c, <3>9 DEF Reopen, Kill
    <3> QED BY <1>1, <3>1, <3>2, <3>3, <3>4, <3>5, <3>6, <3>7, <3>8, <3>9 DEF WriteStep
  <2> QED BY <2>0, <2>1 DEF Control, Others
<1>2. CASE PowerLoss
  BY <1>2 DEF PowerLoss, Control
<1>3. CASE UNCHANGED vars
  BY <1>3 DEF vars, Control
<1> QED BY <1>1, <1>2, <1>3 DEF Next

\* A writer's temporary file holds what the writer put there.
LEMMA TmpStep == TypeOK /\ Control /\ TmpHolds /\ [Next]_vars => TmpHolds'
<1> SUFFICES ASSUME TypeOK, Control, TmpHolds, [Next]_vars PROVE TmpHolds'
  OBVIOUS
<1>1. ASSUME NEW p \in Proc, Call(p) \/ WriteStep(p) \/ Reopen(p) \/ Kill(p) PROVE TmpHolds'
  <2>0. /\ Others(p)
        /\ pc \in [Proc -> Steps] /\ obj \in [Proc -> Oid \cup {NoOid}]
        /\ tmp \in [Oid -> [Proc -> Contents]]
        /\ {"absent", "partial", "cached", "whole"} = Contents
    BY <1>1, StepIsLocal DEF TypeOK, Contents
  <2>c. \A q \in Proc : pc[q] # "idle" => obj[q] \in Oid
    BY DEF Control
  <2>u. unseen => unseen'
    BY <1>1 DEF Call, WriteStep, WriteCacheHit, WriteCall, Read, Delete, Reopen, Kill,
       StatHit, StatMiss, UringOpen, PortableOpen, OpenTmp, UringComplete, UringFallback,
       WriteTmp, SyncTmp, RenameTmp, DirSync
  <2>1. ASSUME NEW q \in Proc \ {p}
        PROVE  /\ pc'[q] \in {"uring", "write", "fsync", "rename"} => tmp'[obj'[q]][q] # "absent"
               /\ pc'[q] = "fsync" => tmp'[obj'[q]][q] = "cached"
               /\ pc'[q] = "rename" /\ ~unseen' => tmp'[obj'[q]][q] = "whole"
    <3>1. pc'[q] = pc[q] /\ obj'[q] = obj[q]
      BY <2>0 DEF Others
    <3>2. pc[q] # "idle" => tmp'[obj[q]][q] = tmp[obj[q]][q]
      BY <1>1, <2>c, OwnTmp
    <3> QED BY <2>u, <3>1, <3>2 DEF TmpHolds
  <2>2. /\ pc'[p] \in {"uring", "write", "fsync", "rename"} => tmp'[obj'[p]][p] # "absent"
        /\ pc'[p] = "fsync" => tmp'[obj'[p]][p] = "cached"
        /\ pc'[p] = "rename" /\ ~unseen' => tmp'[obj'[p]][p] = "whole"
    <3>1. CASE Call(p)
      <4>1. pc'[p] \in {"idle", "stat"}
        BY <2>0, <3>1 DEF Call, WriteCacheHit, WriteCall, Read, Delete
      <4> QED BY <4>1
    <3>2. CASE StatHit(p) \/ StatMiss(p)
      <4>1. pc'[p] \in {"idle", "open", "uropen"}
        BY <2>0, <3>2 DEF StatHit, StatMiss, Return, Goto
      <4> QED BY <4>1
    <3>4. CASE UringOpen(p) \/ PortableOpen(p)
      <4>1. obj[p] \in Oid
        BY <2>c, <3>4 DEF UringOpen, PortableOpen, OpenTmp
      <4>2. \/ pc'[p] = "idle"
            \/ /\ pc'[p] \in {"uring", "write"} /\ obj'[p] = obj[p]
               /\ tmp' = [tmp EXCEPT ![obj[p]][p] = "partial"]
        BY <2>0, <3>4 DEF UringOpen, PortableOpen, OpenTmp, Return, Goto
      <4> QED BY <2>0, <4>1, <4>2, TmpUpdate
    <3>6. CASE UringComplete(p)
      <4>1. obj[p] \in Oid /\ tmp[obj[p]][p] # "absent" /\ pc'[p] = "rename" /\ obj'[p] = obj[p]
        BY <2>0, <2>c, <3>6 DEF UringComplete, Goto, TmpHolds
      <4>2. \/ tmp' = [tmp EXCEPT ![obj[p]][p] = "whole"]
            \/ unseen' /\ tmp' = tmp
        BY <3>6 DEF UringComplete
      <4> QED BY <2>0, <4>1, <4>2, TmpUpdate
    <3>7. CASE UringFallback(p)
      <4>1. pc'[p] = "open"
        BY <2>0, <3>7 DEF UringFallback, Goto
      <4> QED BY <4>1
    <3>8. CASE WriteTmp(p)
      <4>1. obj[p] \in Oid
        BY <2>c, <3>8 DEF WriteTmp
      <4>2. \/ pc'[p] = "idle"
            \/ /\ pc'[p] = "fsync" /\ obj'[p] = obj[p]
               /\ tmp' = [tmp EXCEPT ![obj[p]][p] = "cached"]
        BY <2>0, <3>8 DEF WriteTmp, Return, Goto
      <4> QED BY <2>0, <4>1, <4>2, TmpUpdate
    <3>9. CASE SyncTmp(p)
      <4>1. obj[p] \in Oid /\ tmp[obj[p]][p] = "cached" /\ pc'[p] = "rename" /\ obj'[p] = obj[p]
        BY <2>0, <2>c, <3>9 DEF SyncTmp, Goto, TmpHolds
      <4>2. \/ tmp' = [tmp EXCEPT ![obj[p]][p] = "whole"]
            \/ unseen' /\ tmp' = tmp
        BY <3>9, <4>1 DEF SyncTmp, Synced
      <4> QED BY <2>0, <4>1, <4>2, TmpUpdate
    <3>10. CASE RenameTmp(p) \/ DirSync(p) \/ Reopen(p) \/ Kill(p)
      <4>1. pc'[p] \in {"idle", "dirsync"}
        BY <2>0, <3>10 DEF RenameTmp, DirSync, Return, Goto, Reopen, Kill
      <4> QED BY <4>1
    <3> QED BY <1>1, <3>1, <3>2, <3>4, <3>6, <3>7, <3>8, <3>9, <3>10 DEF WriteStep
  <2> QED BY <2>1, <2>2 DEF TmpHolds
<1>2. CASE PowerLoss
  BY <1>2 DEF PowerLoss, TmpHolds
<1>3. CASE UNCHANGED vars
  BY <1>3 DEF vars, TmpHolds
<1> QED BY <1>1, <1>2, <1>3 DEF Next

\* Only a whole file gets the name of an object, and only such an entry gets to the medium.
LEMMA SynchronisedStep ==
    TypeOK /\ Control /\ TmpHolds /\ Synchronised /\ [Next]_vars => Synchronised'
<1> SUFFICES ASSUME TypeOK, Control, TmpHolds, Synchronised, [Next]_vars, ~unseen'
             PROVE  \A o \in Oid : {loose'[o], durable'[o]} \subseteq {"absent", "whole"}
  BY DEF Synchronised
<1>u. ~unseen
  BY DEF Next, vars, PowerLoss, Call, WriteStep, WriteCacheHit, WriteCall, Read, Delete, Reopen,
     Kill, StatHit, StatMiss, UringOpen, PortableOpen, OpenTmp, UringComplete, UringFallback,
     WriteTmp, SyncTmp, RenameTmp, DirSync
<1>s. \A o \in Oid : loose[o] \in {"absent", "whole"} /\ durable[o] \in {"absent", "whole"}
  BY <1>u DEF Synchronised
<1>t. loose \in [Oid -> Contents] /\ durable \in [Oid -> Contents]
  BY DEF TypeOK
<1>1. ASSUME NEW p \in Proc, NEW o \in Oid, Delete(p, o)
      PROVE  \A a \in Oid : {loose'[a], durable'[a]} \subseteq {"absent", "whole"}
  BY <1>1, <1>s, <1>t DEF Delete
<1>2. ASSUME NEW p \in Proc, RenameTmp(p)
      PROVE  \A o \in Oid : {loose'[o], durable'[o]} \subseteq {"absent", "whole"}
  <2>1. obj[p] \in Oid /\ tmp[obj[p]][p] = "whole"
    BY <1>2, <1>u DEF RenameTmp, Control, TmpHolds
  <2> QED BY <1>2, <1>s, <1>t, <2>1 DEF RenameTmp
<1>3. ASSUME NEW p \in Proc, DirSync(p)
      PROVE  \A o \in Oid : {loose'[o], durable'[o]} \subseteq {"absent", "whole"}
  <2>1. obj[p] \in Oid
    BY <1>3 DEF DirSync, Control
  <2> QED BY <1>3, <1>s, <1>t, <2>1 DEF DirSync, DirSynced
<1>4. CASE PowerLoss
  BY <1>4, <1>s DEF PowerLoss, Survives
<1>5. CASE UNCHANGED <<loose, durable>>
  BY <1>5, <1>s
<1> QED BY <1>1, <1>2, <1>3, <1>4, <1>5
        DEF Next, vars, Call, WriteStep, WriteCacheHit, WriteCall, Read, Reopen,
            Kill, StatHit, StatMiss, UringOpen, PortableOpen, OpenTmp, UringComplete, UringFallback,
            WriteTmp, SyncTmp

\* Short of a power loss, an object leaves the store by being deleted and in no other way.
LEMMA LooseStays ==
    ASSUME TypeOK, Control, TmpHolds, NEW p \in Proc,
           Call(p) \/ WriteStep(p) \/ Reopen(p) \/ Kill(p)
    PROVE  /\ deleted \subseteq deleted'
           /\ \A o \in Oid : loose[o] # "absent" => loose'[o] # "absent" \/ o \in deleted'
<1>t. loose \in [Oid -> Contents]
  BY DEF TypeOK
<1>1. ASSUME NEW o \in Oid, Delete(p, o)
      PROVE  /\ deleted \subseteq deleted'
             /\ \A a \in Oid : loose[a] # "absent" => loose'[a] # "absent" \/ a \in deleted'
  BY <1>1, <1>t DEF Delete
<1>2. CASE RenameTmp(p)
  <2>1. obj[p] \in Oid /\ tmp[obj[p]][p] # "absent"
    BY <1>2 DEF RenameTmp, Control, TmpHolds
  <2> QED BY <1>2, <1>t, <2>1 DEF RenameTmp
<1>3. CASE UNCHANGED <<loose, deleted>>
  BY <1>3
<1> QED BY <1>1, <1>2, <1>3
        DEF Call, WriteStep, WriteCacheHit, WriteCall, Read, Reopen, Kill, StatHit, StatMiss,
            UringOpen, PortableOpen, OpenTmp, UringComplete, UringFallback, WriteTmp, SyncTmp,
            DirSync

\* What a writer renamed is there for its directory fsync.
LEMMA RenamedStep == TypeOK /\ Control /\ TmpHolds /\ Renamed /\ [Next]_vars => Renamed'
<1> SUFFICES ASSUME TypeOK, Control, TmpHolds, Renamed, [Next]_vars PROVE Renamed'
  OBVIOUS
<1>1. ASSUME NEW p \in Proc, Call(p) \/ WriteStep(p) \/ Reopen(p) \/ Kill(p) PROVE Renamed'
  <2>0. /\ Others(p) /\ deleted \subseteq deleted'
        /\ \A o \in Oid : loose[o] # "absent" => loose'[o] # "absent" \/ o \in deleted'
        /\ pc \in [Proc -> Steps] /\ obj \in [Proc -> Oid \cup {NoOid}]
        /\ loose \in [Oid -> Contents]
    BY <1>1, StepIsLocal, LooseStays DEF TypeOK
  <2>1. ASSUME NEW q \in Proc \ {p}, pc'[q] = "dirsync"
        PROVE  loose'[obj'[q]] # "absent" \/ obj'[q] \in deleted'
    <3>1. pc[q] = "dirsync" /\ obj'[q] = obj[q] /\ obj[q] \in Oid
      BY <2>0, <2>1 DEF Others, Control
    <3> QED BY <2>0, <3>1 DEF Renamed
  <2>2. ASSUME pc'[p] = "dirsync"
        PROVE  loose'[obj'[p]] # "absent" \/ obj'[p] \in deleted'
    <3>1. RenameTmp(p)
      <4>1. CASE Call(p)
        <5>1. pc'[p] \in {"idle", "stat"}
          BY <2>0, <4>1 DEF Call, WriteCacheHit, WriteCall, Read, Delete
        <5> QED BY <2>2, <5>1
      <4>2. CASE WriteStep(p)
        BY <2>0, <2>2, <4>2 DEF WriteStep, StatHit, StatMiss, UringOpen, PortableOpen, OpenTmp,
           UringComplete, UringFallback, WriteTmp, SyncTmp, DirSync, Return, Goto
      <4>3. CASE Reopen(p) \/ Kill(p)
        BY <2>0, <2>2, <4>3 DEF Reopen, Kill
      <4> QED BY <1>1, <4>1, <4>2, <4>3
    <3>2. obj[p] \in Oid /\ tmp[obj[p]][p] # "absent"
      BY <3>1 DEF RenameTmp, Control, TmpHolds
    <3>3. loose' = [loose EXCEPT ![obj[p]] = tmp[obj[p]][p]] /\ obj' = obj
      BY <2>0, <2>2, <3>1 DEF RenameTmp, Return, Goto
    <3> QED BY <2>0, <3>2, <3>3
  <2> QED BY <2>1, <2>2 DEF Renamed
<1>2. CASE PowerLoss
  BY <1>2 DEF PowerLoss, Renamed
<1>3. CASE UNCHANGED vars
  BY <1>3 DEF vars, Renamed
<1> QED BY <1>1, <1>2, <1>3 DEF Next

\* Short of a power loss a directory that exists stays as it is.
LEMMA FanStays ==
    ASSUME TypeOK, NEW p \in Proc, Call(p) \/ WriteStep(p) \/ Reopen(p) \/ Kill(p)
    PROVE  \A d \in Dir : fan[d] # "absent" => fan'[d] = fan[d]
<1>1. ASSUME NEW o \in Oid, WriteCall(p, o)
      PROVE  \A d \in Dir : fan[d] # "absent" => fan'[d] = fan[d]
  <2>1. MakeDir(DirOf[o]) \/ fan' = fan
    BY <1>1 DEF WriteCall
  <2> QED BY <2>1, MakeDirType DEF TypeOK
<1>2. CASE fan' = fan
  BY <1>2
<1> QED BY <1>1, <1>2
        DEF Call, WriteStep, WriteCacheHit, Read, Delete, Reopen, Kill, StatHit, StatMiss,
            UringOpen, PortableOpen, OpenTmp, UringComplete, UringFallback, WriteTmp, SyncTmp,
            RenameTmp, DirSync

\* The directory is made before the write begins.
LEMMA DirThereStep == TypeOK /\ Control /\ DirThere /\ [Next]_vars => DirThere'
<1> SUFFICES ASSUME TypeOK, Control, DirThere, [Next]_vars PROVE DirThere'
  OBVIOUS
<1>1. ASSUME NEW p \in Proc, Call(p) \/ WriteStep(p) \/ Reopen(p) \/ Kill(p)
      PROVE  DirThere'
  <2>0. /\ Others(p) /\ \A d \in Dir : fan[d] # "absent" => fan'[d] = fan[d]
        /\ pc \in [Proc -> Steps] /\ obj \in [Proc -> Oid \cup {NoOid}]
    BY <1>1, StepIsLocal, FanStays DEF TypeOK
  <2>c. \A q \in Proc : pc[q] # "idle" => obj[q] \in Oid /\ DirOf[obj[q]] \in Dir
    BY OdbAssumption DEF Control
  <2>1. ASSUME NEW q \in Proc, pc[q] # "idle", pc'[q] # "idle", obj'[q] = obj[q]
        PROVE  fan'[DirOf[obj'[q]]] # "absent"
    BY <2>0, <2>c, <2>1 DEF DirThere
  <2>2. ASSUME pc'[p] # "idle" PROVE fan'[DirOf[obj'[p]]] # "absent"
    <3>1. CASE pc[p] # "idle" /\ obj'[p] = obj[p]
      BY <2>1, <2>2, <3>1
    <3>2. ASSUME NEW o \in Oid, WriteCall(p, o) PROVE fan'[DirOf[obj'[p]]] # "absent"
      <4>1. MakeDir(DirOf[o]) /\ obj'[p] = o
        BY <2>0, <2>2, <3>2 DEF WriteCall
      <4> QED BY <4>1, MakeDirType DEF TypeOK
    <3>3. CASE Call(p)
      BY <2>0, <2>2, <3>2, <3>3 DEF Call, WriteCacheHit, Read, Delete
    <3>4. CASE WriteStep(p)
      BY <2>0, <2>2, <3>1, <3>4 DEF WriteStep, StatHit, StatMiss, UringOpen, PortableOpen, OpenTmp,
         UringComplete, UringFallback, WriteTmp, SyncTmp, RenameTmp, DirSync, Return, Goto
    <3>5. CASE Reopen(p) \/ Kill(p)
      BY <2>0, <2>2, <3>5 DEF Reopen, Kill
    <3> QED BY <1>1, <3>3, <3>4, <3>5
  <2> QED BY <2>0, <2>1, <2>2 DEF DirThere, Others
<1>2. CASE PowerLoss
  BY <1>2 DEF PowerLoss, DirThere
<1>3. CASE UNCHANGED vars
  BY <1>3 DEF vars, DirThere
<1> QED BY <1>1, <1>2, <1>3 DEF Next

\* No power loss takes a directory that is on the medium.
LEMMA DirKeptStep ==
    TypeOK /\ Control /\ DirThere /\ DirKept /\ [Next]_vars => DirKept'
<1> SUFFICES ASSUME TypeOK, Control, DirThere, DirKept, [Next]_vars,
                    NEW a \in acked', a.dir = "durable"
             PROVE  fan'[DirOf[a.oid]] = "durable"
  BY DEF DirKept
<1>t. /\ acked \subseteq Acks /\ fan \in [Dir -> DirStates]
      /\ \A o \in Oid : DirOf[o] \in Dir
  BY OdbAssumption DEF TypeOK
<1>1. ASSUME NEW p \in Proc, Call(p) \/ WriteStep(p) \/ Reopen(p) \/ Kill(p)
      PROVE  fan'[DirOf[a.oid]] = "durable"
  <2>1. \A d \in Dir : fan[d] # "absent" => fan'[d] = fan[d]
    BY <1>1, FanStays
  <2>2. CASE a \in acked
    <3>1. a.oid \in Oid /\ fan[DirOf[a.oid]] = "durable"
      BY <1>t, <2>2 DEF DirKept, Acks
    <3> QED BY <1>t, <2>1, <3>1
  <2>3. CASE a \notin acked
    <3>1. DirSync(p) /\ a = [oid |-> obj[p], dir |-> fan[DirOf[obj[p]]]]
      BY <1>1, <2>3 DEF Call, WriteStep, WriteCacheHit, WriteCall, Read, Delete, Reopen, Kill,
         StatHit, StatMiss, UringOpen, PortableOpen, OpenTmp, UringComplete, UringFallback,
         WriteTmp, SyncTmp, RenameTmp, DirSync
    <3>2. obj[p] \in Oid
      BY <3>1 DEF DirSync, Control
    <3> QED BY <1>t, <2>1, <3>1, <3>2
  <2> QED BY <2>2, <2>3
<1>2. CASE PowerLoss
  <2>1. a \in acked
    BY <1>2 DEF PowerLoss
  <2>2. a.oid \in Oid /\ fan[DirOf[a.oid]] = "durable"
    BY <1>t, <2>1 DEF DirKept, Acks
  <2> QED BY <1>2, <1>t, <2>2 DEF PowerLoss
<1>3. CASE UNCHANGED vars
  BY <1>3 DEF vars, DirKept
<1> QED BY <1>1, <1>2, <1>3 DEF Next

\* The entry of an acknowledged object is on the medium, so no power loss takes it back
\* unless it takes the directory, and that only if the directory was not there either.
LEMMA AckedStep ==
    TypeOK /\ Control /\ TmpHolds /\ Renamed /\ DirThere /\ DirKept /\ AckedSurvives /\ [Next]_vars
        => AckedSurvives'
<1> SUFFICES ASSUME TypeOK, Control, TmpHolds, Renamed, DirThere, DirKept, AckedSurvives, [Next]_vars
             PROVE  AckedSurvives'
  OBVIOUS
<1>t. /\ loose \in [Oid -> Contents] /\ durable \in [Oid -> Contents]
      /\ acked \subseteq Acks /\ \A a \in acked : a.oid \in Oid /\ a.dir \in {"made", "durable"}
      /\ \A o \in Oid : DirOf[o] \in Dir
  BY OdbAssumption DEF TypeOK, Acks
<1>1. ASSUME NEW p \in Proc, Call(p) \/ WriteStep(p) \/ Reopen(p) \/ Kill(p)
      PROVE  AckedSurvives'
  <2>0. /\ deleted \subseteq deleted'
        /\ \A o \in Oid : loose[o] # "absent" => loose'[o] # "absent" \/ o \in deleted'
    BY <1>1, LooseStays
  <2>l. lost' = lost
    BY <1>1 DEF Call, WriteStep, WriteCacheHit, WriteCall, Read, Delete, Reopen, Kill, StatHit,
       StatMiss, UringOpen, PortableOpen, OpenTmp, UringComplete, UringFallback, WriteTmp,
       SyncTmp, RenameTmp, DirSync
  <2>1. CASE UNCHANGED <<durable, acked>>
    BY <1>t, <2>0, <2>l, <2>1 DEF AckedSurvives
  <2>2. CASE DirSync(p) /\ ~UNCHANGED <<durable, acked>>
    <3>1. obj[p] \in Oid /\ (loose[obj[p]] # "absent" \/ obj[p] \in deleted)
      BY <2>2 DEF DirSync, Control, Renamed
    <3>2. /\ durable' = [durable EXCEPT ![obj[p]] = loose[obj[p]]]
          /\ acked' = acked \cup {[oid |-> obj[p], dir |-> fan[DirOf[obj[p]]]]}
          /\ loose' = loose /\ deleted' = deleted
      BY <2>2 DEF DirSync, DirSynced
    <3>3. ASSUME NEW a \in acked', a.oid \notin deleted'
          PROVE  \/ loose'[a.oid] # "absent" /\ durable'[a.oid] # "absent"
                 \/ a.dir = "made" /\ DirOf[a.oid] \in lost'
      <4>1. CASE a.oid = obj[p]
        BY <1>t, <3>1, <3>2, <3>3, <4>1
      <4>2. CASE a.oid # obj[p]
        <5>1. a \in acked
          BY <3>2, <3>3, <4>2
        <5>2. durable'[a.oid] = durable[a.oid]
          BY <1>t, <3>1, <3>2, <4>2, <5>1
        <5> QED BY <2>l, <3>2, <3>3, <5>1, <5>2 DEF AckedSurvives
      <4> QED BY <4>1, <4>2
    <3> QED BY <3>3 DEF AckedSurvives
  <2> QED BY <1>1, <2>1, <2>2
          DEF Call, WriteStep, WriteCacheHit, WriteCall, Read, Delete, Reopen, Kill, StatHit,
              StatMiss, UringOpen, PortableOpen, OpenTmp, UringComplete, UringFallback,
              WriteTmp, SyncTmp, RenameTmp
<1>2. CASE PowerLoss
  <2>1. deleted' = deleted /\ acked' = acked /\ durable' = loose' /\ lost \subseteq lost'
    BY <1>2 DEF PowerLoss
  <2>2. ASSUME NEW a \in acked, a.oid \notin deleted
        PROVE  loose'[a.oid] # "absent" \/ (a.dir = "made" /\ DirOf[a.oid] \in lost')
    <3>1. a.oid \in Oid /\ DirOf[a.oid] \in Dir
      BY <1>t
    <3>2. CASE a.dir = "made" /\ DirOf[a.oid] \in lost
      BY <2>1, <3>2
    <3>3. CASE loose[a.oid] # "absent" /\ durable[a.oid] # "absent"
      <4>1. PICK away \in SUBSET {d \in Dir : fan[d] = "made"} :
               /\ lost' = lost \cup away
               /\ DirOf[a.oid] \notin away => loose'[a.oid] # "absent"
        BY <1>2, <3>1, <3>3 DEF PowerLoss, Survives
      <4>2. DirOf[a.oid] \in away => a.dir = "made"
        BY <1>t, <4>1 DEF DirKept
      <4> QED BY <4>1, <4>2
    <3> QED BY <2>2, <3>2, <3>3 DEF AckedSurvives
  <2> QED BY <2>1, <2>2 DEF AckedSurvives
<1>3. CASE UNCHANGED vars
  BY <1>3 DEF vars, AckedSurvives
<1> QED BY <1>1, <1>2, <1>3 DEF Next

\* An object is cached after the store was seen to hold it, and the caches end with power.
LEMMA CacheStep ==
    TypeOK /\ Control /\ TmpHolds /\ Renamed /\ CacheBacked /\ [Next]_vars => CacheBacked'
<1> SUFFICES ASSUME TypeOK, Control, TmpHolds, Renamed, CacheBacked, [Next]_vars
             PROVE  CacheBacked'
  OBVIOUS
<1>t. cache \in [Proc -> SUBSET Oid]
  BY DEF TypeOK
<1>1. ASSUME NEW p \in Proc, Call(p) \/ WriteStep(p) \/ Reopen(p) \/ Kill(p)
      PROVE  CacheBacked'
  <2>0. /\ Others(p) /\ deleted \subseteq deleted'
        /\ \A o \in Oid : loose[o] # "absent" => loose'[o] # "absent" \/ o \in deleted'
    BY <1>1, StepIsLocal, LooseStays
  <2>1. ASSUME NEW o \in Oid, o \in cache'[p], o \notin cache[p]
        PROVE  loose[o] # "absent" \/ o \in deleted
    <3>1. CASE StatHit(p)
      BY <1>t, <2>1, <3>1 DEF StatHit, Cached, Fill
    <3>2. CASE DirSync(p)
      BY <1>t, <2>1, <3>2 DEF DirSync, Cached, Fill, Renamed
    <3>3. ASSUME NEW a \in Oid, Read(p, a) PROVE loose[o] # "absent"
      BY <1>t, <2>1, <3>3 DEF Read, Cached, Fill
    <3>4. CASE Reopen(p) \/ Kill(p)
      BY <1>t, <2>1, <3>4 DEF Reopen, Kill, EmptyCache
    <3>5. CASE UNCHANGED cache
      BY <2>1, <3>5
    <3> QED BY <1>1, <3>1, <3>2, <3>3, <3>4, <3>5
            DEF Call, WriteStep, WriteCacheHit, WriteCall, Delete, StatMiss, UringOpen,
                PortableOpen, OpenTmp, UringComplete, UringFallback, WriteTmp, SyncTmp, RenameTmp
  <2>2. ASSUME NEW q \in Proc, NEW o \in Oid \ deleted', o \in cache'[q]
        PROVE  loose'[o] # "absent"
    <3>1. CASE q # p \/ o \in cache[q]
      BY <2>0, <2>2, <3>1 DEF Others, CacheBacked, InCache
    <3>2. CASE q = p /\ o \notin cache[p]
      BY <2>0, <2>1, <2>2, <3>2
    <3> QED BY <3>1, <3>2
  <2> QED BY <2>2 DEF CacheBacked, InCache
<1>2. CASE PowerLoss
  BY <1>2 DEF PowerLoss, EmptyCache, CacheBacked, InCache
<1>3. CASE UNCHANGED vars
  BY <1>3 DEF vars, CacheBacked, InCache
<1> QED BY <1>1, <1>2, <1>3 DEF Next

\* odb_write reports success for what it found in the store or in the cache, for what it
\* renamed, and for what a temporary file of its own name kept it from writing.
LEMMA StoresStep ==
    TypeOK /\ Control /\ TmpHolds /\ Renamed /\ CacheBacked /\ WriteStores /\ [Next]_vars
        => WriteStores'
<1> SUFFICES ASSUME TypeOK, Control, TmpHolds, Renamed, CacheBacked, WriteStores, [Next]_vars
             PROVE  WriteStores'
  OBVIOUS
<1>t. /\ ret \in [Proc -> Results] /\ pc \in [Proc -> Steps]
      /\ cache \in [Proc -> SUBSET Oid] /\ None.code # "OK"
  BY DEF TypeOK, None
<1>1. ASSUME NEW p \in Proc, Call(p) \/ WriteStep(p) \/ Reopen(p) \/ Kill(p)
      PROVE  WriteStores'
  <2> DEFINE Stored(r, q) ==
          loose'[r.oid] # "absent" \/ r.oid \in deleted' \/ tmp'[r.oid][q] # "absent"
  <2>0. /\ Others(p) /\ deleted \subseteq deleted'
        /\ \A o \in Oid : loose[o] # "absent" => loose'[o] # "absent" \/ o \in deleted'
    BY <1>1, StepIsLocal, LooseStays
  <2>1. ASSUME NEW q \in Proc, ret'[q] = ret[q], ret'[q].code = "OK" PROVE Stored(ret'[q], q)
    <3>1. ret[q].oid \in Oid /\ pc[q] = "idle"
      BY <1>t, <2>1, OKNamesObject DEF Control
    <3>2. tmp'[ret[q].oid][q] = tmp[ret[q].oid][q]
      BY <1>1, <3>1, OwnTmp
    <3>3. \/ loose[ret[q].oid] # "absent"
          \/ ret[q].oid \in deleted
          \/ tmp[ret[q].oid][q] # "absent"
      BY <2>1 DEF WriteStores
    <3> QED BY <2>0, <2>1, <3>1, <3>2, <3>3
  <2>2. ASSUME ret'[p] # ret[p], ret'[p].code = "OK" PROVE Stored(ret'[p], p)
    <3>1. ASSUME NEW o \in Oid, WriteCacheHit(p, o) PROVE Stored(ret'[p], p)
      <4>1. ret'[p].oid = o /\ o \in cache[p]
        BY <1>t, <3>1 DEF WriteCacheHit, InCache
      <4>2. loose[o] # "absent" \/ o \in deleted
        BY <4>1 DEF CacheBacked, InCache
      <4> QED BY <2>0, <4>1, <4>2
    <3>2. CASE StatHit(p)
      <4>1. ret'[p].oid = obj[p] /\ obj[p] \in Oid /\ loose[obj[p]] # "absent"
        BY <1>t, <3>2 DEF StatHit, Return, Control
      <4> QED BY <2>0, <4>1
    <3>3. CASE UringOpen(p) \/ PortableOpen(p)
      <4>1. CASE Return(p, OpenError("EEXIST")) /\ tmp' = tmp /\ tmp[obj[p]][p] # "absent"
        BY <1>t, <4>1 DEF Return
      <4>2. CASE Return(p, OpenError("EACCES"))
        <5>1. ret'[p].code = "EIO"
          BY <1>t, <4>2 DEF Return, OpenError
        <5> QED BY <2>2, <5>1
      <4>3. CASE ret' = ret
        BY <2>2, <4>3
      <4> QED BY <3>3, <4>1, <4>2, <4>3 DEF UringOpen, PortableOpen, OpenTmp, Goto
    <3>4. CASE DirSync(p)
      <4>1. ret'[p].oid = obj[p] /\ obj[p] \in Oid /\ (loose[obj[p]] # "absent" \/ obj[p] \in deleted)
        BY <1>t, <3>4 DEF DirSync, Return, Control, Renamed
      <4> QED BY <2>0, <4>1
    <3>5. CASE \E o \in Oid : WriteCall(p, o)
      <4>1. ret'[p].code \in {"none", "EIO"}
        BY <1>t, <3>5 DEF WriteCall, None
      <4> QED BY <2>2, <4>1
    <3>6. CASE Return(p, "EIO")
      <4>1. ret'[p].code = "EIO"
        BY <1>t, <3>6 DEF Return
      <4> QED BY <2>2, <4>1
    <3>7. CASE Reopen(p) \/ Kill(p)
      <4>1. ret'[p] = None
        BY <1>t, <3>7 DEF Reopen, Kill
      <4> QED BY <1>t, <2>2, <4>1
    <3>8. CASE ret' = ret
      BY <2>2, <3>8
    <3> QED BY <1>1, <3>1, <3>2, <3>3, <3>4, <3>5, <3>6, <3>7, <3>8
            DEF Call, WriteStep, Read, Delete, StatMiss, UringComplete, UringFallback, WriteTmp,
                SyncTmp, RenameTmp, Goto
  <2>3. ASSUME NEW q \in Proc, ret'[q].code = "OK" PROVE Stored(ret'[q], q)
    <3>1. ret'[q] = ret[q] \/ q = p
      BY <2>0 DEF Others
    <3> QED BY <2>1, <2>2, <2>3, <3>1
  <2> QED BY <2>3 DEF WriteStores
<1>2. CASE PowerLoss
  BY <1>2, <1>t DEF PowerLoss, WriteStores
<1>3. CASE UNCHANGED vars
  BY <1>3 DEF vars, WriteStores
<1> QED BY <1>1, <1>2, <1>3 DEF Next

\* A write that ends, ends without its temporary file, in the build without io_uring.
LEMMA NoTmpStep == TypeOK /\ Control /\ NoTmpLeft /\ [Next]_vars => NoTmpLeft'
<1> SUFFICES ASSUME TypeOK, Control, NoTmpLeft, [Next]_vars, crashes' = 0, ~uring',
                    NEW o \in Oid, NEW q \in Proc, tmp'[o][q] # "absent"
             PROVE  obj'[q] = o /\ pc'[q] \in {"write", "fsync", "rename"}
  BY DEF NoTmpLeft
<1>t. /\ pc \in [Proc -> Steps] /\ obj \in [Proc -> Oid \cup {NoOid}] /\ crashes \in Nat
      /\ tmp \in [Oid -> [Proc -> Contents]]
      /\ Contents = {"absent", "partial", "cached", "whole"}
  BY OdbAssumption DEF TypeOK, Contents
<1>1. CASE PowerLoss
  BY <1>t, <1>1 DEF PowerLoss
<1>2. CASE UNCHANGED vars
  BY <1>2 DEF vars, NoTmpLeft
<1>3. ASSUME NEW p \in Proc, Call(p) \/ WriteStep(p) \/ Reopen(p) \/ Kill(p)
      PROVE  obj'[q] = o /\ pc'[q] \in {"write", "fsync", "rename"}
  <2>0. uring' = uring /\ (crashes' = crashes \/ crashes' = crashes + 1)
    BY <1>3 DEF Call, WriteStep, WriteCacheHit, WriteCall, Read, Delete, Reopen, Kill, StatHit,
       StatMiss, UringOpen, PortableOpen, OpenTmp, UringComplete, UringFallback, WriteTmp,
       SyncTmp, RenameTmp, DirSync
  <2>1. crashes = 0 /\ ~uring /\ ~Kill(p)
    BY <1>t, <2>0 DEF Kill
  <2>2. tmp[o][q] # "absent" => obj[q] = o /\ pc[q] \in {"write", "fsync", "rename"}
    BY <2>1 DEF NoTmpLeft
  <2>3. pc[p] \notin {"uropen", "uring"} /\ (pc[p] # "idle" => obj[p] \in Oid)
    BY <2>1 DEF Control
  <2>4. CASE q # p
    <3>1. tmp'[o][q] = tmp[o][q]
      BY <1>3, <2>4, OwnTmp
    <3>2. pc'[q] = pc[q] /\ obj'[q] = obj[q]
      BY <1>3, <2>4, StepIsLocal DEF Others
    <3> QED BY <2>2, <3>1, <3>2
  <2>5. CASE q = p /\ pc[p] \in {"idle", "stat", "dirsync"}
    <3>1. tmp'[o][q] = tmp[o][q]
      BY <1>3, <2>5, OwnTmp
    <3> QED BY <2>2, <2>5, <3>1
  <2>6. CASE q = p /\ PortableOpen(p)
    <3>1. obj[p] \in Oid
      BY <2>3, <2>6 DEF PortableOpen, OpenTmp
    <3>2. tmp[o][p] = "absent"
      BY <2>2, <2>6 DEF PortableOpen, OpenTmp
    <3>3. \/ tmp' = tmp
          \/ /\ tmp' = [tmp EXCEPT ![obj[p]][p] = "partial"]
             /\ pc'[p] = "write" /\ obj'[p] = obj[p]
      BY <1>t, <2>6 DEF PortableOpen, OpenTmp, Goto
    <3>4. CASE tmp' = tmp
      BY <2>6, <3>2, <3>4
    <3>5. CASE tmp' = [tmp EXCEPT ![obj[p]][p] = "partial"] /\ pc'[p] = "write" /\ obj'[p] = obj[p]
      <4>1. o = obj[p]
        BY <1>t, <2>6, <3>1, <3>2, <3>5
      <4> QED BY <2>6, <3>5, <4>1
    <3> QED BY <3>3, <3>4, <3>5
  <2>7. CASE q = p /\ (WriteTmp(p) \/ SyncTmp(p) \/ RenameTmp(p))
    <3>1. obj[p] \in Oid /\ pc[p] \in {"write", "fsync", "rename"}
      BY <2>3, <2>7 DEF WriteTmp, SyncTmp, RenameTmp
    <3>2. o = obj[p]
      <4>1. CASE <<o, p>> # <<obj[p], p>>
        <5>1. tmp'[o][p] = tmp[o][p]
          BY <1>3, <4>1, OwnTmp
        <5> QED BY <2>2, <2>7, <5>1
      <4> QED BY <4>1
    <3>3. \/ pc'[p] \in {"fsync", "rename"} /\ obj'[p] = obj[p]
          \/ tmp' = [tmp EXCEPT ![obj[p]][p] = "absent"]
      BY <1>t, <2>7 DEF WriteTmp, SyncTmp, RenameTmp, Goto
    <3>4. tmp' # [tmp EXCEPT ![obj[p]][p] = "absent"]
      BY <1>t, <2>7, <3>1, <3>2
    <3> QED BY <2>7, <3>2, <3>3, <3>4
  <2> QED BY <1>3, <2>1, <2>3, <2>4, <2>5, <2>6, <2>7
          DEF Call, WriteStep, WriteCacheHit, WriteCall, Read, Delete, Reopen, StatHit, StatMiss,
              UringOpen, OpenTmp, UringComplete, UringFallback, DirSync
<1> QED BY <1>1, <1>2, <1>3 DEF Next

-----------------------------------------------------------------------------
(* The theorems *)

\* The inductive invariant holds in every reachable state of the store.
THEOREM Invariance == Spec => []IInv
<1>1. IInv /\ [Next]_vars => IInv'
  BY TypeStep, ControlStep, TmpStep, SynchronisedStep, RenamedStep, DirThereStep,
     DirKeptStep, AckedStep, CacheStep, StoresStep, NoTmpStep DEF IInv
<1> QED BY InitIInv, <1>1, PTL DEF Spec

\* The files, the caches and the writers keep their types, and odb_write returns no errno.
THEOREM TypeCorrect == Spec => []TypeOK
<1>1. IInv => TypeOK
  BY DEF IInv
<1> QED BY Invariance, <1>1, PTL

\* No loose object file is ever cut short unless an fsync or a ring write failed unseen, in
\* either build and whatever crashes.
THEOREM VisibleCorrect == Spec => []VisibleWhole
<1>1. IInv => VisibleWhole
  BY DEF IInv, Synchronised, VisibleWhole
<1> QED BY Invariance, <1>1, PTL

\* An object whose writer got through the directory fsync outlives every crash, but for a power
\* loss that takes a fan-out directory which was not on the medium at that time.
THEOREM AckedCorrect == Spec => []AckedSurvives
<1>1. IInv => AckedSurvives
  BY DEF IInv
<1> QED BY Invariance, <1>1, PTL

\* A successful odb_write left its object in the store, or met a deletion or its own stale
\* temporary file.
THEOREM StoresCorrect == Spec => []WriteStores
<1>1. IInv => WriteStores
  BY DEF IInv
<1> QED BY Invariance, <1>1, PTL

\* Every object in a cache is in the store, or was deleted.
THEOREM CacheCorrect == Spec => []CacheBacked
<1>1. IInv => CacheBacked
  BY DEF IInv
<1> QED BY Invariance, <1>1, PTL

\* Without crashes and without io_uring no temporary file outlives its write.
THEOREM NoTmpCorrect == Spec => []NoTmpLeft
<1>1. IInv => NoTmpLeft
  BY DEF IInv
<1> QED BY Invariance, <1>1, PTL
=============================================================================
