-------------------------------- MODULE Odb --------------------------------
(***************************************************************************)
(* The loose object store of src/odb/odb.c as several processes and the    *)
(* file system see it.  Each process keeps a private object cache, from    *)
(* which nothing is ever removed, and stores an object in several          *)
(* system calls: stat, open <object>.tmp.<pid> with O_EXCL, write,         *)
(* fsync, rename, fsync of the directory.  Between any two of them another *)
(* process may run, the process may be killed, and the machine may lose    *)
(* power.                                                                  *)
(*                                                                         *)
(* The fan-out directory objects/ab is made by the first write that needs  *)
(* it.  A write syncs objects/ab and never objects/, so the entry of a     *)
(* directory somebody made is only on the medium once the file system has  *)
(* put it there on its own: a power loss either finds it there or takes    *)
(* the directory and everything in it.                                     *)
(*                                                                         *)
(* What a file holds is one of four things: nothing ("absent"), a prefix   *)
(* of the object ("partial", the empty file included), all of it but only  *)
(* in the page cache ("cached"), or all of it on the medium ("whole").     *)
(***************************************************************************)
EXTENDS Integers, FiniteSets

CONSTANTS
    Oid,          \* the objects
    Dir,          \* the fan-out directories
    DirOf,        \* DirOf[o]: the directory of o, named by the first byte of its id
    Proc,         \* the processes, named by their pid: a pid that comes back after
                  \* its process was killed is the same name
    Builds,       \* the builds considered: TRUE has FASTGIT_HAVE_IO_URING
    Faults,       \* the system calls that may fail
    NoOid,        \* no object
    MaxCrashes    \* bound: kills and power losses in a behaviour

ASSUME OdbAssumption ==
    /\ DirOf \in [Oid -> Dir]
    /\ Builds \subseteq BOOLEAN
    /\ NoOid \notin Oid
    /\ Faults \subseteq {"mkdir", "open", "write", "fsync", "rename", "uring"}
    /\ MaxCrashes \in Nat

VARIABLES
    uring,        \* which build this is
    fan,          \* fan[d]: whether directory d exists, and is on the medium
    loose,        \* loose[o]: what objects/ab/cdef... holds
    durable,      \* durable[o]: what it holds if power is lost now and nothing more gets out
    tmp,          \* tmp[o][p]: what <object>.tmp.<p> holds
    cache,        \* cache[p]: the object cache of process p
    pc,           \* pc[p]: the next system call of p's odb_write, or "idle"
    obj,          \* obj[p]: the object p writes, NoOid when idle
    ret,          \* ret[p]: the object and the result of p's last odb_write, while it lasts
    crashes,      \* kills and power losses so far
    deleted,      \* history: the objects fastgit_odb_delete removed
    acked,        \* history: the objects whose own writer got through the directory fsync,
                  \* each with what fan said of its directory then
    lost,         \* history: the directories a power loss took
    unseen        \* history: an fsync or a write through the ring failed and nobody looked

vars == <<uring, fan, loose, durable, tmp, cache, pc, obj, ret, crashes, deleted, acked,
          lost, unseen>>

DirStates == {"absent", "made", "durable"}
Contents == {"absent", "partial", "cached", "whole"}
Steps == {"idle", "stat", "uropen", "uring", "open", "write", "fsync", "rename", "dirsync"}
Acks == [oid : Oid, dir : {"made", "durable"}]
None == [oid |-> NoOid, code |-> "none"]
Results == {None} \cup [oid : Oid, code : {"OK", "EIO"}]

(***************************************************************************)
(* The object cache: 16384 entries, never emptied; a lookup tries 8 of     *)
(* them and stops at the first unoccupied one, an insertion takes the      *)
(* first unoccupied of the same 8.  What was inserted is therefore found,  *)
(* and an insertion is dropped when all 8 are taken: a set to which an     *)
(* insertion may or may not add.                                           *)
(***************************************************************************)
InCache(c, o) == o \in c

Fill(c, o) == {c, c \cup {o}}

EmptyCache == {}

(***************************************************************************)
(* Steps of fastgit_odb_write.                                             *)
(***************************************************************************)
MayFail(call) == call \in Faults

\* The process returns from fastgit_odb_write.
Return(p, code) ==
    /\ pc' = [pc EXCEPT ![p] = "idle"]
    /\ obj' = [obj EXCEPT ![p] = NoOid]
    /\ ret' = [ret EXCEPT ![p] = [oid |-> obj[p], code |-> code]]

Goto(p, step) ==
    /\ pc' = [pc EXCEPT ![p] = step]
    /\ UNCHANGED <<obj, ret>>

Cached(p, o) == \E c \in Fill(cache[p], o) : cache' = [cache EXCEPT ![p] = c]

\* The object is in the cache: nothing is written, nothing on disk is looked at.
WriteCacheHit(p, o) ==
    /\ pc[p] = "idle"
    /\ InCache(cache[p], o)
    /\ ret' = [ret EXCEPT ![p] = [oid |-> o, code |-> "OK"]]
    /\ UNCHANGED <<uring, fan, loose, durable, tmp, cache, pc, obj, crashes,
                   deleted, acked, lost, unseen>>

\* mkdir of directory d; EEXIST counts as success.
MakeDir(d) == fan' = [fan EXCEPT ![d] = IF @ = "absent" THEN "made" ELSE @]

\* Mutant: the object is cached before it is stored.
WriteCallCaches(p, o) ==
    /\ pc[p] = "idle"
    /\ ~InCache(cache[p], o)
    /\ obj' = [obj EXCEPT ![p] = o]
    /\ pc' = [pc EXCEPT ![p] = "stat"]
    /\ ret' = [ret EXCEPT ![p] = None]
    /\ Cached(p, o)
    /\ MakeDir(DirOf[o])
    /\ UNCHANGED <<uring, loose, durable, tmp, crashes, deleted, acked, lost, unseen>>

\* odb_ensure_dir makes the fan-out directory, and syncs neither it nor objects/.
WriteCall(p, o) ==
    /\ pc[p] = "idle"
    /\ ~InCache(cache[p], o)
    /\ \/ /\ MakeDir(DirOf[o])
          /\ pc' = [pc EXCEPT ![p] = "stat"]
          /\ obj' = [obj EXCEPT ![p] = o]
          /\ ret' = [ret EXCEPT ![p] = None]
       \/ /\ MayFail("mkdir")
          /\ ret' = [ret EXCEPT ![p] = [oid |-> o, code |-> "EIO"]]
          /\ UNCHANGED <<fan, pc, obj>>
    /\ UNCHANGED <<uring, loose, durable, tmp, cache, crashes, deleted, acked, lost, unseen>>

\* The dedup test: a loose file of that name means the object is stored.
StatHit(p) ==
    /\ pc[p] = "stat"
    /\ loose[obj[p]] # "absent"
    /\ Cached(p, obj[p])
    /\ Return(p, "OK")
    /\ UNCHANGED <<uring, fan, loose, durable, tmp, crashes, deleted, acked, lost, unseen>>

StatMiss(p) ==
    /\ pc[p] = "stat"
    /\ loose[obj[p]] = "absent"
    /\ Goto(p, IF uring THEN "uropen" ELSE "open")
    /\ UNCHANGED <<uring, fan, loose, durable, tmp, cache, crashes,
                   deleted, acked, lost, unseen>>

\* Mutant: errno is passed on as the result.
OpenErrorRaw(errno) == errno

\* Mutant: every failed open counts as somebody else's write.
OpenErrorIsOK(errno) == "OK"

\* What a failed open of the temporary file returns: an existing one counts as somebody
\* else writing the same object.
OpenError(errno) == IF errno = "EEXIST" THEN "OK" ELSE "EIO"

\* open(tmp_path, O_WRONLY | O_CREAT | O_EXCL); then the step `next`.
OpenTmp(p, step, next) ==
    /\ pc[p] = step
    /\ \/ /\ tmp[obj[p]][p] = "absent"
          /\ tmp' = [tmp EXCEPT ![obj[p]][p] = "partial"]
          /\ Goto(p, next)
       \/ /\ tmp[obj[p]][p] # "absent"
          /\ Return(p, OpenError("EEXIST"))
          /\ UNCHANGED tmp
       \/ /\ MayFail("open")
          /\ Return(p, OpenError("EACCES"))
          /\ UNCHANGED tmp
    /\ UNCHANGED <<uring, fan, loose, durable, cache, crashes, deleted, acked, lost, unseen>>

UringOpen(p) == OpenTmp(p, "uropen", "uring")
PortableOpen(p) == OpenTmp(p, "open", "write")

\* Both completions arrived: the linked write and fsync were done, or the write failed or
\* was short and the fsync cancelled.  fastgit_io_uring_wait counts completions and does
\* not look at their results.
UringComplete(p) ==
    /\ pc[p] = "uring"
    /\ \/ /\ tmp' = [tmp EXCEPT ![obj[p]][p] = "whole"]
          /\ UNCHANGED unseen
       \/ /\ MayFail("write")
          /\ unseen' = TRUE
          /\ UNCHANGED tmp
    /\ Goto(p, "rename")
    /\ UNCHANGED <<uring, fan, loose, durable, cache, crashes, deleted, acked, lost>>

\* The ring cannot be set up, or the wait is interrupted: the file is unlinked and opened
\* again with O_EXCL; the descriptor of that open is overwritten by the next one's.
UringFallback(p) ==
    /\ pc[p] = "uring"
    /\ MayFail("uring")
    /\ \/ tmp' = [tmp EXCEPT ![obj[p]][p] = "partial"]
       \/ /\ MayFail("open")
          /\ tmp' = [tmp EXCEPT ![obj[p]][p] = "absent"]
    /\ Goto(p, "open")
    /\ UNCHANGED <<uring, fan, loose, durable, cache, crashes, deleted, acked, lost, unseen>>

\* write(2); a short write removes the file.
WriteTmp(p) ==
    /\ pc[p] = "write"
    /\ \/ /\ tmp' = [tmp EXCEPT ![obj[p]][p] = "cached"]
          /\ Goto(p, "fsync")
       \/ /\ MayFail("write")
          /\ tmp' = [tmp EXCEPT ![obj[p]][p] = "absent"]
          /\ Return(p, "EIO")
    /\ UNCHANGED <<uring, fan, loose, durable, cache, crashes, deleted, acked, lost, unseen>>

\* Mutant: no fsync before the rename.
NotSynced(content) == content

\* What a file holds after a successful fsync.
Synced(content) == IF content = "cached" THEN "whole" ELSE content

\* fsync(fd), whose result is not looked at.
SyncTmp(p) ==
    /\ pc[p] = "fsync"
    /\ \/ /\ tmp' = [tmp EXCEPT ![obj[p]][p] = Synced(@)]
          /\ UNCHANGED unseen
       \/ /\ MayFail("fsync")
          /\ unseen' = TRUE
          /\ UNCHANGED tmp
    /\ Goto(p, "rename")
    /\ UNCHANGED <<uring, fan, loose, durable, cache, crashes, deleted, acked, lost>>

\* Mutant: the temporary file of a failed rename stays.
RenameTmpLeaks(p) ==
    /\ pc[p] = "rename"
    /\ \/ /\ tmp' = [tmp EXCEPT ![obj[p]][p] = "absent"]
          /\ loose' = [loose EXCEPT ![obj[p]] = tmp[obj[p]][p]]
          /\ Goto(p, "dirsync")
       \/ /\ MayFail("rename")
          /\ UNCHANGED <<loose, tmp>>
          /\ Return(p, "EIO")
    /\ UNCHANGED <<uring, fan, durable, cache, crashes, deleted, acked, lost, unseen>>

\* rename(tmp_path, path); when it fails the temporary file is removed.
RenameTmp(p) ==
    /\ pc[p] = "rename"
    /\ tmp' = [tmp EXCEPT ![obj[p]][p] = "absent"]
    /\ \/ /\ loose' = [loose EXCEPT ![obj[p]] = tmp[obj[p]][p]]
          /\ Goto(p, "dirsync")
       \/ /\ MayFail("rename")
          /\ UNCHANGED loose
          /\ Return(p, "EIO")
    /\ UNCHANGED <<uring, fan, durable, cache, crashes, deleted, acked, lost, unseen>>

\* Mutant: the directory is not fsynced.
DirNotSynced(o) == durable' = durable

\* The directory fsync puts the entry of o on the medium.
DirSynced(o) == durable' = [durable EXCEPT ![o] = loose[o]]

\* The directory fsync (its result ignored too), the cache, and the return.
DirSync(p) ==
    /\ pc[p] = "dirsync"
    /\ \/ /\ DirSynced(obj[p])
          /\ acked' = acked \cup {[oid |-> obj[p], dir |-> fan[DirOf[obj[p]]]]}
          /\ UNCHANGED unseen
       \/ /\ MayFail("fsync")
          /\ unseen' = TRUE
          /\ UNCHANGED <<durable, acked>>
    /\ Cached(p, obj[p])
    /\ Return(p, "OK")
    /\ UNCHANGED <<uring, fan, loose, tmp, crashes, deleted, lost>>

(***************************************************************************)
(* The other calls that change something, each one look at the disk.      *)
(***************************************************************************)
\* A read that succeeds from the loose file caches the object; one that the cache or a pack
\* answers, or that fails on a missing or a cut file, changes nothing.
Read(p, o) ==
    /\ pc[p] = "idle"
    /\ ~InCache(cache[p], o)
    /\ loose[o] \in {"cached", "whole"}
    /\ Cached(p, o)
    /\ UNCHANGED <<uring, fan, loose, durable, tmp, pc, obj, ret, crashes,
                   deleted, acked, lost, unseen>>

\* unlink of the loose file, EIO if there is none; the cache keeps the object.
Delete(p, o) ==
    /\ pc[p] = "idle"
    /\ loose[o] # "absent"
    /\ loose' = [loose EXCEPT ![o] = "absent"]
    /\ deleted' = deleted \cup {o}
    /\ UNCHANGED <<uring, fan, durable, tmp, cache, pc, obj, ret, crashes, acked, lost, unseen>>

\* fastgit_odb_free and a later fastgit_odb_new, in this process or the next of its pid.
Reopen(p) ==
    /\ pc[p] = "idle"
    /\ cache' = [cache EXCEPT ![p] = EmptyCache]
    /\ ret' = [ret EXCEPT ![p] = None]
    /\ UNCHANGED <<uring, fan, loose, durable, tmp, pc, obj, crashes,
                   deleted, acked, lost, unseen>>

(***************************************************************************)
(* Failures.                                                               *)
(***************************************************************************)
\* p is killed in the middle of a write.
Kill(p) ==
    /\ crashes < MaxCrashes
    /\ pc[p] # "idle"
    /\ crashes' = crashes + 1
    /\ pc' = [pc EXCEPT ![p] = "idle"]
    /\ obj' = [obj EXCEPT ![p] = NoOid]
    /\ ret' = [ret EXCEPT ![p] = None]
    /\ cache' = [cache EXCEPT ![p] = EmptyCache]
    /\ UNCHANGED <<uring, fan, loose, durable, tmp, deleted, acked, lost, unseen>>

\* What a file holds after the power loss: data that was only in the page cache is on the
\* medium after all, or cut short.
Survives(content, out) ==
    IF content # "cached" THEN content ELSE IF out THEN "whole" ELSE "partial"

\* Power is lost: the directories in `away`, never synced into objects/, are gone with all they
\* held; the entries in `old` are the ones on the medium, not the latest; the temporary files in
\* `gone` have no entry; unsynced data went out or not; no process is left.
PowerLoss ==
    /\ crashes < MaxCrashes
    /\ crashes' = crashes + 1
    /\ \E away \in SUBSET {d \in Dir : fan[d] = "made"}, out \in BOOLEAN,
          old \in SUBSET Oid, gone \in SUBSET (Oid \X Proc) :
          /\ fan' = [d \in Dir |-> IF d \in away THEN "absent"
                                   ELSE IF fan[d] = "made" THEN "durable" ELSE fan[d]]
          /\ lost' = lost \cup away
          /\ loose' = [o \in Oid |->
                          IF DirOf[o] \in away THEN "absent"
                          ELSE Survives(IF o \in old THEN durable[o] ELSE loose[o], out)]
          /\ tmp' = [o \in Oid |-> [p \in Proc |->
                        IF DirOf[o] \in away \/ <<o, p>> \in gone THEN "absent"
                        ELSE Survives(tmp[o][p], out)]]
    /\ durable' = loose'
    /\ pc' = [p \in Proc |-> "idle"]
    /\ obj' = [p \in Proc |-> NoOid]
    /\ ret' = [p \in Proc |-> None]
    /\ cache' = [p \in Proc |-> EmptyCache]
    /\ UNCHANGED <<uring, deleted, acked, unseen>>

-----------------------------------------------------------------------------
Init ==
    /\ uring \in Builds
    /\ fan \in [Dir -> DirStates]
    /\ loose = [o \in Oid |-> "absent"]
    /\ durable = loose
    /\ tmp = [o \in Oid |-> [p \in Proc |-> "absent"]]
    /\ cache = [p \in Proc |-> EmptyCache]
    /\ pc = [p \in Proc |-> "idle"]
    /\ obj = [p \in Proc |-> NoOid]
    /\ ret = [p \in Proc |-> None]
    /\ crashes = 0
    /\ deleted = {}
    /\ acked = {}
    /\ lost = {}
    /\ unseen = FALSE

Call(p) ==
    \E o \in Oid :
        \/ WriteCacheHit(p, o)
        \/ WriteCall(p, o)
        \/ Read(p, o)
        \/ Delete(p, o)

WriteStep(p) ==
    \/ StatHit(p)
    \/ StatMiss(p)
    \/ UringOpen(p)
    \/ PortableOpen(p)
    \/ UringComplete(p)
    \/ UringFallback(p)
    \/ WriteTmp(p)
    \/ SyncTmp(p)
    \/ RenameTmp(p)
    \/ DirSync(p)

Next ==
    \/ \E p \in Proc : Call(p) \/ WriteStep(p) \/ Reopen(p) \/ Kill(p)
    \/ PowerLoss

Spec == Init /\ [][Next]_vars

(***************************************************************************)
(* Properties.                                                             *)
(***************************************************************************)
\* Every variable has its type; a call returns the codes its function can return, so no errno
\* leaks out of odb_write.
TypeOK ==
    /\ uring \in BOOLEAN
    /\ fan \in [Dir -> DirStates]
    /\ loose \in [Oid -> Contents]
    /\ durable \in [Oid -> Contents]
    /\ tmp \in [Oid -> [Proc -> Contents]]
    /\ cache \in [Proc -> SUBSET Oid]
    /\ pc \in [Proc -> Steps]
    /\ obj \in [Proc -> Oid \cup {NoOid}]
    /\ ret \in [Proc -> Results]
    /\ crashes \in 0 .. MaxCrashes
    /\ deleted \subseteq Oid
    /\ acked \subseteq Acks
    /\ lost \subseteq Dir
    /\ unseen \in BOOLEAN

\* A loose object file is never cut short, whoever writes, whoever is killed and whenever power
\* is lost: the data is synced under the temporary name before the rename shows it.  Out of
\* this are the failures whose result the code does not look at: fsync's, and in the io_uring
\* build the write's.
VisibleWhole == ~unseen => \A o \in Oid : loose[o] # "partial"

\* An object whose own writer came back from the directory fsync outlives every later kill and
\* power loss, and every racing writer of the same object, unless it is deleted; for good when
\* its directory was on the medium at that time.  Otherwise a power loss may take the directory
\* with the object, though odb_write returned OK: nothing syncs objects/ after the mkdir.
\* (README.md:31 of the program calls the store crash-safe without this exception.)
AckedSurvives ==
    \A a \in acked :
        \/ loose[a.oid] # "absent" /\ durable[a.oid] # "absent"
        \/ a.oid \in deleted
        \/ a.dir = "made" /\ DirOf[a.oid] \in lost

\* A write that returned OK left its object in the store, unless the object was deleted
\* (fastgit_odb_delete leaves the caches alone) or a temporary file of the same pid was in the
\* way (then odb_write takes the object for stored).
WriteStores ==
    \A p \in Proc :
        ret[p].code = "OK"
            => \/ loose[ret[p].oid] # "absent"
               \/ ret[p].oid \in deleted
               \/ tmp[ret[p].oid][p] # "absent"

\* A process never caches an object that is not in the store, so its cache answers for the
\* disk as long as nothing is deleted.
CacheBacked ==
    \A p \in Proc, o \in Oid \ deleted : InCache(cache[p], o) => loose[o] # "absent"

\* Every way out of odb_write takes the temporary file away: as long as nothing crashed, one
\* exists only while its process is between open and rename.  (The io_uring build's fallback
\* leaves one.)
NoTmpLeft ==
    (crashes = 0 /\ ~uring) =>
        \A o \in Oid, p \in Proc :
            tmp[o][p] # "absent" => obj[p] = o /\ pc[p] \in {"write", "fsync", "rename"}

\* What the callers take odb_write's FASTGIT_OK for: when it returns, nobody else being at work,
\* the object's file exists.
WriteReturnsStored ==
    [][\A p \in Proc :
         (/\ ret'[p] # ret[p]
          /\ ret'[p].code = "OK"
          /\ ret'[p].oid \notin deleted)
             => loose'[ret'[p].oid] # "absent"]_vars
=============================================================================
