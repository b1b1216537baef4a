--------------------------------- MODULE IndexMap ---------------------------------
(***************************************************************************)
(* What the staging area promises: a map from (path, stage) to an object   *)
(* id, kept in memory and saved to a file as a whole.                      *)
(***************************************************************************)
EXTENDS Integers

CONSTANTS Path, Stage, Oid, NoOid, Trees, Sides

VARIABLES
    staged,         \* the map in memory; NoOid where there is no entry
    saved,          \* the map in the index file
    ret             \* what the last call returned

mapVars == <<staged, saved, ret>>

MapKey == Path \X Stage
Nothing == [k \in MapKey |-> NoOid]

MapAdd(p, o) ==
    /\ staged' = [staged EXCEPT ![<<p, 0>>] = o]
    /\ ret' = "OK"
    /\ UNCHANGED saved

MapAddMany(p, o, q, r) ==
    /\ staged' = [staged EXCEPT ![<<p, 0>>] = o, ![<<q, 0>>] = r]
    /\ ret' = "OK"
    /\ UNCHANGED saved

MapRemove(k) ==
    /\ staged' = [staged EXCEPT ![k] = NoOid]
    /\ ret' = IF staged[k] = NoOid THEN "ENOENT" ELSE "OK"
    /\ UNCHANGED saved

MapFind(k) ==
    /\ ret' = IF staged[k] = NoOid THEN "ENOENT" ELSE staged[k]
    /\ UNCHANGED <<staged, saved>>

MapClear ==
    /\ staged' = Nothing
    /\ ret' = "OK"
    /\ UNCHANGED saved

MapSave ==
    \/ saved' = staged /\ ret' = "OK" /\ UNCHANGED staged
    \/ ret' = "EIO" /\ UNCHANGED <<staged, saved>>

MapLoad == staged' = saved /\ ret' = "OK" /\ UNCHANGED saved

\* A path in conflict has entries for the sides that exist and no other.
MapConflict(p, sides, o) ==
    /\ staged' = [k \in MapKey |-> IF k[1] # p THEN staged[k]
                                   ELSE IF k[2] \in sides THEN o ELSE NoOid]
    /\ ret' = "OK"
    /\ UNCHANGED saved

MapResolve(p) ==
    /\ staged' = [k \in MapKey |-> IF k[1] = p THEN NoOid ELSE staged[k]]
    /\ ret' = IF staged' = staged THEN "ENOENT" ELSE "OK"
    /\ UNCHANGED saved

\* The files of a tree replace everything; a tree that cannot be read
\* completely leaves the part that was.
MapReadTree(files, o) ==
    /\ staged' = [k \in MapKey |->
          IF k[2] = 0 /\ \E i \in DOMAIN files : files[i] = k[1] THEN o ELSE NoOid]
    /\ ret' \in {"OK", "ERROR"}
    /\ UNCHANGED saved

MapWriteTree ==
    /\ ret' = IF \E k \in MapKey : k[2] # 0 /\ staged[k] # NoOid THEN "EINVAL" ELSE "OK"
    /\ UNCHANGED <<staged, saved>>

MapNext ==
    \/ \E p \in Path, o \in Oid : MapAdd(p, o)
    \/ \E p, q \in Path, o, r \in Oid : p # q /\ MapAddMany(p, o, q, r)
    \/ \E k \in MapKey : MapRemove(k) \/ MapFind(k)
    \/ MapClear \/ MapSave \/ MapLoad \/ MapWriteTree
    \/ \E p \in Path : MapResolve(p)
    \/ \E p \in Path, s \in Sides, o \in Oid : MapConflict(p, s, o)
    \/ \E files \in Trees, o \in Oid : MapReadTree(files, o)
================================================================================
