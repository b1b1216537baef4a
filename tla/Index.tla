---------------------------------- MODULE Index ----------------------------------
(***************************************************************************)
(* The staging area of src/index/index.c: an array of entries, of which    *)
(* the first count are live, and an open-address hash table from the key   *)
(* (path, stage) of an entry to its position in the array.                 *)
(*                                                                         *)
(* A cell at or beyond count is dead: the path it points to may have been  *)
(* freed.  The table may still hold the position of a dead cell; a probe   *)
(* that compares its path then reads freed memory, and finds either what   *)
(* was there (intact = TRUE) or something else (intact = FALSE).           *)
(*                                                                         *)
(* Paths are numbers, ordered as strcmp orders the strings.  Of an entry   *)
(* only the key and the object id are kept; the stat fields, the mode and  *)
(* the flags follow them.  Allocation failure is not modelled.             *)
(***************************************************************************)
EXTENDS Integers, FiniteSets

CONSTANTS
    Path,           \* the paths, a set of numbers
    Stage,          \* 0 to 3: FASTGIT_INDEX_STAGE_NORMAL, _BASE, _OURS, _THEIRS
    Oid,            \* object ids
    NoKey, NoOid,   \* the contents of a cell nothing points to
    Trees,          \* trees to read: sequences of paths, in the walk's order
    Sides,          \* the sets of sides (stages 1, 2, 3) of a conflict
    Hashes,         \* the hash functions to consider, from Key to Nat
    MinCap,         \* the smallest table, 1024 in the code
    Slack,          \* the 64 of "count*2+64"
    MaxEntries      \* bound: the number of cells

Key == Path \X Stage

ASSUME PathAssumption   == Path \subseteq Nat /\ IsFiniteSet(Path)
ASSUME StageAssumption  == Stage \subseteq 0 .. 3 /\ 0 \in Stage
ASSUME SidesAssumption  == Sides \subseteq SUBSET (Stage \ {0}) /\ {} \notin Sides
ASSUME TreesAssumption  ==
    \A files \in Trees : /\ IsFiniteSet(DOMAIN files)
                         /\ files \in [1 .. Cardinality(DOMAIN files) -> Path]
ASSUME HashAssumption   == Hashes \subseteq [Key -> Nat] /\ Hashes # {}
ASSUME CapAssumption    == MinCap \in Nat \ {0} /\ Slack \in Nat
ASSUME BoundAssumption  == MaxEntries \in Nat
ASSUME NoKeyAssumption  == NoKey \notin Key
ASSUME NoOidAssumption  == NoOid \notin Oid

VARIABLES
    hash,           \* fg_hash_path_stage, fixed at the start
    ix,             \* struct fastgit_index: cells, count, ht, cap, sorted, dirty
    disk,           \* the entries in the index file
    ret,            \* what the last call returned
    stale           \* history: calls since the table was last in step with the
                    \* array, 0 while it is: the last rebuild saw no duplicate
                    \* key and every change of the array since changed it too

vars == <<hash, ix, disk, ret, stale>>

Empty == -1         \* FG_HT_EMPTY
Tomb  == -2         \* FG_HT_TOMB

NoEntry == [key |-> NoKey, oid |-> NoOid]
Cells   == 0 .. MaxEntries - 1

-----------------------------------------------------------------------------
(* The hash table *)

\* fg_ht_init: the smallest table (1024 in the code) is doubled until it is
\* large enough, which it is after n rounds.
CapFor(n) ==
    LET doubled[i \in 0 .. n] ==
            IF i = 0 THEN MinCap
            ELSE LET p2 == doubled[i - 1] IN IF p2 < n THEN 2 * p2 ELSE p2
    IN  doubled[n]

EmptyTable(n) == [i \in 0 .. CapFor(n) - 1 |-> Empty]

\* The i-th slot a probe for k looks at, in a table of cap slots.
Probe(k, i, cap) == (hash[k] + i) % cap

First(S) == CHOOSE i \in S : \A j \in S : i <= j

\* Put v into the first slot on k's probe sequence whose content is in free;
\* with none the table is left alone (FASTGIT_ENOMEM, which no caller reads).
PutSlot(ht, cap, k, v, free) ==
    LET open == {i \in 0 .. cap - 1 : ht[Probe(k, i, cap)] \in free} IN
    IF open = {} THEN ht
    ELSE [ht EXCEPT ![Probe(k, First(open), cap)] = v]

\* fg_ht_rebuild: a fresh table with the first n cells, in order.
Rebuild(cells, n) ==
    LET cap == CapFor(n * 2 + Slack)
        fill[i \in 0 .. n] ==
            IF i = 0 THEN EmptyTable(n * 2 + Slack)
            ELSE PutSlot(fill[i - 1], cap, cells[i - 1].key, i - 1, {Empty})
    IN  IF n = 0 THEN EmptyTable(MinCap) ELSE fill[n]

Cap(x) == Cardinality(DOMAIN x.ht)

\* The comparison a probe makes with the entry a slot points to.
Matches(x, v, k, intact) ==
    /\ v \notin {Empty, Tomb}
    /\ x.cells[v].key = k
    /\ v < x.count \/ intact

\* Mutant: the probe stops at a tombstone as it does at an empty slot.
StopsAtTomb(x, k, intact) ==
    {i \in 0 .. Cap(x) - 1 :
        LET v == x.ht[Probe(k, i, Cap(x))]
        IN  v \in {Empty, Tomb} \/ Matches(x, v, k, intact)}

\* The probes at which the loops of fg_ht_find and fg_ht_remove stop.
Stops(x, k, intact) ==
    {i \in 0 .. Cap(x) - 1 :
        LET v == x.ht[Probe(k, i, Cap(x))]
        IN  v = Empty \/ Matches(x, v, k, intact)}

\* The slot where a probe for k ends, or -1 after a full round.
EndSlot(x, k, intact) ==
    LET s == Stops(x, k, intact)
    IN  IF s = {} THEN -1 ELSE Probe(k, First(s), Cap(x))

\* fg_ht_find: the position of k's entry, or -1.
HtFind(x, k, intact) ==
    LET e == EndSlot(x, k, intact)
    IN  IF e = -1 \/ x.ht[e] = Empty THEN -1 ELSE x.ht[e]

\* Mutant: the slot is emptied instead of tombstoned.
HtRemoveEmpties(x, k, intact) ==
    LET e == EndSlot(x, k, intact)
    IN  IF e = -1 THEN x ELSE [x EXCEPT !.ht[e] = Empty]

\* fg_ht_remove
HtRemove(x, k, intact) ==
    LET e == EndSlot(x, k, intact)
    IN  IF e = -1 \/ x.ht[e] = Empty THEN x ELSE [x EXCEPT !.ht[e] = Tomb]

\* The test of fg_ht_insert, made before the new entry is counted.
MustGrow(x) == x.count * 2 + Slack > Cap(x)

\* Mutant: the caller counts the new entry before it inserts it.
HtInsertLate(x, k, i) ==
    LET h == IF MustGrow(x) THEN Rebuild(x.cells, x.count) ELSE x.ht
    IN  [x EXCEPT !.ht = PutSlot(h, Cardinality(DOMAIN h), k, i + 1, {Empty, Tomb})]

\* fg_ht_insert: rebuild a table that is too full, then point k's slot at i.
\* (The code's second, larger rebuild is unreachable: the first one has made
\* room for count*2+64.)
HtInsert(x, k, i) ==
    LET h == IF MustGrow(x) THEN Rebuild(x.cells, x.count) ELSE x.ht
    IN  [x EXCEPT !.ht = PutSlot(h, Cardinality(DOMAIN h), k, i, {Empty, Tomb})]

-----------------------------------------------------------------------------
(* The array *)

\* index_entry_cmp
Less(k, l) == k[1] < l[1] \/ (k[1] = l[1] /\ k[2] < l[2])

\* qsort of the first count cells.
Sort(x) ==
    LET N == 0 .. x.count - 1
        p == CHOOSE p \in [N -> N] :
                /\ \A i, j \in N : p[i] = p[j] => i = j
                /\ \A i, j \in N : i < j =>
                      ~Less(x.cells[p[j]].key, x.cells[p[i]].key)
    IN  [x EXCEPT !.cells = [i \in Cells |-> IF i \in N THEN x.cells[p[i]]
                                                       ELSE x.cells[i]]]

Rebuilt(x) == [x EXCEPT !.ht = Rebuild(x.cells, x.count)]

\* Append an entry to the array only, as conflict_add and read_tree do.
AppendCell(x, k, o) ==
    [x EXCEPT !.cells[x.count] = [key |-> k, oid |-> o], !.count = x.count + 1]

\* No two live entries have the same path and stage.
Unique(x) ==
    \A i, j \in 0 .. x.count - 1 : x.cells[i].key = x.cells[j].key => i = j

\* What the model forgets after a call: a dead cell no slot points to.
Forget(x) ==
    LET pointed == {x.ht[s] : s \in DOMAIN x.ht}
    IN  [x EXCEPT !.cells = [i \in Cells |->
            IF i < x.count \/ i \in pointed THEN x.cells[i] ELSE NoEntry]]

\* Replace k's entry in place or append a new one and index it.
Put(x, k, o, intact) ==
    LET f == HtFind(x, k, intact)
        y == [x EXCEPT !.cells[x.count] = [key |-> k, oid |-> o]]
    IN  IF f >= 0
        THEN [x EXCEPT !.cells[f].oid = o]
        ELSE [HtInsert(y, k, x.count) EXCEPT !.count = x.count + 1,
                                             !.sorted = FALSE]

NewIndex == [cells  |-> [i \in Cells |-> NoEntry], count |-> 0,
             ht     |-> EmptyTable(MinCap),
             sorted |-> TRUE, dirty |-> FALSE]

Init ==
    /\ hash \in Hashes
    /\ ix = NewIndex
    /\ disk = <<>>
    /\ ret = "OK"
    /\ stale = 0

-----------------------------------------------------------------------------
(* What a call does to the agreement of table and array *)

Restores == stale' = IF Unique(ix') THEN 0 ELSE stale + 1
Breaks   == stale' = stale + 1
Keeps(b) == stale' = IF b /\ stale = 0 THEN 0 ELSE stale + 1

-----------------------------------------------------------------------------
(* Calls that keep the table *)

\* fastgit_index_add and fastgit_index_add_from_buffer, once the file or the
\* buffer has been hashed to o.
Add(p, o, intact) ==
    /\ ix.count < MaxEntries
    /\ ix' = Forget([Put(ix, <<p, 0>>, o, intact) EXCEPT !.dirty = TRUE])
    /\ ret' = "OK"
    /\ Keeps(TRUE)
    /\ UNCHANGED <<hash, disk>>

\* fastgit_index_add_many: the same for two files that were hashed, in their
\* order, and sorted is cleared even when both were replaced.
AddMany(p, o, q, r, intact) ==
    /\ ix.count + 2 <= MaxEntries
    /\ LET one == Put(ix, <<p, 0>>, o, intact)
           two == Put(one, <<q, 0>>, r, intact)
       IN  ix' = Forget([two EXCEPT !.dirty = TRUE, !.sorted = FALSE])
    /\ ret' = "OK"
    /\ Keeps(TRUE)
    /\ UNCHANGED <<hash, disk>>

\* Mutant: the slot of the entry moved into the hole keeps its old position.
MovedStale(x, i, intact) ==
    [x EXCEPT !.cells[i] = x.cells[x.count - 1]]

\* The last entry moves into the hole at i and its slot is patched; count has
\* not been decremented yet.
Moved(x, i, intact) ==
    LET e == x.cells[x.count - 1]
        y == [x EXCEPT !.cells[i] = e]
    IN  HtInsert(HtRemove(y, e.key, intact), e.key, i)

Remove(p, s, intact) ==
    LET k == <<p, s>>
        f == HtFind(ix, k, intact)
        x == HtRemove(ix, k, intact)
        y == IF f # x.count - 1 THEN Moved(x, f, intact) ELSE x
    IN
    \/ /\ f < 0
       /\ ret' = "ENOENT"
       /\ Keeps(TRUE)
       /\ UNCHANGED <<hash, ix, disk>>
    \/ /\ f >= 0
       /\ ix.count > 0          \* entries[SIZE_MAX] otherwise: the program is lost
       /\ ix' = Forget([y EXCEPT !.count = ix.count - 1, !.dirty = TRUE,
                                 !.sorted = FALSE])
       /\ ret' = "OK"
       \* a rebuild in the middle of the move sees the last entry twice
       /\ Keeps(~(f # x.count - 1 /\ MustGrow(x)))
       /\ UNCHANGED <<hash, disk>>

Cleared(x) == Rebuilt([x EXCEPT !.count = 0, !.dirty = TRUE, !.sorted = TRUE])

Clear ==
    /\ ix' = Forget(Cleared(ix))
    /\ ret' = "OK"
    /\ Restores
    /\ UNCHANGED <<hash, disk>>

\* Find and the write functions sort only an array that is flagged unsorted.
MustSort(x) == ~x.sorted /\ x.count > 1

\* fastgit_index_find: on a miss an unsorted array is sorted, the table is
\* rebuilt, and the search repeated.
Find(p, s, intact) ==
    LET k == <<p, s>>
        f == HtFind(ix, k, intact)
        retry == f < 0 /\ MustSort(ix)
        x == IF retry THEN [Rebuilt(Sort(ix)) EXCEPT !.sorted = TRUE] ELSE ix
        g == HtFind(x, k, intact)
    IN
    /\ ix' = Forget(x)
    /\ ret' = IF g >= 0 THEN x.cells[g].oid ELSE "ENOENT"
    /\ IF retry THEN Restores ELSE Keeps(TRUE)
    /\ UNCHANGED <<hash, disk>>

ForWrite(x) ==
    [IF MustSort(x) THEN Rebuilt(Sort(x)) ELSE x EXCEPT !.sorted = TRUE]

\* fastgit_index_write_to: sort, serialise, replace the file.  A write that
\* fails (EIO) leaves the old file, and the array sorted.
WriteTo(ok) ==
    LET x == ForWrite(ix) IN
    /\ ix' = Forget([x EXCEPT !.dirty = IF ok THEN FALSE ELSE ix.dirty])
    /\ disk' = IF ok THEN [i \in 1 .. x.count |-> x.cells[i - 1]] ELSE disk
    /\ ret' = IF ok THEN "OK" ELSE "EIO"
    /\ IF MustSort(ix) THEN Restores ELSE Keeps(TRUE)
    /\ UNCHANGED hash

\* fastgit_index_open in a new process: unsaved changes are gone.
Open ==
    LET n == Cardinality(DOMAIN disk)
        c == [i \in Cells |-> IF i < n THEN disk[i + 1] ELSE NoEntry]
    IN
    /\ ix' = [cells |-> c, count |-> n, ht |-> Rebuild(c, n),
              sorted |-> TRUE, dirty |-> FALSE]
    /\ ret' = "OK"
    /\ Restores
    /\ UNCHANGED <<hash, disk>>

-----------------------------------------------------------------------------
(* Calls that change the array behind the table's back *)

\* The array without p's entries, in order; cells beyond the new count keep
\* what they held.
Without(x, p) ==
    LET keep == {i \in 0 .. x.count - 1 : x.cells[i].key[1] # p}
        at(i) == CHOOSE j \in keep : Cardinality({l \in keep : l < j}) = i
        n == Cardinality(keep)
    IN  [x EXCEPT !.cells = [i \in Cells |-> IF i < n THEN x.cells[at(i)]
                                                     ELSE x.cells[i]],
                  !.count = n]

ConflictRemove(p) ==
    LET x == Without(ix, p) IN
    \/ /\ x.count = ix.count
       /\ ret' = "ENOENT"
       /\ Keeps(TRUE)
       /\ UNCHANGED <<hash, ix, disk>>
    \/ /\ x.count # ix.count
       /\ ix' = Forget([x EXCEPT !.dirty = TRUE])
       /\ ret' = "OK"
       /\ Breaks
       /\ UNCHANGED <<hash, disk>>

\* The sides that exist (a non-empty set of stages) are appended in order.
ConflictAdd(p, sides, o) ==
    LET x0 == Without(ix, p)
        side[s \in 0 .. 3] ==
            LET x == IF s = 0 THEN x0 ELSE side[s - 1]
            IN  IF s \in sides THEN AppendCell(x, <<p, s>>, o) ELSE x
    IN
    /\ x0.count + Cardinality(sides) <= MaxEntries
    /\ ix' = Forget([side[3] EXCEPT !.dirty = TRUE, !.sorted = FALSE])
    /\ ret' = "OK"
    /\ Breaks
    /\ UNCHANGED <<hash, disk>>

\* fastgit_index_read_tree: the index is cleared, then the tree's files are
\* appended in the order the walk meets them.  An object that cannot be read
\* ends the walk early, with what has been appended and sorted still set.
ReadTree(files, o, ok) ==
    LET n == Cardinality(DOMAIN files)
        load[i \in 0 .. n] ==
            IF i = 0 THEN Cleared(ix)
            ELSE AppendCell(load[i - 1], <<files[i], 0>>, o)
    IN
    /\ n <= MaxEntries
    /\ ix' = Forget([load[n] EXCEPT !.sorted = ~ok])
    /\ ret' = IF ok THEN "OK" ELSE "ERROR"
    /\ IF n = 0 THEN Restores ELSE Breaks
    /\ UNCHANGED <<hash, disk>>

HasConflicts(x) == \E i \in 0 .. x.count - 1 : x.cells[i].key[2] # 0

\* fastgit_index_write_tree: the array is sorted for the tree, the table stays.
WriteTree ==
    \/ /\ HasConflicts(ix)
       /\ ret' = "EINVAL"
       /\ Keeps(TRUE)
       /\ UNCHANGED <<hash, ix, disk>>
    \/ /\ ~HasConflicts(ix)
       /\ ix' = IF MustSort(ix) THEN Forget([Sort(ix) EXCEPT !.sorted = TRUE]) ELSE ix
       /\ ret' = "OK"
       /\ Keeps(~MustSort(ix))
       /\ UNCHANGED <<hash, disk>>

-----------------------------------------------------------------------------
\* Whether freed paths are intact matters only when a slot points to a dead cell.
Intact ==
    IF \E s \in DOMAIN ix.ht : ix.ht[s] >= ix.count THEN BOOLEAN ELSE {TRUE}

\* The calls through which the code itself works on an index.
CoreNext ==
    \/ \E p \in Path, o \in Oid, b \in Intact : Add(p, o, b)
    \/ \E p, q \in Path, o, r \in Oid, b \in Intact :
          p # q /\ AddMany(p, o, q, r, b)
    \/ \E p \in Path, s \in Stage, b \in Intact : Remove(p, s, b) \/ Find(p, s, b)
    \/ Clear
    \/ \E ok \in BOOLEAN : WriteTo(ok)
    \/ Open

BypassNext ==
    \/ \E p \in Path : ConflictRemove(p)
    \/ \E p \in Path, sides \in Sides, o \in Oid : ConflictAdd(p, sides, o)
    \/ \E files \in Trees, o \in Oid, ok \in BOOLEAN : ReadTree(files, o, ok)
    \/ WriteTree

Next == CoreNext \/ BypassNext

CoreSpec == Init /\ [][CoreNext]_vars
Spec     == Init /\ [][Next]_vars

-----------------------------------------------------------------------------
(* Properties *)

Live(x) == 0 .. x.count - 1

Entry == [key : Key, oid : Oid]

\* Every field has its type; in particular a table slot is empty, a tombstone or the number
\* of a cell, never one past the array, through growth, rebuilds and moves.
TypeOK ==
    /\ hash \in Hashes
    /\ ix.cells \in [Cells -> Entry \cup {NoEntry}]
    /\ ix.count \in 0 .. MaxEntries
    /\ ix.ht \in [0 .. Cap(ix) - 1 -> {Empty, Tomb} \cup Cells]
    /\ ix.sorted \in BOOLEAN /\ ix.dirty \in BOOLEAN
    /\ \A i \in DOMAIN disk : disk[i] \in Entry
    /\ ret \in {"OK", "ENOENT", "EIO", "ERROR", "EINVAL"} \cup Oid
    /\ stale \in Nat

\* "Replace by (path, stage)": no two entries have the same path and stage.
NoDuplicateKeys == Unique(ix)

\* Through every growth, tombstone, move and rebuild, the table of an index in
\* step takes each live key to its one entry and every other key nowhere.
TableAgrees ==
    stale = 0 =>
        /\ Unique(ix)
        /\ \A k \in Key, intact \in BOOLEAN :
             LET f == HtFind(ix, k, intact)
             IN  IF \E i \in Live(ix) : ix.cells[i].key = k
                 THEN f \in Live(ix) /\ ix.cells[f].key = k
                 ELSE f = -1

\* While table and array are in step, a slot points to a live entry, and each live entry has
\* one slot: no probe reads a freed path and no slot goes stale unnoticed.
SlotsAreLive ==
    stale = 0 =>
        /\ \A s \in DOMAIN ix.ht : ix.ht[s] \in {Empty, Tomb} \cup Live(ix)
        /\ \A i \in Live(ix) : \E s \in DOMAIN ix.ht :
             ix.ht[s] = i /\ \A t \in DOMAIN ix.ht : ix.ht[t] = i => t = s

StagedMap(n, at(_)) ==
    [k \in Key |-> LET held == {i \in 0 .. n - 1 : at(i).key = k}
                   IN  IF held = {} THEN NoOid ELSE at(CHOOSE i \in held : TRUE).oid]

InMemory(i) == ix.cells[i]
InFile(i)   == disk[i + 1]

Staged == StagedMap(ix.count, InMemory)
OnFile == StagedMap(Cardinality(DOMAIN disk), InFile)

Map == INSTANCE IndexMap WITH staged <- Staged, saved <- OnFile

\* Every call on an index in step is the corresponding step of the map, return
\* value included; the file always holds the map that was saved last.
CallsAreMapSteps == [][stale = 0 => Map!MapNext \/ UNCHANGED Map!mapVars]_vars

\* A find never answers with a removed entry: what it returns is an object id
\* some live entry of that index has.
FindReturnsLive ==
    [][ret' \in Oid /\ UNCHANGED disk =>
         \E i \in Live(ix) : ix.cells[i].oid = ret']_vars
================================================================================
