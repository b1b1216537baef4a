----------------------------- MODULE PackIndex -----------------------------
(***************************************************************************)
(* The sorted tables of a pack index (pack/packfile.c) and of a multi-pack *)
(* index (pack/midx.c): how they are built, written, loaded and searched.  *)
(*                                                                         *)
(* An object id is a number; its first byte is oid \div Rest, and memcmp   *)
(* is the order of numbers.  A record of a pack is [oid, off].  A file is  *)
(*   fanout, table   the tables, an offset being the 32 bits of the file,  *)
(*   large           its table of 64-bit offsets,                          *)
(*   tail            the bytes of the hashes behind it,                    *)
(*   len, size       the length of its ids and its own size in bytes, from *)
(*                   which the loader guesses that length.                 *)
(***************************************************************************)
EXTENDS Integers, Sequences, FiniteSets, SequencesExt

CONSTANTS Fan,     \* values of a first byte (256)
          Rest,    \* ids with the same first byte
          Msb,     \* 2^31: offsets from here on have the top bit set
          IdLens   \* lengths of an id the loaders know, ascending (20, 32, 48, 64)

ASSUME PackIndexConstants == Fan \in Nat \ {0} /\ Rest \in Nat \ {0} /\ Msb \in Nat

Oids == 0..(Fan * Rest - 1)
First(o) == o \div Rest
Absent == -1
Garbage == -2      \* an offset read from the bytes of a checksum

-----------------------------------------------------------------------------
\* Insertion of a record in a sorted table, behind its equals.
Place(table, r) ==
    LET Upto(x) == x.oid <= r.oid
        Beyond(x) == x.oid > r.oid
    IN  SelectSeq(table, Upto) \o <<r>> \o SelectSeq(table, Beyond)
Sorted(recs) == FoldLeft(Place, <<>>, recs)

\* fanout[f] counts the ids whose first byte is at most f.
Fanout(table) ==
    [f \in 0..(Fan - 1) |-> Cardinality({i \in DOMAIN table : First(table[i].oid) <= f})]

HeadBytes == 8 + 1024
IndexFile(table, large, len, tail) ==
    [fanout |-> Fanout(table), table |-> table, large |-> large, len |-> len, tail |-> tail,
     size |-> HeadBytes + Len(table) * (len + 4 + 4) + 8 * Len(large) + tail]

\* fastgit_pack_index_create: head, fan-out, ids (SHA-256, so 32 bytes), checksums,
\* offsets cut to 32 bits, and two hashes of 32 bytes.  No table of 64-bit offsets is
\* ever written.
PackIndexCreate(recs) ==
    LET cut == [i \in DOMAIN recs |-> [recs[i] EXCEPT !.off = @ % (2 * Msb)]]
    IN  IndexFile(Sorted(cut), <<>>, 32, 64)

\* What git writes beside its packs: ids of 20 or of 32 bytes, two hashes as long, and
\* the offsets of 2^31 and more in the table of 64-bit ones, in the order of the ids.
GitIndex(recs, len) ==
    LET table == Sorted(recs)
        IsFar(r) == r.off >= Msb
        Nth(i) == Len(SelectSeq(SubSeq(table, 1, i), IsFar))
        far == SelectSeq(table, IsFar)
    IN  IndexFile([i \in DOMAIN table |-> IF IsFar(table[i])
                                         THEN [table[i] EXCEPT !.off = Msb + Nth(i) - 1] ELSE table[i]],
                  [k \in DOMAIN far |-> far[k].off], len, 2 * len)

\* fastgit_pack_index_load: the first length whose tables fill the file, with room
\* for at most one 64-bit offset per object; 32 if none does.
DetectIdLen(size, count) ==
    LET Base(l) == HeadBytes + count * (l + 8) + 2 * l
        Extra(l) == size - Base(l)
        Good(l) == \/ Extra(l) = 0
                   \/ Extra(l) > 0 /\ Extra(l) % 8 = 0 /\ Extra(l) <= count * 8
        good == SelectSeq(IdLens, Good)
    IN  IF good = <<>> THEN 32 ELSE Head(good)

\* The k-th offset with the top bit set is replaced by the k-th eight bytes that follow the
\* offsets, whatever they are: the bytes of the hashes if nobody wrote a table.  A file that
\* has not so many bytes left is refused.  Ids are misread if their length was misjudged.
PackIndexLoad(file) ==
    LET count == file.fanout[Fan - 1]
        len == DetectIdLen(file.size, count)
        IsFar(r) == r.off >= Msb
        Nth(i) == Len(SelectSeq(SubSeq(file.table, 1, i), IsFar))
        LoadedOffset(i) == CASE ~IsFar(file.table[i]) -> file.table[i].off
                             [] Nth(i) \in DOMAIN file.large -> file.large[Nth(i)]
                             [] OTHER -> Garbage
    IN  [ok |-> 8 * Nth(count) <= 8 * Len(file.large) + file.tail,
         fanout |-> file.fanout, idlen |-> len,
         table |-> [i \in 1..count |-> [oid |-> IF len = file.len THEN file.table[i].oid ELSE Garbage,
                                        off |-> LoadedOffset(i)]]]

\* Binary search in lo..hi-1, positions from 0.
RECURSIVE Search(_, _, _, _)
SearchHigh(table, oid, lo, hi) ==
    IF lo >= hi - 1 THEN Absent
    ELSE LET mid == (lo + hi) \div 2
         IN  CASE table[mid + 1].oid < oid -> Search(table, oid, mid + 1, hi)
               [] table[mid + 1].oid > oid -> Search(table, oid, lo, mid)
               [] OTHER -> mid
Search(table, oid, lo, hi) ==
    IF lo >= hi THEN Absent
    ELSE LET mid == (lo + hi) \div 2
         IN  CASE table[mid + 1].oid < oid -> Search(table, oid, mid + 1, hi)
               [] table[mid + 1].oid > oid -> Search(table, oid, lo, mid)
               [] OTHER -> mid

Low(fanout, oid) == IF First(oid) = 0 THEN 0 ELSE fanout[First(oid) - 1]
High(fanout, oid) == fanout[First(oid)]

\* fastgit_pack_index_find: nothing is found without an index, nor an id of another length.
PackIndexFind(idx, oid, idlen) ==
    IF ~idx.ok \/ Len(idx.table) = 0 \/ idlen # idx.idlen THEN Absent
    ELSE Search(idx.table, oid, Low(idx.fanout, oid), High(idx.fanout, oid))

-----------------------------------------------------------------------------
(* The multi-pack index.  A directory is [open, packs]: whether opendir    *)
(* succeeds, and the loaded indexes in it.                                 *)

\* Directories, not packs, are numbered, and only those that opened: pack_idx.  Of an
\* offset 32 bits are written.
Opened(dirs) == SelectSeq(dirs, LAMBDA d : d.open)
EntriesOf(dir, number) ==
    FlattenSeq([k \in DOMAIN dir.packs |->
        [i \in DOMAIN dir.packs[k].table |->
            [oid |-> dir.packs[k].table[i].oid, off |-> dir.packs[k].table[i].off % (2 * Msb),
             pack |-> number % 256]]])
MidxEntries(dirs) ==
    LET open == Opened(dirs)
    IN  FlattenSeq([n \in DOMAIN open |-> EntriesOf(open[n], n - 1)])

\* fastgit_midx_create; no file when there is nothing to index.
MidxCreate(dirs, idlen) ==
    LET table == Sorted(MidxEntries(dirs))
    IN  [packs |-> Len(dirs), fanout |-> Fanout(table), table |-> table,
         size |-> 12 + Len(dirs) * 4 + 1024 + Len(table) * (idlen + 1 + 4) + idlen]

\* fastgit_midx_open: the length of an id from what the ids must occupy, rounded up to
\* a length it knows.
MidxIdLen(file) ==
    LET count == file.fanout[Fan - 1]
        rem == file.size - (12 + file.packs * 4 + 1024)
        cand == IF rem > count * 5 THEN (rem - count * 5) \div (count + 1) ELSE 32
    IN  CASE count = 0 -> 32
          [] cand \in {20, 32, 48, 64} -> cand
          [] cand > 48 -> 64
          [] cand > 32 -> 48
          [] cand > 20 -> 32
          [] OTHER -> 20
MidxOpen(file) ==
    [fanout |-> file.fanout, idlen |-> MidxIdLen(file),
     table |-> [i \in 1..file.fanout[Fan - 1] |-> file.table[i]]]

MidxFind(midx, oid, idlen) ==
    IF Len(midx.table) > 0 /\ idlen # midx.idlen THEN Absent
    ELSE Search(midx.table, oid, Low(midx.fanout, oid), High(midx.fanout, oid))
=============================================================================
