---------------------------- MODULE PackWriter ----------------------------
(***************************************************************************)
(* Writing a pack (packfile.c): one object at a time or a batch prepared   *)
(* by the thread pool.  The pack file is the sequence of the bytes after   *)
(* its 12-byte header, a byte being the object it belongs to and its place *)
(* in that object's entry; w is                                            *)
(*   file    what is on disk,                                              *)
(*   recs    w_oids and w_offsets, from which the index is made,           *)
(*   cap     w_cap, the records there is room for,                         *)
(*   cur     w_cur_offset, where the writer believes the file ends,        *)
(*   count   header.object_count,  ok  whether the last call returned OK,  *)
(*   broken  whether it has freed what it still uses, or freed it twice;   *)
(*           what it does from then on is undefined.                       *)
(* What may go wrong with one entry is x = [wrote, room]: the bytes that   *)
(* reached the file, and how many of the three arrays of records could     *)
(* grow when they had to: "all", "some" or "none".  A call is [objs, xs,   *)
(* bad, room]: bad is the first object that cannot be hashed or            *)
(* compressed, or 0, and room is for the batch's own look at the arrays.   *)
(***************************************************************************)
EXTENDS Integers, Sequences, SequencesExt, FiniteSetsExt

CONSTANTS Batch,     \* objects from which a batch goes through the pool (128)
          FirstCap   \* records the arrays are first made for (16)

ASSUME PackWriterConstants == Batch \in Nat /\ FirstCap \in Nat \ {0}

\* encode_pack_header and compress2: a header of one byte and two bytes of data.
Coded(o) == [i \in 1..3 |-> <<o, i>>]

\* fastgit_pack_create.
NewPack == [file |-> <<>>, recs |-> <<>>, cap |-> 0, cur |-> 12, count |-> 0, ok |-> TRUE,
            broken |-> FALSE]

\* When the arrays are full all three are grown.  If one could not be, those that could
\* are freed, and the pack keeps pointing to them.
EnsureWriteCap(w, room) ==
    CASE Len(w.recs) < w.cap -> w
      [] Len(w.recs) = w.cap /\ room = "all" -> [w EXCEPT !.cap = IF @ = 0 THEN FirstCap ELSE 2 * @]
      [] Len(w.recs) = w.cap /\ room = "some" -> [w EXCEPT !.ok = FALSE, !.broken = w.cap > 0]
      [] Len(w.recs) = w.cap /\ room = "none" -> [w EXCEPT !.ok = FALSE]

Recorded(w, o) == [w EXCEPT !.recs = Append(@, [oid |-> o, off |-> w.cur]),
                            !.cur = @ + Len(Coded(o)), !.count = @ + 1]

PutEntryEarly(w, o, x) ==
    LET v == [w EXCEPT !.file = @ \o SubSeq(Coded(o), 1, x.wrote)]
        u == EnsureWriteCap(v, x.room)
    IN  IF x.wrote < Len(Coded(o)) THEN [v EXCEPT !.ok = FALSE, !.cur = @ + Len(Coded(o))]
        ELSE IF u.ok THEN Recorded(u, o) ELSE u

\* The header is written, then the data, then the record; the offset of the end moves
\* with the record only, so bytes of an entry that failed are not counted.
PutEntry(w, o, x) ==
    LET v == [w EXCEPT !.file = @ \o SubSeq(Coded(o), 1, x.wrote)]
        u == EnsureWriteCap(v, x.room)
    IN  IF x.wrote < Len(Coded(o)) THEN [v EXCEPT !.ok = FALSE]
        ELSE IF u.ok THEN Recorded(u, o) ELSE u

\* The entries of a call in order, up to the first that fails.
PutEach(w, objs, xs) ==
    FoldLeft(LAMBDA v, i : IF v.ok THEN PutEntry(v, objs[i], xs[i]) ELSE v,
             [w EXCEPT !.ok = TRUE], [i \in 1..Len(objs) |-> i])

\* fastgit_pack_add_object; the object of a call with bad = 1 cannot be hashed or
\* compressed, which is found before anything is written.
AddObject(w, c) ==
    IF c.bad = 1 THEN [w EXCEPT !.ok = FALSE]
    ELSE PutEntry([w EXCEPT !.ok = TRUE], c.objs[1], c.xs[1])

\* fastgit_pack_add_objects_parallel: below Batch one add_object after the other; from
\* Batch on every task must have succeeded before the first byte is written.  The data of
\* a task is freed once it is written, and all of it again when a later one is not.
AddObjectsParallel(w, c) ==
    LET r == EnsureWriteCap([w EXCEPT !.ok = TRUE], c.room)
        good == IF c.bad = 0 THEN Len(c.objs) ELSE c.bad - 1
        v == PutEach(r, SubSeq(c.objs, 1, good), c.xs)
    IN  CASE ~r.ok -> r
          [] r.ok /\ Len(c.objs) < Batch -> [v EXCEPT !.ok = @ /\ c.bad = 0]
          [] r.ok /\ Len(c.objs) >= Batch /\ c.bad # 0 -> [r EXCEPT !.ok = FALSE]
          [] r.ok /\ Len(c.objs) >= Batch /\ c.bad = 0 ->
                [v EXCEPT !.broken = @ \/ (~v.ok /\ Len(v.recs) > Len(w.recs))]

\* What stands at a record's offset when the pack is read.
PointsAt(w, r) ==
    /\ r.off - 12 + Len(Coded(r.oid)) <= Len(w.file)
    /\ SubSeq(w.file, r.off - 11, r.off - 12 + Len(Coded(r.oid))) = Coded(r.oid)
=============================================================================
