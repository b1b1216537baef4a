---------------------------- MODULE PackStream ----------------------------
(***************************************************************************)
(* Reading a pack: through its index (pack_read_object_at, packfile.c) and *)
(* in one pass over the stream (unpack_pack_to_odb, protocol.c, and its    *)
(* copy unbundle_unpack_pack_to_odb, bundle.c); and how the stream is      *)
(* taken out of a server's answer (extract_pack_from_response).            *)
(*                                                                         *)
(* A pack is [ents, idlen, cut]: entries, the length of its ids, which is  *)
(* that of the closing hash (20 or 32), and the number of bytes missing at *)
(* the end of a stream cut short.  An entry is a record with               *)
(*   kind  "obj", "ofs" (base is the entry back places before) or "ref"    *)
(*         (base is named by its id),                                      *)
(*   is    the object it stands for,  base  the object its delta was made  *)
(*         from,                                                           *)
(*   h, z  bytes of its header and of its compressed data.                 *)
(* An object is its content; its id is the content's, so both are one      *)
(* value here.  Positions are byte offsets as in the code.                 *)
(***************************************************************************)
EXTENDS Integers, Sequences, FiniteSets, SequencesExt, FiniteSetsExt

CONSTANTS MaxDepth,   \* pack_read_object_at gives up below this depth (32)
          Margin      \* bytes kept free for the closing hash (32)

ASSUME PackStreamConstants == MaxDepth \in Nat /\ Margin \in Nat

NoObject == "none"

-----------------------------------------------------------------------------
(* Layout.                                                                 *)

\* Bytes between the header and the data: the distance, or the id, of the base.
BaseBytes(p, e) == CASE e.kind = "obj" -> 0 [] e.kind = "ofs" -> 1 [] e.kind = "ref" -> p.idlen
EntryBytes(p, e) == e.h + BaseBytes(p, e) + e.z
OffsetOf(p, i) == 12 + FoldLeft(LAMBDA n, e : n + EntryBytes(p, e), 0, SubSeq(p.ents, 1, i - 1))
PackLen(p) == OffsetOf(p, Len(p.ents) + 1) + p.idlen - p.cut
DataAt(p, i) == OffsetOf(p, i) + p.ents[i].h + BaseBytes(p, p.ents[i])

\* What inflate is given: all but Margin bytes of the rest.  The subtraction is
\* unsigned; below zero it wraps, and only the bytes that exist are left to stop it.
Avail(p, i) == LET a == PackLen(p) - DataAt(p, i) - Margin
               IN  IF a >= 0 THEN a ELSE PackLen(p) - DataAt(p, i)
Inflates(p, i) == p.ents[i].z <= Avail(p, i)

\* The reader through the index checks for the wrap, in the offset-delta branch only.
ReaderInflates(p, i) ==
    /\ Inflates(p, i)
    /\ p.ents[i].kind = "ofs" => PackLen(p) - DataAt(p, i) - Margin >= 0

\* Applying a delta to anything but its base does not give the object.
Apply(e, base) == IF base = e.base THEN e.is ELSE NoObject

-----------------------------------------------------------------------------
(* Through the index.                                                      *)

\* fastgit_pack_index_find of the base of a "ref" entry: some entry with that id.
EntryOf(p, oid) == {j \in DOMAIN p.ents : p.ents[j].is = oid}

TooDeep(depth) == depth > MaxDepth

\* pack_read_object_at; the length of ids is that of the index.
RECURSIVE ReadAt(_, _, _)
ReadAt(p, i, depth) ==
    LET e == p.ents[i] IN
    CASE TooDeep(depth) \/ OffsetOf(p, i) + 12 > PackLen(p) \/ ~ReaderInflates(p, i) -> NoObject
      [] e.kind = "obj" -> e.is
      [] e.kind = "ofs" -> Apply(e, ReadAt(p, i - e.back, depth + 1))
      [] e.kind = "ref" -> IF EntryOf(p, e.base) = {} THEN NoObject
                           ELSE Apply(e, ReadAt(p, Min(EntryOf(p, e.base)), depth + 1))

\* fastgit_pack_read_entry.
ReadEntry(p, oid) ==
    IF EntryOf(p, oid) = {} THEN NoObject ELSE ReadAt(p, Min(EntryOf(p, oid)), 0)

-----------------------------------------------------------------------------
(* In one pass.  The state is [odb, cache, stop]: the objects of the store *)
(* and the entries of this pack that were resolved.                        *)

\* A base named by id is looked for in the store, which has the earlier objects of
\* this pack; one named by distance among the resolved entries.
BaseOf(p, i, s) ==
    LET e == p.ents[i] IN
    CASE e.kind = "ref" -> IF e.base \in s.odb THEN e.base ELSE NoObject
      [] e.kind = "ofs" -> IF i - e.back \in s.cache THEN p.ents[i - e.back].is ELSE NoObject

\* An object that was made is stored and remembered for deltas by distance.
RememberObjects(p, i, made, s) ==
    [s EXCEPT !.odb = @ \cup {made},
              !.cache = IF p.ents[i].kind = "obj" THEN @ \cup {i} ELSE @]
Remember(p, i, made, s) == [s EXCEPT !.odb = @ \cup {made}, !.cache = @ \cup {i}]

\* The loop's bound, pack_len - 32, is unsigned as well.
PastEnd(p, i) == \/ OffsetOf(p, i) >= PackLen(p)
                 \/ PackLen(p) >= Margin /\ OffsetOf(p, i) >= PackLen(p) - Margin

\* Thirty-two bytes are taken for the id of a base.  Where it has fewer, the walk goes on
\* behind the start of the data, which does not inflate.
Misread(p, i) == p.ents[i].kind = "ref" /\ p.idlen # 32

\* A delta whose base is not there is skipped; data that does not inflate ends the walk.
UnpackEntry(p, i, s) ==
    LET e == p.ents[i]
        made == IF e.kind = "obj" THEN e.is ELSE Apply(e, BaseOf(p, i, s))
    IN  IF s.stop \/ PastEnd(p, i) \/ Misread(p, i) \/ ~Inflates(p, i)
        THEN [s EXCEPT !.stop = TRUE]
        ELSE IF made = NoObject THEN s ELSE Remember(p, i, made, s)
\* unpack_pack_to_odb; the result is OK however the walk ends.
Unpack(p, odb) ==
    FoldLeft(LAMBDA s, i : UnpackEntry(p, i, s),
             [odb |-> odb, cache |-> {}, stop |-> FALSE],
             [i \in DOMAIN p.ents |-> i]).odb
\* unbundle_unpack_pack_to_odb is the same loop.
UnbundleUnpack(p, odb) == Unpack(p, odb)

-----------------------------------------------------------------------------
(* The server's answer: framed packets, then raw bytes.  A packet is       *)
(* [band, data]; band 1 carries the pack, 2 progress, 3 an error, 0 is a   *)
(* line without a band.  Data is a sequence of words, "PACK" being the     *)
(* signature a pack begins with, "NAK" the acknowledgement line.           *)

CONSTANT MinPack   \* a pack has at least this many words (12 bytes)

BeginsPack(d) == d # <<>> /\ Head(d) = "PACK"

\* Band 1, or an unbanded packet that begins a pack.  The test for NAK asks for eight
\* bytes of payload; the line has four, so the raw pack behind it is left to the scan.
FromEveryBand(pkts) ==
    FlattenSeq([k \in DOMAIN pkts |->
        IF pkts[k].band # 0 \/ BeginsPack(pkts[k].data) THEN pkts[k].data ELSE <<>>])
FromPackets(pkts) ==
    FlattenSeq([k \in DOMAIN pkts |->
        IF pkts[k].band = 1 \/ (pkts[k].band = 0 /\ BeginsPack(pkts[k].data))
        THEN pkts[k].data ELSE <<>>])

\* The bytes of the whole answer, with the frames between the packets.
Raw(r) == FlattenSeq([k \in DOMAIN r.pkts |-> <<"frame">> \o r.pkts[k].data]) \o r.tail
ScanForPack(raw) ==
    LET at == {k \in DOMAIN raw : raw[k] = "PACK"}
    IN  IF at = {} THEN <<>> ELSE SubSeq(raw, Min(at), Len(raw))

\* extract_pack_from_response; <<>> is FASTGIT_ENOENT.
ExtractPack(r) ==
    LET framed == FromPackets(r.pkts)
        found == IF Len(framed) < MinPack THEN ScanForPack(Raw(r)) ELSE framed
    IN  CASE r.pkts = <<>> /\ BeginsPack(r.tail) -> r.tail
          [] Len(found) < MinPack -> <<>>
          [] OTHER -> found
=============================================================================
