------------------------------- MODULE Delta -------------------------------
(***************************************************************************)
(* Delta encoding: fastgit_delta_compress (pack/delta.c) and the four      *)
(* functions that apply a delta: fastgit_delta_apply (delta.c),            *)
(* git_delta_apply (packfile.c), and the copies of the latter inside       *)
(* unpack_pack_to_odb (protocol.c) and unbundle_unpack_pack_to_odb         *)
(* (bundle.c), which are the same text and share a definition here.        *)
(*                                                                         *)
(* A delta is [src, dst, ops, cut]: the two sizes of its head, its         *)
(* instructions, and whether the last of them is cut short.  An            *)
(* instruction copies "size" bytes of the base at "off" (size 0 stands for *)
(* MaxCopy, 0x10000 in the code) or inserts "data"; when it is cut short,  *)
(* these are what the memory behind the delta makes of it.  Bytes are the  *)
(* digits 0..Letters-1.  Positions are those of the code, from 0.          *)
(***************************************************************************)
EXTENDS Naturals, Sequences, FiniteSets, SequencesExt

CONSTANTS Letters,      \* values of a byte (256)
          MinMatch,     \* shortest copy, and length of the hashed words (4)
          TableLetters, \* the table keeps the top digits of the product (14 bits)
          HashK,        \* odd multiplier (2654435761)
          MaxLit,       \* longest insertion (127)
          MaxCopy,      \* longest copy (0x10000)
          MaxVisits,    \* candidates looked at per position (32)
          Uint          \* values of a uint32_t (2^32)

ASSUME DeltaConstants ==
    /\ Letters \in Nat \ {0, 1} /\ MinMatch \in Nat \ {0}
    /\ TableLetters \in 1..MinMatch /\ HashK \in Nat
    /\ MaxLit \in Nat \ {0} /\ MaxCopy \in Nat /\ MaxCopy >= MinMatch
    /\ Uint \in Nat /\ Uint > MaxCopy

Bytes == 0..(Letters - 1)
Outside == Letters      \* stands for a byte that was read outside the base

-----------------------------------------------------------------------------
(* Compression.                                                            *)

\* The MinMatch bytes at position p, and the number they spell.
Word(s, p) == SubSeq(s, p + 1, p + MinMatch)
Number(w) == FoldLeft(LAMBDA n, d : n * Letters + d, 0, w)

\* Multiplicative hash: the product modulo the word size, its top digits kept.
BucketLow(w) == (Number(w) * HashK) % Letters^TableLetters
Bucket(w) == ((Number(w) * HashK) % Letters^MinMatch)
                 \div Letters^(MinMatch - TableLetters)

\* The chain of a bucket holds the later positions first; MaxVisits of it are
\* looked at.  The first byte is not compared: the bucket vouches for it.
Visited(b, t, p) ==
    LET chain == {i \in 0..(Len(b) - MinMatch) : Bucket(Word(b, i)) = Bucket(Word(t, p))}
    IN  {i \in chain : /\ Cardinality({j \in chain : j > i}) < MaxVisits
                       /\ Tail(Word(b, i)) = Tail(Word(t, p))}

Least(S) == CHOOSE x \in S : \A y \in S : x <= y

\* How far base at i and target at p agree, beyond the MinMatch bytes already seen.
MatchLen(b, i, t, p) ==
    LET most == Least({Len(b) - i, Len(t) - p, MaxCopy})
    IN  Least({most} \cup {n \in MinMatch..most :
                              n < most /\ b[i + n + 1] # t[p + n + 1]})

\* The longest match, of equal ones the one visited first.
Match(b, t, p) ==
    LET seen == Visited(b, t, p)
        Better(i, j) == \/ MatchLen(b, i, t, p) > MatchLen(b, j, t, p)
                        \/ MatchLen(b, i, t, p) = MatchLen(b, j, t, p) /\ i >= j
    IN  IF Len(b) < MinMatch \/ Len(t) - p < MinMatch \/ seen = {}
        THEN [off |-> 0, len |-> 0]
        ELSE LET i == CHOOSE i \in seen : \A j \in seen : Better(i, j)
             IN  [off |-> i, len |-> MatchLen(b, i, t, p)]

Insert(lit) == IF lit = <<>> THEN <<>> ELSE <<[op |-> "insert", data |-> lit]>>
Copy(m) == <<[op |-> "copy", off |-> m.off, size |-> IF m.len = MaxCopy THEN 0 ELSE m.len]>>

\* The main loop from target position p with the bytes lit not yet flushed.
RECURSIVE Emit(_, _, _, _)
Emit(b, t, p, lit) ==
    IF p = Len(t) THEN Insert(lit)
    ELSE LET m == Match(b, t, p)
             more == Append(lit, t[p + 1])
         IN  IF m.len >= MinMatch
             THEN Insert(lit) \o Copy(m) \o Emit(b, t, p + m.len, <<>>)
             ELSE IF Len(more) = MaxLit
                  THEN Insert(more) \o Emit(b, t, p + 1, <<>>)
                  ELSE Emit(b, t, p + 1, more)

Compress(b, t) == [src |-> Len(b), dst |-> Len(t), ops |-> Emit(b, t, 0, <<>>), cut |-> FALSE]

-----------------------------------------------------------------------------
(* Application.  A result is [ok, data, unset]: unset is the number of     *)
(* bytes of the returned buffer that nothing was written to.               *)

Failed == [ok |-> FALSE, data |-> <<>>, unset |-> 0]

\* What one instruction appends once it has passed the tests.
CopySize(x) == IF x.size = 0 THEN MaxCopy ELSE x.size
Produced(b, x) == IF x.op = "insert" THEN x.data
                  ELSE [k \in 1..CopySize(x) |->
                           IF x.off + k <= Len(b) THEN b[x.off + k] ELSE Outside]

\* The tests before an instruction is carried out, out bytes being there already.  An
\* offset and a size are added as uint32_t, and the sum may wrap.
Fits(b, x, out, dst) ==
    IF x.op = "insert" THEN x.data # <<>> /\ out + Len(x.data) <= dst
    ELSE (x.off + CopySize(x)) % Uint <= Len(b) /\ out + CopySize(x) <= dst

\* Instruction i is there in full, as far as it is looked: everybody asks for the data of
\* an insertion, and only who is strict for the operands of a copy.
Complete(d, i, strict) == \/ ~d.cut \/ i < Len(d.ops)
                          \/ ~strict /\ d.ops[i].op = "copy"

\* Runs the instructions until one does not fit or, with early, the buffer is full.
Run(b, d, early, strict) ==
    FoldLeft(LAMBDA s, i :
                 IF s.ended \/ ~s.ok THEN s
                 ELSE IF early /\ Len(s.data) = d.dst THEN [s EXCEPT !.ended = TRUE]
                 ELSE IF Complete(d, i, strict) /\ Fits(b, d.ops[i], Len(s.data), d.dst)
                      THEN [s EXCEPT !.data = @ \o Produced(b, d.ops[i])]
                      ELSE [s EXCEPT !.ok = FALSE],
             [ok |-> TRUE, ended |-> FALSE, data |-> <<>>], [i \in DOMAIN d.ops |-> i])

\* git_delta_apply: every instruction must fit and the buffer must be full.
GitDeltaApply(b, d) ==
    LET r == Run(b, d, FALSE, TRUE)
    IN  IF r.ok /\ Len(r.data) = d.dst
        THEN [ok |-> TRUE, data |-> r.data, unset |-> 0] ELSE Failed

\* fastgit_delta_apply: stops when the buffer is full and does not ask whether it is.
DeltaApply(b, d) ==
    LET r == Run(b, d, TRUE, TRUE)
    IN  IF r.ok THEN [ok |-> TRUE, data |-> r.data, unset |-> d.dst - Len(r.data)]
        ELSE Failed

\* The unpackers: an instruction that does not fit ends the loop, then the length
\* decides.  The operands of a copy are read wherever the delta ends.
UnpackApply(b, d) ==
    LET r == Run(b, d, FALSE, FALSE)
    IN  IF Len(r.data) = d.dst THEN [ok |-> TRUE, data |-> r.data, unset |-> 0]
        ELSE Failed
=============================================================================
