------------------------------ MODULE Formats ------------------------------
(***************************************************************************)
(* The algorithms on data that fastgit must get right on every input:      *)
(* deltas, pack and multi-pack indexes, writing and reading packs and the  *)
(* answers that carry them, history, trees and commits.  Each action is    *)
(* one call (or the writing call followed by the reading one) on an input  *)
(* of a bounded size; job holds the input and what came out of it.         *)
(***************************************************************************)
EXTENDS Delta, PackIndex, PackStream, PackWriter, Ancestry, Objects, TLC

CONSTANTS MaxText,      \* length of the bases and targets of deltas
          MaxOps,       \* instructions of a delta
          MaxRecords,   \* records of a pack index
          MaxEntries,   \* entries of a pack stream
          MaxPack,      \* words of the pack inside an answer
          MaxCommits,   \* commits of a history
          MaxPaths      \* entries of an index

VARIABLE job

Kinds == {"delta", "apply", "index", "midx", "pack", "writer", "answer", "history", "tree", "commit"}
Asked(k) == job.kind = "none" /\ job.of = k
Upto(n, S) == UNION {[1..k -> S] : k \in 0..n}
\* The sequences of length n whose i-th element is one of Of(i).
Rows(n, Of(_)) == FoldLeft(LAMBDA S, i : {Append(r, x) : r \in S, x \in Of(i)},
                           {<<>>}, [i \in 1..n |-> i])

-----------------------------------------------------------------------------
\* fastgit_delta_compress of every pair of texts, and the delta applied.
DeltaJob ==
    /\ Asked("delta")
    /\ \E b, t \in Upto(MaxText, Bytes) :
          LET d == Compress(b, t)
          IN  job' = [kind |-> "delta", target |-> t, delta |-> d,
                      out |-> <<GitDeltaApply(b, d), DeltaApply(b, d), UnpackApply(b, d)>>]

\* Any delta, applied to any base: what the wire may bring, up to copies from the far end
\* of what an offset can name and a last instruction that is cut short.
Ops == [op : {"copy"}, off : 0..2 \cup {Uint - 1}, size : 0..2]
           \cup [op : {"insert"}, data : Upto(2, Bytes)]
ApplyJob ==
    /\ Asked("apply")
    /\ \E b \in {<<0, 1, 0>>, <<1>>}, ops \in Upto(MaxOps, Ops), n \in 0..4, cut \in BOOLEAN :
          /\ cut => ops # <<>>
          /\ LET d == [src |-> Len(b), dst |-> n, ops |-> ops, cut |-> cut]
             IN  job' = [kind |-> "apply", delta |-> d,
                         out |-> <<GitDeltaApply(b, d), DeltaApply(b, d), UnpackApply(b, d)>>]

\* A pack index is created by fastgit or by git, loaded and searched for every id.  Some
\* offsets are beyond 2^31 or beyond 2^32, in one case more than a file can hide.
Many == [i \in 1..9 |-> i % (Fan * Rest)]
IndexJob ==
    /\ Asked("index")
    /\ \E ids \in Upto(MaxRecords, Oids) \cup {Many}, by \in {"fastgit", "git"}, len \in {20, 32},
          far \in 0..9, beyond \in {Msb, 2 * Msb} :
          /\ far <= Len(ids) /\ (by = "fastgit" => len = 32)
          /\ LET recs == [i \in DOMAIN ids |->
                             [oid |-> ids[i], off |-> IF i <= Len(ids) - far THEN i ELSE beyond + i]]
                 idx == PackIndexLoad(IF by = "git" THEN GitIndex(recs, len) ELSE PackIndexCreate(recs))
             IN  job' = [kind |-> "index", recs |-> recs, by |-> by, len |-> len, idx |-> idx,
                         found |-> [o \in Oids |-> PackIndexFind(idx, o, len)]]

\* A multi-pack index over two directories is created, opened and searched.  One of the
\* packs has an object beyond 2^32.
Packs == {[table |-> Sorted([i \in 1..Cardinality(s) |->
                                [oid |-> SetToSeq(s)[i], off |-> 10 * i]])] :
             s \in {t \in SUBSET {0, 1, Fan * Rest - 1} : Cardinality(t) <= 2}}
         \cup {[table |-> <<[oid |-> 1, off |-> 2 * Msb + 1]>>]}
MidxJob ==
    /\ Asked("midx")
    /\ \E open \in [1..2 -> BOOLEAN], packs \in [1..2 -> Upto(2, Packs)], len \in {20, 32} :
          LET dirs == [n \in 1..2 |-> [open |-> open[n], packs |-> packs[n]]]
              midx == MidxOpen(MidxCreate(dirs, len))
          IN  job' = [kind |-> "midx", dirs |-> dirs, len |-> len, midx |-> midx,
                      found |-> [o \in Oids |-> MidxFind(midx, o, len)]]

-----------------------------------------------------------------------------
\* A pack stream, whole or cut short, read through its index and in one pass into a
\* store that holds the object "x".
Names == <<"o1", "o2", "o3", "o4", "o5">>
EntriesAt(i, n, h, z) ==
    LET Make(kind, base, back) == [kind |-> kind, is |-> Names[i], base |-> base,
                                   back |-> back, h |-> h, z |-> z]
    IN  {Make("obj", NoObject, 0)}
        \cup {Make("ofs", Names[i - k], k) : k \in 1..(i - 1)}
        \cup {Make("ref", o, 0) : o \in {"x"} \cup {Names[k] : k \in (1..n) \ {i}}}
PackJob ==
    /\ Asked("pack")
    /\ \E n \in 1..MaxEntries, h \in {1, 2}, z \in {9, 13}, idlen \in {20, 32}, cut \in {0, 5} :
       \E ents \in Rows(n, LAMBDA i : EntriesAt(i, n, h, z)) :
          LET p == [ents |-> ents, idlen |-> idlen, cut |-> cut]
          IN  job' = [kind |-> "pack", pack |-> p,
                      read |-> [i \in 1..n |-> ReadEntry(p, Names[i])],
                      stored |-> Unpack(p, {"x"}), unbundled |-> UnbundleUnpack(p, {"x"})]

\* A pack is created and given objects by two calls, the second of which its callers
\* make whatever the first returned (bundle_create, pack_local_odb).  Nothing is said of
\* what a call on a broken pack does.
Rooms == {"all", "some", "none"}
Outcomes == [wrote : {3}, room : Rooms] \cup [wrote : 0..2, room : {"all"}]
Calls == UNION {[objs : {SubSeq(Names, 1, n)}, xs : [1..n -> Outcomes], bad : 0..n,
                 room : IF n = 1 THEN {"all"} ELSE Rooms] : n \in 1..3}
Called(w, c) == CASE w.broken -> w
                  [] ~w.broken /\ Len(c.objs) = 1 -> AddObject(w, c)
                  [] ~w.broken /\ Len(c.objs) > 1 -> AddObjectsParallel(w, c)
WriterJob ==
    /\ Asked("writer")
    /\ \E batch \in Calls, next \in {c \in Calls : Len(c.objs) = 1} :
          LET w == Called(NewPack, batch)
          IN  job' = [kind |-> "writer", first |-> batch, next |-> next, before |-> w,
                      w |-> Called(w, next)]

\* A server's answer that carries a pack: bare, behind a NAK, or in band 1 with
\* progress in between.
Packet(band, data) == [band |-> band, data |-> data]
Nak == Packet(0, <<"NAK">>)
AnswerJob ==
    /\ Asked("answer")
    /\ \E n \in MinPack..MaxPack, a, b \in 0..MaxPack, word \in {"text", "PACK"} :
          /\ a <= b /\ b <= n
          /\ LET sent == <<"PACK">> \o [k \in 1..(n - 1) |-> "data"]
                 bands == <<Nak, Packet(1, SubSeq(sent, 1, a)), Packet(2, <<word>>),
                            Packet(1, SubSeq(sent, a + 1, b)), Packet(2, <<word>>),
                            Packet(1, SubSeq(sent, b + 1, n))>>
             IN  \E r \in {[pkts |-> <<>>, tail |-> sent], [pkts |-> <<Nak>>, tail |-> sent],
                           [pkts |-> bands, tail |-> <<>>],
                           [pkts |-> <<Nak, Packet(0, sent)>>, tail |-> <<>>]} :
                    job' = [kind |-> "answer", answer |-> r, sent |-> sent,
                            got |-> ExtractPack(r)]

-----------------------------------------------------------------------------
\* A history of commits with up to two parents, the newest with up to three; in the
\* smaller ones a commit may be missing, another one may be in a pack only, and the ids
\* may run against the age.
ParentLists(S, most) == {r \in Upto(most, S) : \A i, j \in DOMAIN r : r[i] = r[j] => i = j}
HistoryJob ==
    /\ Asked("history")
    /\ \E n \in 1..MaxCommits, lost, away \in 0..(MaxCommits - 1), reversed \in BOOLEAN :
          /\ lost <= n /\ away <= n /\ (n = MaxCommits => lost = 0 /\ away = 0 /\ ~reversed)
          /\ \E up \in Rows(n, LAMBDA i : ParentLists(1..(i - 1), IF i = n THEN 3 ELSE 2)) :
                LET Id(c) == IF reversed THEN n + 1 - c ELSE c
                    h == [parents |-> [c \in 1..n |-> [k \in DOMAIN up[Id(c)] |-> Id(up[Id(c)][k])]],
                          have |-> (1..n) \ {lost}, loose |-> (1..n) \ {lost, away}]
                IN  job' = [kind |-> "history", n |-> n, h |-> h,
                            graph |-> CommitGraphRead(CommitGraphWrite(h))]

\* An index is written as a tree and read back.
Paths == {<<1>>, <<2>>, <<1, 1>>, <<1, 2>>, <<2, 1>>, <<1, 1, 1>>}
TreeJob ==
    /\ Asked("tree")
    /\ \E entries \in Upto(MaxPaths, [path : Paths, oid : {1, 2}, stage : {0}]
                                         \cup [path : {<<1>>}, oid : {1}, stage : {1}]) :
          LET w == WriteTree(entries)
          IN  job' = [kind |-> "tree", entries |-> entries, wrote |-> w,
                      back |-> IF w.ok THEN ReadTree(w.tree) ELSE <<>>]

\* A commit is written, read, and what was read is written again.
CommitJob ==
    /\ Asked("commit")
    /\ \E parents \in Upto(2, {1, 2}), author, committer \in {-150, -60, 0, 99, 100, 330},
          encoding \in {None, "latin1"}, sig \in {None, "s"},
          message \in {<<>>, <<Line("text", "m")>>, <<Line("text", "m"), Blank, Line("gpgsig", "s")>>} :
          LET c == [tree |-> 1, parents |-> parents, author |-> author, committer |-> committer,
                    encoding |-> encoding, sig |-> sig, message |-> message]
              back == CommitParse(CommitText(c))
          IN  job' = [kind |-> "commit", commit |-> c, back |-> back,
                      same |-> CommitText(back) = CommitText(c)]

Init == job \in {[kind |-> "none", of |-> k] : k \in Kinds}
Next == \/ DeltaJob \/ ApplyJob \/ IndexJob \/ MidxJob \/ PackJob \/ WriterJob \/ AnswerJob
        \/ HistoryJob \/ TreeJob \/ CommitJob
Spec == Init /\ [][Next]_job

-----------------------------------------------------------------------------
(* Properties.                                                             *)

\* A delta that fastgit_delta_compress made turns the base back into the target in
\* each function that applies deltas (delta.c:55, though the search compares no first
\* byte); and whatever the delta, when git_delta_apply accepts it the others produce
\* the same bytes, leave none unset, and the unpackers never accept a short result.  A
\* result has no byte from outside the base: unless an offset and a size wrap, which all
\* four add as uint32_t (packfile.c:96, delta.c:173, protocol.c:711, bundle.c:369), or, in
\* the unpackers, the operands of the last copy are cut short, which these alone do not
\* notice (protocol.c:703).
DeltasAgree ==
    /\ job.kind = "delta" =>
          \A k \in 1..3 : job.out[k] = [ok |-> TRUE, data |-> job.target, unset |-> 0]
    /\ job.kind = "apply" =>
          /\ job.out[1].ok => job.out[2] = job.out[1] /\ job.out[3] = job.out[1]
          /\ job.out[3].ok => Len(job.out[3].data) = job.delta.dst
          /\ (\A x \in ToSet(job.delta.ops) : x.op = "copy" => x.off + CopySize(x) < Uint) =>
                \A k \in 1..3 : Outside \in ToSet(job.out[k].data) => k = 3 /\ job.delta.cut

\* The index of a pack, written by fastgit or by git and loaded, has the length of its ids
\* right and finds exactly the ids of the pack.  The offsets are those the pack recorded:
\* in fastgit's own file only below 2^31, for it cuts the others to 32 bits (packfile.c:602),
\* and those whose top bit is set then the loader takes from a table nobody wrote, or
\* refuses the file when the hashes are too short for that.  The multi-pack index finds
\* exactly the ids of the packs in directories that opened; its pack number is right when
\* every directory opens and has one pack, and its offset below 2^32 (midx.c:106).
LookupsAgree ==
    /\ job.kind = "index" =>
          LET far == {x.off : x \in {r \in ToSet(job.recs) : r.off >= Msb}}
          IN  /\ ~job.idx.ok => job.by = "fastgit" /\ Cardinality(far) > 8
              /\ job.idx.ok /\ job.recs # <<>> => job.idx.idlen = job.len
              /\ job.idx.ok => \A o \in Oids :
                    LET at == job.found[o]
                        recorded == {r.off : r \in {x \in ToSet(job.recs) : x.oid = o}}
                    IN  /\ at = Absent <=> recorded = {}
                        /\ at # Absent => LET r == job.idx.table[at + 1]
                                          IN  /\ r.oid = o
                                              /\ \/ r.off \in recorded
                                                 \/ job.by = "fastgit" /\ recorded \cap far # {}
    /\ job.kind = "midx" =>
          \A o \in Oids :
             LET at == job.found[o]
                 holds == {<<n, k>> \in (1..2) \X (1..2) :
                              /\ job.dirs[n].open /\ k \in DOMAIN job.dirs[n].packs
                              /\ \E x \in ToSet(job.dirs[n].packs[k].table) : x.oid = o}
             IN  /\ at = Absent <=> holds = {}
                 /\ /\ at # Absent
                    /\ \A n \in 1..2 : job.dirs[n].open /\ Len(job.dirs[n].packs) = 1
                    => LET r == job.midx.table[at + 1]
                       IN  \E x \in ToSet(job.dirs[r.pack + 1].packs[1].table) :
                              x.oid = o /\ (x.off = r.off \/ x.off >= 2 * Msb)

\* The length of the chain of deltas from entry i down to a whole object, MaxDepth + 1
\* when it is longer, and Broken when it leaves the pack.
Broken == 100
RECURSIVE Chain(_, _, _)
Chain(p, i, most) ==
    LET e == p.ents[i]
        from == IF e.kind = "ofs" THEN {i - e.back} ELSE EntryOf(p, e.base)
    IN  CASE e.kind = "obj" -> 0
          [] e.kind # "obj" /\ from = {} -> Broken
          [] e.kind # "obj" /\ from # {} ->
                IF most = 0 THEN 1 ELSE 1 + Chain(p, CHOOSE j \in from : TRUE, most - 1)
\* Entry i can be rebuilt from what stands before it and the object "x".
RECURSIVE Rebuildable(_, _)
Rebuildable(p, i) ==
    LET e == p.ents[i]
    IN  CASE e.kind = "obj" -> TRUE
          [] e.kind = "ofs" -> Rebuildable(p, i - e.back)
          [] e.kind = "ref" -> e.base = "x" \/ \E j \in 1..(i - 1) :
                                  p.ents[j].is = e.base /\ Rebuildable(p, j)

\* Of a whole pack with ids of 32 bytes, the reader (pack_read_object_at) gives every
\* object whose chain is not longer than MaxDepth and the unpackers store every object
\* whose bases come first.  From any pack, cut short or with ids of 20 bytes, neither
\* gives anything but the objects in it, and the reader gives those with at least Margin
\* bytes behind each entry of their chain.  The unpackers store what can be rebuilt of the
\* entries with as much behind them, but in a pack with ids of 20 bytes they stop for good
\* at the first delta whose base is named by its id: they take 32 bytes for it
\* (protocol.c:655, bundle.c:316), and return OK.
PackReadsBack ==
    job.kind = "pack" =>
        LET p == job.pack
            n == Len(p.ents)
            Roomy(i) == PackLen(p) - OffsetOf(p, i + 1) >= Margin
            misread == {k \in 1..n : p.ents[k].kind = "ref" /\ p.idlen # 32}
        IN  /\ \A i \in 1..n : job.read[i] \in {p.ents[i].is, NoObject}
            /\ p.cut = 0 /\ p.idlen = 32 =>
                  \A i \in 1..n : job.read[i] # NoObject <=> Chain(p, i, MaxDepth) <= MaxDepth
            /\ \A i \in 1..n : (\A k \in 1..n : Roomy(k)) /\ Chain(p, i, MaxDepth) <= MaxDepth =>
                  job.read[i] # NoObject
            /\ job.stored \subseteq {"x"} \cup {p.ents[i].is : i \in 1..n}
            /\ \A i \in 1..n : Roomy(i) /\ (\A k \in misread : i < k) =>
                  (p.ents[i].is \in job.stored <=> Rebuildable(p, i))
            /\ job.unbundled = job.stored

\* The bytes on disk that no record stands for.
Stray(w) == Len(w.file) - FoldLeft(LAMBDA n, r : n + Len(Coded(r.oid)), 0, w.recs)

\* The index is made from the offsets the writer counted, not from the file.  Unless the
\* pack is broken they are right as long as no failed write left bytes behind, a call that
\* fails does not spoil the records made before it, the object count is the number of
\* records, and a batch with an object that cannot be prepared writes nothing of that
\* object (packfile.c:381, 432).  It is broken only after memory ran out for some of its
\* arrays (packfile.c:375) or a batch failed behind its first entry (packfile.c:475): a
\* failing write of one object at a time never breaks it.
OffsetsPoint ==
    job.kind = "writer" =>
        /\ \A w \in {job.before, job.w} : ~w.broken =>
              /\ Stray(w) = 0 => \A r \in ToSet(w.recs) : PointsAt(w, r)
              /\ w.count = Len(w.recs)
        /\ ~job.w.broken => \A k \in DOMAIN job.before.recs :
              /\ job.w.recs[k] = job.before.recs[k]
              /\ PointsAt(job.before, job.before.recs[k]) => PointsAt(job.w, job.w.recs[k])
        /\ job.first.bad # 0 /\ Len(job.first.objs) >= Batch => job.before.file = <<>>
        /\ job.w.broken => \/ Len(job.first.objs) >= Batch /\ Len(job.before.recs) > 0
                           \/ \E c \in {job.first, job.next} : \E x \in ToSet(c.xs) : x.room = "some"

\* However the server frames it - bare, after NAK, or in side-band packets with progress
\* between them - extract_pack_from_response returns the pack that was sent.
ExtractYieldsPack == job.kind = "answer" => job.got = job.sent

\* The commits reachable from c through the commits that can be read, c included.
RECURSIVE Reach(_, _)
Reach(h, c) == {c} \cup UNION {Reach(h, p) : p \in ToSet(ParentsOf(h, c))}

\* The parents beyond the first of the commits in C.
Surplus(h, C) ==
    FoldLeft(LAMBDA n, c : n + Max({1, Len(ParentsOf(h, c))}) - 1, 0, SetToSeq(C))

\* is_ancestor answers TRUE for real ancestors only.  It is exact for a history of at most
\* Limit commits, those it remembers, whose merges have together less than Places parents
\* beyond the first: in a larger one parents may not fit on its stack (merge.c:30).
\* rebase_is_ancestor is the first-parent part of it, the commits rev_parse names with ~0
\* to ~(Limit-1); a fast-forward is never reported unless head is behind theirs.  The
\* commit graph keeps the loose commits (commit_graph.c:31) and of their first two parents
\* those that are loose, except the one with the least id of all, and a child whose id is
\* greater than its parent's gets the greater generation.
HistoryAgrees ==
    job.kind = "history" =>
        LET h == job.h
            g == job.graph
        IN  /\ \A d \in 1..job.n :
                  LET above == Reach(h, d)
                  IN  \A a \in 1..job.n :
                        /\ IsAncestor(h, a, d) => a \in above
                        /\ Cardinality(above) <= Limit /\ Surplus(h, above) < Places =>
                              (IsAncestor(h, a, d) <=> a \in above)
                        /\ RebaseIsAncestor(h, a, d) <=> \E k \in 0..(Limit - 1) : RevParse(h, d, k) = a
                        /\ MergeAnalysis(h, a, d) = "fastforward" => a \in above \ {d}
            /\ ToSet(g.ids) = h.loose /\ g.count = Cardinality(h.loose)
            /\ \A i \in 1..g.count :
                  LET two == {h.parents[g.ids[i]][k] : k \in DOMAIN h.parents[g.ids[i]] \cap 1..2}
                      up == two \cap h.loose
                  IN  /\ GraphParents(g, i) = up \ {g.ids[1]}
                      /\ \A j \in 1..(i - 1) : g.ids[j] \in up => g.gen[j] < g.gen[i]

\* What write_tree stored is what read_tree finds: every entry, once for each time it
\* was there; and while no path is a file and a directory at once, or twice in the
\* index, the tree does not depend on the order of the entries.
TreeRoundTrip ==
    job.kind = "tree" /\ job.wrote.ok =>
        LET e == job.entries
            clash == \E i, j \in DOMAIN e : i # j /\ IsPrefix(e[i].path, e[j].path)
        IN  /\ Len(job.back) = Len(e)
            /\ \A x \in ToSet(e) : Cardinality({i \in DOMAIN e : e[i] = x})
                                      = Cardinality({i \in DOMAIN job.back : job.back[i] = x})
            /\ ~clash => job.wrote = WriteTree(Reverse(e))

\* A commit that was written and read back keeps its tree, parents and encoding; its
\* offset from UTC survives below 100 minutes and no further (minutes are written,
\* hours and minutes are read), and writing it again gives the same text, hence the
\* same id, exactly then - a signature being found in the message, not as a signature.
CommitRoundTrip ==
    job.kind = "commit" =>
        LET c == job.commit
            b == job.back
        IN  /\ b.tree = c.tree /\ b.parents = c.parents /\ b.encoding = c.encoding
            /\ b.sig = None
            /\ b.message = SubSeq(SignatureLines(c.sig) \o <<Blank>> \o c.message, 2,
                                  Len(SignatureLines(c.sig)) + 1 + Len(c.message))
            /\ b.author = c.author <=> Abs(c.author) < 100
            /\ job.same <=> Abs(c.author) < 100 /\ Abs(c.committer) < 100
=============================================================================
