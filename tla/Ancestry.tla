------------------------------ MODULE Ancestry ------------------------------
(***************************************************************************)
(* Questions about history: is_ancestor and fastgit_merge_analysis         *)
(* (merge/merge.c), rebase_is_ancestor (merge/rebase.c), fastgit_rev_parse *)
(* (repository.c), and the commit-graph file (object/commit_graph.c).      *)
(*                                                                         *)
(* A history is [parents, have, loose]: the parents of every commit, in    *)
(* order, the commits whose object can be looked up, and those of them     *)
(* that are loose objects.  A commit is its id, a number; fastgit_oid_cmp  *)
(* is the order of numbers.                                                *)
(***************************************************************************)
EXTENDS Integers, Sequences, FiniteSets, SequencesExt

CONSTANTS Places,  \* places of the stack (256)
          Limit    \* commits that are remembered, and steps of a walk (256)

ASSUME AncestryConstants == Places \in Nat \ {0} /\ Limit \in Nat \ {0}

NoCommit == 0

\* The parents a lookup and parse of c yields; none if either fails.
ParentsOf(h, c) == IF c \in h.have THEN h.parents[c] ELSE <<>>

-----------------------------------------------------------------------------
\* What is still pushed when the stack has sp places taken.
PushedOne(parents, sp) == SubSeq(parents, 1, IF parents = <<>> \/ sp = Places THEN 0 ELSE 1)
Pushed(parents, sp) ==
    SubSeq(parents, 1, IF Len(parents) <= Places - sp THEN Len(parents) ELSE Places - sp)

\* The loop of is_ancestor; visited stops growing at Limit.
RECURSIVE Walk(_, _, _, _)
Walk(h, anc, stack, visited) ==
    IF stack = <<>> THEN FALSE
    ELSE LET cur == Last(stack)
             rest == Front(stack)
             seen == IF Cardinality(visited) < Limit THEN visited \cup {cur} ELSE visited
         IN  CASE cur \in visited -> Walk(h, anc, rest, visited)
               [] cur = anc -> TRUE
               [] OTHER -> Walk(h, anc, rest \o Pushed(ParentsOf(h, cur), Len(rest)), seen)

IsAncestor(h, anc, desc) == anc = desc \/ Walk(h, anc, <<desc>>, {})

\* The loop of rebase_is_ancestor: first parents, Limit commits.
RECURSIVE FirstParentWalk(_, _, _, _)
FirstParentWalk(h, anc, cur, depth) ==
    /\ depth < Limit
    /\ \/ cur = anc
       \/ LET up == ParentsOf(h, cur)
          IN  up # <<>> /\ up[1] # cur /\ FirstParentWalk(h, anc, up[1], depth + 1)
RebaseIsAncestor(h, anc, desc) == anc = desc \/ FirstParentWalk(h, anc, desc, 0)

\* fastgit_rev_parse of "<c>~<n>"; the suffix ^ is n = 0, the commit itself.
RECURSIVE RevParse(_, _, _)
RevParse(h, c, n) ==
    IF n = 0 THEN c
    ELSE LET up == ParentsOf(h, c)
         IN  IF up = <<>> THEN NoCommit ELSE RevParse(h, up[1], n - 1)

\* fastgit_merge_analysis of head (NoCommit when HEAD is unborn) and theirs.
MergeAnalysis(h, head, theirs) ==
    CASE head = NoCommit -> "unborn"
      [] head # NoCommit /\ head = theirs -> "up_to_date"
      [] head \notin {NoCommit, theirs} /\ IsAncestor(h, head, theirs) -> "fastforward"
      [] head \notin {NoCommit, theirs} /\ ~IsAncestor(h, head, theirs) ->
            IF IsAncestor(h, theirs, head) THEN "up_to_date" ELSE "normal"

-----------------------------------------------------------------------------
(* The commit graph.  Positions are from 0; Nowhere is 0xFFFFFFFF.         *)

Nowhere == -1

\* The sorted ids of the commits that the iterator gives: the loose ones.
GraphIds(h) == SetToSortSeq(h.loose, LAMBDA a, b : a < b)

\* The cells of a commit's two parents: calloc'ed, filled where the search finds it.
ParentCell(h, ids, c, p) ==
    LET up == h.parents[c]
    IN  IF p <= Len(up) /\ Contains(ids, up[p])
        THEN (CHOOSE i \in DOMAIN ids : ids[i] = up[p]) - 1 ELSE 0
\* Generations in the order of the ids, each from what its two cells hold by then.
Generations(h, ids) ==
    FoldLeft(LAMBDA gen, c :
                 LET Of(p) == LET pos == ParentCell(h, ids, c, p) + 1
                              IN  IF pos <= Len(gen) THEN gen[pos] ELSE 0
                 IN  Append(gen, 1 + IF Of(1) >= Of(2) THEN Of(1) ELSE Of(2)),
             <<>>, ids)

\* fastgit_commit_graph_write: cell 0 stands for "no parent" and for the first commit.
CommitGraphWrite(h) ==
    LET ids == GraphIds(h)
        Cell(c, p) == LET at == ParentCell(h, ids, c, p) IN IF at = 0 THEN Nowhere ELSE at
    IN  [ids |-> ids, gen |-> Generations(h, ids),
         up |-> [i \in DOMAIN ids |-> <<Cell(ids[i], 1), Cell(ids[i], 2)>>]]

\* fastgit_commit_graph_read, and the parents it gives for a commit of the file.
CommitGraphRead(file) == [count |-> Len(file.ids)] @@ file
GraphParents(g, i) == {g.ids[g.up[i][p] + 1] : p \in {q \in 1..2 : g.up[i][q] # Nowhere}}
=============================================================================
