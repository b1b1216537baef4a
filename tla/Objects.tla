------------------------------ MODULE Objects ------------------------------
(***************************************************************************)
(* Trees and commits as they are written and read: write_tree_recursive    *)
(* and fastgit_index_read_tree (index/index.c), fastgit_tree_add_entry     *)
(* (object/tree.c), commit_serialize_write and commit_parse_raw            *)
(* (object/commit.c).                                                      *)
(*                                                                         *)
(* An index entry is [path, oid, stage], a path the sequence of its        *)
(* components; names are numbers, strcmp their order.  A tree is the       *)
(* sequence of its entries [name, dir, oid]; objects are named by their    *)
(* content, so the id of a subtree is that subtree.  A commit's text is    *)
(* the sequence of its lines [key, val]; Blank is the empty line.  Ids are *)
(* the 32 bytes the readers ask for.                                       *)
(***************************************************************************)
EXTENDS Integers, Sequences, FiniteSets, SequencesExt

BadCommit == [bad |-> TRUE]

-----------------------------------------------------------------------------
(* Trees.                                                                  *)

\* fastgit_tree_add_entry: append, then sort by name.
AddEntryLast(tree, e) == Append(tree, e)
AddEntry(tree, e) ==
    LET Upto(x) == x.name <= e.name
        Beyond(x) == x.name > e.name
    IN  SelectSeq(tree, Upto) \o <<e>> \o SelectSeq(tree, Beyond)

\* The entries under a prefix, without it: only stage 0.
Under(entries, prefix) ==
    LET Here(e) == e.stage = 0 /\ IsStrictPrefix(prefix, e.path)
        here == SelectSeq(entries, Here)
    IN  [i \in DOMAIN here |->
            [path |-> SubSeq(here[i].path, Len(prefix) + 1, Len(here[i].path)), oid |-> here[i].oid]]

\* write_tree_recursive: the files first, then each subdirectory once, in order of
\* appearance.
RECURSIVE WriteTreeUnder(_, _)
WriteTreeUnder(entries, prefix) ==
    LET under == Under(entries, prefix)
        File(e) == Len(e.path) = 1
        Deeper(e) == Len(e.path) > 1
        files == SelectSeq(under, File)
        deeper == SelectSeq(under, Deeper)
        New(i) == \A j \in 1..(i - 1) : deeper[j].path[1] # deeper[i].path[1]
        dirs == [k \in DOMAIN SelectSeq([i \in DOMAIN deeper |-> i], New) |->
                    deeper[SelectSeq([i \in DOMAIN deeper |-> i], New)[k]].path[1]]
        fileEntries == [i \in DOMAIN files |->
            [name |-> files[i].path[1], dir |-> FALSE, oid |-> files[i].oid]]
        dirEntries == [i \in DOMAIN dirs |->
            [name |-> dirs[i], dir |-> TRUE,
             oid |-> WriteTreeUnder(entries, Append(prefix, dirs[i]))]]
    IN  FoldLeft(AddEntry, <<>>, fileEntries \o dirEntries)

\* fastgit_index_write_tree; an index with conflicts is refused.
WriteTree(entries) ==
    IF \E i \in DOMAIN entries : entries[i].stage # 0 THEN [ok |-> FALSE, tree |-> <<>>]
    ELSE [ok |-> TRUE, tree |-> WriteTreeUnder(entries, <<>>)]

\* The loop of fastgit_index_read_tree: trees still to expand on a stack, entries
\* found so far.
RECURSIVE Expand(_, _)
Expand(stack, found) ==
    IF stack = <<>> THEN found
    ELSE LET cur == Last(stack)
             IsDir(e) == e.dir
             IsFile(e) == ~e.dir
             dirs == SelectSeq(cur.tree, IsDir)
             files == SelectSeq(cur.tree, IsFile)
         IN  Expand(Front(stack)
                        \o [i \in DOMAIN dirs |->
                               [tree |-> dirs[i].oid, prefix |-> Append(cur.prefix, dirs[i].name)]],
                    found \o [i \in DOMAIN files |->
                               [path |-> Append(cur.prefix, files[i].name),
                                oid |-> files[i].oid, stage |-> 0]])
ReadTree(tree) == Expand(<<[tree |-> tree, prefix |-> <<>>]>>, <<>>)

-----------------------------------------------------------------------------
(* Commits.  A signature is reduced to its offset from UTC in minutes.     *)

Blank == [key |-> "", val |-> 0]
None == "none"
Line(k, v) == [key |-> k, val |-> v]
Optional(k, v) == IF v = None THEN <<>> ELSE <<Line(k, v)>>
Abs(n) == IF n < 0 THEN -n ELSE n

\* fastgit_signature_to_buf prints the minutes as they are, four digits wide;
\* parse_signature_buf reads hours and minutes.
TzText(off) == [minus |-> off < 0, digits |-> Abs(off)]
ParseTzUnsigned(t) == (t.digits \div 100) * 60 + (t.digits % 100)
ParseTz(t) == (IF t.minus THEN -1 ELSE 1) * ((t.digits \div 100) * 60 + (t.digits % 100))

\* commit_serialize_write: a blank line stands before the gpgsig line too.
SignatureLines(sig) == IF sig = None THEN <<>> ELSE <<Blank, Line("gpgsig", sig)>>
CommitText(c) ==
    <<Line("tree", c.tree)>>
    \o [i \in DOMAIN c.parents |-> Line("parent", c.parents[i])]
    \o <<Line("author", TzText(c.author)), Line("committer", TzText(c.committer))>>
    \o Optional("encoding", c.encoding)
    \o SignatureLines(c.sig)
    \o <<Blank>> \o c.message

\* How many of the lines from position i on have key k, without a break.
RunOf(text, i, k) ==
    LET stops == {j \in i..Len(text) : text[j].key # k}
    IN  (IF stops = {} THEN Len(text) + 1 ELSE CHOOSE j \in stops : \A m \in stops : j <= m) - i
HasKey(text, i, k) == i <= Len(text) /\ text[i].key = k

\* commit_parse_raw: tree, parents, author, committer, headers up to a blank line;
\* what follows is the message.
CommitParse(text) ==
    LET n == RunOf(text, 2, "parent")
        blanks == {j \in (n + 4)..Len(text) : text[j].key = Blank.key}
        blank == IF blanks = {} THEN Len(text) + 1
                 ELSE CHOOSE j \in blanks : \A m \in blanks : j <= m
        Header(k) == LET at == {j \in (n + 4)..(blank - 1) : text[j].key = k}
                     IN  IF at = {} THEN None ELSE text[CHOOSE j \in at : \A m \in at : j >= m].val
    IN  IF ~(HasKey(text, 1, "tree") /\ HasKey(text, n + 2, "author")
                /\ HasKey(text, n + 3, "committer"))
        THEN BadCommit
        ELSE [tree |-> text[1].val, parents |-> [i \in 1..n |-> text[i + 1].val],
              author |-> ParseTz(text[n + 2].val), committer |-> ParseTz(text[n + 3].val),
              encoding |-> Header("encoding"), sig |-> Header("gpgsig"),
              message |-> SubSeq(text, blank + 1, Len(text))]
=============================================================================
