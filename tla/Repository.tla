----------------------------- MODULE Repository -----------------------------
(***************************************************************************)
(* fastgit's commands as lists of the library calls they make: commit,     *)
(* branch, reset, checkout, stash, add, merge, rebase, fetch and push (of  *)
(* a path or over the wire), clone and bundles, each run by a process of   *)
(* its own on a repository that another process may be using, and that     *)
(* shares no lock with it.                                                 *)
(***************************************************************************)
EXTENDS Checkout

CONSTANTS Scenes,       \* what the processes run: functions from Procs to [cmd, home]
          MaxHaves,     \* objects a fetch request says it has (32)
          MaxFaults     \* failures and crashes in one behaviour

Commands == {"add", "commit", "branch", "delete", "reset", "checkout", "stash", "pop",
             "merge", "rebase", "fetch", "push", "clone", "bundle", "fetch_wire", "push_wire"}

ASSUME RepositoryConstants ==
    /\ Scenes \subseteq [Procs -> [cmd : Commands \cup {"none"}, home : Repos]]
    /\ MaxFaults \in Nat /\ MaxHaves \in Nat

\* The ids on command lines are of commits that Init puts in the local repository; the
\* peer lacks them, and rev_parse takes a full id without a look (repository.c:466).
ASSUME GivenAssumption ==
    \A scene \in Scenes, p \in Procs :
        scene[p].home = "peer" => scene[p].cmd \notin {"branch", "reset", "checkout", "merge", "rebase"}

VARIABLE packs          \* packs[r]: the objects that are stored in r's packs only

vars == <<proc, refVars, odb, packs, faults, marks, treeVars>>

\* The tag of a commit p makes, and the tree p stages.
Tag(p) == 10 + p
Staged(p) == <<0, 20 + p>>

-----------------------------------------------------------------------------
(* Commands.                                                               *)

LoadAndWrite(r) == <<Call("read_tree", r, ""), Call("index_write", r, "")>>

Add(r) == <<Call("stage", r, ""), Stops(Call("index_write", r, ""))>>
\* A commit of the index, which name is to point to.
CommitTo(r, name) == <<Stops(Call("write_tree", r, "")), Call("head", r, ""),
                       Call("commit", r, ""), Call("ref", r, name)>>
CommitIndex(r) == CommitTo(r, "HEAD")
Branch(r) == <<Gently(Call("ref", r, "topic"))>>
DeleteBranch(r) == <<Call("remove", r, "topic")>>
Reset(r) == <<Call("ref", r, "HEAD"), Ends(Call("peel", r, ""))>> \o LoadAndWrite(r)
CheckOut(r) == <<Stops(Call("peel", r, ""))>> \o LoadAndWrite(r)
               \o <<Call("checkout", r, "index"), Call("ref", r, "HEAD")>>
StashPush(r) == CommitTo(r, "stash") \o LoadAndWrite(r)
\* The stash is removed whatever became of the index and the working tree.
StashPop(r) == <<Stops(Call("lookup", r, "stash")), Ends(Call("peel", r, ""))>> \o LoadAndWrite(r)
               \o <<Call("checkout", r, "tree"), Call("remove", r, "stash")>>
\* The library calls read HEAD themselves; Decide goes on from there.
Merge(r) == <<Stops(Call("head", r, "")), Call("merge", r, "")>>
Rebase(r) == <<Stops(Call("head", r, "")), Call("rebase", r, "")>>

\* Objects first, references after.
Transfer(to) == <<Call("copy", to, ""), Call("copy_refs", to, "")>>
\* fetch_via_file ends with the branch the remote's HEAD names, found if it is bare.
Fetch(r) == Transfer(r) \o <<Call("remote_head", Other(r), ""), Call("ref", r, "main")>>
Push(r) == Transfer(Other(r))
Clone(r) == Fetch(r) \o <<Ends(Call("lookup", r, "HEAD")), Ends(Call("peel", r, ""))>>
            \o LoadAndWrite(r) \o <<Call("checkout", r, "tree")>>

\* Over HTTP or SSH: a fetch that stores objects and updates nothing, and a push.
FetchWire(r) == <<Stops(Call("advert", Other(r), "")), Stops(Call("request", r, ""))>>
\* Packing and collecting the references are the steps of a bundle, in the other order.
PackLocalOdb(r) == Stops(Call("bundle_pack", r, ""))
BuildReceivePackRequest(r) == Call("bundle_refs", r, "")
PushWire(r) == <<Stops(Call("advert", Other(r), "")), PackLocalOdb(r), BuildReceivePackRequest(r),
                 Stops(Call("receive", Other(r), ""))>>

BundleLate(r) == <<Stops(Call("bundle_pack", r, "")), Call("bundle_refs", r, ""),
                   Stops(Call("unbundle", Other(r), ""))>>
\* References first, objects after: fastgit_bundle_create; then the other side unbundles.
Bundle(r) == <<Call("bundle_refs", r, ""), Stops(Call("bundle_pack", r, "")),
               Stops(Call("unbundle", Other(r), ""))>>

Script(cmd, r) ==
    CASE cmd = "none" -> <<>>
      [] cmd = "add" -> Add(r)
      [] cmd = "commit" -> CommitIndex(r)
      [] cmd = "branch" -> Branch(r)
      [] cmd = "delete" -> DeleteBranch(r)
      [] cmd = "reset" -> Reset(r)
      [] cmd = "checkout" -> CheckOut(r)
      [] cmd = "stash" -> StashPush(r)
      [] cmd = "pop" -> StashPop(r)
      [] cmd = "merge" -> Merge(r)
      [] cmd = "rebase" -> Rebase(r)
      [] cmd = "fetch" -> Fetch(r)
      [] cmd = "push" -> Push(r)
      [] cmd = "clone" -> Clone(r)
      [] cmd = "fetch_wire" -> FetchWire(r)
      [] cmd = "push_wire" -> PushWire(r)
      [] cmd = "bundle" -> Bundle(r)

-----------------------------------------------------------------------------
(* Objects.                                                                *)

\* The processes that copy r's objects and have made their list of them: what r gains
\* from now on they do not copy.
Copying(r) == {q \in Procs : /\ proc[q].cmd \in {"fetch", "clone", "push"} /\ proc[q].list # {}
                             /\ (proc[q].cmd = "push") = (proc[q].home = r)}
\* Objects are stored, less one whose read or write failed without anybody asking.  An object
\* that only a pack had gets a loose file too: fastgit_odb_write looks for none but that.
Store(r, new) ==
  /\ packs' = [packs EXCEPT ![r] = @ \ new]
  /\ \/ /\ odb' = [odb EXCEPT ![r] = @ \cup new] /\ Fine
        /\ IF Copying(r) # {} /\ ~new \subseteq odb[r] \cup odb[Other(r)]
           THEN Mark(<<"late", r>>) ELSE UNCHANGED marks
     \/ \E lost \in new \ odb[r] : /\ odb' = [odb EXCEPT ![r] = @ \cup (new \ {lost})]
                                    /\ Fault /\ Mark(<<"dropped", r>>)

\* fastgit_index_add: the blob is stored, and recorded in any case.
Stage(p) ==
    /\ Doing(p, "stage", "call")
    /\ Store(Do(p).repo, {Staged(p)})
    /\ Becomes(p, Returned([proc[p] EXCEPT !.mem = Staged(p)]))
    /\ UNCHANGED <<refVars, treeVars>>

\* fastgit_index_write_tree, whose failure stops the command.
WriteTrees(p) ==
    /\ Doing(p, "write_tree", "call")
    /\ \/ Becomes(p, Returned(proc[p])) /\ Fine
       \/ Becomes(p, Failed(proc[p])) /\ Fault
    /\ UNCHANGED <<refVars, odb, packs, marks, treeVars>>

\* fastgit_odb_write of the commit: child of what HEAD gave, a root if it gave nothing.
MakeCommit(p) ==
    /\ Doing(p, "commit", "call")
    /\ LET c == Append(proc[p].head, Tag(p))
       IN  Store(Do(p).repo, {c}) /\ Becomes(p, Returned([proc[p] EXCEPT !.val = c]))
    /\ UNCHANGED <<refVars, treeVars>>

\* fastgit_object_lookup of a commit, for its tree.
Peel(p) ==
    /\ Doing(p, "peel", "call")
    /\ Becomes(p, IF proc[p].val \in odb[Do(p).repo] THEN Returned(proc[p]) ELSE Failed(proc[p]))
    /\ Fine /\ UNCHANGED <<refVars, odb, packs, marks, treeVars>>

-----------------------------------------------------------------------------
(* Merge and rebase.                                                       *)

IsAncestorEither(r, a, d) == IsPrefix(a, d) \/ IsPrefix(d, a)
\* is_ancestor: the walk goes on as long as the commits can be read.
IsAncestor(r, a, d) == IsPrefix(a, d) /\ {c \in History(d) : Len(c) > Len(a)} \subseteq odb[r]

FastForwardLax(s) ==
    <<Stops(Call("read_tree", s.home, "")), Stops(Call("index_write", s.home, "")),
      Gently(Call("checkout", s.home, "tree")), Stops(Call("ref", s.home, "HEAD"))>>
\* Index, working tree, then HEAD; fastgit_merge ignores what the checkout returned.
FastForward(s) ==
    LET checkout == Gently(Call("checkout", s.home, "tree"))
    IN  <<Stops(Call("read_tree", s.home, "")), Stops(Call("index_write", s.home, "")),
          IF s.cmd = "rebase" THEN Stops(checkout) ELSE checkout,
          Stops(Call("ref", s.home, "HEAD"))>>

\* fastgit_merge and fastgit_rebase once HEAD is known.
Decide(p) ==
    /\ Doing(p, "merge", "call") \/ Doing(p, "rebase", "call")
    /\ LET s == proc[p]
           h == s.head
           Runs(calls) == [s EXCEPT !.todo = calls, !.at = "call"]
       IN  Becomes(p, CASE h = NoCommit -> Runs(<<Stops(Call("ref", s.home, "HEAD"))>>)
                        [] h = s.val -> Ended(s, "ok")
                        [] h # NoCommit /\ h # s.val /\ IsAncestor(s.home, h, s.val) -> Runs(FastForward(s))
                        [] OTHER -> Ended(s, IF IsAncestor(s.home, s.val, h) THEN "ok" ELSE "error"))
    /\ Fine /\ UNCHANGED <<refVars, odb, packs, marks, treeVars>>

-----------------------------------------------------------------------------
(* Moving objects and references between repositories.                     *)

\* fastgit_odb_iterator_new lists the loose objects, and an object that a pack alone has is
\* left out, though every read finds it there.
LooseObjects(r) == odb[r] \ packs[r]
\* A list is made of r's objects.
MarkUnlisted(r) == IF packs[r] = {} THEN UNCHANGED marks ELSE Mark(<<"unlisted", r>>)

\* The objects of the source are listed, none if it cannot open the directory; then they
\* are copied.
CopyList(p) ==
    /\ Doing(p, "copy", "call")
    /\ LET Copies(S) == Becomes(p, [Goes(proc[p], "copy") EXCEPT !.list = S])
           from == Other(Do(p).repo)
       IN  \/ Copies(LooseObjects(from)) /\ Fine /\ MarkUnlisted(from)
           \/ Copies({}) /\ Fault /\ Mark(<<"dropped", from>>)
    /\ UNCHANGED <<refVars, odb, packs, treeVars>>
CopyObjects(p) ==
    /\ Doing(p, "copy", "copy")
    /\ Store(Do(p).repo, proc[p].list) /\ Becomes(p, Returned(proc[p]))
    /\ UNCHANGED <<refVars, treeVars>>

\* The calls of a loop over names: a lookup in from, then call at to.
RefPairs(from, names, call, to) ==
    LET Pair(n) == IF n \in names THEN <<Call("lookup", from, n), Call(call, to, n)>> ELSE <<>>
    IN  Pair("main") \o Pair("topic")
Loop(s, calls) == IF calls \o Tail(s.todo) = <<>> THEN Ended(s, "ok")
                  ELSE [s EXCEPT !.todo = calls \o Tail(s.todo)]
\* fastgit_reference_list of the source, and its loop.
CopyRefs(p) ==
    /\ Doing(p, "copy_refs", "call")
    /\ LET to == Do(p).repo
       IN  Becomes(p, Loop(proc[p], RefPairs(Other(to), Listed(Other(to)), "ref", to)))
    /\ Fine /\ UNCHANGED <<refVars, odb, packs, marks, treeVars>>
\* The remote's HEAD is resolved, then the branch it names is looked up again.
RemoteHead(p) ==
    /\ LET r == Do(p).repo
       IN  \/ /\ Doing(p, "remote_head", "call")
              /\ Becomes(p, IF Resolve(r, "HEAD") # NoCommit THEN Goes(proc[p], "branch")
                            ELSE Returned([proc[p] EXCEPT !.val = NoCommit]))
           \/ /\ Doing(p, "remote_head", "branch")
              /\ Becomes(p, Returned([proc[p] EXCEPT !.val = Resolve(r, "main")]))
    /\ Fine /\ UNCHANGED <<refVars, odb, packs, marks, treeVars>>

\* fastgit_bundle_create: the references that are found go in the header.
BundleRefs(p) ==
    /\ Doing(p, "bundle_refs", "call")
    /\ LET r == Do(p).repo IN Becomes(p, Loop(proc[p], RefPairs(r, Listed(r), "bundle_ref", r)))
    /\ Fine /\ UNCHANGED <<refVars, odb, packs, marks, treeVars>>
BundleRef(p) ==
    /\ Doing(p, "bundle_ref", "call")
    /\ LET new == IF proc[p].val = NoCommit THEN <<>> ELSE <<<<Do(p).name, proc[p].val>>>>
       IN  Becomes(p, Returned([proc[p] EXCEPT !.bundle = @ \o new]))
    /\ Fine /\ UNCHANGED <<refVars, odb, packs, marks, treeVars>>
\* Then every loose object is packed, less those whose reading or writing failed; a file that
\* cannot be created ends the command.
BundlePack(p) ==
    /\ Doing(p, "bundle_pack", "call")
    /\ LET all == LooseObjects(Do(p).repo)
           Packs(S) == Becomes(p, Returned([proc[p] EXCEPT !.list = S]))
       IN  \/ Packs(all) /\ Fine /\ MarkUnlisted(Do(p).repo)
           \/ \E lost \in all : Packs(all \ {lost}) /\ Fault /\ Mark(<<"dropped", Do(p).repo>>)
           \/ Becomes(p, Failed(proc[p])) /\ Fault /\ UNCHANGED marks
    /\ UNCHANGED <<refVars, odb, packs, treeVars>>

\* fastgit_bundle_unbundle: the objects, then the references of the header; nothing if
\* the pack cannot be read.
Unbundle(p) ==
    /\ Doing(p, "unbundle", "call")
    /\ LET b == proc[p].bundle
           calls == [i \in 1..(2 * Len(b)) |-> Call(IF i % 2 = 1 THEN "bundled" ELSE "ref",
                                                    Do(p).repo, b[(i + 1) \div 2][1])]
       IN  \/ Store(Do(p).repo, proc[p].list) /\ Becomes(p, Loop(proc[p], calls))
           \/ Becomes(p, Failed(proc[p])) /\ Fault /\ UNCHANGED <<odb, packs, marks>>
    /\ UNCHANGED <<refVars, treeVars>>
Bundled(p) ==
    /\ Doing(p, "bundled", "call")
    /\ \E i \in DOMAIN proc[p].bundle :
          /\ proc[p].bundle[i][1] = Do(p).name
          /\ Becomes(p, Returned([proc[p] EXCEPT !.val = proc[p].bundle[i][2]]))
    /\ Fine /\ UNCHANGED <<refVars, odb, packs, marks, treeVars>>

-----------------------------------------------------------------------------
(* Over the wire: the other side is a git server.                          *)

\* fastgit_pktline_parse_refs of what the server advertises.
Advert(p) ==
    /\ Doing(p, "advert", "call")
    /\ \/ /\ Becomes(p, Returned([proc[p] EXCEPT !.adv = [n \in Branches |-> Resolve(Do(p).repo, n)]]))
          /\ Fine
       \/ Becomes(p, Failed(proc[p])) /\ Fault
    /\ UNCHANGED <<refVars, odb, packs, marks, treeVars>>

Wants(p) == {proc[p].adv[n] : n \in Branches} \ {NoCommit}
\* The first objects the iterator comes to, in the order of the directories: any.
Haves(r) == kSubset(Min({MaxHaves, Cardinality(LooseObjects(r))}), LooseObjects(r))
Histories(C) == UNION {History(c) : c \in C}
\* git upload-pack: who has a commit is taken to have its history.
Answer(r, wants, haves) == odb[r] \cap (Histories(wants) \ Histories(haves \cap odb[r]))

AfterUnpack(s) == IF s.list = {} THEN Returned(s) ELSE Goes(s, "unpack")
\* build_fetch_request wants every reference and has any object; then the pack comes,
\* or the request fails.
Request(p) ==
    /\ Doing(p, "request", "call")
    /\ LET r == Do(p).repo
           Receives(haves) ==
              /\ Becomes(p, AfterUnpack([proc[p] EXCEPT !.list = Answer(Other(r), Wants(p), haves)]))
              /\ marks' = marks \cup {<<"want", c>> : c \in Wants(p)}
       IN  \/ Wants(p) = {} /\ Becomes(p, Returned(proc[p])) /\ Fine /\ UNCHANGED marks
           \/ Wants(p) # {} /\ (\E haves \in Haves(r) : Receives(haves)) /\ Fine
           \/ Wants(p) # {} /\ Receives({}) /\ Fault
           \/ Wants(p) # {} /\ Becomes(p, Failed(proc[p])) /\ Fault /\ UNCHANGED marks
    /\ UNCHANGED <<refVars, odb, packs, treeVars>>
\* unpack_pack_to_odb, object by object; a stream that breaks off ends it without error.
UnpackOne(p) ==
    /\ Doing(p, "request", "unpack")
    /\ \/ \E c \in proc[p].list : /\ Store(Do(p).repo, {c})
                                   /\ Becomes(p, AfterUnpack([proc[p] EXCEPT !.list = @ \ {c}]))
       \/ Becomes(p, Returned(proc[p])) /\ Fault /\ UNCHANGED <<odb, packs, marks>>
    /\ UNCHANGED <<refVars, treeVars>>

\* The value that lines give to reference n, if one does.
Sent(lines, n) == {e[2] : e \in {x \in lines : x[1] = n}}
\* git receive-pack: each reference is moved if it is still what was advertised, its new
\* history is there and nothing else forbids it.  fastgit_push does not read the report:
\* a request that got through is a success, one that failed may have been carried out.
\* (The server unpacks what it gets, up to 99 objects.)
Receive(p) ==
    /\ Doing(p, "receive", "call")
    /\ LET r == Do(p).repo
           s == proc[p]
           all == odb[r] \cup s.list
           fit == {e \in ToSet(s.bundle) : Resolve(r, e[1]) = s.adv[e[1]] /\ History(e[2]) \subseteq all}
           Serves(end) ==
              \E done \in SUBSET fit :
                 /\ odb' = [odb EXCEPT ![r] = IF done = {} THEN @ ELSE all]
                 /\ loose' = [loose EXCEPT ![r] = [n \in Names |->
                                IF Sent(done, n) = {} THEN @[n] ELSE CHOOSE c \in Sent(done, n) : TRUE]]
                 /\ held' = [held EXCEPT ![r] = [n \in Names |-> @[n] \cup Sent(done, n)]]
                 /\ proc' = [q \in Procs |->
                       CASE q = p -> end
                         [] q # p /\ Doing(q, "ref", "write") /\ ThisRef(q)[1] = r /\ Sent(done, ThisRef(q)[2]) # {} ->
                               [proc[q] EXCEPT !.lost = TRUE]
                         [] OTHER -> proc[q]]
                 /\ IF done = {} THEN UNCHANGED marks ELSE Mark(<<"unlogged", "server">>)
       IN  \/ s.bundle = <<>> /\ Becomes(p, Failed(s)) /\ Fine /\ UNCHANGED <<odb, loose, held, marks>>
           \/ s.bundle # <<>> /\ Serves(Returned(s)) /\ Fine
           \/ s.bundle # <<>> /\ Serves(Failed(s)) /\ Fault
    /\ UNCHANGED <<packed, logs, packs, treeVars>>

-----------------------------------------------------------------------------
(* Behaviours.                                                             *)

\* A process is killed between any two steps; files stay as they are.
Crash(p) ==
    /\ proc[p].todo # <<>> /\ Fault
    /\ Becomes(p, Ended(proc[p], "crashed"))
    /\ marks' = marks \cup {<<"unlogged", "crash">>}
                      \cup (IF Doing(p, "ref", "write") THEN {<<"cut", ThisRef(p)>>} ELSE {})
    /\ UNCHANGED <<refVars, odb, packs, treeVars>>

\* given: the commit that the command line names by its id.
Started(c, given) == IF c.cmd = "none" THEN Idle(c.cmd, c.home, NoCommit, "ok")
                     ELSE [Idle(c.cmd, c.home, given, "none") EXCEPT !.todo = Script(c.cmd, c.home)]

\* The branch is at the root or one commit ahead of it, in a file or, after git packed
\* it, in packed-refs only; topic exists or not.  A clone, and perhaps a fetch, starts
\* from an empty repository, as fastgit_repository_init leaves it.  After git's gc, all
\* objects are in packs.  (It runs between commands.)
Importers == {"clone", "fetch_wire"}
Init ==
    \E scene \in Scenes, main \in {<<0>>, <<0, 2>>}, topic \in {Absent, <<0, 1>>},
       away, fresh, gc \in BOOLEAN, given \in {<<0>>, <<0, 1>>} :
        LET none == [n \in Names |-> Absent]
        IN  /\ scene[1].cmd = "clone" => fresh
            /\ fresh => main = <<0>> /\ topic = Absent /\ ~away
                        /\ \A p \in Procs : scene[p].home = "local" => scene[p].cmd \in Importers \cup {"none"}
            /\ given = <<0>> => scene[1].cmd \in {"merge", "rebase"}
            /\ proc = [p \in Procs |-> Started(scene[p], IF p = 1 THEN given ELSE <<0, 3>>)]
            /\ loose = [local |-> IF fresh THEN none
                                  ELSE [main |-> IF away THEN Absent ELSE main, topic |-> topic,
                                        stash |-> <<0, 3>>],
                        peer |-> [none EXCEPT !.main = <<0, 4>>]]
            /\ packed = [r \in Repos |-> [n \in Names |->
                            IF away /\ r = "local" /\ n = "main" THEN main ELSE NoCommit]]
            /\ logs = [r \in Repos |-> [n \in Names \cup {"HEAD"} |-> <<>>]]
            /\ held = [r \in Repos |-> [n \in Names |-> {loose[r][n]} \ {Absent}]]
            /\ odb = [local |-> IF fresh THEN {} ELSE {<<0>>, <<0, 1>>, <<0, 2>>, <<0, 3>>},
                      peer |-> {<<0>>, <<0, 4>>}]
            /\ packs = [r \in Repos |-> IF gc THEN odb[r] ELSE {}]
            /\ faults = MaxFaults /\ marks = {}
            /\ disk = [i \in {0} \cup Procs |-> IF i = 0 /\ ~fresh THEN Content(main) ELSE <<>>]
            /\ idx = [local |-> IF fresh THEN NoFile ELSE 0, peer |-> NoFile]
            /\ lock = [r \in Repos |-> NoFile]
            /\ work = [r \in Repos |-> [x \in Paths |->
                          IF r = "local" /\ ~fresh /\ x \in Files(main) THEN main ELSE Absent]]

Next == \E p \in Procs :
    \/ RefNext(p) /\ UNCHANGED <<packs, treeVars>>
    \/ TreeNext(p) /\ UNCHANGED packs
    \/ Stage(p) \/ WriteTrees(p) \/ MakeCommit(p) \/ Peel(p) \/ Decide(p)
    \/ CopyList(p) \/ CopyObjects(p) \/ CopyRefs(p) \/ RemoteHead(p)
    \/ BundleRefs(p) \/ BundleRef(p) \/ BundlePack(p) \/ Unbundle(p) \/ Bundled(p)
    \/ Advert(p) \/ Request(p) \/ UnpackOne(p) \/ Receive(p)
    \/ Crash(p)

Spec == Init /\ [][Next]_vars

-----------------------------------------------------------------------------
(* Properties.                                                             *)

Commits == Seq(Nat) \ {<<>>}
Marked(kind) == \E m \in marks : m[1] = kind
Quiet == \A p \in Procs : proc[p].todo = <<>>

\* The state is what it should be; in particular a reference that was looked up is a
\* commit, never what a file truncated by another process holds (repository.c:281).
TypeOK ==
    /\ \A p \in Procs : LET s == proc[p] IN
          /\ {s.val, s.head, s.old, s.mem} \subseteq Commits \cup {NoCommit}
          /\ s.result \in {"none", "ok", "error", "crashed"}
          /\ s.todo = <<>> <=> s.result # "none"
          /\ s.fd \in DOMAIN disk \cup {NoFile}
    /\ \A r \in Repos : /\ odb[r] \subseteq Commits /\ packs[r] \subseteq odb[r]
                         /\ {idx[r], lock[r]} \subseteq DOMAIN disk \cup {NoFile}
                         /\ \A n \in Names : loose[r][n] \in Commits \cup {Absent, Empty}
    /\ faults \in 0..MaxFaults

\* A reference's file is empty only between the two steps of a live writer, or after
\* one that was killed or whose write failed there (repository.c:400, where docs/index.html:270
\* promises references "written atomically").  What it names
\* is stored with its whole history, and so is what the index file lists: unless an
\* object's failed write was ignored, or the repository it was fetched or pushed from
\* gained commits after its objects were listed (protocol.c:795), or something was copied
\* or bundled from a repository some of whose objects git had packed: the list has loose
\* objects only, the references go along, and the command returns OK (odb.c:631).
\* A bundle of loose objects, which takes the references first, is complete whatever comes
\* in meanwhile (bundle.c:123).  What fetches over the wire asked for is stored with its
\* history when all of them are done, however they overlapped, though each tells the server
\* of commits whose parents another is still unpacking; not after a failure, which leaves
\* such a commit for good (protocol.c:480), nor where a commit was made on top of one that
\* such an incomplete copy left out.
RefsClosed ==
    \A r \in Repos :
        /\ \A n \in Names :
              /\ loose[r][n] = Empty => \/ \E p \in Procs : Doing(p, "ref", "write") /\ ThisRef(p) = <<r, n>>
                                       \/ <<"cut", <<r, n>>>> \in marks
              /\ IsCommit(loose[r][n]) /\ ~Marked("dropped") /\ ~Marked("late") /\ ~Marked("unlisted") =>
                    History(loose[r][n]) \subseteq odb[r]
        /\ idx[r] # NoFile /\ ~Marked("dropped") =>
              \A c \in ToSet(disk[idx[r]]) : c \in odb[r] \cup {NoCommit}
        /\ Quiet /\ faults = MaxFaults /\ ~Marked("late") /\ ~Marked("unlisted") =>
              \A m \in marks : m[1] = "want" => History(m[2]) \subseteq odb["local"]

\* Once every command has ended, each commit a reference ever named is still its value
\* or stands in its log or HEAD's, whatever the order in which the commands went:
\* unless a log could not be opened or a process was killed (repository.c:398).
Logged(r, n) == UNION {{e[1], e[2]} : e \in ToSet(logs[r][n])
                                         \cup (IF n = "main" THEN ToSet(logs[r]["HEAD"]) ELSE {})}
LogsRemember ==
    Quiet /\ ~Marked("unlogged") =>
        \A r \in Repos, n \in Names : held[r][n] \subseteq {loose[r][n]} \cup Logged(r, n)

\* branch, commit, merge and rebase never replace a value they have seen by one that
\* does not descend from it.  (They can replace one they have not: another process
\* wrote it after they looked, or it stands in packed-refs only, where a lookup of
\* HEAD does not find it; repository.c:302, 395, merge.c:60.)
NoLostCommits ==
    [][\A p \in Procs :
          (Doing(p, "ref", "open") /\ proc'[p].at = "write" /\ IsCommit(RefFile(p))
              /\ proc[p].cmd \in {"branch", "commit", "merge", "rebase"})
          => proc[p].seen # RefFile(p) \/ IsPrefix(RefFile(p), proc[p].val)]_vars

\* The index file is always the whole of one index, through failed writes, killed
\* writers and the locks they leave, unless two processes had index.lock open at once:
\* the lock excludes nobody (index.c:495).
IndexWhole ==
    \A r \in Repos : idx[r] # NoFile /\ <<"shared", r>> \notin marks =>
        disk[idx[r]] # <<>> /\ disk[idx[r]] = Content(disk[idx[r]][1])

\* A merge or rebase that had the repository to itself and returned an error has not
\* moved the branch; one that has moved it forward has written that commit's index,
\* and the working tree shows its paths as current - after a merge only if no step
\* failed, since it ignores the checkout's error - with the paths the commit removed
\* left behind as untracked (merge.c:72-86, rebase.c:70-79, worktree.c:217).
CheckedOut ==
    \A p \in Procs :
        LET s == proc[p]
            r == s.home
            h == loose[r]["main"]
            shows == Status(h, work[r])
        IN  /\ s.cmd \in {"merge", "rebase"} /\ s.result \in {"ok", "error"}
            /\ \A q \in Procs \ {p} : proc[q].cmd = "none"
            => /\ s.result = "error" => held[r]["main"] \subseteq {h}
               /\ packed[r]["main"] = NoCommit /\ Cardinality(held[r]["main"]) > 1 =>
                    /\ disk[idx[r]] = Content(h)
                    /\ s.cmd = "rebase" \/ faults = MaxFaults =>
                          \A x \in Files(h) : shows[x] = "current"
                    /\ \A x \in Paths \ Files(h) : shows[x] = "new"
=============================================================================
