# A verification project for fastgit

fastgit is a Git-compatible version control library and command line in C (`src/src/`, about 12
700 lines). This directory holds TLA+ modules of the parts of it that carry state and are hard
to test, TLC configurations that check them on small instances, and proofs that TLAPS checks
for every instance.

Each definition that models code is tied to its source lines in `PROJECT.json` ("map"); every
property of a passing run has a mutant there, a plausible bug that the property catches.

## The system

| component | state | operations | interacts with |
|---|---|---|---|
| thread pool (`platform/platform.c`) | mutex, two condition variables, a ring of tasks, `count`, `pending`, `shutdown` | new, submit, wait, free; `thread_worker` | used by `index_add_many`, `fastgit_status`, the pack writer |
| staging area (`index/index.c`) | array of entries, open-address hash table from (path, stage) to position, `sorted`, `dirty`; the index file | add, add_many, add_from_buffer, remove, clear, find, conflict_add/remove, read_tree, write_tree, open, write | writes blobs and trees to the object store |
| object store (`odb/odb.c`) | loose files, temporary files, per-process object cache | write, read, exists, delete, iterate, pack, gc | io_uring backend, packs, alternates |
| io_uring, kqueue, IOCP (`platform/`) | a submission ring | submit, wait | used by `odb_write` (io_uring only) |
| packs (`pack/packfile.c`, `midx.c`, `delta.c`) | pack under construction, sorted index, delta chains | create, add (also in parallel), write, find, read | thread pool, object store |
| references (`repository.c`) | loose refs, packed-refs, HEAD, reflogs | create, update, remove, lookup, list, rev_parse, clone | merge, rebase, fetch, push |
| merge, rebase (`merge/`) | none of their own | ancestry walk, analysis, fast-forward (a true merge is `EUNSUPPORTED`) | references, index, working tree, object store |
| bundles (`bundle/bundle.c`) | one file: references and a pack | create, unbundle, verify | references, object store, packs |
| worktree (`worktree/`) | files and their cached stat data | checkout, status, diff, linked worktrees | index, thread pool |
| network (`network/protocol.c`, `smart_http.c`, `ssh.c`) | retry budget, circuit breaker, load counters of a remote | fetch, push, ls | object store, references |
| objects, commit graph (`object/`) | none, and one file | serialise, parse, compute generations | object store |
| command line (`cli/`) | none | one sequence of library calls per command; most results are dropped | everything above |
| hashes, submodules, pqc, SIMD, arena | little or none | compute | |

What is hard here, and what makes each part correct:

* **Concurrency**: worker threads and clients meet in the thread pool, processes meet in the
  files of a repository, calls meet in the counters of a remote. Correct means: each task runs
  once, nobody sleeps with work to do, racing writers of an object store a whole object,
  counters account for every call.
* **Failure**: a process is killed or power is lost between any two system calls; a system call
  fails. Correct means: no cut object under its final name, an acknowledged object survives, a
  failure is reported.
* **Long sequences**: the index keeps two structures in agreement through growth, tombstones,
  moves and sorts. Correct means: to its caller it is a map.
* **Many files, no lock**: a command changes objects, index, working tree and references one
  system call after the other, and another command may run in between. Correct means: what a
  reference names is stored, what it named is remembered, the index is whole.
* **Formats**: the same data is written by one function and read by three others, with their
  own limits. Correct means: what is read is what was written.
* **Time**: budgets refill, circuits expire, retries nest. Correct means: bounded retries, a
  circuit that opens and closes on the configured streaks, calls that return.

`PROJECT.json` lists these as hazards at the lines where they bite.

## Modules

| module | models | abstract specification |
|---|---|---|
| `ThreadPool` | the thread pool (POSIX build) | `TaskQueue`, a FIFO queue with workers |
| `ThreadPoolProofs` | theorems about `ThreadPool` | |
| `ThreadPoolRefinement` (extends it) | theorem: `ThreadPool` implements `TaskQueue` | |
| `Index` | the array and hash table of the staging area | `IndexMap`, a map with a saved copy |
| `IndexProofs` | theorems about `Index` | |
| `Odb` | the loose object store under several processes and crashes | stated as properties |
| `OdbProofs` | theorems about `Odb` | |
| `Remote` | retry budget, circuit breaker and load counters of one remote | stated as properties |
| `RemoteProofs` | theorems about `Remote` | |
| `Refs` | references, HEAD, packed-refs, reflogs, system call by system call | stated as properties |
| `Checkout` (extends `Refs`) | the index file and its lock, checkout, status | stated as properties |
| `Repository` (extends `Checkout`) | 16 commands as sequences of library calls; merge and rebase, fetch, push, clone, bundles | stated as properties |
| `RepositoryProofs` | theorems about `Repository`: types, descent, reflogs | |
| `RepositoryIndexProofs` (extends it) | theorems: the index file; merge and rebase | |
| `RepositoryClosedProofs` (extends that) | theorem: what references and the index file name is stored | |
| `Delta` | `delta_compress` and the functions that apply a delta | the target text |
| `PackIndex` | pack and multi-pack index: create, load, find | the set of records |
| `PackStream` | reading a pack by its index or in one pass; taking it out of a server's answer | the objects put in |
| `PackWriter` | adding objects to a pack, one by one or as a batch | the bytes in the file |
| `Ancestry` | the two ancestry walks, merge analysis, `rev_parse ~N`, the commit graph | reachability |
| `Objects` | trees and commits, written and read back | the identity |
| `Formats` (extends the six above) | one call of theirs per behaviour, input and output side by side | |
| `MC*` | instances for TLC | |

### ThreadPool

The variables are the fields of `struct fastgit_thread_pool`, the place of each thread, and two
history variables (`accepted`, `runs`). A critical section is one action when nobody can see
its middle. The one that can be seen is the worker's test of `count == 0 && !shutdown` before
`pthread_cond_wait`: `fastgit_thread_pool_free` sets `shutdown` and broadcasts *without the
mutex*, so `WorkerMustWait` and `WorkerWait` are two actions, with the mutex held in between,
and `FreeShutdown`, `FreeBroadcast` and `FreeJoin` are three. Condition variables may wake
spuriously. Clients obey the API: the owner frees the pool when no client is inside a call.

Failed allocation and failed `pthread_create` are not modelled.

### Index

`ix` is the struct: cells, count, table, sorted, dirty. Probing, insertion with rebuild,
tombstones and the swap-with-last removal are translated as they are. Two constants of the code
are parameters, so that a table of three entries grows: `MinCap` is the 1024 of the first
table, `Slack` the 64 in `count*2+64`. The hash function is any function in `Hashes`. Reading a
path that was freed gives what was there or something else (`intact`). The loops of the code
(the doubling of the capacity, the filling of a new table, the appends of `read_tree` and
`conflict_add`) are recursive functions.

`read_tree`, `conflict_add`, `conflict_remove` and the sort of `write_tree` change the array
behind the table's back. The history variable `stale` counts the calls since array and table
were last in step; the positive properties speak of `stale = 0`, and the two violation runs of
what happens otherwise (and of the one way to get there without such a call: a rebuild in the
middle of a removal).

### Odb

A process writes an object by the system calls of `fastgit_odb_write`, one action each: cache
lookup and directory, `stat`, `open(O_EXCL)` of `<object>.tmp.<pid>`, `write`, `fsync`,
`rename`, directory `fsync` and cache. Both builds are there: with `FASTGIT_HAVE_IO_URING` the
write and fsync are one linked submission whose results nobody looks at. A file is absent,
partial, complete in the page cache, or complete on the medium; power loss keeps any subset of
the entries not yet synced and of the data not yet synced. The fan-out directory `objects/ab`
is made by the first write that needs it (`odb.c:68`), and nothing ever syncs `objects/`: a
power loss takes a directory that is not on the medium yet together with what is in it, or
finds it there. A pid that comes back is the same process name. The object cache is a set that
a write may fail to grow (8 probes, then the object is not cached) and that nothing shrinks:
`fastgit_odb_delete` leaves it alone.

Packs, alternates, `exists`, the iterator, `odb_pack` and `odb_gc` are not in this module; a
read counts only where it changes the cache. (`Repository` has packs and the iterator.)

### Refs, Checkout, Repository

A process runs one command. The command is `todo`, the list of library calls it still has to
make, in the order of the code, each with what its caller does about an error (`onerr`: go on,
stop with the error, or end as if all were well) - the command line drops most results, and
that decides what survives a failure. A call is carried out one system call or file read per
action (`at` says where it is): `reference_create` is stat, lookup of the old value,
`fopen("w")`, write, log; `index_write` is open of the lock, write, rename; a checkout is open
and write for each path. Processes interleave between any two actions. One failing system call
or one kill may happen anywhere (`faults`).

The data is abstract. A commit is the sequence of tags from its root, so its ancestors are its
prefixes; in `odb` it stands for itself, its tree and its blobs. An index or a tree is the
commit it belongs to, its bytes are that commit once for the header and once per path, which is
enough to tell a mixture of two. Inodes are kept apart from names, since `rename` and `unlink`
of a file that another process has open matter here. Two repositories exist, `local` and
`peer`. `held` (what each reference has ever named) and `marks` (which known weakness has
struck) are history: only properties read them.

Commands: add, commit, branch, branch deletion, reset, checkout, stash push and pop, merge,
rebase, fetch and push of a local path and over the wire, clone, and a bundle created here and
unbundled at the peer. Over the wire the other side is a git server, modelled by what the code
expects of it: it sends the history of what is wanted less the history of what the client says
it has, and moves a reference only from the advertised value to a commit whose history it has.
Objects are only added, and writing trees, copying the listed objects, packing and unpacking
are one step each (`Odb` and `PackWriter` look inside); a failure in one of them loses one
object, which nobody notices. Unpacking what a server sent is one step per object.

`packs` says which objects of a repository are in packs only, as git's `gc` leaves them:
initially none or all of what a repository has. Reads find them. `fastgit_odb_iterator_new`
(`odb.c:631`) walks the loose objects only, and with it all that lists objects: the copies of
fetch, push and clone, the packs of bundles and pushes, the `have` lines of a fetch
(`LooseObjects`).

### Delta, PackIndex, PackStream, PackWriter, Ancestry, Objects, Formats

Pure functions of the code as operators. `Formats` has one action per question: it picks an
input, calls the code, and keeps both in `job`; its invariants compare the result with a
reference definition. Sizes that are constants of the code are parameters (stack of 256, depth
32, 127 bytes of literal, `2^31`, the `2^32` at which sums wrap), so that small inputs reach
them. What the code reads and does not write is there as git writes it (`GitIndex`, packs with
20-byte ids). A call that frees what is still used, or twice, leaves a pack `broken`, of which
nothing more is said. Bytes are kept where
lengths decide something (offsets in a pack, the 32 bytes kept free for a closing hash);
otherwise texts are sequences of lines, instructions or packets. These modules use RECURSIVE
operators and are for TLC only.

### Remote

One `fastgit_remote_t` and the calls on it, `fastgit_fetch_remote` and `fastgit_remote_ls`:
admission (circuit, load counters), requests with retries that consume the shared budget, the
loop at the end of fetch that pays and sleeps but retries nothing, the report to the circuit,
the release of the place. Each helper of `protocol.c` is one step. The history variable `spent`
has, for each tick, what had been paid from the budget by then; the difference of two of its
values is what was paid in between. The code takes no lock;
threads that share a remote need one, and the model assumes it. `fastgit_fetch` and
`fastgit_push` create a remote per call, so for them the counters never accumulate.

## Runs

| run | result | shows |
|---|---|---|
| `pool` | pass | tasks run once and in FIFO order, `pending` is exact, no task is left with every worker asleep, wait returns and sees all tasks done, free drains; the pool implements `TaskQueue` |
| `free` | **violation** of `FreeReturns` | the lost wake-up of the unlocked shutdown |
| `index_table` | pass | array and table agree, slots point to live cells, each call is a step of `IndexMap` |
| `index_duplicates` | **violation** of `NoDuplicateKeys` | `read_tree` then `add` of the same path |
| `index_regrow` | **violation** of `FindReturnsLive` | `remove` that rebuilds the table leaves a slot of a dead cell |
| `odb_store` | pass | two processes, all faults, two crashes: visible objects are whole, acknowledged ones survive if their directory does, caches hold only stored objects, no temporary file is left |
| `odb_restart` | **violation** of `WriteReturnsStored` | leftover temporary file of a killed process with the same pid |
| `odb_uring` | **violation** of `WriteReturnsStored` | the io_uring fallback opens its own file twice |
| `remote_calls` | pass | streaks, bounded load, bounded retries, calls return |
| `remote_places` | **violation** of `PlacesReturned` | a promoted queued call releases the wrong counter |
| `repository` | pass | each command alone and beside another process, with one fault: a reference's file is empty only in or after a writer, names stored history (unless objects were in packs) and is never replaced by what does not descend from the value its writer saw; logs remember what references named; the index file is one whole index; a fast-forward moves index, working tree and branch, in that order |
| `formats` | pass | deltas, pack and multi-pack indexes, packs, answers, ancestry, commit graph, trees and commits against what they are for, on every input within the bounds |

The violations are real disagreements between the code and its comments, docs or tests;
`PROJECT.json` quotes both sides under "findings".

What the passing properties leave out, because the code does not provide it: `VisibleWhole`
excludes failed fsyncs (their result is ignored) and, in the io_uring build, failed writes;
`WriteStores` and `CacheBacked` exclude deleted objects (the cache still answers for them) and
temporary files in the way; `AckedSurvives` speaks of the writer that did the directory fsync
itself, not of one that found the file by `stat` before that fsync. After the open time of a
circuit every caller is admitted, not one probe: no property claims otherwise.

Some of these gaps contradict the program's own documentation, without a run of their own:

* `README.md:31` calls the object store crash-safe through "dir fsync", `docs/index.html:270`
  says the same. The directory that is synced is `objects/ab`; an object that was the first in
  it can be lost with it after `odb_write` returned OK. `AckedSurvives` has this as its last
  case.
* `docs/index.html:262` and `289` promise 20 retries a minute per remote. The budget is
  refilled at fixed points, so one refill may be spent just before such a point and another
  just after: 40 retries in much less than a minute. `BudgetBounds` states, and the proof
  shows, two refills in any stretch as long as the window.
* `docs/index.html:289` also says "circuit open blocks all retries"; a call that is in its
  retry loop does not look at the circuit again (`protocol.c:85`).
* `docs/index.html:286` says "Max 64 concurrent"; a call that is counted as queued runs at once
  like any other. `LoadBounded` bounds the sum of both counters, which is what is shed at.
* `docs/index.html:270` says "Refs written atomically"; they are truncated and then written
  (`repository.c:400`). `RefsClosed` allows an empty file between these two steps, and for good
  after a kill or a failed write there (`cut`).

In `repository`, by property:

* `RefsClosed`: `odb_write`'s result is dropped by add and commit, and an object directory that
  cannot be opened is an empty list to fetch, push and bundle, which update references all the
  same (mark `dropped`). Fetch and push list the objects before the references, so commits made
  at the source in between are named and missing (`late`); a bundle takes references first and
  is not exposed, and a push over the wire leaves it to the server to refuse. A fetch over the
  wire says it has any object in its store; after one that was killed while it unpacked, the
  server leaves out the history that is missing, and later fetches do not bring it. The same
  follows a `late` fetch: it names a commit that it did not bring, a commit made on top of that
  one is pushed, and the next fetch over the wire says that it has it. This takes five
  processes, three more than the run has; the proof asked for the exception, and an instance
  with just these five commands, too special to keep as a run, has the counterexample. A write
  that fails after `fopen("w")` leaves an empty reference (`cut`). From a repository with packed
  objects, fetch, push and clone of a local path and bundles copy the loose objects and all
  references: these are installed without their history, and the command returns OK
  (`unlisted`). Over the wire a server refuses such a push, but the command returns OK as well,
  for nobody reads the report.
* `LogsRemember`: a log that cannot be opened, or a kill before it, loses the line. An update
  through HEAD is logged under HEAD only, so the branch's value is looked for in both.
* `NoLostCommits`: two writers that looked before either wrote lose a commit; so does a commit,
  merge or rebase on a branch that is in packed-refs only, since a lookup through HEAD does not
  find it there and takes the branch for unborn. Fetch and push never ask for a fast-forward
  and are not part of the property. A removed branch whose line is in packed-refs comes back.
* `IndexWhole`: `index.lock` is opened without `O_EXCL`; two processes that write at once mix
  their bytes (`shared`). A tree that cannot be read leaves an index without entries, which
  reset, checkout, stash and clone go on to write: whole, and empty. (The code appends what it
  has read until the failure; `Index` has that.)
* `CheckedOut`: `fastgit_merge` ignores the checkout's error; paths the new commit removed stay
  as untracked files. Stash pop removes the stash even when its checkout failed.

In `formats`, by property:

* `DeltasAgree`: an offset and a size are added as `uint32_t`, so a copy from the far end of
  what an offset can name passes the check in all four functions that apply deltas, and reads
  outside the base. The two unpackers do not ask whether the operands of a copy are still
  inside the delta. `fastgit_delta_apply` does not ask whether it has filled its buffer.
* `LookupsAgree`: fastgit's own index cuts offsets to 32 bits, and the loader takes those with
  the top bit set from the 64-bit table that is never written, that is from the hashes at the
  end (with more than eight of them it refuses the file). The multi-pack index cuts at 2^32
  without such a table, and numbers directories and not packs. The loader guesses the length of
  ids from the size of the file; it is right for the indexes that exist, fastgit's own, whose
  ids are always SHA-256, and git's with 20 or 32 bytes, where the two hashes at the end are as
  long as the ids.
* `PackReadsBack`: of a pack with 20-byte ids the unpackers store nothing from the first delta
  on whose base is named by its id, since they take 32 bytes for it (`protocol.c:655`,
  `bundle.c:316`); and they stop 32 bytes before the end, so they miss entries in the last
  twelve. They return OK. The reader knows the length of ids, but also keeps 32 bytes free; it
  gives up on chains deeper than 32.
* `OffsetsPoint`: bytes left by a short write are not counted in `w_cur_offset`, so later
  records point before their object. When one of the three arrays of records cannot grow, those
  that could are freed and still used (`packfile.c:377`); a batch that fails behind its first
  entry frees compressed data twice (`packfile.c:475`). The property says that nothing else
  breaks the pack.
* `HistoryAgrees`: `is_ancestor` drops parents when its stack of 256 is full, and forgets which
  commits it has seen after 256. It is exact for a history of at most 256 commits whose merges
  have together less than 256 parents beyond the first. The commit graph leaves out commits
  that are in packs only, drops a parent that has index 0 and computes generations in id order.
* `CommitRoundTrip`: time zones are written in minutes and read as hhmm; a signature is written
  after the blank line and read back as part of the message.
* `TreeRoundTrip`: an index with unmerged stages has no tree; a path twice in the index is
  twice in the tree.

### Bounds

* `pool`: 2 workers, 2 clients, 2 slots, 3 tasks. The ring fills, refuses and wraps; one signal
  meets two sleeping workers; both clients wait. The proofs remove the bounds. `free` has the
  single client that fastgit's own pools have.
* `index_*`: 2 or 3 paths, 2 stages, 3 cells, keys colliding in the last slot of the small
  table so that probe runs overlap and wrap. An index out of step is followed for one more call
  (`StaleBound`). `dirty` and `ret` are not part of the view: nothing reads them.
* `odb_store`: one object (writes of different objects share nothing but the cache), two
  processes (a third only repeats the second's role), two crashes: one to leave a file, one to
  lose what was built on it. Its directory is there from the start, on the medium or not, or
  is yet to be made.
* `remote_calls`: 2 callers, 1 place in flight and 2 in the queue, 1 retry, thresholds of 2, 4
  ticks: an opening, its expiry, a probe and a refill fit in.

* `repository`: 16 commands, each alone, beside add, commit, branch, delete or merge by a
  second process, and the ones that use a peer beside a commit there; one fault or kill per
  behaviour. The branch starts at the root or ahead of it, in its file or in packed-refs;
  `topic` exists or not; the objects of both repositories are loose or packed; the commit a
  command is given is behind, beside or ahead of the
  branch. Two paths, one of which some commits have removed. Two processes and one fault are
  the smallest numbers with which the races and the failures happen. Two wire fetches overlap
  in an empty repository; a request names 2 objects it has (32 in the code).
* `formats`: texts of up to 6 binary letters with words of 3, so that copies, literals and hash
  collisions meet their limits, and sums that wrap at 8; 3 records of 6 ids, and 9 for an index
  with more offsets beyond 2^31 than the hashes can stand in for; packs of 4 entries with every
  choice of bases; a writer with a batch of up to 3 objects and one more call, records that grow
  from 1; histories of 5 commits of which 4 are remembered, with 2 places on the stack, so that
  each limit is met without the other; 3 index entries up to 3 directories deep.

### Fairness

`ThreadPool`: a thread that can run goes on (weak fairness of its steps), and one that competes
for the mutex again and again gets it eventually (strong fairness); the clients are not forced
to call anything. A task's function terminates. `Remote`: a thread inside a call goes on;
requests end, if only by the transport's time-out, and every sleep is finite. No clock fairness
is assumed: calls return even if time stands still. Deadlock checking is off for the index,
where a full array is a bound of the model, for `remote_places`, whose clock stops, and for
`repository` and `formats`, where commands and jobs end.

## Proofs

Eight modules hold theorems; each holds for every value of the constants its assumptions allow.

| module | theorem | property |
|---|---|---|
| `ThreadPoolProofs` | `TypeCorrect` | `TypeOK` |
| | `PendingCorrect` | `PendingCounts` |
| | `RingCorrect` | `RingHoldsBacklog` |
| | `RunOnceCorrect` | `TasksRunOnce` |
| | `WakeupCorrect` | `BacklogHasWorker` |
| | `WaitCorrect` | `WaitSeesAllDone` (action property) |
| | `FreeCorrect` | `FreeDrains` |
| `ThreadPoolRefinement` | `Refinement` | `ImplementsTaskQueue` (refinement) |
| `IndexProofs` | `TypeCorrect` | `TypeOK` |
| | `TableCorrect` | `TableAgrees` |
| | `SlotsCorrect` | `SlotsAreLive` |
| | `MapCorrect` | `CallsAreMapSteps` (step simulation) |
| `OdbProofs` | `TypeCorrect` | `TypeOK` |
| | `VisibleCorrect` | `VisibleWhole` |
| | `AckedCorrect` | `AckedSurvives` |
| | `StoresCorrect` | `WriteStores` |
| | `CacheCorrect` | `CacheBacked` |
| | `NoTmpCorrect` | `NoTmpLeft` |
| `RemoteProofs` | `TypeCorrect` | `TypeOK` |
| | `ClosedCorrect` | `ClosedCountsStreak` |
| | `ClosesCorrect` | `ClosesOnStreak` (action property) |
| | `LoadCorrect` | `LoadBounded` |
| | `BudgetCorrect` | `BudgetBounds` |
| `RepositoryProofs` | `TypeCorrect` | `TypeOK` |
| | `DescentCorrect` | `NoLostCommits` (action property) |
| | `LogsCorrect` | `LogsRemember` |
| `RepositoryIndexProofs` | `IndexCorrect` | `IndexWhole` |
| | `CheckedOutCorrect` | `CheckedOut` |
| `RepositoryClosedProofs` | `RefsClosedCorrect` | `RefsClosed` |

**ThreadPool**, for every finite non-empty set of workers, every set of clients with other
names, every depth and every bound on the tasks. The inductive invariant `IInv` is the
conjunction of the five invariants with `Control`, which none of them implies and all need: who
may hold the mutex and where that thread is, that the sleepers are exactly the threads in a
wait set, that a worker has exited only after shutdown with an empty ring, that a pool is freed
only when all workers have exited, and that the ring holds no more than was accepted.
`BacklogHasWorker` is preserved by `WorkerWait` because the mutex keeps submitters out between
a worker's test and its sleep. `FreeDrains` and `WaitSeesAllDone` follow from `IInv`. The
refinement maps the ring to a sequence; `RingHoldsBacklog` says which one it is, so that a
submit appends to it, a worker's critical section takes its head, and every other step maps to
a stutter.

**Index**, for every hash function, every set of paths, every size of the first table, slack
and array, every tree and every set of conflict sides, and every history of calls. The
invariant says that the struct is well-formed (`Good`), that the file holds entries (`Saved`)
and, of an index with `stale = 0`, that the table is `Indexed`: it holds the number of each
live cell once, at a place on its key's probe sequence before which no slot is empty.
`TableAgrees` alone is not inductive: it says where searches end now, not why they still end
there after another key was put into a tombstone or another slot was freed. Entering a key
(`EnterSlot`) fills a slot and empties none; a removal (`EraseSlot`) leaves a tombstone, which
is not empty; a rebuild (`RebuildIndexes`) enters the cells one by one; a search (`Seek`) then
meets the entry before any empty slot. A free slot is there when it is needed because the table
has more slots than entries (`FreeSlot`, a counting argument). The move of a removal takes two
steps on the table, and they compose only if the table does not grow in between: this is the
exception of `index_regrow`. What the loops compute is proved by induction, see below.
`MapCorrect` maps each call to a step of `IndexMap`. `Holds` says that the first cells of an
array hold exactly the pairs of a map, `UniqueHolds` that they hold no other, and each helper
has a lemma on the map it leaves (`PutHas`, `TakenOutHas`, `SortHas`, `WithoutHas`,
`AppendsHas`, `LoadedHas`, `JoinedHas`). They need the invariant: with a table in step, a
search that fails means that no cell has the key, so an append doubles none.

**Odb**, for every set of objects and processes, both builds, any set of failing system calls
and any number of kills and power losses. `IInv` adds `Control` (a process inside a write has
an object and no result yet), `TmpHolds` (what a temporary file holds, by the step its writer
is at), `Synchronised` (unless a failure went unseen, what has the name of an object is on the
medium in full, in the latest directory and in the one a power loss brings back), `Renamed` (a
writer past its rename finds its file, or somebody deleted it), `DirThere` (the directory a
process writes to exists) and `DirKept` (one that an acknowledgement found on the medium is
there for good). `AckedSurvives` is proved with its exception: what was acknowledged in a
directory that was not on the medium yet stays unless a power loss took that directory.

**Remote**, for every finite set of threads, every budget, window and open time, all thresholds
and all settings of the load counters. `IInv` adds `BelowThreshold` (a circuit that is not open
has seen too few failures to open it) and `Probing` (successes are counted only once the open
time has run out, and came in a row). `BudgetBounds` has an invariant of its own, `BInv`, about
the history of payments: it only rises (`Rising`) and is flat from now on and after the end of
a window until the next one begins (`Flat`); what was paid in this window is what the budget
has less than its refill (`ThisWindow`); and in the time before it that a stretch reaching into
it can cover, one refill at most was paid for (`LastWindow`). A stretch as long as a window
meets two windows at most.

**Repository**, for any set of processes, any choice of commands and repositories for them, any
number of faults and any limit on what a request names; the branches, the paths and the
commits a behaviour can start from are those of the model. `TInv` types the processes and the
files and has what `NoLostCommits` needs: each list of calls left has at most one that writes
the index, a call past its first step has a value to install, and what commit, branch, merge
and rebase are about to install descends from the value they have seen. `IndexWhole` needs to
know which inodes are whose: two repositories share none (`Apart`), a process that has not
opened a lock has created none (`Unused`), and unless a lock was shared the one process that
has it open writes to `index.lock`, which is not the index (`Private`). `LogsRemember` needs
that each value a reference ever named is in the log, or is still to be logged by a process
that has replaced or removed it, or is in the file, and then whoever is about to truncate the
file has read just this value (`Known`). `CheckedOut` is about a merge or rebase with every
other command "none", whose steps are then all the steps there are. `MInv` follows it through
its phases, deciding, loading and writing the index, checking out, moving the branch, done,
and says of each what the index file, the paths written so far and the branch hold; every way
to fail lies before the branch moves, or after it with index and paths in place.

`RefsClosed` is proved with `CInv`, which has to say why a value that is about to be installed
is stored where it is installed. The calls that a process has left come in an order in which
some command makes them (`Flow`), whatever errors cut the list short; so a reference is written
only after its objects were copied, or from a bundle that was unpacked before. What a process
relies on is stored: the value it was given or looked up, what it has listed at the source, the
references in its bundle, the entries it has in memory (`Sound`). These facts outlive the steps
of others because stores only grow, from each other but for what add, commit and stash make,
and if somebody has listed a store by then, that is marked `late` (`Gains`), and a
list of a repository that has packs is marked `unlisted` (`ListsAll`). The files that are
or may become the index hold stored entries (`FilesStored`), and an empty reference has a
writer, or had one that failed (`Empties`). For fetches over the wire, a store is seen together
with what the fetches into it have still to unpack (`Due`): as long as nothing failed, each
commit in this sum has its history in it, although the store alone may lack it, and a server
that leaves out what the client says it has leaves out no more than the sum has (`Wire`). When
all are done, the sum is the store. The theorem assumes that commands given a commit id run in
the local repository (`GivenAssumption`): the ids are those of commits it has from the start,
`rev_parse` takes a full id without looking whether it is stored, and a branch or a merge at
the peer of a commit that only the local repository has names what is not there.

The assumptions on the constants are the named ASSUMEs of the modules, which TLC evaluates in
the runs.

Induction over data is needed for the loops of `Index`. The library's induction theorems take a
predicate as a parameter, which the provers cannot instantiate; `IndexProofs` therefore derives
induction over *sets* of numbers from the least-number principle (`Least`, `Induction`), and
from that the existence of the function a loop defines (`Recursion`). Each loop then has a
lemma on what it computes (`CapForLoop`, `RebuildLoop`, `AppendsShape`, `Sortable`).

Only model-checked:

* everything under fairness (`AcceptedTasksRun`, `WaitReturns`, `CallsReturn`), which is beyond
  the prover;
* all of `Formats`: its operators are RECURSIVE, which the prover does not take.

## Not modelled

* Out of TLC's reach, or without state: hash functions, SIMD kernels, TLS and SSH transports,
  post-quantum signatures, the arena, the kqueue and IOCP backends, argument parsing and
  printing.
* Text: diff (the hunks are the whole file), configuration, `.gitmodules`, the header of a
  bundle and its verification.
* On the wire: the framing of packets, filters of a partial clone, credentials. Fetch over HTTP
  and SSH stores objects and never updates a reference; push does not read the server's report
  and returns OK when every reference was refused.
* Commands that add no new order of calls: tags (the calls of a branch), rm and mv, stash
  apply, drop and list, checkout of single paths, pull (a fetch; `FETCH_HEAD` is then not
  found).
* Linked worktrees: `worktree_add` writes a directory and files; its handle has no object
  store, so no checkout follows; list and prune are stubs.
* `fastgit_odb_pack` passes a pointer of the wrong type to `fastgit_odb_read`; what it then
  does is undefined and has no useful model. `odb_gc`, replace references and alternates are
  left out.
* Allocation failure, everywhere; files that change while `index_add_many` reads them; the
  interleaving of two threads inside one helper of an unlocked remote.

## Plan

Done: `ThreadPool`, `Index`, `Odb`, `Remote`; `Refs`, `Checkout` and `Repository`, the
composition of references, index, working tree and object store under processes, faults and
kills; `Delta`, `PackIndex`, `PackStream`, `PackWriter`, `Ancestry`, `Objects` and `Formats`;
the proofs above.

Next, in this order:

1. The counters of `Remote` as unlocked reads and writes of two threads.
2. `add_many` on files that change between hashing and storing.
