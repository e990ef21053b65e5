# A verification of the Irmin store

The repository keeps the results of fuzzing Merlin on OCaml code bases. The recorded results
(`src/irmin_data`, `src/irmin_pack_data`, `src/irmin_pack_test_data`) are data; the program is
`src/test-code-base/irmin`, the Irmin store with its disk backend irmin-pack. This directory holds TLA+
models of that program, TLC configurations that check them on small stores, and TLAPS proofs about them.
Paths below are relative to `src/test-code-base/irmin/src/` unless they start with `src/` or `doc/`.

Contents: 1 the system, 2 the plan, 3 the modules, 4 the runs, 5 situations with an outcome to know of,
6 the proofs, 7 abstractions and what is left out. `PROJECT.json` has the same information in
machine-readable form: components, runs, mutants, hazards, findings, and for every definition the lines it
translates.

## 1. The system

An irmin-pack store is one directory that one read-write process and any number of read-only processes
open. There is no lock and no message between them: what one process knows of another it reads from the
files, and the control file says how much of each file may be trusted.

| File | Written by | Content |
|---|---|---|
| `store.control` | main process, by temporary file and rename | ends of dict and suffix, generation, first chunk and number of chunks, start of the suffix, target of the last collection, number of volumes |
| `store.dict` | main process, append only | strings, numbered by rank |
| `store.N.suffix` | main process, append only; unlinked after a collection | chunk N of the suffix: commits, nodes, contents |
| `store.G.prefix`, `store.G.mapping` | worker of collection G; unlinked after the next one | the objects before the suffix that are still needed |
| `store.G.out` | worker of collection G | its result, or its error |
| `index/` | the index library | from hashes to offsets |
| `volume.V/` (`data`, `mapping`, `control`, `G.control`) | worker; main process renames | what collections took out of the suffix |
| `store.branches` | main process, in place | branches |

### 1.1 irmin-pack, the disk store

| Part (source) | State | Operations | What is hard | What makes it correct |
|---|---|---|---|---|
| Append-only file (`irmin-pack/unix/append_only_file.ml`) | end persisted, append buffer | append with automatic flush, flush, fsync, refresh, open over leftover bytes | bytes past the published end after a crash, a flush in the middle of an append | the file up to the published end is a log |
| Dict (`dict.ml`) | string to id, id to string, offset reached by refill | index, find, refill, refresh | tables, buffer and file are three copies; capacity | an id means the same string to every process for ever |
| Index (`pack_index.ml`, library) | map on disk and in memory | add (may flush everything through a callback), flush, reload | runs ahead of or behind the suffix | a reader never finds an entry it cannot read; an acknowledged commit is found |
| Control file (`control_file.ml`) | payload in memory, handle | set_payload, reload, fsync | fails between close, create and rename | always a payload whose files exist |
| File manager (`file_manager.ml`) | all of the above, open or not | flush stages, reload, split, swap, add_volume, create, open_rw with cleanup, open_ro, close, migrations | order of several files; crash between two of them; reader several steps behind | every instant is a store that can be opened |
| Chunked suffix (`chunked_suffix.ml`) | open chunks with their offsets, the last one appendable | append, add_chunk, flush, refresh, read across chunks | the length of a chunk may come from the file or the control payload | a key read later gives the object appended under it |
| Dispatcher (`dispatcher.ml`), sparse files (`sparse_file.ml`) | none of its own; the mapping | suffix, prefix or volume for an offset | payload, suffix and prefix are replaced at different moments | same |
| Lower layer (`lower.ml`) | control payloads of the volumes | load, reload, add_volume, archive, swap, cleanup, read | two control files cannot be replaced in one step | what was archived can be read, alone, from its volume |
| Collection: main (`gc.ml`) and worker (`gc_worker.ml`) | promise, status, generation, files | start, finalise, swap, cancel; worker: prefix, mapping, archive, result | forked process with an older view; aborts anywhere | the result swapped in is the one of this collection, nothing reachable or new is lost |
| Asynchronous worker (`async.ml`) | pid, status | fork, status, await, cancel, kill at exit | waitpid by two callers, pids reused, orphans | a wait ends with the status of the process |
| Repository (`store.ml`) | `during_batch`, `running_gc` | batch, split, gc start, finalise, cancel, wait, try_auto_finalise | Lwt fibers interleave at every wait | batches and collections do not undo each other |
| Pack store (`pack_store.ml`) | staging table, cache | append, find, mem, key lookup | a value is in staging, file, index in different combinations | a process finds what it wrote |
| Branch store (`atomic_write.ml`) | file of records, table of heads, table of places, watch manager | set, test_and_set, remove, watch, refill by readers, close | records rewritten in place, seen late by readers; a death between changes; one manager for all stores | one record for a branch, tables that say what the file says, changes that are atomic |
| Cache (`lru.ml`), ranges, `nearest_geq`, mapping search | queue; pure | | weights, ends of ranges | not modelled |
| Inodes (`irmin-pack/inode.ml`) | pure | add, remove, find, lists, proofs | same hash whatever the history | not modelled |
| Snapshots, traversal, checks, statistics | | sequential passes over a store | | not modelled |
| Io, errors, layout, pack values, conf | | wrappers, formats | | steps or constants of the modules above |

How they interact. A batch appends to the suffix, the dict and the index; at its end, or when the index
asks for it through `flush_index_dependencies`, `File_manager` flushes dict, suffix, control and index in
that order. A reader goes the other way: index, control, suffix, prefix, lower layer, dict
(`reload`, `file_manager.ml:375`). A split adds a chunk. A collection forks a worker that opens the store
again as it is on disk, writes a prefix and a result, and exits; the main process, in a wait or at the start
or the end of a batch, renames the worker's result into the store (`swap`), reopens the suffix, publishes the control file,
then unlinks what is no longer named. With a lower layer the worker also appends to the last volume and
prepares its control file.

### 1.2 The store above it

| Part (source) | State | What is hard | Status |
|---|---|---|---|
| Store with branches (`irmin/store.ml`) | the head of a branch, or a reference of its own with a lock | calls read the head, work on it for long, and swap it only if it is still the same; bounded and unbounded retries | StoreHead |
| Commits and merges (`irmin/commit.ml`, `merge.ml`) | pure: graph of commits | the search for lowest common ancestors; criss-cross histories | CommitHistory, StoreHead |
| Watches (`irmin/watch.ml`) | registrations, the value each knows, streams of jobs | unwatch during a notification, one stream ends and another starts | Watch, in BranchStore |
| Locks (`irmin/lock.ml`) and the storage adapter (`irmin/storage.ml`) | table of mutexes by key | keys come into the table and leave it while fibers wait; exceptions | Lock, Storage |
| Trees, proofs (`irmin/tree.ml`, `proof.ml`) | lazy caches | data structure, no protocol | not modelled |
| Object graph, slices, sync | sequential | | not modelled |
| Backends in memory, in files, in git | | no protocol on disk of their own, or an adapter | not modelled |
| Server, GraphQL, CLI, C bindings, PPX, test suites | | front ends: a request is a call of the store | not modelled |

### 1.3 The hazards

`PROJECT.json` lists 40, each at its line. They fall in eight families, and the modules follow them: (a) the order of the files in a
flush, seen by readers and by a crash (FlushReload); (b) offsets that several files have to agree on, over
splits, collections and crashes (ChunkedSuffix); (c) fibers, worker processes and signals around one
collection (GcCycle); (d) two control files that must change together (LowerLayer); (e) errors half way
through an update of memory and disk (FlushReload with failures, GcCycle); (f) a file that is overwritten in place, with
tables and watchers beside it (BranchStore, Watch); (g) a table of mutexes that changes while fibers wait for them
(Lock, Storage); (h) heads that are swapped long after they were read, over histories with crossed merges
(StoreHead, CommitHistory).

## 2. The plan

Most important behaviour first. Rows 1 to 7 exist.

| | Module | Composes | Abstract specification | Proofs |
|---|---|---|---|---|
| 1 | FlushReload | dict, suffix, index, control, writer, reader | AppendOnlyLog: a log with a published length | types and consistency, the decoding of entries, the index, the implementation of AppendOnlyLog |
| 2 | ChunkedSuffix | chunks, prefix, control, worker, reader | CollectedLog: a log that also forgets | reads of writer and reader, deaths, files left behind, the implementation of CollectedLog |
| 3 | GcCycle | fibers, worker, files of a generation | | its six invariants, each from the absence of the situations that break it |
| 4 | LowerLayer | volumes, control files, worker, reader | | its four invariants, each from the absence of the situations that break it |
| 5 | BranchStore on Watch | file of records, tables, watch manager and its streams, a reader | BranchMap: an atomic map with test_and_set | its four invariants, tables that match the file, the implementation of BranchMap |
| 6 | Storage on Lock | fibers, table of mutexes, storage, watchers | BranchMap again | its three invariants, the implementation of BranchMap |
| 7 | StoreHead on CommitHistory | fibers, heads, locks, retries, merges | the definition of lowest common ancestors on sets | its invariants and action properties: types, retries, tests, no orphans, merges, fast-forwards; what the search for ancestors finds |
| 8 | Lru | queue of cells and table | a bounded sequence | left: sequential, with unit tests that reach its cases |
| 9 | PackAlgorithms | Ranges, nearest_geq, mapping search | definitions on sets | left: pure searches, the ancestors of commits went into row 7 |
| 10 | Inodes | trees of small nodes | a map | left: a data structure without a protocol |

Rows 1 to 7 are proved as far as the prover goes (§6); what is left to TLC is liveness.

## 3. The modules

All modules count positions in entries, not bytes: offset 3 is the fourth entry. Each action is one piece of
code between two system calls that others can see, or between two points where a fiber can yield; what the
code does between them is in the same action. `MC*` modules only give constants their values.

### 3.1 FlushReload (and AppendOnlyLog)

One writer, one reader, and the four files of a store with one chunk that is never collected.

| State | In the code |
|---|---|
| `dictFile`, `suffixFile`: contents and the length that is durable | `store.dict`, `store.0.suffix` |
| `control`, `controlSafe`, `indexFile`, `indexSafe` | what is on disk, and what a power failure may leave |
| `dict`, `suffix`: `persisted`, `buf`, `full` | `Append_only_file.t` |
| `dictIndex`, `index`, `staging` | tables of `Dict.t`, index in memory, `Pack_store` staging |
| `payload`, `controlIo` | `Control_file.t`: payload in memory, handle open or closed |
| `pc`, `auto`, `adding` | the stage the flush reached, whether the index triggered it, the value being added |
| `roPc`, `roPayload`, `roSuffixEnd`, `roDictEnd`, `roDictIndex`, `roIndex` | the reader and how far its open or reload is |
| `acked`, `ackedIndex` | history: what the last flush that returned covered |

| Action | Code |
|---|---|
| AppendValue, AppendFails | `Pack_store.unsafe_append`, `Dict.index`, `Append_only_file.append_exn` (an append may flush the buffer) |
| StartFlush, FlushDict, FlushSuffix, FlushControl, FsyncControl, FlushIndex | the stages `flush_dict`, `flush_suffix_and_its_deps`, `flush_index_and_its_deps` of `file_manager.ml` |
| FlushFails, FsyncFails | a system call of that stage returns an error |
| CloseRw, CrashRw, PowerFailure, OpenRw | close, death of the process, of the machine, `open_rw` |
| Ro... | `open_ro` and `reload`, one action for each file read |

AppendOnlyLog is the promise to a reader: a log, a published length that no crash makes shorter, a
reader whose log is a published prefix. `FlushReload!LogSpec` maps the suffix to it.

### 3.2 ChunkedSuffix (and CollectedLog)

Entries of a suffix cut into chunks by splits and dropped by collections. State: chunk files and prefixes by
name (contents are kept after an unlink, for processes that hold them open), the control payload
(`startIdx`, `num`, end, start of the suffix, dead entries, generation), the writer's payload, open chunks and buffer, the
worker's older view (`gcPayload`, `gcChunks`), the pending unlinks, and a reader. Actions: StartBatch,
AppendEntry, FlushSuffix, FlushControl (`append` and the flush), AddChunk, SplitControl (`split`), StartGc, WorkerOpens,
WorkerWrites (`gc.ml` v, `gc_worker.ml`), Swap, UnlinkChunk, UnlinkPrefix (`gc.ml` finalise, `file_manager.ml`
swap), GcFails (a collection whose commit reaches an object that an earlier one gave up: the worker fails, and
finalising cleans up), CrashRw, OpenRw with the same cleanup, and Ro... for `open_ro` and `reload`. `Needs` gives what each
entry reaches: in the runs, itself and a shared first entry, but for one entry with a history of its own, so that some
collections fail. `log` is what the writer
appended, by offset; properties compare with it what a read finds. CollectedLog: a log of which a
published length and a set of readable offsets are promised; collections may only shrink the set to what
their target needs.

### 3.3 GcCycle

The life of collections: fibers that run batches (BatchStarts, BatchAppends, BatchSucceeds, BatchFails,
Split), fibers that wait for a collection (WaitStarts, WaitEnds), starts and cancels (StartGc,
CancelRunning, CancelExited), a finalisation inside a batch (FinaliseInBatch), the worker of each generation
(WorkerCreates, WorkerFills, WorkerReports, WorkerExits, WorkerDies), and the end of the main process
(MainKilled). `TryFinalise` is `try_auto_finalise_exn`, at the start and end of a batch;
`Finalised` is `Gc.finalise` with each outcome of `waitpid` and of the result file. Files carry the
collection that wrote them, so that a mix of two generations shows. The constant `Allowed` names situations
the code does not rule out (section 5).

### 3.4 LowerLayer

Entries are numbered; `Commits`, `Uses` and `Parent` give the commits and the objects each needs. State:
control file of the store, prefixes, and for each volume its mapping, data, control and the prepared control
of each generation; the volumes loaded in memory by the main process and by a reader; a collection between
its steps. Actions: Commit, StartGc, AddCreates/AddCounts (`add_volume`), WorkerPrefix, WorkerData,
WorkerMapping, WorkerControl (one for each file the worker writes), Abort (cancel or death, then cleanup),
SwapControl (control file of the store), SwapVolume (rename and reload), Unlink, Crash, OpenLoads and
OpenCleans (`finish_constructing_rw`: volumes are read, then cleaned), RoReadsControl and RoLoads. A reader
whose reload fails is closed. `Allowed` is again the set of situations let in. Two definitions say what the proofs assume of the
application, and TLC that the commits of the run are so: TreesGrow (the objects of a commit's tree are in its parent's tree or
new) and ObjectsAdded (each commit adds an object).

### 3.5 BranchStore, on Watch (and BranchMap)

The branch store of irmin-pack. No operation can be suspended half way (there is no bind on an open promise in
`atomic_write.ml` between a read of the tables and the write of the record), so each operation is one action.

| State | In the code |
|---|---|
| `file` | `store.branches`: records of a branch and its head; a removed branch keeps its record, with `V.null` |
| `rw`: `cache`, `index` | the tables of heads and of places (byte offsets in the code, ranks here) of the read-write process |
| `ro`: the same with `size` | those of a read-only process, with `block_size` |
| `watchers`, `next`, `streams`, `pushes` | `W.t`: `glob` and `keys` with the value each watcher knows, next id, the streams of the scheduler with their queues |
| `handle`, `given`, `promised`, `seen`, `storeOf`, `answer`, `held` | history: what registrations were told, what a test_and_set answered |

| Action | Code |
|---|---|
| Open, RoOpen | `v`, which refills the tables from the whole file |
| Set, TestAndSet | `set`, `remove` (a set of None), `test_and_set`: table, record, then `W.notify` |
| WatchHeads, Unwatch | `watch`, `watch_key`, `unwatch` |
| Run: StartJob, EndCall | `Lwt_stream.iter_s` of a stream of the scheduler: a job starts its callbacks together, the next job when all have ended |
| RoFind, RoClose | `find` of a read-only process, which reads the records after `block_size` first; `close` |
| Close, Die | `close`, which clears the whole watch manager; the death of the process |

Unwatch leaves the calls that are queued for the registration where they are, and they are made later, as in the code
(section 5). `Watch` has the operations of the manager as operators, since the code holds its lock around nothing that suspends: they are conjuncts of the
actions of BranchStore. BranchMap is the promise: a map in which `set`, `remove` and `test_and_set` are atomic and
`test_and_set` answers for the value it replaced.

### 3.6 Storage, on Lock

The branch store that `irmin/storage.ml` makes of any storage, and the lock manager of `irmin/lock.ml`.
`table` is the hash table of mutexes, `queue` the holder and the waiters of each `Lwt_mutex`, `lock` the
mutex a fiber holds or waits for; `Released` is `Lwt_mutex.unlock` followed by `unlock`, which drops the key from the table when
no one waits; `HandedOver` is the first alone, when the function raised. A call is Call (ask for the lock), Enter (it is granted),
Find and Write (operations of the storage, where the fiber may be suspended), Notify or Release, with Fail for
an operation that raises. A mutex nobody refers to is used again, as after a garbage collection.
Storage implements the same BranchMap as BranchStore.

### 3.7 StoreHead, on CommitHistory

Fibers that change the heads of a store. `history` is the graph of commits, each made once as commits are
content-addressed; `head` has the heads of branches and of detached stores; `lock` is `t.lock` of each value of type `t` (`Stores`), of which a branch may have
several, made by `of_ref`, each with a lock of its own, so that two merges into one branch can run at once. A call is
Call (its request, and for merges and fast-forwards the commit it found at the other head), Lock (`Head.merge` only), one of Update, Merge, FastForward or
Overwrite (the head is read and the commit made on top of it), then Swap or, if the head is another by then, Lost:
a retry, a bounded number of times for updates, without a limit for merges, none for fast-forwards. Update covers
`set_tree`, `remove`, `test_and_set_tree` and `merge_tree`; the tree of a commit is the value at one path. `Merged` is the three-way merge of
that value, MergeCommit and ThreeWayMerge the merge of commits with its recursion over several lowest common
ancestors. CommitHistory has the search for those as the code makes it (marks, layers, propagation of marks to
commits that were explored already: `Marked`, `MarkNext`, `Explore` and `ExploreNext` are the steps of its two loops) and, as the reference,
the definition on sets of ancestors. The loops are recursive functions on their states, so that they can be proved about.

## 4. The runs

`storage` checks for deadlock too: fibers call for ever. In the other runs the bounds on entries, collections, calls and crashes stop
the model, and a store with no work is at rest. Fairness is used by the liveness properties of four runs only, see below.

| Run | Bounds | Checks |
|---|---|---|
| `flush_reload` | 2 values (one commit, indexed), 3 entries, fsync, 1 death of a process or of the machine, dict capacity 1 | `PublishedDecodes`: what the control file covers decodes to what was appended; `ReaderReads`: so does what a reader reaches, and it finds no index entry past its suffix; `WriterReads`: a value that was added is found; `AckedSurvives`: an acknowledged flush outlives power; `LogSpec`: the files are a log, and ids of the dict keep their meaning |
| `flush_reload_errors` | 1 value, 2 entries, any append, flush stage or fsync fails, 1 crash | `ConsistentStore`: no end points past its file; `IndexBehindControl`: nor does an index entry point past the control file |
| `chunks` | 4 entries, 2 more chunks, 2 collections, automatic flushes, a reader | `Reads`: writer and reader read under an offset the entry that was given it |
| `chunks_crash` | 3 entries, 2 chunks, 2 collections, 2 deaths at rest, in a batch or a split, collection steps included | `SurvivesDeath`: the store can be opened at every instant, has what was published, and the writer goes on with the right offsets; `ResidueBounded`: at most one file is left behind after cleanup; `CollectedSpec` |
| `gc_cycle` | 2 batches, 1 waiter, 3 collections, cancels, dead workers | `Coherent`: the prefix open, the one on disk and the size of its mapping in the control file are of one collection; `CommittedKept`: the entries of a batch that succeeded stay in the published suffix; `IsFinishedHonest`: the repository knows of the collection whose worker runs; `NoSpuriousFailure`: a collection that was not cancelled fails only when its worker was killed; `NoLeftovers`: collections that are over leave only the prefix in use; `CallbackCalled` |
| `gc_live` | 2 collections, every situation | `WaitReturns`: a fiber that waits goes on, whoever else polls, cancels or finalises; `GcEnds`: a collection does not stay the running one for ever |
| `gc_batch_in_wait` | 1 batch, 1 waiter, 1 collection | refutes `CommittedKept` (finding) |
| `lower_layer` | commits 2, 4, 6 (a fork), 8; 3 collections, 2 volumes, 2 crashes, fresh and migrated stores, a reader | `ArchivedReads`: what was archived is found by the main process and by the reader; `Recoverable`: by a process that would open the store now; `SelfContained`: a commit read from a volume finds its tree and parent there; `ArchiveAccepted`: no collection of a newer commit is refused |
| `branch_store` | 1 store, 2 branches, 2 heads, 2 registrations, 6 events (opens, changes, registrations, deaths), a reader | `FileAndTables`: one record for a branch, and tables of writer and reader that agree with it; `ServedUntilGiven`: a registration is in the table of watchers until its own handle is given back; `DiffsChain`: the diffs of a callback follow each other to the head there is; `OneCallAtATime`; `MapSpec`; `DiffsDelivered`: every diff that was queued is given, while the handle is in use |
| `storage` | 3 fibers that call for ever, 2 keys, 5 mutexes, failing operations | `MutualExclusion`; `MapSpec`; `ToldInOrder`: watchers end up told of the head there is; `TableOK`: no key that nobody uses stays in the table; `CallsReturn` |
| `storage_late_arrival` | the same, without failures and with calls at any time | refutes `MutualExclusion` (finding) |
| `store_head` | 2 fibers, 2 branches, one of them open twice, and a detached store, 3 calls of 14 requests, 1 retry, 3 histories to begin with | `NoOrphan`: the commit of a head stays reachable from it; `AnswersHonest`: a test-and-set replaces what it tested (`TestsHeld`), a fast-forward goes strictly forward and is rejected only for a reason (`FastForwardsExact`); `MergeKeepsBoth`: a merge reaches both sides and takes neither away, deletions included if there is one lowest common ancestor; `RetriesHonest`: who gives up has lost to others; `HistoryOK`: commits are stored once and after their parents (`TypeOK`), and a search misses no lowest common ancestor and finds common ancestors only (`LcasFound`); `EndsOrLoses`: a call ends unless others change its head again and again |

Why the bounds are enough. Positions matter only in their order: in a flush, an entry is published, written,
buffered or not there, and three entries give every mix of them at once, with a published entry left to lose. One reader: readers never
write, so they do not see each other. Dict capacity 1 makes the second string the last
that fits, so a third one is inline. Two collections are the smallest number with a previous prefix to
unlink, a worker that meets chunks added since, and dead entries on top of dead entries; three in GcCycle
let a cancelled collection and its retry meet a third. Two crashes let a cleanup be interrupted and run
again. Two volumes give a full one and an appendable one; the fork gives a target that is not a descendant.
Six events let a branch be made, removed and made again around a death with a watcher on it, and two registrations
are one for a branch and one for all, or one after the other. Three fibers are a holder, a fiber that the mutex is
handed to and a third that comes then; five mutexes are as many as two keys and three
fibers can refer to. In `store_head` the histories to begin with are an empty one, one with two lowest common ancestors
and one where the way to an ancestor is longer on one side: three calls could not make them.

The type invariant of a module is a part of the first property of its run (`Reads`, `Coherent`, `ArchivedReads`,
`FileAndTables`, `TableOK`, `HistoryOK`), and proved in all modules.

Fairness of `gc_live`. Weak fairness of each worker's next step: the operating system runs a live process, and the worker waits for nobody.
Weak fairness of a wait that can end: Lwt wakes a fiber whose `waitpid` has returned. Weak fairness of the start and the end of
batches: the application keeps writing, which is what automatic finalisation relies on (`store.ml:306`); without it a
collection nobody waits for would never be looked at. Cancels, starts, deaths and kills are not fair: they
may happen or not, but the number of collections is bounded.

Fairness of the others. `branch_store`: the fiber of a stream takes the next job and callbacks return (`Lwt_stream.iter_s`
runs as long as the process does); nothing is assumed of the application. `storage`: a step of a fiber that can be taken
is taken, as operations of a storage return and an `Lwt_mutex` is handed over in the order of its queue. `store_head`: a fiber that
can go on again and again does (strong fairness), as an `Lwt_mutex` serves its waiters in turn, which the model does not order; the fairness
is written with `CanGo`, the guard of a step, instead of `SF_vars(Step(f))`, since ENABLED makes TLC search the histories
again for each state. That fibers begin calls is not assumed. `EndsOrLoses` is what holds without an assumption on other calls, for any number of them:
a call that goes on for ever loses for ever. With 3 calls nobody loses for ever, so that the run shows that each call ends once the others
leave its head alone: it gets its lock, its retry reads the head again, and nobody keeps a lock. That every call ends is not so, see section 5.

Every property of a passing run has a mutant in `PROJECT.json`: a definition with the kind of mistake the
code could contain (a dropped guard, a swapped order, an end taken from the wrong place), and TLC finds the property
violated by it under the same configuration. The mutated forms stand in the modules next to the definitions, under a name that
says what is wrong, and no specification uses them.

## 5. Situations with an outcome to know of

Two are findings with a run.
- **gc_batch_in_wait.** `finalise_exn` tests `during_batch` before it waits and not after (`store.ml:286`).
- **storage_late_arrival.** `with_lock` unlocks the mutex of a key, which hands it to the fiber that waits, and then
  calls `unlock`, which drops the key from the table if no other fiber waits (`irmin/lock.ml:58`). The next fiber that asks gets a new mutex
  and runs beside the holder, against `lock.mli:30`. `MapSpec` and `ToldInOrder` fail in the same way.

The passing runs leave these and the situations below out by a named constant, and hold without them: `Failing` and `MaxCrashes` in FlushReload, `DiesAt` in
ChunkedSuffix, `SameInfo` and `Pasts` in StoreHead, `Allowed` elsewhere. `gc_cycle` allows `cancel` and `workerDies`, `storage` allows `failure`, `gc_live`
everything, the others nothing. Changing one constant of the run that checks the property (in `gc_cycle`, with two collections) makes TLC refute
the properties of the last column; the others still hold there. Parts of a property are named by their own definitions.

| Name | Situation | Refuted when allowed |
|---|---|---|
| `"append"` in Failing | `Dict.index` appends before it updates its tables (`dict.ml:75`): an automatic flush that fails in between leaves a string in the buffer that goes to the file later, and all later ids are off by one | PublishedDecodes |
| two `MaxCrashes` | the writer dies after it renamed the control file and before its fsync, and opens again; a flush with nothing new then skips the write and the fsync (`file_manager.ml:149`) and returns; after a power failure the old control file may be there again | AckedSurvives, LogSpec |
| `"control"` in DiesAt, or `"batch"` with AutoFlush | a death after `flush_suffix` (or an automatic flush) and before the control file leaves entries that the reopened writer ignores, but a split takes the size of the file for the end of the chunk (`chunked_suffix.ml:226`) | WriterReads of ChunkedSuffix |
| `overlap` | two batches at once: they share one boolean (`store.ml:421`), so the end of the first lets splits and finalisations into the second | all safety properties of GcCycle but TypeOK |
| `batchInWait` | a batch starts while `finalise_exn` waits (`store.ml:286`): the swap drops what it appended, or fails half way on the flush that is pending | CommittedKept (finding), PrefixMatches, NoSpuriousFailure, NoLeftovers, CallbackCalled |
| `finaliseInBatch` | `finalise_exn` in a batch forgets the collection, whose worker goes on (`store.ml:296`) | PrefixMatches, IsFinishedHonest, NoSpuriousFailure, NoLeftovers |
| `cancelInWait` | a cancel, then a new collection, during a wait for the first: the waiter resets the second (`store.ml:292`) | IsFinishedHonest, NoSpuriousFailure, NoLeftovers |
| `cancelExited` | a cancel after the worker exited finds nothing to kill, and its files stay (`store.ml:227`) | NoSpuriousFailure, NoLeftovers |
| `mainKilled` | the main process dies without its exit hook (`async.ml:51`): the orphan writes files with the names of the next collection | PrefixMatches, IsFinishedHonest, NoSpuriousFailure, NoLeftovers |
| `crashSwapped` | a death between the two control files: `finish_constructing_rw` reads the volumes before it repairs them (`file_manager.ml:352`; `doc/irmin-pack/design/lower_layer.md:268` has the repair) | RwReads, RoReads |
| `loadSwapped` | a reader loads the volumes between the two control files and has the new generation already, so it does not load them again until the next collection (`file_manager.ml:416`) | RoReads |
| `addBehind` | `add_volume` when the last target is not the last commit before the suffix (right after a migration or a collection in the lower layer): the new volume starts with a prefix that lacks what the suffix needs | SelfContained |
| `forked` | a target that does not descend from the last one | SelfContained |
| `staleControl` | `unlink` of a bare name (`lower.ml:248`) leaves a prepared control file after an abort, and a later collection publishes it | SelfContained, ArchiveAccepted |
| `Commits` without ObjectsAdded | a commit with no new object at exactly the start of the suffix (`gc.ml:81` compares with equality) is archived and the start does not move: commits 2, 3, 5 and collections of 2, 3, then 5, the last of which is refused from then on | ArchiveAccepted |
| `Uses` without TreesGrow | a commit has an object that an older commit brought and its parent's tree does not have: commits 2, 4, 6 in a line and an object 1 that the first and the last share. A volume that is new after the collection of 4 starts with its prefix, which lacks 1 | SelfContained |
| `staleUnwatch` | a handle is given back once more, or after a close: `clear` starts the ids from 0 again (`watch.ml:143`), so it may name another watcher | ServedUntilGiven |
| `blindInit` | a watcher is registered without the heads there are | KnownIsCurrent |
| two `Stores` | all stores of a process share one watch manager (`atomic_write.ml:122`): one is notified of the branches of the other, and closing one clears both | ServedUntilGiven, KnownIsCurrent |
| `lateArrival` | see the finding above | MutualExclusion (finding), MapSpec, ToldInOrder |
| `SameInfo` | a merge with the info of an earlier one, over two lowest common ancestors: commits are content-addressed, so that the merge of the ancestors may be one of the two sides, and `merge_commit` then takes the other for the result (`commit.ml:196`), which drops what the first has (`store.ml:796` and `store_intf.ml:989` promise otherwise) | NoOrphan, MergeKeepsBoth |
| `Pasts <- MCPastsCrossed` | histories with two lowest common ancestors, one of which has a parent that both sides reach beside it, before it is explored: the search answers with that parent too. A commit that is marked LCA when it is explored passes LCA to its parents (`commit.ml:534`), and a parent that is LCA already stays so (`commit.ml:488`), where a propagation passes SeenBoth from its second commit on (`commit.ml:516`), "below an LCA" (`commit.ml:392`). `commit_intf.ml:170` promises the lowest | LcasExact (as an invariant), MergeKeepsBoth |

The last row is a mistake of the code that loses data. In MCPastsCrossed (11 commits made with `Commit.v`) the lowest common ancestors of the two heads are 3 and
5, which have nothing at the path; the search answers 3, 4 and 5, and 4 has v2. `three_way_merge` folds all three into the base (`commit.ml:571`), which
so has v2. One side put v2 since, the other has nothing: the answer is nothing, without a conflict, and v2 is lost, where a merge over the
lowest common ancestors (`commit_intf.ml:196`) gives v2. What such an answer cannot do is proved (§6): it is still a common ancestor, no lowest one is missing,
and where one commit reaches the other it is the only answer, so that fast-forwards are not concerned.

Met while reading, with no run:
- the swap of a collection never fsyncs it (`gc.ml:300`);
- after a failed flush an index entry may name an offset the file does not have (`pack_store.ml:476`);
- a waiter gets `ECHILD` when another fiber reaped its worker (`async.ml:115`);
- the `on_finalise` callback is not called when the swap fails (`gc.ml:276`);
- `create_one_commit_store` leaves `running_gc` set (`store.ml:344`): later collections are skipped;
- `add_volume` that dies after it made the directory fails ever after (`lower.ml:78`);
- `migrate_to_lower` that dies half way (`file_manager.ml:513-583`) leaves a store without suffix;
- a reload that fails after the control file was read leaves a reader with the new ends and the old files (`file_manager.ml:391`);
- `Index.add` may raise after the entry is in the index and before it is staged (`pack_store.ml:473`);
- a read-only process never sees in-place updates of branches that it has read (`atomic_write.ml:93`): `ReaderTables`
  says no more than that its head is one the branch had;
- a record of a branch that a crash cut short makes `refill` fail, and the store cannot be opened (`atomic_write.ml:65`);
- the table of branches changes before the record is written (`atomic_write.ml:150`): if the write fails, `find` answers a head the
  file never had;
- an update whose new tree is the one that is there returns Ok before it looks at its test (`store.ml:804`), so that a
  `test_and_set` of a path that has `set` and not `test` is Ok (`store_intf.ml:724` promises an error);
- a conflict between lowest common ancestors, or a search that hit its limit, is taken for no common ancestor (`commit.ml:192`): a
  side that deleted then loses to one that did not, without a conflict, which `MergeKeepsBoth` allows where there is not one lowest common ancestor;
- `unwatch` "disable [w]. Return once the [w] is fully disabled" (`store_intf.ml:975`), but it takes the watcher out of the tables and returns with
  calls queued for it (`watch.ml:173`), which the fiber of the stream makes later: a callback may be called after `unwatch` has returned. So
  `DiffsDelivered` speaks of handles that are in use only, and `DiffsChain` and `OneCallAtATime` of late calls as well;
- `Head.merge` tries again without a limit (`store.ml:495-504`, `714`) and holds `t.lock` meanwhile, but updates of a branch do not take that lock, nor do other
  stores of the branch have the same one (`store.ml:507`): a rival that changes the head during each attempt makes the merge lose for ever, and with it
  the merges and fast-forwards that wait for its lock. The behaviour is fair, as every fiber goes on. `EndsOrLoses` allows it, an update gives up
  instead (`store.ml:722`);
- the storage in files notifies after the lock is released (`irmin-fs/irmin_fs.ml:234`), and a lock file that is too old is removed by
  whoever waits for it, perhaps after another removed it and made its own (`irmin-fs/unix/irmin_fs_unix.ml:88`).

## 6. The proofs

`FlushReload_proofs` proves

    THEOREM StoreCorrect == Spec => [](TypeOK /\ ConsistentStore)

for every set of hashes and strings, dict capacity, number of entries and crashes, every combination of
failures, with or without fsync, and with power failures when fsync is used (without it the code
promises nothing about them). It rests on `ConstantsAssumption` of FlushReload only: the types of the constants
(TLC evaluates it in every run of the module). `ConsistentStore` says that the ends in the control file, and those
a reader has taken from it and not used yet, are within the dict and suffix files.

It is not inductive. That the control file may be published safely depends on what a flush wrote before, that
on the state of the append-only files in memory, and after a power failure on which part of a file was
durable when the control file became so. The inductive invariant is

    StoreInv == TypeOK /\ AutoInv /\ FilesInv /\ (pc # "down" => WriterInv) /\ ReaderInv

- FilesInv: each file holds what the control file names; with fsync its durable part does, and the control
  payload that a power failure may leave is not ahead of it;
- WriterInv: what the append-only files have in memory fits their files and is not behind the control file, and a stage of the flush
  leaves behind it an empty buffer and, with fsync, a durable file;
- ReaderInv: at the stages of an open or a reload where its payload is still to be used, it is within the files;
- AutoInv: a flush that the index started belongs to the value being added.

The argument is the usual one: `InitStoreInv`, `NextStoreInv`, and `StoreInv` implies the two properties; one
lemma for each action, over lemmas about the operators (`OverwriteType`, `FlushedType`, `SurvivingType`,
`FlushStageInv`). The crux is that a file never gets shorter: an append-only file writes at its persisted
end, which is at least the published end, and overwriting keeps what stands before. StoreInv was checked by TLC
before it was proved.

The rest of `FlushReload_proofs` and `FlushReloadReads_proofs` prove what else the runs of FlushReload check, with no bound on entries, deaths or readers' visits:

    THEOREM DictKeepsIds  == Spec => DictIdsStable
    THEOREM FilesAreLog   == ASSUME ~PowerFails                             PROVE Spec => LogSpec
    THEOREM EntriesDecode == ASSUME "append" \notin Failing                 PROVE Spec => []PublishedDecodes /\ []ReaderDecodes
    THEOREM IndexIsBehind == ASSUME ~PowerFails                             PROVE Spec => []IndexBehindControl /\ []ReloadedIndexResolves
    THEOREM AcksSurvive   == ASSUME ~PowerFails                             PROVE Spec => []AckedSurvives
    THEOREM ReaderFinds   == ASSUME ~PowerFails, "append" \notin Failing    PROVE Spec => []ReaderReads
    THEOREM WriterFinds   == ASSUME ~PowerFails, Failing = {}               PROVE Spec => []WriterReads

The assumptions are needed: a failed append breaks decoding, a death and then a power failure what was acknowledged
(section 5 has both), and a failed flush leaves a value in the buffer that no table has (`pack_store.ml:476`). They rest on StoreInv and

- `StepKeeps` (`FlushReload_proofs`): no step, of whatever fault, changes the part of the files that the control file covers (PublishedKept);
- EndsInv: a writer knows the control file, the end a flush acknowledges is the one it published, and a reader's ends follow its payload
  in the order of its open and reload. With PublishedKept, a step of the system is a step of the log: publishing, acknowledging,
  or a reader that advances or leaves;
- DecodeInv (`FlushReloadReads_proofs`): the table of the dict is its append-only file, in the file up to the persisted end and in the buffer after it (`At`);
  each entry of the writer decodes with that table; and each entry that the control file, what a power failure may make of it,
  and the payload of the reader name, with the dict named there. What makes publication safe is that both buffers are empty at that stage (`AppendedDecodable`);
- IndexInv (`FlushReloadReads_proofs`): the index in memory leads into the suffix or its buffer, the one on disk into what is published, since
  the two ends are equal whenever the index is written, by a flush or by a close (`WriterIndexLeads`);
- AckedInv and StagedInv: the index of a writer has all that the one on disk has; what is in the buffer is staged or being added.

`ChunkedSuffix_proofs` proves, for any number of entries, chunks, collections, deaths and visits of a reader, and any
reachability that goes to older entries and is transitive (`ConstantsAssumption`),

    THEOREM StoresRead              == ASSUME NoTail PROVE Spec => []Reads
    THEOREM DeathSurvived           == ASSUME NoTail PROVE Spec => []SurvivesDeath
    THEOREM ResidueIsBounded        == ASSUME NoTail PROVE Spec => []ResidueBounded
    THEOREM ImplementsCollectedLog  == ASSUME NoTail PROVE Spec => CollectedSpec

    NoTail == "control" \notin DiesAt /\ (AutoFlush => "batch" \notin DiesAt)

NoTail says that no death leaves bytes in the last chunk after the end the control file gives. It excludes exactly the deaths of the row of §5, which
shows that the theorems need it; deaths at rest and in a split may come with automatic flushes, those in a batch without.

Each process computes offsets by summing up the chunks it knows, from different first chunks, and the
sums of two processes are never compared in the code. The invariant makes the comparison:

    IInv == Types /\ Names /\ Residue /\ \E b \in Begins : Core(b)

`b` gives the offset of the log at which each chunk file begins, once and for all. Files hold the log from there on, and a file ends where
the next begins (Placed). The chunks that the main process, the worker or the reader holds are a View of it: consecutive files,
of which only the last may still grow. Every payload that a process took from the control file earlier stays Sound: its
start is the beginning of its first chunk plus its dead entries, its prefix holds what its target reaches, and it is not ahead of the
control file. A split extends b by one chunk (`Followed`), an append leaves it alone, a collection only moves the
first chunk, so that older views stay views of the same b (`Later`). Names says which files are in
the directory, as against those somebody has open, and Residue what a death or a failed collection left there.
The sums are recursive functions over the chunks. What they sum up to is proved without the induction theorems, from the least
place at which a sum would go wrong (`WFMin` of WellFoundedInduction): `InventoryIs`, `EndOfView`.

For CollectedLog: `ReadsLog` says that what a process that opened the store would read is the log at the live offsets, so a step publishes,
collects or stutters. That a collection only takes away needs `Collects`: the commit which a worker was given
reaches live entries only, or the worker fails, and no other collection moves the target in between.

`GcCycle_proofs` proves the invariants of `gc_cycle` for any fibers and any number of collections, entries and waits, and says for each
which situations of §5 it cannot live with (`Never(S) == S \cap Allowed = {}`; the others may happen):

    THEOREM CommittedKeptAlways     == ASSUME Never({"overlap", "batchInWait"})
    THEOREM IsFinishedHonestAlways  == ASSUME Never({"overlap", "cancelInWait", "finaliseInBatch", "mainKilled"})
    THEOREM CallbackCalledAlways    == ASSUME Never({"overlap", "cancelInWait", "batchInWait"})
    THEOREM CoherentAlways          == ASSUME Never({"overlap", "cancelInWait", "batchInWait", "finaliseInBatch", "mainKilled"})
    THEOREM NoSpuriousFailureAlways == ASSUME Allowed \subseteq {"cancel", "workerDies"}
    THEOREM NoLeftoversAlways       == ASSUME Allowed \subseteq {"cancel", "workerDies"}

The situations are those that TLC refutes the property with, and one more: `cancelInWait` in CallbackCalledAlways and CoherentAlways, where
the proof rests on Waited and TLC knows of no counter-example. The
parts: collections are numbered as they start (Numbered); the flag of the repository is set just when a batch runs, and one runs at a time
(OneBatch); outside of batches all is flushed, and nobody waits during one (Flat); a fiber waits for the collection that runs, or for one that was
reaped (Waited); the collection that runs makes the next generation (HasPrefix), whose files are its own (Owned); and no other files are
there (Clean). CommittedKept needs Flat, as the swap of a collection may only happen when the batch that appended is over and
flushed. Coherent needs Owned, as the prefix that the swap opens has the name of a generation, not of a collection.

`BranchStore_proofs` proves, for any sets of branches and heads and any number of events and registrations, from
`BranchStoreAssumption` and `WatchAssumption`,

    THEOREM OneRecord         == Spec => []OneRecordPerKey
    THEOREM TablesAreTheFile  == Spec => []FileMatchesTable
    THEOREM TablesOfBoth      == Spec => []FileAndTables
    THEOREM StoresAreMap      == Spec => MapSpec
    THEOREM CallsOneAtATime   == Spec => []OneCallAtATime
    THEOREM DiffsFollow       == ASSUME OneStore, "blindInit" \notin Allowed     PROVE Spec => []DiffsChain
    THEOREM ServedWhileWatched == ASSUME OneStore, "staleUnwatch" \notin Allowed PROVE Spec => []ServedUntilGiven

where OneStore stands for `\A s, t \in Stores : s = t`; the others hold for any set of stores. The two rows of §5 on watchers show why.

The two invariants of the file need each other: a write goes to the place that the table gives,
so that the file keeps one record for a branch only if the tables match it, and the place of a branch is
unique, and found by a reopened store, only if there is one record. With the types of the file and of the tables they are inductive. The lemmas on `PlaceAfter` (`PlaceFound`,
`PlaceOverwritten`, `PlaceAppended`) say what an overwritten and an appended record do to the place of each key; `StepKinds` sorts the
actions into those that change one branch and those that change none. StoresAreMap then is one step for each kind: the head in the file of one branch
changes to the one asked for, and the test was made on that head because table and file agree. A reader's tables are right for the records it has read, which keep
their branches when they are overwritten (ReaderInv).

The watchers: each call that is left stands in one stream, at most one of a registration in a job, and in the stream that takes jobs if the
registration is in use (InOneStream, InLast), hence one call at a time. The calls of a registration for a branch follow
each other, in the order of the queue, from what it saw last to what it was promised (`Chained`, which needs no hypothesis), and a watcher
of an open store knows the head there is (Current).

`Storage_proofs` proves, for any fibers, keys and mutexes, with or without failures,

    THEOREM LockExcludes        == ASSUME "lateArrival" \notin Allowed PROVE Spec => []MutualExclusion
    THEOREM StoreIsMap          == ASSUME "lateArrival" \notin Allowed PROVE Spec => MapSpec
    THEOREM TableIsDrained      == ASSUME "lateArrival" \notin Allowed PROVE Spec => []TableOK
    THEOREM WatchersToldInOrder == ASSUME "lateArrival" \notin Allowed PROVE Spec => []ToldInOrder

The assumption is the one the finding needs. The invariant `LockInv` has four parts: a fiber has a mutex just when it is in a call
(InCall); the queue of a mutex has the fibers that refer to it, each once (Queues); a fiber that runs is the
first of its queue (First); and all the fibers in calls of one key are on one mutex, that of the table if it has the key (SameMutex). The last is what late arrivals break. `TestStands` adds that the head which a test_and_set has found
is still there when it writes, as only fibers with the lock of the key write it; `ToTell` that the head a fiber is about to tell
the watchers is the one there is. For the table, fibers that share a mutex work on one key (OneKey), so that the last to leave knows which key to drop.

`LowerLayer_proofs` proves the invariants of `lower_layer` for any commits and any number of collections, volumes and deaths, from the
absence of the situations that break them (§5):

    Apt == TreesGrow /\ Never({"addBehind", "forked", "staleControl"})        (short for what all have)

    THEOREM TypeCorrect           == ASSUME Apt                PROVE Spec => []TypeOK
    THEOREM FilesRecover          == ASSUME Apt                PROVE Spec => []Recoverable
    THEOREM VolumesSelfContained  == ASSUME Apt                PROVE Spec => []SelfContained
    THEOREM NoneRefused           == ASSUME Apt, ObjectsAdded  PROVE Spec => []ArchiveAccepted
    THEOREM BothRead              == ASSUME TreesGrow, Allowed = {}  PROVE Spec => []ArchivedReads

Where the table of §5 names a situation for a property, the theorem needs its absence. The three of Apt refute SelfContained or ArchiveAccepted; TLC
knows of no counter-example to Recoverable with them, whose proof goes by the same invariant. FilesRecover and VolumesSelfContained hold
with deaths and readers in the middle of a swap; BothRead does not.
The invariant of the files (`Files`) speaks of the control file that a restart would find or make for each volume, `Covering`, which
a swap changes in one instant, the rename of the control file of the store. Laid: by these control files, the ranges of the volumes are apart and
their data and mappings say the same. Place: where the suffix starts is where the last range ends, but right after a migration, or with an
empty last volume. Archive: every archived commit has its tree and its parent in the volume whose range it is in (SelfContained), and each of
those also in the volume whose range has it (so that it is found when it is asked for by itself); what it reaches is archived too; and the prefix has the tree and the
parent of the last target. Work says how far a worker is: what it has written
stands after what `Covering` covers (Writing), so that an abort at any point changes nothing that is covered, and the next worker writes over it.

The crux is the collection of t after that of c. The entries it archives are those of t's history from the start of the suffix on.
What such a commit hangs on is among them, or hangs on c as well (`Inherits`, where TreesGrow and the descent of t from c are
needed), and these are in the volume already or come into a new volume with the prefix of c (`AheadInherits`).
`RoInv` is for readers: the control files a reader loaded are older forms of those that cover the volumes now (`Older`), and cover
what was archived then. A reader that has only read the control file of the store loads volumes of that moment or newer ones.

`StoreHead_proofs` proves, for any fibers, requests, histories to begin with, retries and calls, from `StoreHeadAssumption` (a history
has commits that come after their parents and are stored once, a store has one head; TLC evaluates it in every run),

    THEOREM GivesUpHonestly    == Spec => []RetriesHonest
    THEOREM HistoryStaysOK     == Spec => []HistoryOK          (TypesHold: TypeOK, SearchesFind: LcasFound)
    THEOREM AnswersAlwaysHonest == Spec => AnswersHonest       (TestsHeldAlways, FastForwardsHonest)
    THEOREM NoCommitOrphaned   == ASSUME ~SameInfo PROVE Spec => NoOrphan
    THEOREM MergesKeepSides    == ASSUME ~SameInfo PROVE Spec => [][KeepsSides("common")]_vars
    THEOREM MergesKeepBoth     == ASSUME ~SameInfo PROVE Spec /\ []LcasExact => MergeKeepsBoth
    THEOREM SearchFindsAll     ==
      ASSUME NEW h, WellFormed(h), NEW c1 \in Commits(h), NEW c2 \in Commits(h)
      PROVE  /\ LowestCommon(h, c1, c2) \subseteq Lcas(h, c1, c2)
             /\ Lcas(h, c1, c2) \subseteq Ancestors(h, c1) \cap Ancestors(h, c2)

The assumptions are those of §5. `~SameInfo` says that each merge has an info of its own; with equal ones TLC refutes NoOrphan and MergeKeepsBoth. `[]LcasExact`
says that searches find nothing but the lowest common ancestors; the row on MCPastsCrossed shows that they may, and that MergeKeepsBoth then fails. It is a hypothesis on behaviours: all of `store_head` satisfy it. MergesKeepSides is what is left without it: a side whose tree is not in the merge
has the tree of some common ancestor, instead of a lowest one, or nothing, where there is not just one common ancestor.

*The recursion.* Ancestors, the two loops of the search, the loop over parents and the merges of bases are functions that TLA+ chooses among
those with their equation, so that each must first be shown to have one. No induction theorem is used. A loop over states gives what stands at
the end that a state reaches, in every set that is closed under its steps (`LoopExists`). A count over 0..n has a solution up to each number, or there
would be a least one without (`CountExists`). A loop that comes nearer to its end ends where it should, or there would be a nearest state from
which it does not (`LoopEnds`). The measures are, for a propagation of marks, the marks that may still change and then the commits that wait (`WalkEnds`);
for the search, the commits not explored and then the queue (`SearchEnds`). Merges of bases are counted by level (`ThreeWayMergeKeeps`).

*The search.* `Right` is what the marks mean: one of a side is reached from that side, one marked seenBoth lies below a common ancestor, a commit that
was explored has passed what it has to its parents (but for the one whose parents are being marked), and a search that is over has marked all the lowest common
ancestors from both sides. `InLayers` says that the queue has two depths at most, as the assertion of `update_parents` has it, that parents of
commits of earlier layers are explored or wait at the current depth, and those of the current layer are explored or wait. With both, the search stops only when no lowest
common ancestor is left to find, and one that is marked from both sides is LCA, as it is below no other (`FirstIsRight`, `MeetsRight`, `LcasFinds`).
What is missing for exactness is that an LCA is not below another, which is not so (§5). It holds when one commit reaches the other, and `Fed` is the invariant of that
case: a commit which the older one reaches, and which waits for no mark seenBoth, has a child that was explored and is reached from the older one only. The
newest of the answers beside the older commit would need a newer one, so there is none (`LcasOfAncestor`).

*The merges.* `Merging`: a conflict, or one of the two sides, or a commit that joins others with the info of the call. A side that is itself no such commit is reached by
the result, and the result has its tree unless the side has the tree of a commit that the search found, or nothing where the search found not one alone (one commit is
its own base, `BaseOfOne`). The same of the base, by the
loop over what the search found (`Basis`, `MergedBaseKeeps`), and of each level of merges on the level below (`MergeWithKeeps`).

*The fibers.* Inv (with `Paid`): the swaps that a call has lost are at most the changes that others made to its head since it began, and fewer when the head is not the one it read any more; a
retry must read the head again for that to be inductive. `IType`: the types, with those of what each call holds (ICalls), and commits it holds
are in the history. `ISwaps`: a fiber that is to swap has made its commit from the snapshot it will compare with, and its test held there. `IReaches`: the
new commit reaches that snapshot. It needs `IFresh`: no head, no commit that another call brings or has made joins others with the info of a merge that runs, so that a commit which the merge makes is none of the sides of another.
`ISides`: the new commit of a merge keeps the snapshot and the other side. `IForwards`: the commit of a fast-forward is strictly in the future of the snapshot, by LcasOfAncestor.

Model-checked only: liveness (`EndsOrLoses`, `CallsReturn`, `DiffsDelivered`, `WaitReturns`, `GcEnds`), and what the theorems assume the absence of, in the runs
that refute. Liveness under fairness and anything with ENABLED are out of the prover's reach. So are the library's induction theorems, which take an operator;
least counterexamples (`WFMin`) and the lemmas on loops above stand in for them.
No module declares an operator RECURSIVE: recursion is a recursive function.

## 7. Abstractions, and what is left out

Assumed of the environment: `rename` is atomic, and durable once the file was fsynced; a write and
its fsync are one step; a failed system call has no effect or the partial one the action says; a buffer may overflow at any append, so an automatic
flush is a choice. `waitpid`, `kill`, the index library and Lwt are modelled from how the code uses them.

Abstracted: values, names and formats; lengths in bytes; hashes and checksums; statistics and logs;
the traversal of a collection (it is the set of entries its commit reaches). The search for
ancestors, and the merge of its answers, go through sets of commits in the order of hashes, the model in that of `SetToSeq`. TLC sees one such order;
the proofs use of it only that each commit of the set is there, so that SearchFindsAll and the theorems on merges hold for every order. The info of a merge is
constant from its first attempt to its last; the code calls a function for it (`info ()`), each time a commit is made. With a constant info it does not matter that
`Merge.option` makes the base of a merge once more than `merge_commit` (`merge.ml:117`): the same commits come out.

Left out of the parts that are modelled: upgrades from versions 1 to 3, the steps of `migrate_to_lower`
(its result is an initial state), `create_one_commit_store` and snapshots, power failures during a
collection, a reader that goes on after a reload that failed half way, `next_valid_offset` and sequential
reads, the cache and prefetch of the pack store, the threads and merges inside the index; the listener of directories of a watch manager
(`listen_dir`), partial and failing writes of branches; `with_tree` and `?parents`, the limits `max_depth` and `n` of the search for ancestors, merges of
nodes with several paths. The locks of the storage in files need processes and clocks of their own. The cache, the searches of PackAlgorithms and
the inodes are sequential or pure: their questions are about data, which unit tests reach. Parts
that are not modelled at all are in section 1, with the reason in `PROJECT.json`.
