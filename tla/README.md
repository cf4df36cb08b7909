# TLA+ models of dagayn

dagayn parses a repository into a SQLite graph and keeps it current while hooks,
MCP servers, CLI runs and background workers read and write it at the same time.
This directory models the parts that coordinate those processes and that keep the
graph true to the working tree: the locks, the task queue, the store cache, the
update pipeline, the migrations, the derived rows and the MCP front end. Paths
below are relative to the repository root.

## Inventory

| Component | State it keeps | Operations | What makes it correct |
|---|---|---|---|
| Thread lock, `dagayn/write_lock.py` `_RWThreadLock` | shared counts, writer and its count, queue of waiters, stack of modes per thread | `acquire` (blocking, with time-out, non-blocking), `release` | a writer excludes every other thread; counters equal holds; no lost wake-up; arrival order; nobody starves |
| Graph lock, `dagayn/write_lock.py`, `crates/dagayn-build/src/lock.rs` | one flock handle and a stack of modes per process and database | `acquire_graph_lock`, `release_graph_lock`, Rust `GraphLock::acquire_mode` and `drop` | writers exclude writers and readers across threads and processes; every call returns |
| Task queue, `dagayn/task_queue.py`, `crates/dagayn-build/src/task_queue.rs` | the `tasks` table, the `queue_worker.lock` flock | `enqueue`, `claim`, `complete`, `fail`, `requeue_stale`, `clear`, `ensure_worker` | no request is lost to coalescing or a crash; bounded retries; a queued update is eventually run |
| Queue worker, `dagayn/tools/queue_worker.py`; watchdog, `dagayn/hook_guard.py` | current task, idle window, armed timer | `run_worker`, the executors, `start_budget_watchdog` | one worker at a time; a running row is being executed; an overrun ends the process and is recorded |
| Store cache, `dagayn/tools/_common.py`, `crates/dagayn-py/src/lib.rs` | cached stores, leases, read locks bound to stores | `_get_store`, `close`, `_evict_store_cache` | no user is missing from the leases; a reader works under the flock; every call ends |
| Update pipeline, `crates/dagayn-build/src/{update,build,parse_batch,vcs}.rs` | a row (hash, mtime, extractor) per file, the HEAD and extractor stamps | `incremental_update`, `full_build` | the stamps never claim more than was indexed; a quiet update leaves the graph equal to the tree |
| Sync status, `crates/dagayn-build/src/status.rs`; session prepare, `dagayn/tools/session_prepare.py` | none: reads rows and stamps | `assess_graph_sync` | a graph called synced is |
| Graph store, `crates/dagayn-graph/src` | the schema and its version, the tables | `GraphStore::open`, migrations, `store_file_batch`, `remove_files_data`, bulk load, FTS sync | an open store has the latest schema whatever crashed; derived rows follow the nodes |
| Post-processing, `crates/dagayn-build/src/postprocess.rs`, `crates/dagayn-postproc/src` | signatures, FTS rows, bridges, communities, risk index, recorded level | the passes of `run_passes`, `rerun_postprocess` | no dangling reference, no node that search misses |
| MCP front end, `crates/dagayn-mcp/src/lib.rs` | the session, the pipe to the backend | the arms of `handle`, `boot`, `relay` | one reply per request; the backend sees the session the client opened |
| Daemon, `dagayn/daemon.py` | watch children per repository | start, stop, restart, reload | one live child per configured repository |
| Worktree seeding, registry, atomic writes | files | copy, replace | no half-written file is read |
| Embedding store and local server | vectors, sidecar process | embed, prune, start, stop | pass budgets, no orphaned server |
| Parsers and extractors, `crates/dagayn-parser/src` | none | bytes to nodes and edges | language by language |
| Query tools, `crates/dagayn-tools/src` | none but pending refactorings | read-only queries | the answer is the graph's |

How they interact. A hook enqueues a request (one SQLite transaction) and probes
the worker lock; if it is free it spawns a worker. The worker takes the worker
lock for its lifetime, recovers rows a dead worker left `running`, and claims
tasks one by one. An executor takes the graph's write lock through the graph
lock, which first takes the process's thread lock and then the flock on
`graph.db.write.lock`, and runs an update: git says what changed, the files are
classified, parsed and stored batch by batch, the stamps are written, and the
post-processing passes bring the derived rows up to date. MCP tools and `dagayn
status` take the same lock shared, in Python through the store cache or in Rust.
Whoever opens the graph migrates it. A client of `dagayn serve` talks to the Rust
front end, which boots the Python server behind it when it first needs it.

What is hard: steps of threads and processes between two critical sections
(lookup and publish of the lock handle, enqueue and probe, claim and complete,
timer and cancel, lease and close), locks that the kernel cannot convert
atomically, time-outs at each of these steps, a tree that changes while it is
read, statements that commit one by one, and processes that die anywhere.
`PROJECT.json` lists these hazards at their lines.

## Modules

| Module | Models |
|---|---|
| `RWLockOps` | the state of one `_RWThreadLock` and what each method's critical section does to it |
| `RWThreadLock` | threads that use one such lock; safety, arrival order, starvation freedom |
| `RWLockLemmas` | what each operator of `RWLockOps` keeps of a sound lock |
| `RWThreadLockProofs`, `GraphLockProofs`, `TaskQueueProofs`, `UpdatePipelineProofs`, `PostprocessProofs`, `McpFrontProofs` | the proofs about the module they are named after |
| `StoreProofs` | the proofs about the graph store: `StoreCache` and `SchemaMigrations` |
| `GraphLock` | per-process thread locks (the operators of `RWLockOps`) over a shared flock, native lockers, crashes; shown to drive each thread lock by the rules of `RWThreadLock` |
| `TaskQueueOps` | the `tasks` table and what each SQL transaction does to it |
| `TaskQueue` | hooks, workers, the worker lock, the watchdog and the environment over that table |
| `StoreCache` | the store cache of one server, over the steps of its graph lock |
| `UpdatePipeline` | `dagayn update`, `dagayn build` and the answer of `dagayn status`, beside an editor and git |
| `SchemaMigrations` | opening a graph: the version check, the schema batch, the migrations, bulk loads |
| `Postprocess` | the rows derived from the nodes and the runs that keep them |
| `McpFront` | the front end, its relay thread and the backend |
| `MC*` | instances for TLC, where a constant needs a definition |

Definitions named as a *slip* or a *mutant* in their comment are wrong variants
of the definition that follows; replacing the definition by its variant must
break the property that guards it.

### RWThreadLock

`rw` is a record with the fields of `_RWThreadLock`; `granted` holds the flag of
a `_Waiter` together with its mode until the thread wakes up. `acquire` is
`Acquire` (up to the first wait; it may return at once), `Wake` and `Timeout`;
a non-blocking attempt that fails is `TryAcquireFails`. `Dispatch` replaces the
loop of `_dispatch` by what it amounts to: one writer, or the run of readers at
the head of the queue. That is exact, because a granted writer stops the loop
and after granted readers the next writer sees readers that are not its own.

### GraphLock

A thread's `call` is its place in `acquire_graph_lock` or `release_graph_lock`.
Between two steps stand exactly the points where the code holds neither the
thread lock's condition nor `_registry_lock`, and each flock call is a step.
`held` is the entry of `_file_locks`, `flock` what the kernel holds per open
handle. The kernel's `flock` is external: shared locks coexist, converting a
lock drops the old one first, closing a handle drops its lock. A handle that
nothing refers to any more is closed at once (reference counting). A thread is
inside a `with` block when its `call` is at `run` and its stack is not empty.
Left out: platforms without `fcntl`, `flock` failing with another error than
"would block" (the code then proceeds unserialized by choice), the pid in the
lock file. The store bindings of `bind_store_read_lock` are in `StoreCache`.

### TaskQueue

A row keeps its kind, priority, payload (reduced to whole corpus or file set,
and `skip_structure`), state and attempts. Times are reduced to what is compared:
`ready` (`not_before` has passed), `unlanded` (`updated_at` is later than the
graph's `last_updated`), `overrun` (`last_error` begins with the budget note).
Row ids are allocated as SQLite does for a rowid table without AUTOINCREMENT:
one more than the largest, so a deleted last row's id returns.

A hook goes through enqueue, probe, release, spawn. A worker's `pc` follows
`run_worker`: recovering (the SELECT of `requeue_stale`), requeueing (its
UPDATEs), poll, due, begin, working, followup, done or raised, closing. The
watchdog is a second thread of the worker: it expires, records the overrun
through its own connection and exits, and `cancel()` does not stop a callback
that has begun. What an executor does is an outcome: success (which may move
`last_updated` and may ask for a follow-up embed), skipped, raised. `open` and
`seen` are ghosts: the requests nobody has served, and those a worker's task was
claimed after.
Left out: the task log, explicit `--priority`, `--no-worker`, `max_tasks`, a
spawn that fails (it is a worker that crashes at once), unknown kinds.

### StoreCache

`store` holds the native stores (open, leases, read locks bound to them), `cache`
the entry of `_store_cache`, `guard` the owner of `_store_lock`. `modes`, `holds`
and `writer` are the graph lock: the stack of `_file_locks` and the thread lock's
counts. A call goes through `GetStore` (the question `write_lock_is_held`), the
acquisition, `Lookup`, a lease (two steps: the getter and the setter of the native
counter) or a fresh store, the bind, its work, `close`, `_force_close` and the
unbind; `close` is the native one and does not take `_store_lock`. The acquisition
has the steps of `acquire_graph_lock` and `_flock_acquire`, between which other
threads run: the thread lock (`Lock`), the look at the registry (`FlockLookup`),
the wait for the flock of a file of its own (`FlockWait`) and its registration
(`FlockPublish`), which replaces what another thread has registered since and
notes that in `calls.lost`; each wait may time out. A store that cannot be opened
(`OpenRaises`) gives the lock back (`GiveBack`). The thread lock's queue is in
`RWThreadLock`: here a reader that cannot have it at once waits. A release is one
step. A miss and an eviction go through
`_release_cached_store` and `drop_store_read_locks`. Writers are a tool of this
process and another process. `data_version` is external: `_data_version` asks a
new connection each time, whose answer does not move with the commits of others,
so an entry is told stale by its mtime alone. Left out: uncached stores, which
share nothing, and the registration of live stores.

### UpdatePipeline

One number stands for a file's bytes and hash, one for its mtime. `run` is the
update or build that holds the write lock; each git call, each stat, each read
and each transaction is a step of its own, and the editor and git move between
them. `StartUpdate` to `StampHead` follow `run` of `update_cmd.rs` and
`run_pipeline`: the base diff, the status, the scope, the classification
(`StatFirst`, `ReadAfter`), the plan with its dependents (two hops), removals and
mtimes, and the lanes in the order in which `parse_planned` stores them. A lane
of changed files stats before it reads and may use the bytes of the
classification while the mtime stands; a lane of whole files reads first.
`Assessment` is the answer of `assess_graph_sync`. The plan is one step, although
`run_pipeline` stats and reads the candidates of other parsers again there
(`update.rs:224-241`). An edit between these looks is one between the plan and the
lane that follows: a file found changed goes to a lane that reads it once more;
one found unchanged was so when it was read, under an mtime taken before, so an
edit after that is one after the run's last look, which the properties allow
anywhere. `AssessmentHonest`, the property about mtimes, asks about owned files,
for which the plan compares the mtime alone.

`Events` names what may go wrong or out of the ordinary; each happens once at
most. A stale base is the same as a given one: another update that moved the
stamp between `PeekBase` and `StartUpdate` leaves the base behind the stamp, which
`NameBase` does too, so one updater is enough. One extractor stands for all.
`Preserve` is a tool that writes new bytes under an mtime of the past, the stored
one included (`cp -p`, `rsync -a`, `tar x`, or two writes within one tick). What
git reports as changed is decided by content; its own stat cache is not modelled.
Left out: submodules, jj and svn, ignore patterns, git calls that fail, the cap
on hashed files in status (its answer is then marked unverified), the cap on
dependents, the flag of seeded graphs, and a first build that dies (it leaves no
stamp and the next update is a build).

### SchemaMigrations

The schema is the set of its objects. A process inside `run_migrations` is at a
`step` of a `round` of its loop (`LastRound`: past the loop, in
`ensure_edge_target_name_column`); `Statements` lists what a round executes, each
statement committing on its own. Where the code looks before it writes (a column
that may be there, a table that may be missing, an FTS table that was never
filled), `Probe` is the look, which sets `half`, and `Exec` the write that
follows it; others may write in between. What a graph of an older version holds
is computed from the migrations themselves (`Holds`). `shared` fixes for a
behaviour whether opens overlap, which they do when commands that only read open
the graph.

### Postprocess

One node stands for the nodes of a file; ids come from the AUTOINCREMENT
sequences, so a parsed file's node has a new one. A run is chosen with what it
will find (the fate of each file) and executes transaction by transaction:
removals, file batches, the end of a bulk load, then the passes of its level in
`PassOrder`. A failed pass is a warning and the next one runs; a database error in
`compute_summaries` is not even that (`summaries.rs:6`). Leiden is
external: the clusters are given. The repository may have a manifest no parser
reads, whose File node only `replace_manifest_bridges` makes. Left out: edges and
the resolvers that change only them, embeddings, the passes of the watcher.

### McpFront

A line is its kind and its number is its id. `handle` has one arm per arm of
`Session::handle`: `response` is a message without a method (a client's answer to
the backend, or a batch, whose requests a front end without a backend drops), and
an envelope is one of the revision the front end speaks (`modern_list`,
`modern_call`) or of another (`modern_other`), which is delegated and decides no
era. `pipe` is everything written to the backend, `boot` what it is sent before
the line that booted it. The backend is external: it reads in order, answers in
any order, and closes its replies some time after it has read the end of its
input, with or without having answered everything. `serve_eof` closes the pipe,
and `serve_return` joins the relay, which ends when the closed replies are drained;
the process ends with it. A native tool may decline, so both outcomes are taken. A
failing write or boot ends the process and is left out.

## Runs

| Run | Instance | Shows |
|---|---|---|
| `thread_lock` | 4 threads, depth 2 | exclusion, counters, no lost wake-up, arrival order, no self-blocking, every waiter is served |
| `graph_lock` | a process of 2 threads, one of 1, 1 native locker, depth 2, crashes | two writers never overlap; the reads of a single-threaded process and of native code exclude writers; the registry equals the holds |
| `graph_returns` | 1 process of 2 threads, 1 native, depth 2 | every acquire call returns; the thread lock is used by its rules |
| `graph_overlap` | 1 process of 2 threads, 1 native | **violated**: finding 1 |
| `queue` | 2 requests, 2 workers, 1 fault of any kind | no lost request, running means executed, bounded retries |
| `queue_live` | endless edits, 1 crash | every pending update is claimed |
| `update` | 2 files, 2 edits, 1 further commit, 2 events of 8 | the stamps hide nothing, a quiet update converges, status is honest, the graph catches up |
| `update_midcommit` | 2 files, 1 edit, a commit inside the run | **violated**: finding 2 |
| `schema` | 2 new binaries and an old one, 2 opens at a time, 1 crash, 8 starting versions | the version is honest, an open gives the latest schema |
| `rows` | 4 files in 2 clusters, 3 runs, 1 failure, with and without a manifest | the index and the references follow the nodes |
| `mcp` | every session of 4 lines of 8 kinds | one reply per request, none lost at the end; the backend sees the session and its era |
| `store` | 2 threads, 5 calls, a writing tool, another process | leases and flock cover the users, every call ends |

Bounds. Four threads are enough for a holder, an upgrader, a waiter ahead and a
waiter behind; depth 2 for a write in a read. In `graph_lock` the process of two
threads has the races of the registry and the other one shows what they do to
somebody else. Two workers are one that drains and one that starts beside it or
after it; a fault anywhere meets every step of the others. `MaxId` bounds row
ids, which grow only while a follow-up chain keeps the table from emptying. Two
files are one the Rust parser owns and one it does not, and the second imports
the first, so dependents are parsed; two edits are one that is read and one that
comes too late. The starting versions of `schema` are those that leave a
migration with something of its own to find. Four files in two clusters are the
fewest for a region that is not more than half of the graph. The lines left out
of `mcp` behave as one that is there (the cfg says which). The cap on calls in
`store` is needed because a lease or a hold that leaks would grow for ever.
Symmetry is used for workers in `queue` and for the new binaries in `schema`,
both without liveness. `queue`, `queue_live`, `rows`, `mcp` and `store` do not
check for deadlock: with the bound on invocations, runs, lines or calls reached,
the system stops.

Fairness. `thread_lock`: notified threads run, every `with` block ends (so the
release at each nesting depth happens), upgrades reach their deadline; the other
waiters get no help from theirs. `graph_returns`: a thread inside an acquire keeps
running, which includes that a poll loop reaches its deadline; nothing is assumed
about releases. `queue_live`: processes keep running, backoffs elapse, one hook
fires again and again, and a worker that keeps finding the worker lock free gets
it. With two hooks in lock step this last assumption would not be enough: each
probe could turn the other hook's worker away for as long as the probes overlap
every start. `update`: a run goes on, and updates are started again and again, as
the hooks do; edits and commits are not fair. `mcp`: the backend reads, and
answers until it closes its replies, and the relay copies; nothing is assumed of
the end of the input. `store`: a call goes on, and another process that
writes ends.

## Findings

1. `graph_overlap`: two threads that take a process's first read lock together
   each publish a handle; the second replaces the first, whose hold is no longer
   counted. The first release unlocks under the other reader
   (`dagayn/write_lock.py:419`).
2. `update_midcommit`: HEAD is read for the stamp at the end of an update, the
   diff at its start (`crates/dagayn-build/src/update.rs:539`). A file edited in
   between and committed is clean and not in `diff stamp..HEAD`: its old row
   stays until its bytes change again.

The third finding is that of a passing run (`rows`): a comment and the code disagree,
and it is the code that does better. The comment of `prune_orphaned_graph_structures`
(`crates/dagayn-postproc/src/prune.rs:14-18`) says that "every re-parse orphans the
community assignments and risk rows" and "Nothing else removes them:
`remove_files_data` drops nodes and edges only", and
`docs/SESSION-GRAPH-FRESHNESS.md:191-194` expects the sweep to find rows "orphaned by
a path that bypasses the Python store, such as the Rust backend".
`delete_node_keyed_rows_tx` (`crates/dagayn-graph/src/helpers/tx.rs:48-69`) deletes
the risk rows in the transaction that deletes their nodes, in the removals and in
the file batches. So the `risk_index` half of `ReferencesLive` holds at every
moment, which the comments deny, and the sweep has no risk rows left to find; the
communities that lost their members are the part of it that still has work to do,
as `Pruned` checks.

## Where the guarantees stop

Some properties are conditional. Each condition names a behaviour of the code
that TLC finds when the condition is dropped:

- `ReadWriteExclusion` and `RegistryMatchesHolds` ask only about single-threaded
  readers: finding 1. The same race has a second face: a release that re-shares
  the handle does so after leaving `_registry_lock`, and `fileno()` of a handle
  closed meanwhile raises a `ValueError` nobody catches (`write_lock.py:457`).
- `UpdateClaimed` needs hooks that keep firing: a task enqueued between the
  worker's last look at the queue and its release of the worker lock waits for
  the next hook (`task_queue.py:590`).
- `RetriesBounded` allows crashes only: `fail` and `_park_dead` name the id of a
  row, which after a clear, or for a watchdog callback under way when its task
  completes, may be a younger task's (`task_queue.py:416`).
- `StampHidesNothing`, `QuietUpdateConverges` and `EventuallyInSync` exclude
  finding 2; an edit that was indexed and then discarded, which is in neither the
  diff nor the status of the next update (`update.rs:121`; the Python pipeline
  adds such files); and a file that could not be read, after which the run still
  stamps (`update.rs:284`).
- `ExtractorStampHonest` excludes the unreadable file too (`update.rs:266`), and a
  file of another parser discarded between its classification and the plan.
- `AssessmentHonest` excludes the lanes of whole files: they read the bytes and
  then take the mtime (`parse_batch.rs:89`), so a write in between stores old
  bytes under the new mtime, and status hashes only where the mtime moved. It also
  excludes a rewrite that keeps the stored mtime, for the same reason: the "Known
  gap" of `docs/SESSION-GRAPH-FRESHNESS.md:114-120`, where status says
  `commit_synced` or `worktree_ahead` of a graph that lacks the new bytes. The
  properties of the update do not exclude it: what git reports is hashed whatever
  its mtime (`parse_batch.rs:264-270`), so the next update finds the rewrite.
- `VersionHonest` excludes a crash while opens overlap: the survivor may stamp
  past the FTS table the other one dropped in migration 13. It holds of
  overlapping opens of binaries that know migration 15: one that stops at v14 and
  runs beside a newer one may drop and refill the table after the newer one has
  checked it, and leaves version 20 over rows without the generated columns; with
  one that stops at v12 and three opens at a time the table may stay empty
  (`schema_migrations.rs:187`). `OpensLatest` asks
  about opens that do not overlap: of two that do, one may fail on a column the
  other has just added, and an older binary that checked the version first may
  write to the newer graph (`core.rs:46`). It also leaves out
  `idx_nodes_community`, which a crash in a bulk load loses for good
  (`write.rs:39`).
- `IndexCurrent` allows extra FTS rows where there are manifest bridges: their
  nodes are deleted before the rows that are found through them
  (`postprocess/manifest.rs:18`).
- `SignaturesIndexed` asks about the files a run was told of: an extractor
  upgrade in the same update re-parses others, which the FTS pass does not visit
  (`pipeline.rs:100`).
- Nothing is claimed about the recorded level or about communities being found:
  a run without post-processing leaves an earlier level in place
  (`crates/dagayn-build/src/postprocess.rs:134`), and an update with an empty
  change list that re-parses every file ends without communities
  (`communities/mod.rs:72`).
- `SessionSeen` is about the handshake: a log level set before the backend boots
  is answered and not passed on (`dagayn-mcp/src/lib.rs:333`).
- `EraAgrees` speaks of the front end's era. An envelope of another revision on a
  fresh connection is delegated and decides nothing, so an `initialize` that
  follows opens a handshake session although the backend's first line was an
  envelope; what the backend makes of that line is its own affair
  (`dagayn-mcp/src/lib.rs:276`).
- `EveryRequestAnswered` and `ReturnsRelayed` allow what the backend leaves
  unanswered when it closes its replies.
- `FlockCovers` excludes finding 1: two readers of the cache that both take the
  process's first flock lose one hold (`write_lock.py:419`), and the other reader
  then works without one. It asks about processes that only read: a reader beside a
  writing tool of its process goes without the lock (`_common.py:319`), and read locks are
  bound to the store, so a call without one returns another's
  (`write_lock.py:569`). `LeasesCover` counts users: between the last lease and
  the unbind an eviction returns the lock on its own thread (`_common.py:236`),
  and a lease raised from a value read before the last `close` counts a closed
  store (`_common.py:404`).

## Proofs

The theorems hold for every value of the constants that the `ASSUME` of the
module admits: any processes, threads, files and requests, and any bound. Each
is proved from an inductive invariant, which TLC checked on the module's instance
before it was proved. None of the properties below is inductive by itself; what
the invariant adds is the argument.

**RWThreadLock** (`TypeOK`, `MutualExclusion`, `CountsMatchHolds`,
`NoLostWakeup`, `HolderQueuesOnlyToUpgrade`, and the action property
`NoOvertaking`; assumed: `NoThread` is no thread, the nesting bound is
positive). A release decides by the counters whether the lock
becomes free, and a grant decides by the queue. `IInv` is
`Sound(rw) /\ Settled(rw)`: `Sound` says that the record is well typed, that the
counters equal the recorded and the granted holds, that no other thread reads
beside a writer, that a thread stands in the queue once and not after it was
granted, and that a queued holder is upgrading; `Settled` says that the head of
the queue is not grantable. `RWLockLemmas` shows that each operator (`Take`,
`Queued`, `GrantWriter`, `GrantReaders`, `Dispatch`, `Woken`, `Drop`, `Popped`)
keeps `Sound` and that each operation ends `Settled`; the step theorem has one
case per action. `NoOvertaking` is about two states of the queue: `InOrder(l, k)`
says that a thread queued in both is passed neither by one that stood behind it
nor by a newcomer; each operator is shown to keep it, and because a thread stands
in the queue once (`Sound`), its place is well defined.

**GraphLock** (`TypeOK`, `WriterExclusion`, `ReadWriteExclusion`,
`RegistryMatchesHolds`, and `UsesThreadLock`: every process's thread lock moves
by the rules of `RWThreadLock`; assumed: the threads are finitely many, the
bound is positive). The kernel excludes handles, the thread lock excludes
threads, and the registry joins the two, read under one lock and used under
another. `IInv` has the kernel's promise (`Compatible`), `Sound` and `Settled` for
each process, where each thread is in its call and what it asked its thread lock
for (`LinkedAt`), and who refers to a handle (`OpenedAt`). Its heart is
`OwnedAt`: as long as a thread has an exclusive hold, the registered modes end
with that thread's stack from its first exclusive mode on (`Aligned`), and the
registered handle has the exclusive flock, except in the middle of an upgrade.
Below that the modes may be stale, because overlapping first readers of a process
lose registrations (finding 1); it is enough that they are shared. For a process
of one thread nothing is lost, and `AloneAt` says that the registered modes are
that thread's stack and that its handle is locked; `ReadWriteExclusion` and
`RegistryMatchesHolds` follow from it.

**TaskQueue** (`TypeOK`, `RunningIsOwned`, `NoLostRequest`, `RetriesBounded`;
assumed: hooks and workers are different processes, only embeds are scoped, the
faults are the three of the model, in any number). Row ids return after a clear,
a dying worker's watchdog may still write, and `requeue_stale` reads before it
updates. `IInv` says that whoever is past the worker lock holds it (`LockHeld`),
that outside an execution a worker holds no snapshot (`EmptyHanded`), that a
snapshot still describes its row while the row runs, because an enqueue folds into
pending rows only (`SnapshotFaithful`), that what `requeue_stale` has read is
still all there is to requeue (`OrphansKnown`), and, while nothing but crashes
went wrong, where the attempts of a row have been counted (`AttemptsCounted`).

**StoreCache** (`LeasesCover`, `FlockCovers`; assumed: finitely many threads).
A lease is raised from a value read before other threads close the store, and
`close` does not take `_store_lock`. For `LeasesCover` the invariant `LInv` says
that whoever is between the enter and the exit of `_store_lock` holds it and still
finds the entry it looked up (`GuardedAt`), that the value read is at least the
number of clients, so it can only be too high (`RaisedAt`), and that an entry
being closed has no clients (`DroppedAt`). For `FlockCovers` the invariant `QInv`
adds, while no tool of the process has written and no registration was replaced,
that the acquisitions are the calls that have registered but not bound their lock
and the binds together (`Tallied`), that another process does not write while a
call has the flock and is about to register it (`OwnsAt`), and that
each store has as many binds as calls that bound one, or is dead: without clients
and no longer handed out (`Covered`). An eviction that returns the locks of calls
that are still closing touches dead stores only. The users of all stores then
inject into the binds.

**SchemaMigrations** (`VersionHonest`, `OpensLatest`, and `VersionTables`, which
is stronger than the run's property where it can be; assumed: every binary is of
a version up to 20, in any number, and any versions are found; for
`VersionHonest` of overlapping opens, every binary is of v15 or later, the
hypothesis of the theorem, without which it is false as said above). The chain is
a fixed list of statements, so its facts are lemmas about that list: what each
round is (`Round2` to `RoundLast`), what a drop may take and a create may need
(`Shapes`, `CreateReady`), and what a graph of version v holds
(`HoldsKept`, `HoldsUpper`). `Lasting` are the objects of the latest schema that no
migration drops and no bulk load takes. `SchemaInv` has four parts:

- `Stored`: the lasting objects given by the rounds up to the version exist, and so
  do those given before each process's own place. It needs no condition, as no
  statement takes a lasting object away; with `Purged` (the same for old edges) it
  gives `VersionTables` at every moment, whoever races and dies.
- The FTS table is the one thing a migration drops and a later statement of the
  same migration makes again. While opens do not overlap, `Sure` says that it is
  as the version and the places promise.
- While they overlap and nobody dies, `Watched` says that a table that is not as
  promised has a process that will repair it: one about to create it, to fill it,
  to drop it and so go through the fill, to check it, or to rebuild it. Whoever
  breaks the table is that process from then on, and it cannot fail before it gets
  there: once somebody has filled the table the columns it will look for exist
  (`NoneMissing`, from `Stored`), and what its creates need is there
  (`WillSucceed`). That it reaches the check is where v15 is needed.
- `Solo`, for opens that do not overlap: the version is that of the round before
  (`InOrder`), what the round has dropped stays dropped (`RoundDropped`), the
  statement in hand finds what it needs (`Ready`), nothing is there beyond what the
  version allows (`Upper`), and the last round leaves the edges named (`Named`).
  So no statement fails, and at version 20 what is there is the latest schema.

**UpdatePipeline** (`TypeOK`, `StampHidesNothing`, `QuietUpdateConverges`,
`ExtractorStampHonest`, `AssessmentHonest`; assumed: `PipelineAssumption`, so any
files, imports, updaters, and any number of edits and commits). A run looks at
the tree in a dozen steps while the tree changes, and what it stamps at the end
speaks of all of them. `TInv` types the run, bounds every recorded hash and mtime
by the clock, so that an edit is never mistaken for what was read, and says which
lane a file under inspection is in. On it stand three invariants, one for each
claim, each under the events its property excludes:

- `AInv`, for `AssessmentHonest`: whoever has the mtime of an owned file, be it a
  row, a cached row, a row of the batch or a remembered mtime, has the bytes that
  belong to it (`FileDated`), and no owned file is in a lane that reads before it
  stats. An edit keeps that, as its mtime is new; `Preserve` is the one that does
  not, and the property excludes it.
- `EInv`, for `ExtractorStampHonest`: a row that describes a file as it is but is
  of an older extractor is still ahead of the run (`OldKnown`): in the re-parse
  scope, then in a lane of whole files, then in the batch. At the stamp there are
  none. It needs that a file found to differ has a row that does not describe it,
  for the plan takes those out of the re-parse lanes.
- `SInv`, for the HEAD stamp: bytes that HEAD lacks are in no commit (`Unseen`);
  a row that is wrong is shown by the stamp (`AllShown`); whatever the run has
  read, left out or removed describes its file, but for files that changed under
  it and are dirty or gone, so that the next update sees them (`Excused`); and of a
  run that may stamp, each row is right in that sense or still ahead (`RowsGood`).
  A commit between runs turns what was dirty into what differs from the stamp.

One lemma per action gives the run it leaves field by field (`ScopeDoes`,
`PlanDoes`, `LookDoes`, ...); the three step lemmas rest on those.

**Postprocess** (`TypeOK`, `IndexCurrent`, `ReferencesLive`,
`SignaturesIndexed`, `Pruned`; assumed: finitely many files, the given clusters
and links are over them). `Rows` adds to the properties that ids are unique, that
only a repository with a manifest has a bridge (`Keyed`) and that the index has
one row per id (`OneRow`); every transaction keeps it, so a crash or a failed pass
between two transactions is harmless. `Phases` says what a run without a warning
has behind it when it is at a pass: signatures before the index, the index before
the sweep (`Signed`, `Synced`, `Swept`, `Counted`); the order of the passes is a
lemma about `NextPass`.

**McpFront** (`TypeOK`, `RepliesOnce`, `SessionSeen`, `EraAgrees`,
`ReturnsRelayed`; assumed: `McpAssumption`, any kinds, any number of lines).
That a reply is not a second one depends on where the request is. `Inv` adds that what is in the pipe is a line the client sent or the front end's own
(`PipeNamesLines`), that no client line is in it twice (`PipeIdsDistinct`), that a
request is in one place: unread in the pipe, being answered, waiting for the
relay, or answered (`OnePlace`, `UnreadUnanswered`). The lemmas follow the arms of
`handle`: an arm either settles the line itself or pipes it, and each of the two
keeps `Inv`. For the session, `SInv` says that the backend is booted exactly when
something was piped (`BootedOnce`), that a session is of one era and the first
line of the pipe tells which (`OneEra`, `EraKept`), and that a handshake line is
either remembered or piped (`Remembered`). For the end of the process, `RInv` says
that a request without a reply is somewhere: unread in the pipe, being answered, or
waiting for the relay (`Somewhere`); that a backend that has closed its replies has
read everything, and that nothing waits when serve has returned (`Quiet`).

Only model-checked:

- all liveness (`StarvationFree`, `AcquireReturns`, `UpdateClaimed`, `EventuallyInSync` and the
  others): fairness and ENABLED are outside the prover.

## Plan

1. Abstract specifications: a reader/writer lock that `GraphLock` with
   single-threaded processes implements, and a work set that `TaskQueue`
   implements.
2. The daemon's children and the pending refactorings of the query tools.

## Not modelled

- Parsers and extractors, by far the largest part of the code: each is a
  sequential function from a file's bytes to nodes and edges. Their correctness is
  a table of language cases, which the repository's tests hold; a state space adds
  nothing to it, and a transliteration of syntax-tree walks would not be a model.
- Query tools, findings and the formatting of answers: read-only over one
  snapshot of the graph.
- Edges and their resolvers in `crates/dagayn-graph/src/postprocess`: they rewrite
  edges from edges within one transaction.
- The daemon, worktree seeding, the registry and the embedding server: processes
  and files with little state of their own; embed tasks appear in `TaskQueue` as
  outcomes.
- The Python update pipeline (`dagayn/incremental_update_pipeline.py`), whose
  Rust counterpart is modelled; the two differ in discarded edits, as said above.
