# A verification project for ChronDB

ChronDB is a document database on top of git: a document is a JSON file, a write
is a commit on a branch, history and time travel come from the commit graph, and a
Lucene index answers searches. Clients reach it over REST, the Redis protocol, the
PostgreSQL protocol, a command line, or as an embedded library with bindings for
other languages. This directory holds TLA+ models of its components, TLC
configurations that check them on small instances, and proofs that TLAPS checks.
Paths below are relative to `src/chrondb` of the repository for the Clojure code, and to
its top for `bindings/` and `java/`.

## Inventory

| component | state | operations | interaction | hard behaviour | correct when |
|---|---|---|---|---|---|
| durable storage: `storage/durable.clj`, `wal/core.clj`, `wal/recovery.clj`, `concurrency/occ.clj` | a log file per attempt, a lock per branch, an in-memory version per document | save, delete, save with expected version, truncate, recover | calls git storage and index under the branch lock | threads, crashes at any step, failing log writes, retries, replay | atomic and durable writes, log never ahead of git, locks released on every path, recovery ends |
| git storage: `storage/git/{commit,document,history,notes,path,core}.clj` | refs, commit objects, the notes ref | save, delete, read, history, restore | called by durable storage, by the library and by every server | readers of a ref race with its writers; note and ref are two updates | branches only move forward, a failed call leaves no trace, every commit is noted |
| remote sync: `storage/git/remote.clj`, `transport.clj` | remote refs, tracking refs, two global batch flags | push, fetch, pull, batch, clone | after each commit; on start | several nodes on one remote, forced pushes, lost pushes, batches of several threads | a pull loses no local commit, what is committed reaches the remote |
| transaction context: `transaction/core.clj` | a context bound per thread | with-transaction, add-flags, context for a commit | read by every commit | nesting, rollback | the note of a commit describes its transaction |
| embedded library: `lib/core.clj`, `java/chrondb/lib/ChronDBLib.java` | handles, shared reference-counted instances | open, close, put, get, delete, query, backup | creates git storage and index per path | concurrent open and close of one path | an instance is closed exactly when its last handle is |
| Rust client: `bindings/rust/src/{lib,error}.rs` | a registry of weak references to workers, one worker thread with an isolate per path, its channel | open, every command, drop, idle suspension, reopening | calls the library through `ffi.rs` | opens and drops of one path at a time, a suspension racing a command, a reopening that fails, the shutdown message among commands | an instance has a running worker, every call is answered once, the library is only called while open, nothing outlives its worker |
| installation: `bindings/rust/src/{setup,ffi}.rs`, `bindings/rust/build.rs` | a library file in two directories, temporary directories, the outcome kept per process | look up, download, unpack, copy, verify, load | runs before the first open; the build script writes the same files | several processes install at a time, one is killed while it copies | a whole library stays, a broken one and every failure have a cause |
| wrappers: `bindings/{uniffi,node}/src/lib.rs` | none | pass commands on, parse JSON arguments | call the Rust client | none of their own | a call reaches the client or is refused |
| Go and Dart: `bindings/{go,dart}` | a handle | the C functions | call the library without a worker | as the embedded library | as the embedded library |
| index: `index/{lucene,lucene_nrt,cache,memory}.clj` | documents in Lucene, a reader snapshot | index, delete, search, refresh, commit, populate | called by storage and by the servers | background refresh and commit, population against writers | what is committed becomes searchable, deleted documents disappear (the result cache is used by tests only) |
| validation: `validation/*.clj` | schemas in git, a cache of compiled schemas | save, delete, validate | called in save of git storage | cache invalidated around a commit | after a schema change documents are checked against it |
| REST: `api/v1.clj` | none | save, delete, search, import, ... | storage and index | storage and index written in two steps | both agree after every request |
| Redis: `api/redis/core.clj` | none | strings, hashes, lists, sets, sorted sets | storage and index | read-modify-write of concurrent clients | as atomic as the protocol promises |
| SQL: `api/sql/**` | tables as documents, schemas in git | parse, select, join, insert, update, delete, DDL | storage and index | pure evaluation, statements of several documents | results equal relational semantics |
| backup: `backup/*.clj` | archives, scheduled jobs | full and incremental backup, restore, retention, cancel | reads the repository | a job against its cancellation, retention | the newest archives are kept |
| time travel: `temporal/core.clj` | none | state at an instant, diff | reads history | boundaries of time intervals | the version in force at the instant |
| lock files: `util/locks.clj` | lock files of git and Lucene | clean by age | on start | a slow live owner | no live lock is removed |

`PROJECT.json` lists the same parts with what is modelled of each, and the hazards
(what is hard to test) at their lines.

## Plan

1. `AtomicStore`, `DurableStore`, `DurableStoreProofs`, `DurableRefinementProofs`: the
   durable write path. Done.
2. `GitStore`, `GitStoreProofs`: writers, pulls, pushes and batches on refs of several
   nodes. Done.
3. `LibHandles`, `LibHandlesProofs`: shared instances of the embedded library. Done.
4. `CallService`, `RustClient`, `RustClientProofs`, `RustSharingProofs`: the workers of the
   Rust client, and that they implement a service which answers every call once. Done.
5. `LibrarySetup`, `LibrarySetupProofs`: how the native library gets on disk and into a
   process. Done.
6. `NrtIndex`, `NrtIndexProofs`: the search index of the server, with refresh,
   maintenance, population, restart and the handlers that file documents. Done.
7. `RedisCommands`: commands as transactions of concurrent connections.
8. `SqlSemantics`: pure operators (where, join, group, order) against a reference
   definition, and statements over several documents.
9. `BackupScheduler`: archives taken while the server writes, retention; time travel and
   lock files.
10. Proofs: every invariant, every action property and the safety of both refinements
    that the runs check are proved; those of the modules to come are left.

## DurableStore

One thread of the model is a request thread of the server. `pc` names its next
step inside `save-document` or `delete-document` of `storage/durable.clj`:

| action | code |
|---|---|
| `Call` | a client calls; `save-with-expected-version` verifies the version here, before the lock |
| `Acquire` | `with-branch-lock` |
| `Append`, `AppendFails` | `wal-save-document!`, `wal-delete-document!`; outside the handler's `try` |
| `Commit`, `CommitFails` | the git storage's save or delete |
| `MarkGit`, `MarkIndex`, `Complete` | `wal-commit-git!`, `wal-commit-index!`, `wal-complete!`, each of which may fail and take the path of the `catch` around it |
| `UpdateIndex` | the index call, whose failure is logged only |
| `Finish` | version counter, then the return, or the next attempt of `with-occ-retry` |
| `Rollback` | the `catch`: mark the entry, throw again |
| `Truncate` | `force-wal-truncate!` of an operator |
| `Crash` | the process dies between any two steps, or while it rewrites log files |
| `Restart`, `RecoverPending`, `RecoverGitCommitted`, `RecoverIndexCommitted`, `RecoverMark`, `RecoverDone` | `recover!` before the server serves |

What is abstracted: contents are model values, git is the content of the branch
heads (all writers of this module hold the branch lock, so the commit is one step),
the index is the set of contents filed under an id, entry ids are in the order of
their timestamps. `save-document` and `delete-document` differ in the content they
write, in the version counter and in the truth of the result, so they share their
actions.

`AtomicStore` is what callers rely on: a map from branch and document to content,
each call taking effect at one instant between call and answer, errors having no
effect, and what was open at a crash taking effect at most once more before the
store serves again. `Implements` maps it: the store is git, a call is done when its
commit is made, and while the process is down the orphans are the writes of pending
entries git does not show.

### Runs

| run | instance | shows |
|---|---|---|
| `durable_atomic` | 2 threads, 2 branches, 1 document, 2 contents, 2 calls, 2 crashes, 1 failure of git or index, truncation | types, `LockDiscipline`, `PendingIsHeld`, `OnePendingPerBranch`, `IndexBehindGit`, `LogMovesOn`, `Implements` |
| `durable_faults` | 2 threads, 1 branch, conditional saves, 2 calls, 1 crash, 2 failures of any kind, fairness | `HolderSeesOwnWrite`, `LogBehindGit`, `CallsAnswered`, `RecoveryEnds` |
| `durable_recovery` | 1 call, 1 crash | recovery leaves a pending entry half recovered |
| `durable_expected` | 3 calls | two conditional saves that expect the same version both succeed |

Bounds: two threads are every pair of competitors for a lock, two branches are one
to share and one to keep apart, and two crashes allow a crash during the recovery from
a crash. Every error path follows from one failure, also before or after a crash, but
for those of a failing mark after a failing index, in a request or in `recover!`; the two
failures of `durable_faults` reach them too. A delete takes at most three log entries, so the log of two calls has six.
`CHECK_DEADLOCK FALSE` because clients stop calling at the bound.

Fairness: the JVM schedules every runnable thread, a free monitor is given to some
waiting thread, and calls are finite in number, so weak fairness of each thread is
enough for `CallsAnswered`; an operator restarts a dead process, so recovery is
weakly fair. No fairness is assumed of crashes, failures, calls or truncation.

`PendingIsHeld`, `OnePendingPerBranch` and `Implements` are checked with log writes
that do not fail. A log write that fails after its bytes reached the file leaves a
pending entry nobody marks, which the next start replays over whatever was written
since; that is a consequence of `storage/durable.clj:35` standing outside the `try`,
and listed under the hazards.

### Proofs

`DurableStoreProofs` proves for all threads, branches, documents, contents, kinds
of failure and bounds, from `ConstantsAssumption` alone unless said otherwise:

- `TypeCorrect`: `[]TypeOK`. Inductive with three facts it needs: a thread has a
  request while it is not idle, has an entry once it wrote one, and threads are
  idle while the process is down or recovering (`TypeInv`).
- `LocksSerialize`: `[]LockDiscipline`, inductive with `TypeInv`; the steps are
  grouped by whether they enter, leave or stay in the critical section.
- `OwnWriteStays`: `[]HolderSeesOwnWrite`; other commits are kept off the branch by
  `LockDiscipline`, replays by the idleness of threads.
- `PendingEntriesHeld` and `PendingEntriesAlone`: `[]PendingIsHeld` and
  `[]OnePendingPerBranch`, under the assumption that log writes do not fail. `ReplayInv` is the strengthening: while
  recovery runs, what is pending is in its snapshot or about to be marked, so
  nothing is pending when it ends.
- `LogFollowsGit` and `IndexFollowsGit`: `[]LogBehindGit` and `[]IndexBehindGit`. The strengthening
  `RecordInv` says that a thread's entry describes its request as long as the file
  exists, that a thread past its commit has it on record, and that the mark
  recovery is about to make is on record too.

`DurableRefinementProofs` adds two theorems about steps, both under the assumption that
log writes do not fail, as in the run that checks them (`"wal" \notin FaultKinds`; a
failed mark lets `recover!` and a request mark one entry in turn):

- `LogOnlyMovesOn`: `LogMovesOn`. That a mark never takes an entry back needs to know the
  state it finds. `StageInv` says that each step of a handler knows the state of its
  entry (`StatesAt`), that no two threads mark one entry, that the mark recovery is about
  to make is later than what the file says, and that entries not handed out yet are
  blank. It is inductive with `RecordInv`, which says whose entry it is.
- `StoreImplemented`: `Spec => Implements`, the refinement of `AtomicStore`. `StoreInv`
  joins the invariants above that the steps need. `Call` begins a call of the store,
  `Commit` makes its write if it is not a deletion of nothing, and the step that returns
  answers it, with success only if it was made; every other step of a request leaves git
  and `CallMap` as they are. What a crash may leave as an orphan is the write of a pending
  entry, and by `PendingIsHeld` and `RecordInv` that is the write of the thread which
  holds it, whose call is still open. A step of recovery makes one orphan, drops one, or
  is none of the store's; by `OnePendingPerBranch` no replay of one entry makes another
  one an orphan again, and by `ReplayInv` there is none left when the store serves.

Only model-checked: the liveness properties `CallsAnswered` and `RecoveryEnds`, which are
out of the prover's reach.

## GitStore

`DurableStore` takes a commit as one step, which its branch lock justifies. The
library, batch tools, pulls and the other nodes do not take that lock, so `GitStore`
models what is below: the refs of each repository, moved by the threads of its
process step by step, and the remote all nodes push to.

| action | code |
|---|---|
| `CallDocument`, `CallRemote` | a client calls save, delete, restore, push, pull or fetch |
| `Check` | the look-up before the commit in `delete-document` and `restore-document-version`, which may end the call |
| `InsertCommit` | `commit-virtual` of `storage/git/commit.clj`: read the head, build the tree, insert the commit |
| `ReadNotes`, `WriteNotes` | `add-git-note`: read the notes ref, update it unless it has moved |
| `CommitFails` | an exception before the branch moves |
| `MoveBranch`, `MoveRefused` | the ref update that expects the old head, and the exception when it is not there |
| `Push`, `Defer`, `NothingToSend` | `push-to-remote`: in a batch only the atom is set; otherwise branch and notes are sent, and without a notes ref the push throws |
| `Send`, `SendRejected`, `SendFails` | the forced update of the remote's refs; a rejection is logged, an exception is swallowed by a write and thrown by `push` and `with-batch` |
| `CallBatch`, `SwitchOn`, `ClearPending` | `with-batch` and `start-batch!`, one atom after the other, also inside the body of another batch |
| `LeaveBatch`, `ReadPending`, `SwitchOff`, `EndBatch` | `end-batch!`, on return and on exception, then the push if one is due; when that throws, `end-batch!` once more |
| `FetchBranch`, `FetchNotes`, `FetchFails`, `FetchNotesFails` | `fetch-from-remote`, two transports |
| `UpToDateOrDiverged`, `Forwardable`, `FastForward` | `pull-from-remote` after its fetch: nothing on equal or diverged heads, else an update whose result is not looked at |
| `Crash`, `CallOpen` | the process dies with its atoms; `create-git-storage` (which commits and pulls) or `open-git-storage` (which pulls) starts it again |

What is abstracted: one branch, the default one, with a remote configured and push,
notes and pull-on-start enabled, as by default; a tree is the set of documents it
holds; the notes ref is the set of commits it annotates; the two refs of a push are
read in one step. `past` is the commit graph, given by the ancestors of each commit.
Initially one node has seeded the remote and the others are clones, which have no
notes since `clone-remote` fetches branches only. That a ref update compares, that a
clone fetches `refs/heads/*` and that a pull finds ancestors is what the code asks
of the git library. A body of `with-batch` throws an `Exception`; an `Error`, which its
handler does not catch and which leaves the batch mode on, is left out. `inBatch` says
how many bodies of `with-batch` a thread is inside of. The variables `acked`, `refused`,
`writer`, `alone` and `nested` are history: no action is guarded by them.

There is no lock in this module on purpose. A commit that loses the race for its
branch throws; two writers of notes may lose one; a push may bring the remote to an
older head. What holds nevertheless is what the properties say.

### Runs

| run | instance | shows |
|---|---|---|
| `git_sync` | 2 threads on the founder and 1 on a clone, 1 document, all operations, 3 calls, 1 failure, 1 crash, symmetry of the 2 threads | types, `AnsweredTruly`, `BatchHeld`, `TurnsMirrored`, `HeadsAdvance` |
| `git_audit` | 1 thread on each of 2 nodes, 2 saves | the notes of the remote are not a complete audit trail |

Bounds: two threads on one node race for its refs and its batch mode, the third
races for the remote; three calls are a batch with a write in it, or a write, its
push and a pull elsewhere, or two batches one inside the other; a call makes one commit
at most, so four commits are enough. One failure and one crash put each error path after
and before every other step. No fairness is assumed: all properties are safety
properties. `CHECK_DEADLOCK FALSE` because calls are bounded.

`TurnsMirrored` is about nodes that take turns without failures and whose batches do not
nest: with overlapping calls a forced push of an older head may come last, with a failure
the push may be missing, and the code repairs neither before the next write. The end of a
batch inside another switches the batch mode off under it, and its start forgets what is
pending: a save, then an empty batch, inside a batch leaves the remote behind, with one
thread and no failure, against the docstring of `with-batch` (see the findings).
`BatchHeld` holds of nested batches too.

`AnsweredTruly` says what an answer means: an exception of a save is that the document
is in no branch. `docs/remote-storage.md` tells callers the opposite, that it is saved and
only its push has failed, and that the push is retried. Neither is so (see the findings):
`push-changes` swallows what a push throws, and nothing remembers that one is due.

### Proofs

`GitStoreProofs` proves five theorems for all nodes, threads, documents, operations
and bounds, from `GitConstants` alone:

- `GitTypesCorrect`: `[]TypeOK`. `TypeInv` adds that a thread at work has a request,
  that only writes and the creation of a storage are in `commit-virtual`, and that a
  tracking ref is there once a fetch has set it.
- `BranchesAdvance`: `HeadsAdvance`. `HistoryInv` says that a commit below
  `next` is in its own past and every past is closed under ancestors, all of them
  below `next` (`Histories`), that every ref, of a node, of the remote or read by a thread, names
  an inserted commit (`RefsInserted`), and that a commit in flight descends from the
  head its thread read, and so does what a pull is about to forward to
  (`MovesForward`). The compare-and-swap then makes each move a move forward.
- `AnswersTrue`: `[]AnsweredTruly`. `AnswerInv` says that a commit in flight belongs
  to one thread and is below no ref, on any node, remote or in any push being sent
  (`InFlightInv`), so a refused one is not either (`RefusedInv`); that a thread in
  its push has its commit in its branch (`PushingInv`); and that batch calls never
  answer a write (`BatchingInv`). Answered commits stay by `BranchesAdvance`.
- `BatchesHeld`: `[]BatchHeld`. `BatchHeld` is not inductive: the thread that is
  inside its batch might be about to leave it. `HeldInv` says that some thread is
  inside and has not switched the mode off. `LeavingOK` keeps the depth `inBatch` above
  zero until the end of the body has counted it down.
- `TurnsAreMirrored`: `[]TurnsMirrored`. It speaks of rest, so `TurnsInv` says what holds
  on the way there while calls do not overlap: one thread at most has something under way
  (`OneAtWork`), what it has read is still so (`AtWork`), and when the remote is not at the
  head of the last writer, that thread is of the writer's node and owes it a push
  (`Owes`): one under way, one put off by the batch it is in, or one that the end of the
  batch hands on. `Lagging` keeps a pull in the batch from settling the debt otherwise: the
  head that is owed is not in the history of the remote, so no fast-forward leaves it. That
  no batch has begun inside another is what keeps the start of one from forgetting a push
  that is owed. That a new head is not there yet is `InFlightInv`; that whoever defers is in the batch is
  `HeldInv`. No assumption is made beyond `GitConstants`.

All properties of `git_sync` are proved; it has no liveness property.

## LibHandles

The embedded library gives each open a handle and shares one repository and one
index writer among the handles of a path. `LibHandles` has the threads of one
process that open, close, put and delete through `java/chrondb/lib/ChronDBLib.java`
and `lib/core.clj`. Only the instances are under `instance-lock`; the registry of
handles, the repository and the index are used without it.

| action | code |
|---|---|
| `CallOpen`, `CallClose`, `CallDocument` | the C entry points |
| `Reuse` | `get-or-create-instance!`, path known: count one reference more |
| `OpenStorage`, `StorageFails` | path not known: open or create the repository, inside the lock |
| `OpenWriter`, `NoWriter` | `create-lucene-index`, which answers nil when the writer is taken or fails |
| `List`, `Fill`, `FillMisses`, `ListFails` | `ensure-index-populated`, then the registration of the instance |
| `AssignHandle`, `RegisterHandle` | `lib-open` after it left the lock |
| `LookupClosed`, `DropHandle`, `Release` | `lib-close`: look up, forget the handle, then `release-instance!` under the lock |
| `Lookup`, `Save`, `File` | `lib-put`: registry, commit, index |
| `Lookup`, `Exists`, `Remove`, `Unfile` | `lib-delete` |
| `CommitFails`, `IndexingFails` | a commit that throws ends the call; what the index throws it logs |

What is abstracted: a path is a pair of data and index path, and two paths share
nothing; the repository and the index of a path are sets of documents, contents left
out; a commit is one step, taken or refused (`GitStore` has its steps); reading and
searching change nothing. An index may be empty at first while the repository is
not, as on a clone. `owner` and `missed` are history: who opened a handle, and which
documents the index failed to take when they were last offered. `owner` guards the
calls of a client only when `Private` is TRUE.

`Private` says that clients use a handle only in the thread that opened it, and
`DocsOf` which documents a thread writes. The docstrings ask for neither. Without
the first the reference count is wrong after two simultaneous closes of one handle
(`lib_double_close`); without the second a put and a delete of one document may reach
the index in the other order than git, as nothing orders the two. The properties say
what holds for clients that keep to both; `CreatedAlone` needs neither.

### Runs

| run | instance | shows |
|---|---|---|
| `lib_handles` | 2 threads, 1 path, a document each, 5 calls, 1 failure of any kind, fairness | types, `CountsReferences`, `OpenWhileUsed`, `SearchMatches`, `CreatedAlone`, `NothingLeaks`, `CallsReturn` |
| `lib_double_close` | 2 threads, shared handles, 4 calls | an instance is closed while a handle of its path is open |

Bounds: two threads are the competitors for the lock and for one instance; five
calls are open, put and close of one thread around open and close of another, or
an open that fails, a second one and the writes after it. Paths share nothing, so one is
enough. `CHECK_DEADLOCK FALSE` because calls are bounded.

Fairness: a runnable thread is scheduled and a free monitor is given to some waiting
thread; with a bounded number of calls no thread is passed over forever, so weak
fairness of each thread at work is enough for `CallsReturn`.

`NothingLeaks` is about histories without failures. When the index writer or the
population fails, the code closes neither repository nor writer: later opens of the
path fail (`NoWriter`) until the process ends. `SearchMatches` holds then too.

### Proofs

`LibHandlesProofs` proves for all threads, paths, documents, kinds of failure and
bounds, from `LibConstants`:

- `LibTypesCorrect`: `[]TypeOK`, with the shape of a thread's local variables at each
  step (`TypeInv`). Shared handles included: the count never falls to zero.
- `ReferencesCounted`: `Private => []CountsReferences`. Handles and counts change in
  different steps, so the count is that of handles plus threads on their way
  (`HoldersOf`); `UsedInv` says that a handle being closed is still registered, that
  the one being registered is new and in one pair of hands, that registered handles
  refer to the instance of their path, and that only the thread inside the lock makes
  one. `UsedInv` and `CountsReferences` are inductive together: the last reference may
  close the instance because the count says that nobody else refers to it.
- `OpenUnderUse`: `Private => []OpenWhileUsed`, from `UsedInv`.
- `InstancesMadeAlone`: `[]CreatedAlone`, for every client.
- `SearchesMatch`: `Private /\ OwnDocsOnly => []SearchMatches`. `SearchInv` adds that
  the index of a closed path may be behind but files nothing that is gone, and
  what a thread at work knows of its document.

- `NothingIsLeaked`: `Private => []NothingLeaks`. `OwnedInv` says that as long as nothing has
  failed, an open repository is that of a registered instance or of the thread that is
  making one, and a writer that is taken is that of the instance of its path or of the
  thread about to register it. It is inductive with `UsedInv`, by which only the last
  reference closes an instance and the one being made is nobody else's.

Only model-checked: `CallsReturn`, which is a liveness property.

## RustClient

The Rust crate gives each database path a thread of its own, the worker, with a
GraalVM isolate. A `ChronDB` instance is an `Arc` on its worker; `WORKER_REGISTRY` holds
weak references, so that opens of one path find the worker of earlier ones. Commands go
through a channel, each with a channel for its answer. `RustClient` has the client
threads and the workers of one process.

| action | code (`bindings/rust/src/lib.rs`) |
|---|---|
| `Open` | `open`, `open_path`, the builder: the key, which is the canonical path if the path exists and the path as written otherwise |
| `Reuse`, `Spawn` | the registry under its lock: upgrade the weak reference, or start a worker after unlocking |
| `Opened`, `OpenFails`, `Register` | the answer of the new worker, and its registration under a second lock |
| `CallDocument`, `CallList`, `CallQuery`, `CallRemote`, `CallBackup`, `CallLastError` | the methods of `ChronDB`: a message in the channel, and the wait for its answer |
| `Unparsed` | a document or a query that the UniFFI or the Node wrapper cannot parse |
| `Receive` | the answer arrives |
| `Drop`, `Unregister`, `SendShutdown`, `Join` | the drop of an instance and, for the last one, `SharedWorker::drop` step by step |
| `MakeIsolate`, `OpenDatabase` and their failures, `PathRefused` | `init_worker`, called by a new worker and by a suspended one |
| `TakeCommand`, `Resume`, `TakeShutdown`, `IdleTimeout`, `Suspend` | the loop `worker_main`, with and without an idle timeout |
| `BackoffRefuse`, `BackoffEnds` | the nested wait after a failed reopening |
| `Serve` | `dispatch_command` and the wrappers of the C functions it calls, down to who takes the last error message |
| `CloseAndEnd` | `FfiWorkerState::close` |

What is abstracted: threads that borrow one instance are clients with an instance each,
as none of them drops it during a call; a path stands for the pair of data and index
path; time is left out, so a timeout is a step that may happen while the channel is
empty; of the library there is the result of each call, whether it leaves a message, whether
what it gives parses as JSON, and `write.lock`, which `LibHandles` explains. `Results` says what each command may tell its
caller: an answer is its kind and, for errors, whose failure the message is about. A
worker that panics, and the mutexes that this poisons, are left out. `irregular` is
history: no action is guarded by it.

`CallService` is what callers rely on: a call is answered once, by an answer that its
command may have, and an instance is given up between calls. `AnsweredOnce` maps it: a
caller is in while it holds an instance, and its call is answered when something is in
its channel.

### Runs

| run | instance | shows |
|---|---|---|
| `rust_client` | 3 clients that call through the crate and both wrappers, 2 spellings of a path that may exist or not, a path with a NUL byte, with and without idle timeout, 2 workers, fairness | types, `HandedOutRuns`, `NoCallLost`, `LibraryUsedOpen`, `ErrorsOwn`, `IsolatesReleased`, `RegularPathsShare`, `EveryCallReturns`, `AnsweredOnce` |
| `rust_race` | 3 clients that open one path, 2 workers | two instances of one path may have two workers |

Bounds: the first client and the second compete for a path under two keys, the third
keeps an instance through what they do, and sends while another waits; two workers are
one and its replacement, or two on one path. Each group of commands has one that is
sent, and two clients send commands of the same results. A client may open, call and
drop without end, only the workers started are bounded.
`CHECK_DEADLOCK FALSE` because at that bound clients stop opening.

Fairness: the operating system runs every runnable thread, and calls of the library
return; so a client goes on with an open, a call or a drop that it has begun, and a
worker with its loop. Nobody has to begin one, and an idle timeout need never come. Weak
fairness is enough as nothing that a thread waits for is taken back.

`RegularPathsShare` excludes what the code does not order: two clients that open, or open
and give up, one path at a time, and a path opened before it exists by another
spelling. `PathsShare` is what the documentation says without that; `rust_race` shows
that it does not hold.

### Proofs

`RustClientProofs` proves for all clients, paths, commands and numbers of workers, from
`ClientConstants`. The invariant `Inv` has a part for each concern: which worker a
client refers to at each step, and that one being started or stopped is nobody else's
(`Places`); what a worker's step says of its isolate (`Isolates`); that what is in a
channel, or taken from it, is a call that waits, each once (`Channels`); and how the
steps of a worker and of the clients that refer to it go together (`Lives`): held it
runs, given up by the last client its channel is empty, told to stop nothing else is in
it. `Lives` is what the property on shutdowns needs: a command cannot follow the message
that stops a worker, because who sends one holds the worker.

- `TypeCorrect`: `[]TypeOK`.
- `InstancesRun`: `[]HandedOutRuns`. `ShutdownLosesNothing`: `[]ShutdownFindsNoCall`.
  Both from `Lives`.
- `NoCallIsLost`: `[]NoCallLost`, which is `ShutdownFindsNoCall` with `CallsInHand`, the
  converse of `Channels`: a call that waits is where its worker will find it. That is
  inductive beside the invariant above, which says that a worker that takes a command had
  none (`Isolates`) and that what it answers is the call of one client (`Channels`). A
  caller's return rests on it; that the worker gets to the call is the fairness that
  `EveryCallReturns` adds.
- `LibraryCalledOpen`: `[]LibraryUsedOpen`, from `Isolates`.
- `MessagesOwn`: `[]ErrorsOwn`; the strengthening is that no message stays in the
  library between two commands, which each kind of result keeps.
- `IsolatesAreReleased`: `[]IsolatesReleased`.
- `ServiceImplemented`: `Spec => Service!Init /\ [][Service!Next]_(Service!vars)`, the
  safety part of `AnsweredOnce`: each action is a step of the service or leaves it as it
  is. That an answer is the only one to its call is `Channels`.

`RustSharingProofs` proves `RegularPathsAreShared`: `[]RegularPathsShare`, for the same
constants. `Lives` does not tell paths apart; `ShareInv` does, in three parts. `Keyed` says
that what a client asked for, the worker registered under a key and the worker a client
refers to are of one database, and that a regular path is asked for by its canonical key.
`Orderly` says that of a regular path one client at a time opens or gives up, that
the instances are those of the registered worker, and that there are none while a worker is
started or stopped. So there is one worker (`OneWorker`), and `Locked` follows: the
database open on a regular path has `write.lock`, as the lock that a new worker removes
is a dead one's.

Only model-checked: the liveness in `EveryCallReturns` and `AnsweredOnce`.

## LibrarySetup

Before its first open the crate makes sure that the native library is on disk, and loads
it; the build script may have put it there. `LibrarySetup` has several processes, some
the crate and some a build, that share the directory of `CHRONDB_LIB_DIR`,
`~/.chrondb/lib` and the temporary directories in them. Nothing locks any of these.

| action | code |
|---|---|
| `Start`, `Stop` | a process starts; it ends or is killed at any step |
| `Check`, `BuildCheck` | `ensure_library_installed` and `library_exists` of `setup.rs`; `main` of `build.rs`; a platform without a release, and a user without a home, end both before anything is touched |
| `Fetch` | the download, of the release of the version or, for a -dev version, of the latest |
| `UnpackBegins`, `UnpackEnds` | the archive is unpacked, over what is there |
| `CopyBegins`, `CopyEnds`, `CopiesNothing`, `FindsNothing` | the library is looked for among what was unpacked, at the root and in the directory listed first, and copied; copying truncates first |
| `RemoveTemp`, `KeepTemp` | the temporary directory is removed; an error is ignored |
| `Verify` | whether the library is there now |
| `Load` | `find_library_path`, opening it and looking up its functions (`ffi.rs`) |
| `Fault`, `Robbed` | an error of network or file system; a file that another process removed |

What is abstracted: a directory is what its library file is (none, part, whole, and of
which version); headers are left out; the latest release is the same throughout; an older
library lacks a function that a newer crate looks up; the threads of a process wait for the one that sets up. A file that two
processes write, or that is copied while it is unpacked, may be whole or never be.
`disturbed` is history: directories where an installation was cut short or where two
went on at a time.

### Runs

| run | instance | shows |
|---|---|---|
| `library_setup` | 3 processes of the crate, one of a -dev version and one without a home, and 2 builds, 2 processes and 1 build with `CHRONDB_LIB_DIR`, 2 versions, one archive with and one without a directory around its files, 4 starts, 1 fault | types, `BrokenExplained`, `InstalledStays`, `FailuresExplained` |

Bounds: each directory is the destination of a build, one also of the crate; the process
without a home finds only what a build has put into the directory of its environment.
Both kinds of temporary directory have competitors in turn; four starts let four processes
run, or one be killed and started again while another installs. No fairness is assumed:
all properties are safety properties. `CHECK_DEADLOCK FALSE` because starts are bounded.

### Proofs

`LibrarySetupProofs` proves for all processes, versions, archives and bounds, from
`SetupConstants`, the four properties of the run: `TypeCorrect`, `BrokenIsExplained`,
`InstalledLibraryStays` and `FailuresAreExplained`. The invariant `Inv` says what holds
where nothing was disturbed: one process installs at a time (`Alone`), what is half
unpacked or half copied is being unpacked or copied (`Pieces`, `Files`), a process that
has not begun to copy found no library (`Missing`) and keeps what it unpacked until it
removes it (`Kept`). `FailuresAreExplained` is the one with most causes: a fault, a process
that cannot install (`CanInstall`), an older library, another installation. `Arrived`
says that what a process goes on to load is there; it needs that a library, once there, is
never removed.

## NrtIndex

The server searches a Lucene index that a background task keeps near real time. The
writer holds what is filed; searches see a reader, a snapshot of it. Two atoms refer to
readers: `reader-atom`, from which the next reader is opened, and `searcher-atom`, which
searches use. Requests file documents, the refresh task, the hourly maintenance and the
population after a start replace the reader, and nothing orders any of these.

| action | code |
|---|---|
| `Store` | a handler of `storage/durable.clj` under the branch lock, up to the commit; here one step, as `DurableStore` justifies |
| `FileUnderLock` | its call of `index-document` or `delete-document`, before the lock is released |
| `FileAgain`, `FiledOnce` | the same call once more by the protocol handler (`api/v1.clj`), without the lock; DEL of Redis makes none |
| `BeginSwap` | `force-refresh!` (`index/lucene_nrt.clj`) or `ensure-searcher-updated!` (`index/lucene.clj`) reads `reader-atom` |
| `NothingOpened`, `OpenIfChanged` | `openIfChanged` finds the reader closed or current, or opens one |
| `CloseOld`, `SetReader`, `SetSearcher` | the old reader is closed, at once by `refresh-reader`; then the atoms are set, one after the other |
| `GraceEnds` | the future of `force-refresh!` that closes the old reader later |
| `MaintenanceCommits` | the commit of the hourly task, before it replaces the reader |
| `ReadDocuments`, `DeleteEntry`, `AddEntry`, `Populated` | `ensure-index-populated`: read all documents, file each anew, replace the reader |
| `Restart` | the process dies; `run-server-command` starts it again |

What is abstracted: there is one branch, as the index knows none; a document in the
index is the set of contents filed under its id, since `index-document` removes no older
one, and filing a content twice is not told from filing it once. Lucene is external: a
reader is current until something is filed. Readers have no identity but the places that
refer to them, of which each reader is named after one (`Refer`); a reader that nothing
refers to is forgotten, which keeps the states finite without a bound. The population is
over within the first hour, so it and the maintenance never run at a time and are one
swapper, `update`. Commits by batch size and interval are left out, as `force-commit!`
throws at its first step (see the findings). Recovery files again at most the write of
the request that held the lock. Errors of filing, which the handlers log and swallow,
and of the population are left out. `met`, `touched` and `mixed` are history: no action
is guarded by them.

### Runs

| run | instance | shows |
|---|---|---|
| `nrt_index` | 1 document with 2 contents, in git before the first start, 2 writes, 1 death of the process, fairness | types, `ReadersUsable`, `SettledDocsFiled`, `FiledIsFound` |

Bounds: documents share nothing but the readers, so one is enough; two writes are two
that meet, one that meets the population, or one on each side of a death; one death
leaves the index behind git, and the population after it is complete. Swaps and the
maintenance are not bounded. `CHECK_DEADLOCK FALSE` because requests are bounded, though
the refresh task goes on forever.

Fairness: the refresh task is scheduled again and again and each of its steps is taken
by a running thread, so swaps that have begun go on and the refresh begins anew. Requests
and the population may stop for good, as nothing promises that either is left alone.

The properties except what the code does not order. `SettledDocsFiled` excepts documents
written by requests that met each other or the population (`mixed`): a late deletion of
one request removes what another has filed since. `SearcherFollows`, a part of
`ReadersUsable`, and `FiledIsFound` except swaps that have met (`met`): they may leave
`searcher-atom` on a reader that is not the one of `reader-atom` and is closed, until
something new is filed and refreshed. `ReaderReopens` excepts nothing: `reader-atom` never
stays on a closed reader, from which no refresh could recover.

### Proofs

`NrtIndexProofs` proves for all documents, contents and bounds, from `IndexConstants`:

- `TypeCorrect`: `[]TypeOK`. `TypeInv` adds what a swap refers to at each step and that
  every reader goes by the name of a place that refers to it (`Named`): so the place that
  a swap is about to fill names no reader, and there is a name for the one it opens.
  `ReferIsSame` says, once for all steps, what naming readers anew leaves alone.
- `ReadersStayUsable`: `[]ReadersUsable`. `UsableInv` says that a new reader is private to
  its swap until that sets `reader-atom`, so nobody else closes it, and that what a
  refresh is about to close is not the reader of `reader-atom`. `AloneInv` says that while
  no swaps have met, at most one is at work and sets both atoms to one reader.
- `SettledFiled`: `[]SettledDocsFiled`. `FiledInv` says that a request which has met no
  other files what is stored, that documents so written are as stored between requests,
  and that of a document nobody has written the population files what it has read, or has
  filed it and nothing else. `UpdateSettles` orders the population before other updates.

Only model-checked: `FiledIsFound`, a liveness property.

## Findings

See `findings` in `PROJECT.json`; each names the line of the code and the line of
the documentation it contradicts, and the run that shows it. Those without a run need
no interleaving or follow from what a module excepts:

- a deletion of what is not there is tried three times and then throws;
- of the Rust client, a command lost in the backoff after a failed reopening, an idle
  timeout that is ignored when a path has a worker, a truncated library that is never
  replaced, and a build script that does not do what the documentation says of it;
- of the remote, a push that a batch inside another forgets, which `TurnsMirrored`
  excepts, a failed push that is never retried, and an exception of a save, which means
  that nothing was saved (`AnsweredTruly`) and not that only the push failed;
- of the index, the late second deletion and the searcher left on a closed reader, which
  `SettledDocsFiled` and `ReadersUsable` except, deleted documents that are found again
  after a crash, and a commit task that throws every time;
- commands of the server that need the repository and find none, and scheduled backups
  that no other process can cancel.

## Not modelled

- Wire formats, tokenising, JSON, logging, metrics, configuration and the command line:
  input and output without state of their own. The UniFFI and Node wrappers convert types;
  of them there is only which commands they pass on and what they refuse. Of the C
  functions in `ffi.rs` there is which result each may give, not how strings are passed
  and freed.
- The Go and Dart wrappers call the library without the worker; what the library does then is
  `LibHandles`.
- Panics of a worker thread: what they poison is not recovered, and every later call
  fails.
- Schema validation, the Redis and SQL servers, backup, time travel and the clean-up of
  lock files: planned above but for the first, the hazards at their lines in
  `PROJECT.json`. They are handlers on top of storage and index that keep no lock of their
  own, so a model of them would say mostly which interleavings are lost; the layers below
  them, whose guarantees they use, came first. No command of the server reaches the
  validation schemas (see the findings), and nothing but its tests the result cache.
- Of the REST server there is what a save and a delete do to storage and index
  (`NrtIndex`); the other handlers read.
