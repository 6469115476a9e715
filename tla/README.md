# A TLA+ verification of SochDB's transactional storage engine

This directory models the live write path of SochDB: `DurableStorage`
(`sochdb-storage/src/durable_storage.rs`) with its transaction write-ahead log
(`txn_wal.rs`), its MVCC manager, and the per-key version chains of
`sochdb-core/src/version_chain.rs`; the group commit buffer in front of the log
(`group_commit.rs`); the two locks that keep processes apart (`lock.rs`,
`mvcc_concurrent.rs`); and the leases of `sochdb-kernel/src/atomic_claim.rs`.
The modules are checked with TLC on small instances. Every invariant and all but
one of the action properties of the runs are also proved with TLAPS for every
instance: types, snapshot stability, validation, the order of the log, replay,
what recovery restores and which commits survive it, the durability and the
refinement of group commit, mutual exclusion and exclusive leases. The
refinement of `SnapshotStore` and the liveness properties are left to TLC.

## 1. Inventory of the system

| Component | State | Operations | What makes it correct |
|---|---|---|---|
| Version chain (`version_chain.rs`, wrapper in `durable_storage.rs`) | committed versions by descending timestamp, one uncommitted slot | add, commit, abort, read at a snapshot, conflict test, GC by watermark | strict visibility; GC keeps what a live snapshot reads |
| Transaction WAL (`txn_wal.rs`) | file of CRC-framed records, `BufWriter`, next transaction id | append, flush, fsync, scan on open, replay | an fsynced commit is replayed; a torn tail is not; replay is atomic per transaction |
| MVCC manager (`durable_storage.rs`) | timestamp counter, watermark, active transactions, window of recent commits | begin, record read/write, validate, allocate timestamp, track, abort | snapshots fixed at begin; serializable histories; watermark below every snapshot |
| `DurableStorage` | all of the above, memtable, per-transaction WAL buffers | begin, read, write, delete, commit, abort, gc, checkpoint, shutdown, open, recover | what recovery rebuilds is what the live memtable held, in atomic prefixes |
| Group commit (`group_commit.rs`) | queue of validated commits, a notifier per caller, running flag | submit and wait, flush a batch, flush loop, start, stop | Ok only after the fsync of one's own record; every caller is answered once |
| `Database` (`database.rs`) | storage handle, tables, statistics | open (recovers), begin, put, commit, abort | the client of `DurableStorage`; in concurrent mode one writer at a time |
| Writer lock (`mvcc_concurrent.rs`) | a word in a memory-mapped file | open, acquire with deadline, release, close | one writer across processes; an acquire ends |
| Database lock (`lock.rs`) | flock on `.lock`, pid in it | acquire, stale takeover, drop | one process has the files open |
| Leases (`atomic_claim.rs`) | claim per task, instance and extension counters | acquire, extend, release, get token, cleanup | one valid lease per task; only its owner ends it early |
| PITR (`wal_manifest.rs`, `replay_to_target`) | manifest, LSN | enable, checkpoint, recover to a target | the target cut is atomic per transaction |
| CDC, version set, backup, keyring, encryption | logs, manifests, files, keys | - | - |
| Kernel (`boot_fsm.rs`, ARIES WAL, plug-ins) | boot phase, pages | boot, log, recover | - |
| Client (`queue.rs`, `wal_atomic.rs`, `intent_recovery.rs`, ...) | tasks, intents | enqueue, claim, ack, nack | no task lost or run twice within its lease |
| Query, vector index, graph, gRPC, MCP, bindings, tools | - | - | - |

Interaction. `Database` calls `DurableStorage` from any number of threads.
`commit` moves the write buffer to the WAL, asks the MVCC manager to validate
and to take a timestamp, makes the commit record durable (directly, or through
the group commit buffer, which calls back into the WAL), and then publishes each
key in the memtable. No lock spans these steps; each one is an atomic access to
a `DashMap`, an atomic counter, or a mutex. Opening a database takes the
database lock; in concurrent mode it takes none, and `put` and `commit` take the
writer lock instead. The hard behaviours are therefore (a) interleavings between
those steps, (b) a crash between any two of them, (c) the boundary cases of
strict visibility (`<` against `<=`) which must agree in reading, validation and
GC, (d) error returns in the middle of a call, (e) waiting: for another thread's
fsync, for a lock of a process that may be dead, and (f) times and flags read
before a lock and used under it. `PROJECT.json` lists each hazard with its line
and the property that would catch it.

## 2. Modules

| Module | Models |
|---|---|
| `StorageTypes` | keys, values, the WAL's encoding of a deletion, transaction ids |
| `VersionChain` | `BinarySearchChain`: pure operators on one chain |
| `TxnWal` | the log: records, what a reader can parse, replay loop, append/fsync/crash fragments, and a declarative definition of what a log means (`LoggedValue`) |
| `MvccManager` | the effect of each atomic access of `MvccManager` |
| `DurableStorage` | the composition: threads, calls, crash, open, recovery; the properties of the engine |
| `SnapshotStore` | what the engine promises its clients: an abstract store with atomic commits, fixed snapshots and crashes back to an earlier commit |
| `CommitLog` | what the engine needs of whatever makes its commits durable: one record and one answer per transaction, "Success" only when fsynced |
| `GroupCommit` | `EventDrivenGroupCommit` with the flush function of `DurableStorage` |
| `WriterLock` | the metadata file and writer lock of `ConcurrentMvcc`, as `Database` uses them |
| `DatabaseLock` | the flock of `lock.rs` |
| `AtomicClaim` | `AtomicClaimManager` and `LeaseManager` |
| `MCStorage`, `MCAtomicClaim` | symmetry for TLC |
| `MCIsolation` | `DurableStorage` with a history of reads and of the commits since the database was opened; serializability properties |
| `MCDurability` | `DurableStorage` with a history of commit records and acknowledgements; recovery properties |
| `MCRefinement` | the refinement mapping from `DurableStorage` to `SnapshotStore` |
| `DurableStorageProofs` | proofs: types of the engine |
| `SnapshotProofs` | proofs: snapshots, one thread |
| `SlotProofs` | proofs: calls, handles, slots and the log, any number of threads |
| `LogProofs` | proofs: replay, the memtable against the log, recovery, acknowledged commits |
| `IsolationProofs` | proofs: validation and the visibility of commits, one thread |
| `GroupCommitProofs`, `WriterLockProofs`, `AtomicClaimProofs` | proofs: the other components |

### Correspondence: the engine

* **Threads and steps.** `thread[t]` holds a program counter (`at`) and the
  locals of the call in progress. `begin` is `BeginWithMode` (id, WAL begin
  record, load of `ts_counter`) then `BeginInsert` (into `active_txns`) then
  the two halves of `update_min_active_ts` (`UpdateMinScan`, `UpdateMinStore`).
  `commit` is `CommitFlush`, `CommitValidate`, `CommitAllocTs`, `CommitTrack`,
  the watermark update, `CommitRecord`, `CommitSync`, `CommitPublish` once per
  key, `CommitDone`; a refusal is `CommitRevalidate` (the code validates twice
  before it refuses) and `CommitRefused`; `CommitSyncFails` is a flush or fsync
  that fails. `gc` is `GcLoad` and `GcSweep`.
  In sync mode `GROUP` (`open_with_group_commit`) the caller waits in
  `CommitSync` until some batch's fsync, `GroupSync`, has covered its record.
  That is what `CommitLog` promises and `GroupCommit` is proved to implement,
  so the queue, the notifiers and the timeouts are not repeated here.
  Reads and writes are one step each: a write's updates of the write set, the
  WAL buffer and the dirty list touch only the transaction itself or are
  idempotent, and its conflict test and slot update happen under one `DashMap`
  entry guard.
* **Coarser than the code**: `abort` logs its record, clears all slots and leaves
  `active_txns` in one step; a GC sweep and an iteration over `active_txns` are
  one step each; `CommitTrack` removes the transaction and records it in
  `recent_commits` at once; `Checkpoint` appends and fsyncs at once, so its
  record is never torn or lost. The interleavings inside them are not explored.
  The append of a commit record does not fail; what fails is the flush or fsync
  after it.
* **The log.** `wal` is everything handed to the writer; `synced` is the length
  an fsync has covered. A crash keeps any prefix of at least `synced` records
  and, if allowed by `TornCrashes`, a partly written next record. Readers stop
  at the first record they cannot parse, as the plaintext readers of the code do
  for both `UnexpectedEof` and CRC errors. Records appended after reopening
  land behind a torn record, because the file is opened in append mode and never
  truncated. A failed fsync loses nothing that was written: a kernel that drops
  the pages of a failed fsync is not modelled.
* **Transaction ids** are the lower 32 bits; reopening is modelled under the
  same PID (a container), where `recover_state` continues after the largest id
  it can read. Another PID gives ids that occur nowhere in the file.
* **Deletion** is a tombstone in the memtable and the empty value in the log.
* **Bloom filters** of `validate_ssi` have no false negatives, so its fourth
  fast path accepts only what the exact test accepts; they are left out.
* **Clients** hold a handle from begin until commit succeeds or abort. A handle
  is used by one thread at a time. `AbortsOnError` says whether a client whose
  write was refused aborts (all runs: it does).

### Correspondence: group commit

Each transaction has a thread in `submit_and_wait`: `Submit` (the critical
section of the queue), `FlushInline` (the decision after it), then the wait loop
`CheckResult`, `Wake`, `TimeoutFlush`. `flush_batch` is run by callers, by an
owner in `flush_loop` and by anyone calling `flush_group_commit`: `DrainBatch`
under the queue's mutex, `AppendCommit` per record and `SyncBatch` (the flush
function, or `FlushFails` at any point of it), `NotifyOne` per caller. The batch
size comes from moving averages; any size within the clamp is possible at every
call. A timeout may fire at any time while the caller waits, also when its
answer is already there. The queue is volatile: `Crash` ends the story of the
buffer, what matters afterwards is what of `wal` was kept.

### Correspondence: processes

`WriterLock`: `open` is `OpenStat` (does the file exist?), `OpenMap` (create,
size, map), then `OpenInitialise` or `OpenValidate`; `try_acquire_writer` is
`TryLoad` and `TryCas`, the loop around it `Retry` and `Deadline`;
`release_writer` is `ReleaseLoad` and `ReleaseStore`. A process that crashes
may come back with the same pid. `FilesFound` says whether the first open finds
the metadata file: "absent", "ready", or either.

`DatabaseLock` separates files from the name `.lock`, because an flock stays
with a file whose name is gone. `Unlock` and `Unlink` are the two statements of
`drop`; `FlockStale` and `RemoveStale` the takeover from a dead process.

### Correspondence: leases

A call reads the clock (`ReadNow`, or the start of a sweep), and takes its
decision under the locks in a later step (`ClaimGranted`, `GetTokenRead`,
`CleanupExpired`); `Release` clears the extension count and `ReleaseClaim` tests
the token; `Extend`, `ExtendClaim` and `CountExtension` are the three critical
sections of `extend`. `held` is the token a worker relies on; it gives it up
when it sends a release or is told it is stale. `retired` are instances it gave
up: a release or extend may be repeated with any of them (a retry, a duplicate).
The clock does not go back; `SystemTime` may, and then `ExclusiveLease` fails
for a reason outside the code.

## 3. Runs

Passing runs:

| Run | Configuration | Question |
|---|---|---|
| `serial` | 1 thread, ids 1-4 (one goes to recovery), 2 keys, reads, the read-only fast path, deletes, aborts, GC, a commit window pruned at every commit | does what an active transaction sees ever change, is the last commit what a new snapshot sees, does full validation stop write skew? |
| `concurrent` | 2 threads, ids 1-3, 2 keys, 2 values, 2 writes per transaction, group commit, aborts, failing fsyncs, one crash at any step, torn tail allowed | does the log always replay to what the memtable holds, does recovery restore an atomic prefix with every acknowledged commit? |
| `restart` | 1 thread, sync NORMAL, write-only mode, 2 keys, 2 values, 2 writes per transaction, aborts, a checkpoint, shutdowns, two crashes, also during recovery, no deletes | does recovery restore an atomic prefix of a log written by several incarnations, is the engine a `SnapshotStore`? |
| `group_commit` | 2 callers, an owner that starts twice, a helper, batches of 1 or 2, a failing flush, a crash | is Ok durable, is it a `CommitLog`, does every caller return? |
| `claims` | 2 workers, 1 task, leases of 1 and 2 ticks, 3 ticks, 3 claims, one extension, crashes, retries | are leases exclusive, who ends one? |
| `processes` | 2 processes of 2 threads, 2 crashes or closes, file present or absent | does every acquire return? |

Runs in which TLC refutes what the repository says:

| Run | Statement | Counterexample |
|---|---|---|
| `serializability` | "never admits a non-serializable one" (`durable_storage.rs:82`) | a lost update: T1 writes k1 without reading and commits untracked (895-897); T2, with a snapshot from before, has read k1 and writes it, and passes fast path 2 because `recent_commits` is empty |
| `unstable_snapshot` | "a consistent snapshot fixed at `begin_transaction()`" (`durable_storage.rs:69`) | begin between another commit's timestamp and its publication |
| `torn_tail` | "guaranteed to survive process crash, OS crash, and power failure" (`txn_wal.rs:1151`) | crash with a torn record, reopen, commit, crash: the commit is behind the torn record |
| `abort_leaves_versions` | "For write transactions, O(N) memtable scan is required to remove uncommitted versions" (`durable_storage.rs:3383`) | commit drops the write buffer, validation refuses, `abort` finds no buffer and skips the memtable (3389) |
| `two_writers` | "by construction there is at most one writer at a time" (`mvcc_concurrent.rs:62`) | a second thread of the process that holds the lock finds its own pid in the word and is let in (1041) |
| `lock_two_holders` | "Single-process exclusive access to database files" (`lock.rs:36`) | A unlocks, B locks the same file, A unlinks the name, C creates and locks a new file |

`Serializable` has more counterexamples than the shortest. One step longer is the
write skew of two transactions that each read the key the other writes, with one
key written and one read each: both pass fast path 3 (`durable_storage.rs:971`).
Neither repair makes the other unnecessary. Even a tracked T1 of the lost update
would have no reads, and `validate_ssi` refuses only who has a conflict in both
directions. `OneWriter` falls in two other ways: the first of two threads of a
process to leave frees the lock under the other, so a second process enters; and
two processes that create the metadata file at once both initialise it, the
second wiping the word the first has set. Where neither can happen it holds
(`MutualExclusion`, section 4).

What the passing properties do not say:

* **Deletes and recovery.** A deleted key comes back from recovery as a key with
  the empty value (`durable_storage.rs:2973`, against "Empty value = tombstone" at
  3175 and `docs/REMEDIATION_CHECKLIST.md:46`). `SnapshotStore` keeps the two apart
  and `ImplementsSnapshotStore` is violated as soon as `"delete"` is put into the
  workload of `restart`; the run has no deletes and covers the engine without
  them. `LiveMatchesLog` and `RecoveryRestoresCommittedPrefix` compare values as
  the log encodes them (`WalValue`) and do not see the difference.
* `LiveMatchesLog` takes the slot of a transaction whose commit record is in the
  log for its newest version, because a commit whose fsync failed has its record
  in the log and is never published.
* `CommitLog!Crash` may keep part of a batch: "either all commit records are
  visible after crash recovery, or none are" (`txn_wal.rs:1177`) is not so.
  "Error" promises nothing, because a later fsync may cover the record.
* A crash between creating and initialising the metadata file leaves a file
  every later open rejects. The pid of a dead holder is never cleared, so until
  the same pid returns every acquire ends with an error: `EveryAcquireReturns`
  promises an answer, not the lock.
* `max_extensions` is not enforced: `release` clears the count before it looks
  at the token.
* The module comment at `durable_storage.rs:95-97` says GC keeps
  `commit_ts > min_active_ts` and an anchor at or below it. The code keeps `>=`
  and an anchor strictly below; the formula of the comment is the mutant
  `GcInclusive`, which breaks `SnapshotReadsStable`.

**Bounds.** Two keys are needed for write skew and for a commit that is half
published; two threads for every race listed; three client transactions for a
pivot between two others, a version below a GC watermark, and a reader beside
two writers. Timestamps, ids and the log are bounded by `MaxTxnId` and
`MaxWrites`; crashes by `MaxCrashes`; `Workload` switches off calls that a
question does not need. `concurrent` and `restart` have two client transactions
of two writes and two values, so order and atomicity are both visible; no client
of theirs reads, because a read changes only what validation looks at, and
`LogOrder`, `LiveLog`, `RecoveryRestores` and `AckedSurvive` (section 4) hold for
clients that do. The properties of `serial` look at versions and not at values:
`Values` is empty there and every write is a delete. The two crashes of `restart`
allow one during the recovery from the other, and a log in which ids occur
twice. `group_commit`: two callers
and two other flushers reach three flushes in progress at once, a batch that is
appended by one thread while another fsyncs, and a stop between a caller's look
at `running` and its wait. `claims`: four instances allow a claim, its takeover,
a second claim by the first worker and a late release of the first one.
`processes`: two threads in each of two processes reach a lock held by the own
process, by another and by a dead one.

**Symmetry** is used only in runs without liveness properties; keys, values,
threads, workers and tasks are only compared.

**Deadlock** is not checked: ids, clocks and restarts are bounded, so every
behaviour of the models ends, and clients may stop calling.

**Fairness.** `GroupCommit!FairSpec`: weak fairness of each caller that is in a
call, of an owner in its loop and of a helper in a flush: the operating system
schedules runnable threads, and `wait_timeout` returns. Nobody has to start,
stop, help or submit, and an owner that called `start` runs `flush_loop`, as the
comment there requires (nothing in the repository calls `start`, so the timeout
is what makes callers return). `WriterLock!FairSpec`: weak fairness of a thread
in a call and of the deadline, an `Instant`, which passes; processes may crash
or stop at any time, and a dead holder never releases. Both are weak: a step of
a thread, once enabled, is disabled only by the thread itself or by a crash.

**Why the concurrent run has no snapshot property.** With two threads snapshots
are not stable (`unstable_snapshot`), so `SnapshotReadsStable` and the refinement
are checked, and the former proved, for one thread in the engine at a time.

## 4. Proofs

All theorems hold for every value of the constants under the named assumptions
(`ValuesAssumption`, `MaxTxnIdAssumption`, `MvccAssumption`, `StorageAssumption`,
`GroupCommitAssumption`, `WriterLockAssumption`, `ClaimAssumption`), which TLC
evaluates in the runs.

`DurableStorageProofs` proves `TypeCorrect: Spec => []TypeOK`. `TypeOK` is
inductive with the conjunct `HasTxn`: a call past its first step has a
transaction id, without which the commit record would be ill-typed.

`SnapshotProofs` proves, assuming only that there is one thread (`OneThread`):

* `GcPreservesVisible`: GC at a watermark at or below a snapshot leaves what
  the snapshot sees unchanged. This is where `>=` and the strict anchor matter.
* `SnapshotInvariant: Spec => []SnapshotInv`. `SnapshotReadsStable` is an action
  property and does not follow from types: it needs that the watermark, as
  stored and as held in a thread's locals between load and use, is at most
  every active snapshot, and that while a commit has a timestamp it has not
  published yet, no active snapshot is above it. `SnapshotInv` is that fact
  made inductive: it adds that snapshots are at most the counter, that active
  ids are below `nextTxnId` (so begin never replaces an active transaction),
  and that nothing is active outside the open state. TLC checks it in `serial`.
* `SnapshotStable: Spec => SnapshotReadsStable`, from the above, the lemma that
  a version committed at or above a snapshot is invisible to it, and the lemma
  that writes and aborts only touch uncommitted slots.

`SlotProofs` is about any number of threads. Its invariants tie together what
the code keeps in five places without a common lock: the call a transaction is
in (`CallInv`: one call per transaction, nothing in memory while the database is
closed), the client's handle and the write buffer (`HandleInv`), the uncommitted
slot of a key (`SlotInv`: where the log or the buffer accounts for it), ids not
yet given out (`FreshInv`) and the ends of transactions in the log (`EndedInv`).

* `LogOrder: Spec => []LogOrderMatchesVersionOrder`, without hypotheses. The
  property is not inductive. `OrderInv` adds that a key has one owner, that the
  timestamp of a committing owner is above those of all versions of the key, and
  that once its record is logged it is behind theirs. It is the slot, not a lock
  over the commit, that orders two commits of one key.
* `OrphansRefused: Spec => []OrphansOnlyAfterRefusal` says that the case shown by
  `abort_leaves_versions` is the only one. It assumes `IntactStorage`
  (no failing fsync, no torn record). Both are needed: a commit whose fsync
  fails leaves its slots behind with a commit record in the log, and after a torn
  record `recover_state` gives out ids again that occur behind it.

`LogProofs` shows what the log is worth.

* `ReplayCorrect: Spec => []ReplayComputesLoggedValues`, without hypotheses. The
  prover has no induction over a log, but the loop is a part of the
  specification, one action per record, so its loop invariant `ReplayInv` is an
  invariant of `Spec`. The value of a key after `n` records is stated as a
  relation (`Logged`, and `Pending` for the writes still waiting for a commit
  record); lemmas say what one more record does to it, and that `LoggedValue`
  is the value so characterised.
* `LiveLog: Spec => []LiveMatchesLog` for clients that abort after a refused
  write, on `IntactStorage`. `ReadyInv` says that flushing the buffer of an open
  transaction, and then its commit record, would put into effect exactly the
  slots it holds; `LiveInv` that the log says of each key what its newest version
  does or, between record and publication, its slot. `LoggedSlot` and
  `PublishingLogged` identify the calls in between with the slots whose owner's
  commit record is in the log, by `EndedInv` and `OrderInv`. Without the first
  hypothesis a refused write stays in the buffer and is logged; a failed fsync
  leaves a commit record whose writes are never published.
* `RecoveryRestores: DurabilitySpec => RecoveryRestoresCommittedPrefix`, for
  every sync mode and with torn records and failing fsyncs at any crash, again
  for clients that abort after a refused write. `CountInv`: the history has an
  entry for each commit record that can be read. `PrefixInv`: every readable
  prefix of the log, not just the whole of it, agrees with the prefix of the
  history with as many commits; this is what a crash needs, which may cut
  anywhere. A new entry agrees by `ReadyInv`, which therefore is proved for as
  long as the log is intact and not under `IntactStorage`.
* `AckedSurvive: DurabilitySpec => AckedCommitsSurvive`, for sync mode FULL and
  group commit, any clients and failing fsyncs, if only the last crash may leave
  a torn record (`LastTear`). The run `torn_tail` shows that this cannot be
  dropped: commits after a torn record land behind it. `RecordInv`: a call that
  publishes has its record below `synced` (with group commit, because the last
  commit record of its id is); `AckInv`: what was acknowledged is in the synced,
  readable part of the log.

`IsolationProofs` assumes one thread in the engine, as `unstable_snapshot` shows
it must.

* `WriteSkewStopped: IsolationSpec => []FullValidationStopsWriteSkew`. The
  history of `MCIsolation` is tied to the engine by `HistoryInv` (timestamps
  below the counter and not above that of the commit in progress), `ObservedInv`
  (what was observed is tracked; reads over the cap of the read set are neither)
  and `WindowInv`: the window of recent commits still holds each commit at or
  above an active snapshot, which pruning by the watermark respects by
  `SnapshotInv`. The two-step refusal (validate, validate again) and the pruning
  at every commit are covered.
* `LastCommitVisible: IsolationSpec => []LastCommitIsVisible`, also assuming no
  failing fsync and clients that abort after a refused write. `OwnershipInv`: who
  wrote a key holds its slot; `PublisherInv`: the commit in progress is in the
  history; `PublishedInv`: the newest version of a key is that of the last
  transaction that published it, or recovery's.

`GroupCommitProofs` proves `SuccessDurable: Spec => []SuccessIsDurable` and
`Refinement: Spec => ImplementsCommitLog`. The inductive invariant is `FlushInv`
with `TypeOK`: a transaction is in the queue once or in the batch of one thread
once (`OneFlusher`), while it is there its caller has no answer and until it is
appended it has no record (`Unanswered`), and a batch is wholly appended before
the fsync and durable when it is answered (`BatchDurable`). Sequences without
duplicates stay so under `Append`, `Tail` and `SubSeq` by lemmas of their own.
Each step is then matched with a step of `CommitLog` or a stutter.

`WriterLockProofs` proves `MutualExclusion: Spec => []OneWriter` for any number of
processes, assuming that each writes from one thread (`OneThreadEach`) and that
the metadata file exists beforehand (`FileExists`); `two_writers` and the double
initialisation show that neither can be dropped. `LockInv`: a thread with a guard
has its pid in the lock word, and no process is about to initialise the file.
Since the pid is in the word, the store of `release_writer` frees nobody else's
lock, although the word is tested in a step before.

`AtomicClaimProofs` proves `ClaimInvariant: Spec => []ClaimInv`,
`LeasesExclusive: Spec => []ExclusiveLease` and `OwnerEndsLease: Spec =>
LeaseEndsOnlyByOwner`. `ClaimInv` says that a token its holder considers valid
is the one in the map with no later expiry; that it survives stale times needs
that a call's time is never ahead of the clock (a claim judged expired then is
expired now), and that it survives late releases needs that a worker about to
release a claim has given up the token of that instance before.

Only model-checked: the refinement of `SnapshotStore` (its ingredients, the
agreement of log, history and memtable and the stability of snapshots, are
proved above; the step simulation is not), and, out of the prover's reach, the
liveness properties `EveryCallerReturns` and `EveryAcquireReturns`.

## 5. Plan

1. The client queue (`queue.rs`): the two-phase `cleanup_expired_claims` and the
   lock order of `extend_visibility`.
2. `write_batch`, scans (phantoms), `truncate_wal`, errors of append, and
   `AbortsOnError = FALSE`.
3. PITR: `replay_to_target`, the manifest, single-shot recovery.
4. Proofs: the step simulation of `SnapshotStore`, from `PrefixInv`, `LiveInv`
   and `SnapshotStable`.

## 6. Not modelled

Query planning, vector and graph indexes, the gRPC and MCP servers, bindings
and tools make up most of the repository's lines; they hold no protocol of this
kind, are numeric, or are transport. Encryption, backup and key management are
I/O and cryptography. The ARIES kernel (`sochdb-kernel/src/wal.rs`,
`transaction.rs`) and the LSM version set are separate engines that
`DurableStorage` does not use. Of `mvcc_concurrent.rs` the reader slots, the
version store and the hybrid logical clock (whose logical part saturates at
65535) are not used by `Database`'s reads and writes; of `lock.rs`,
`RwDatabaseLock` has no caller. `PROJECT.json` lists each component with its
status.
