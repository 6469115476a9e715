--------------------------- MODULE DurableStorage ---------------------------
(***************************************************************************)
(* DurableStorage of sochdb-storage/src/durable_storage.rs: the WAL, the   *)
(* MVCC manager and the memtable of version chains composed into the live  *)
(* transaction path, with several client threads calling it, crashes and   *)
(* the recovery Database::open runs.                                       *)
(*                                                                         *)
(* A thread runs one call at a time.  A call is as many actions as it has  *)
(* separately synchronised accesses to shared state: begin, commit, abort  *)
(* and gc take no lock across their body.  thread[t] holds the local       *)
(* variables of the call in progress.                                      *)
(***************************************************************************)
EXTENDS TxnWal, MvccManager, VersionChain

CONSTANTS
    Threads,        \* client threads
    ClientModes,    \* transaction modes clients use
    SyncMode,       \* "OFF", "NORMAL" or "FULL" (set_sync_mode), or "GROUP":
                    \* the storage was opened with group commit
    AbortsOnError,  \* BOOLEAN: do clients abort after a failed write?
    Workload,       \* the optional calls clients make: see Calls
    MaxWrites,      \* bound: writes and deletes per transaction
    MaxCheckpoints, \* bound: no checkpoint is appended to a longer WAL
    MaxCrashes,     \* bound: crashes and shutdowns
    TornCrashes     \* which of them may leave a partly written record

\* "ioError" is no call: it lets an fsync fail.
Calls == {"read", "readOnlyFast", "delete", "abort", "gc", "checkpoint", "shutdown", "ioError"}

ASSUME StorageAssumption ==
    /\ Workload \subseteq Calls
    /\ ClientModes \subseteq Modes
    /\ SyncMode \in {"OFF", "NORMAL", "FULL", "GROUP"}
    /\ AbortsOnError \in BOOLEAN
    /\ MaxWrites \in Nat /\ MaxCheckpoints \in Nat /\ MaxCrashes \in Nat
    /\ TornCrashes \subseteq Nat

VARIABLES
    status,     \* "down", "recovering" or "open"
    crashes,    \* crashes and shutdowns so far
    chains,     \* memtable.data: the version chain of every key
    dirtyKeys,  \* the dirty list of the memtable's current epoch
    buffers,    \* txn_write_buffers: the Data records of each transaction
    handles,    \* what clients know of each id: see Handles
    thread      \* the call each thread is in

storageVars == <<status, crashes, chains, dirtyKeys, buffers, handles, thread>>

vars == <<walVars, mvccVars, storageVars>>

\* "free": not held.  "open": returned by begin.  "fast": returned by
\* begin_read_only_fast.  "failed": a write of it returned Err and the client
\* will abort it.  "dead": commit returned Err.
Handles == {"free", "open", "fast", "failed", "dead"}

Labels == {"idle", "insert", "minScan", "minStore", "validate", "revalidate", "allocTs",
           "track", "commitRecord", "sync", "publish", "gcSweep"}

Locals == [at : Labels, return : Labels, id : TxnIds \cup {0}, ts : Nat, min : Nat,
           todo : SUBSET Keys]

\* The labels at which the call is about transaction thread[t].id.
TxnLabels == Labels \ {"idle", "minScan", "minStore", "gcSweep"}

Idle == [at |-> "idle", return |-> "idle", id |-> 0, ts |-> 0, min |-> 0, todo |-> {}]

Become(t, locals)       == thread' = [thread EXCEPT ![t] = locals]
Enter(t, label, id)     == Become(t, [Idle EXCEPT !.at = label, !.id = id])
Goto(t, label)          == Become(t, [thread[t] EXCEPT !.at = label])
Return(t)               == Become(t, Idle)

\* Call update_min_active_ts, then go to the given label.
UpdateMinThen(t, label) == Become(t, [thread[t] EXCEPT !.at = "minScan", !.return = label])

\* Thread t is free to make a call on handle id, which nobody else is using.
MayCall(t, id) ==
    /\ status = "open" /\ thread[t].at = "idle"
    /\ \A u \in Threads : thread[u].id # id

In(t, label) == status = "open" /\ thread[t].at = label

-----------------------------------------------------------------------------
(* begin_transaction, begin_with_mode, begin_read_only_fast                *)

\* wal.begin_transaction, then the load of ts_counter in begin_with_mode.
BeginWithMode(t, mode) ==
    \E id \in TxnIds :
        /\ MayCall(t, id) /\ AllocTxnId(id)
        /\ Append1(TxnBegin(id))
        /\ txn' = [txn EXCEPT ![id] = NewTransaction(mode, tsCounter)]
        /\ handles' = [handles EXCEPT ![id] = "open"]
        /\ Enter(t, "insert", id)
        /\ UNCHANGED <<replay, tsCounter, minActiveTs, activeTxns, recentCommits,
                       status, crashes, chains, dirtyKeys, buffers>>

BeginReadOnlyFast(t) ==
    \E id \in TxnIds :
        /\ "readOnlyFast" \in Workload
        /\ MayCall(t, id) /\ AllocTxnId(id)
        /\ txn' = [txn EXCEPT ![id] = NewTransaction("ReadOnly", tsCounter)]
        /\ handles' = [handles EXCEPT ![id] = "fast"]
        /\ Enter(t, "insert", id)
        /\ UNCHANGED <<wal, synced, replay, tsCounter, minActiveTs, activeTxns,
                       recentCommits, status, crashes, chains, dirtyKeys, buffers>>

\* active_txns.insert: only now can the watermark see the snapshot.
BeginInsert(t) ==
    /\ In(t, "insert")
    /\ activeTxns' = activeTxns \cup {thread[t].id}
    /\ UpdateMinThen(t, "idle")
    /\ UNCHANGED <<walVars, tsCounter, minActiveTs, txn, recentCommits,
                   status, crashes, chains, dirtyKeys, buffers, handles>>

-----------------------------------------------------------------------------
(* update_min_active_ts: compute, then store.                              *)

UpdateMinScan(t) ==
    /\ In(t, "minScan")
    /\ \E min \in LowestSnapshot :
           Become(t, [thread[t] EXCEPT !.at = "minStore", !.min = min])
    /\ UNCHANGED <<walVars, mvccVars, status, crashes, chains, dirtyKeys, buffers, handles>>

UpdateMinStore(t) ==
    /\ In(t, "minStore")
    /\ minActiveTs' = thread[t].min
    /\ IF thread[t].return = "idle" THEN Return(t)
       ELSE Become(t, [thread[t] EXCEPT !.at = thread[t].return, !.min = 0])
    /\ UNCHANGED <<walVars, tsCounter, activeTxns, txn, recentCommits,
                   status, crashes, chains, dirtyKeys, buffers, handles>>

-----------------------------------------------------------------------------
(* read, write, delete: calls on an active transaction.                    *)

\* The client gets ReadAt(chains[key], txn[id].snapshot, id).
Read(t, id, key) ==
    /\ "read" \in Workload
    /\ MayCall(t, id) /\ handles[id] \in {"open", "fast", "failed"}
    /\ id \in activeTxns
    /\ txn' = [txn EXCEPT ![id] = RecordRead(@, key)]
    /\ UNCHANGED <<walVars, tsCounter, minActiveTs, activeTxns, recentCommits, storageVars>>

\* write_refs and delete.  The write set, the WAL buffer and the dirty list
\* are updated before the memtable looks for a write-write conflict: they
\* keep the write when it is refused.
WriteKey(t, id, key, value) ==
    /\ MayCall(t, id) /\ handles[id] = "open"
    /\ Len(buffers[id]) < MaxWrites
    /\ txn' = IF id \in activeTxns
              THEN [txn EXCEPT ![id] = RecordWrite(@, key)] ELSE txn
    /\ buffers' = [buffers EXCEPT ![id] = Append(@, Data(id, key, value))]
    /\ dirtyKeys' = dirtyKeys \cup {key}
    /\ \/ /\ HasWriteConflict(chains[key], id)
          /\ handles' = IF AbortsOnError THEN [handles EXCEPT ![id] = "failed"] ELSE handles
          /\ UNCHANGED chains
       \/ /\ ~HasWriteConflict(chains[key], id)
          /\ chains' = [chains EXCEPT ![key] = AddUncommitted(@, value, id)]
          /\ UNCHANGED handles
    /\ UNCHANGED <<walVars, tsCounter, minActiveTs, activeTxns, recentCommits,
                   status, crashes, thread>>

Write(t, id, key) == \E value \in Values : WriteKey(t, id, key, value)

Delete(t, id, key) == "delete" \in Workload /\ WriteKey(t, id, key, Tombstone)

-----------------------------------------------------------------------------
(* commit                                                                  *)

\* The data records go to the WAL before validation.
CommitFlush(t, id) ==
    /\ MayCall(t, id) /\ handles[id] = "open"
    /\ wal' = wal \o buffers[id]
    /\ buffers' = [buffers EXCEPT ![id] = << >>]
    /\ Enter(t, "validate", id)
    /\ UNCHANGED <<synced, nextTxnId, replay, mvccVars,
                   status, crashes, chains, dirtyKeys, handles>>

\* mvcc.commit validates, and validates again before it refuses.
CommitValidate(t) ==
    /\ In(t, "validate") \/ In(t, "revalidate")
    /\ MayCommit(txn[thread[t].id])
    /\ Goto(t, "allocTs")
    /\ UNCHANGED <<walVars, mvccVars, status, crashes, chains, dirtyKeys, buffers, handles>>

CommitRevalidate(t) ==
    /\ In(t, "validate")
    /\ ~MayCommit(txn[thread[t].id])
    /\ Goto(t, "revalidate")
    /\ UNCHANGED <<walVars, mvccVars, status, crashes, chains, dirtyKeys, buffers, handles>>

\* mvcc.commit returned None: commit returns Err.  The transaction is gone
\* from active_txns and its buffer is gone, its uncommitted versions are not.
CommitRefused(t) ==
    LET id == thread[t].id IN
    /\ In(t, "revalidate")
    /\ ~MayCommit(txn[id])
    /\ activeTxns' = activeTxns \ {id}
    /\ txn' = [txn EXCEPT ![id] = NoTransaction]
    /\ handles' = [handles EXCEPT ![id] = "dead"]
    /\ UpdateMinThen(t, "idle")
    /\ UNCHANGED <<walVars, tsCounter, minActiveTs, recentCommits,
                   status, crashes, chains, dirtyKeys, buffers>>

CommitAllocTs(t) ==
    /\ In(t, "allocTs")
    /\ Become(t, [thread[t] EXCEPT !.at = "track", !.ts = tsCounter])
    /\ tsCounter' = tsCounter + 1
    /\ UNCHANGED <<walVars, minActiveTs, activeTxns, txn, recentCommits,
                   status, crashes, chains, dirtyKeys, buffers, handles>>

\* Mutant: the transaction is moved out (mem::take) and its id with it.
CommitTrackTakesId(t) ==
    LET id == thread[t].id IN
    /\ In(t, "track")
    /\ activeTxns' = activeTxns \ {id}
    /\ recentCommits' = TrackCommit(id, txn[id], thread[t].ts)
    /\ txn' = [txn EXCEPT ![id] = NoTransaction]
    /\ Become(t, [thread[t] EXCEPT !.at = "minScan", !.return = "commitRecord", !.id = 0,
                                   !.todo = txn[id].writes])
    /\ UNCHANGED <<walVars, tsCounter, minActiveTs,
                   status, crashes, chains, dirtyKeys, buffers, handles>>

CommitTrack(t) ==
    LET id == thread[t].id IN
    /\ In(t, "track")
    /\ activeTxns' = activeTxns \ {id}
    /\ recentCommits' = TrackCommit(id, txn[id], thread[t].ts)
    /\ txn' = [txn EXCEPT ![id] = NoTransaction]
    /\ Become(t, [thread[t] EXCEPT !.at = "minScan", !.return = "commitRecord",
                                   !.todo = txn[id].writes])
    /\ UNCHANGED <<walVars, tsCounter, minActiveTs,
                   status, crashes, chains, dirtyKeys, buffers, handles>>

\* Mutant: the writes are published before the commit record is logged.
CommitPublishFirst(t) ==
    /\ In(t, "commitRecord")
    /\ \/ /\ thread[t].todo = {}
          /\ Append1(TxnCommit(thread[t].id))
          /\ Goto(t, "sync")
          /\ UNCHANGED chains
       \/ /\ thread[t].todo # {}
          /\ chains' = [k \in Keys |-> CommitVersion(chains[k], thread[t].id, thread[t].ts)]
          /\ Become(t, [thread[t] EXCEPT !.todo = {}])
          /\ UNCHANGED <<wal, synced>>
    /\ UNCHANGED <<nextTxnId, replay, mvccVars, status, crashes, dirtyKeys, buffers, handles>>

CommitRecord(t) ==
    /\ In(t, "commitRecord")
    /\ Append1(TxnCommit(thread[t].id))
    /\ Goto(t, "sync")
    /\ UNCHANGED <<nextTxnId, replay, mvccVars,
                   status, crashes, chains, dirtyKeys, buffers, handles>>

\* Mutant: FULL flushes the BufWriter but does not fsync.
CommitFlushOnly(t) ==
    /\ In(t, "sync")
    /\ Goto(t, "publish")
    /\ UNCHANGED <<walVars, mvccVars, status, crashes, chains, dirtyKeys, buffers, handles>>

\* The fsync of a batch that some thread flushes: see GroupCommit.
GroupSync(t) ==
    /\ SyncMode = "GROUP" /\ In(t, "sync")
    /\ synced < Len(wal) /\ synced' = Len(wal)
    /\ UNCHANGED <<wal, nextTxnId, replay, mvccVars, storageVars>>

\* The last commit record of transaction id is covered by an fsync.
RecordSynced(id) ==
    \E i \in 1..synced : /\ wal[i] = TxnCommit(id)
                         /\ \A j \in (i + 1)..Len(wal) : wal[j] # TxnCommit(id)

\* OFF never syncs, FULL always does; NORMAL does when an adaptive threshold
\* on arrival rate and fsync latency says so.  With group commit the caller
\* goes on once an fsync has covered its record, as CommitLog promises.
CommitSync(t) ==
    /\ In(t, "sync")
    /\ \/ SyncMode \in {"NORMAL", "FULL"} /\ synced' = Len(wal)
       \/ SyncMode \in {"OFF", "NORMAL"} /\ UNCHANGED synced
       \/ SyncMode = "GROUP" /\ RecordSynced(thread[t].id) /\ UNCHANGED synced
    /\ Goto(t, "publish")
    /\ UNCHANGED <<wal, nextTxnId, replay, mvccVars,
                   status, crashes, chains, dirtyKeys, buffers, handles>>

\* wal.flush() or wal.sync() fails, or the flush of the caller's batch does:
\* commit returns Err.  The record stays in
\* the log, where a later sync may make it durable; the versions stay
\* uncommitted and nothing takes them back.
CommitSyncFails(t) ==
    /\ "ioError" \in Workload
    /\ In(t, "sync") /\ SyncMode # "OFF"
    /\ handles' = [handles EXCEPT ![thread[t].id] = "dead"]
    /\ Return(t)
    /\ UNCHANGED <<walVars, mvccVars, status, crashes, chains, dirtyKeys, buffers>>

\* memtable.commit: one key of the write set at a time, in any order.
CommitPublish(t) ==
    /\ In(t, "publish")
    /\ \E key \in thread[t].todo :
           /\ chains' = [chains EXCEPT ![key] =
                            CommitVersion(@, thread[t].id, thread[t].ts)]
           /\ Become(t, [thread[t] EXCEPT !.todo = @ \ {key}])
    /\ UNCHANGED <<walVars, mvccVars, status, crashes, dirtyKeys, buffers, handles>>

\* commit returns Ok(commit_ts): the client knows the transaction committed.
CommitDone(t) ==
    /\ In(t, "publish") /\ thread[t].todo = {}
    /\ handles' = [handles EXCEPT ![thread[t].id] = "free"]
    /\ Return(t)
    /\ UNCHANGED <<walVars, mvccVars, status, crashes, chains, dirtyKeys, buffers>>

-----------------------------------------------------------------------------
(* abort, gc, checkpoint                                                   *)

\* The memtable is only cleaned when the transaction still had a buffer.
Abort(t, id) ==
    /\ MayCall(t, id)
    /\ \/ handles[id] \in {"failed", "dead"}
       \/ handles[id] = "open" /\ "abort" \in Workload
    /\ IF buffers[id] # << >>
       THEN /\ Append1(TxnAbort(id))
            /\ chains' = [k \in Keys |-> AbortVersion(chains[k], id)]
       ELSE UNCHANGED <<wal, synced, chains>>
    /\ buffers' = [buffers EXCEPT ![id] = << >>]
    /\ activeTxns' = activeTxns \ {id}
    /\ txn' = [txn EXCEPT ![id] = NoTransaction]
    /\ handles' = [handles EXCEPT ![id] = "free"]
    /\ UpdateMinThen(t, "idle")
    /\ UNCHANGED <<nextTxnId, replay, tsCounter, minActiveTs, recentCommits,
                   status, crashes, dirtyKeys>>

AbortReadOnlyFast(t, id) ==
    /\ MayCall(t, id) /\ handles[id] = "fast"
    /\ activeTxns' = activeTxns \ {id}
    /\ txn' = [txn EXCEPT ![id] = NoTransaction]
    /\ handles' = [handles EXCEPT ![id] = "free"]
    /\ UpdateMinThen(t, "idle")
    /\ UNCHANGED <<walVars, tsCounter, minActiveTs, recentCommits,
                   status, crashes, chains, dirtyKeys, buffers>>

\* gc: load the watermark, then sweep the dirty keys of the closed epoch.
GcLoad(t) ==
    /\ "gc" \in Workload
    /\ In(t, "idle") /\ dirtyKeys # {}
    /\ Become(t, [thread[t] EXCEPT !.at = "gcSweep", !.min = minActiveTs])
    /\ UNCHANGED <<walVars, mvccVars, status, crashes, chains, dirtyKeys, buffers, handles>>

GcSweep(t) ==
    /\ In(t, "gcSweep")
    /\ chains' = [k \in Keys |-> IF k \in dirtyKeys THEN GcByTs(chains[k], thread[t].min)
                                 ELSE chains[k]]
    /\ dirtyKeys' = {}
    /\ Return(t)
    /\ UNCHANGED <<walVars, mvccVars, status, crashes, buffers, handles>>

Checkpoint(t) ==
    /\ "checkpoint" \in Workload
    /\ In(t, "idle") /\ Len(wal) < MaxCheckpoints
    /\ AppendSync(CheckpointRecord)
    /\ UNCHANGED <<nextTxnId, replay, mvccVars, storageVars>>

-----------------------------------------------------------------------------
(* Crash, shutdown, open and recover.                                      *)

\* Everything in memory is gone.
Forget ==
    /\ MvccReset
    /\ crashes < MaxCrashes /\ crashes' = crashes + 1
    /\ status' = "down"
    /\ chains' = [k \in Keys |-> EmptyChain]
    /\ dirtyKeys' = {}
    /\ buffers' = [id \in TxnIds |-> << >>]
    /\ handles' = [id \in TxnIds |-> "free"]
    /\ thread' = [t \in Threads |-> Idle]
    /\ nextTxnId' = 1
    /\ replay' = ReplayStart

Crash ==
    /\ status # "down"
    /\ LoseTail(crashes + 1 \in TornCrashes)
    /\ UNCHANGED synced
    /\ Forget

\* shutdown (also run by Drop, so no call is in progress): fsync and a marker
\* file that the next open removes.
Shutdown ==
    /\ "shutdown" \in Workload
    /\ status = "open" /\ \A t \in Threads : thread[t].at = "idle"
    /\ synced' = Len(wal) /\ UNCHANGED wal
    /\ Forget

\* TxnWal::new: recover_state, then the loop of replay_for_recovery.
Open ==
    /\ status = "down" /\ status' = "recovering"
    /\ RecoverState
    /\ UNCHANGED <<wal, synced, replay, mvccVars, crashes, chains, dirtyKeys,
                   buffers, handles, thread>>

ReplayRecord ==
    /\ status = "recovering"
    /\ replay.pos + 1 \in ReadableRecords
    /\ replay' = ReplayOne(replay, wal[replay.pos + 1])
    /\ UNCHANGED <<wal, synced, nextTxnId, mvccVars, storageVars>>

\* The rest of recover(): one recovery transaction rewrites every recovered
\* key and commits at one timestamp.  A recovered value is always Some(_).
FinishRecover ==
    /\ status = "recovering" /\ replay.pos + 1 \notin ReadableRecords
    /\ status' = "open"
    /\ nextTxnId' = nextTxnId + 1
    /\ tsCounter' = tsCounter + 1
    /\ chains' = [k \in Keys |->
                    IF replay.result[k] = NoWrite THEN EmptyChain
                    ELSE [committed |-> {[value |-> replay.result[k], txn |-> nextTxnId,
                                          ts |-> tsCounter]},
                          uncommitted |-> {}]]
    /\ dirtyKeys' = {k \in Keys : replay.result[k] # NoWrite}
    /\ replay' = ReplayStart
    /\ UNCHANGED <<wal, synced, minActiveTs, activeTxns, txn, recentCommits,
                   crashes, buffers, handles, thread>>

-----------------------------------------------------------------------------
Init ==
    /\ wal = << >> /\ synced = 0 /\ nextTxnId = 1 /\ replay = ReplayStart
    /\ MvccInit
    /\ status = "down" /\ crashes = 0
    /\ chains = [k \in Keys |-> EmptyChain]
    /\ dirtyKeys = {}
    /\ buffers = [id \in TxnIds |-> << >>]
    /\ handles = [id \in TxnIds |-> "free"]
    /\ thread = [t \in Threads |-> Idle]

BeginStep(t) ==
    (\E mode \in ClientModes : BeginWithMode(t, mode)) \/ BeginReadOnlyFast(t) \/ BeginInsert(t)

UpdateMinStep(t) == UpdateMinScan(t) \/ UpdateMinStore(t)

WriteStep(t) == \E id \in TxnIds, key \in Keys : Write(t, id, key) \/ Delete(t, id, key)

CommitStep(t) ==
    \/ \E id \in TxnIds : CommitFlush(t, id)
    \/ CommitValidate(t) \/ CommitRevalidate(t) \/ CommitRefused(t)
    \/ CommitAllocTs(t) \/ CommitTrack(t)
    \/ CommitRecord(t) \/ GroupSync(t) \/ CommitSync(t) \/ CommitSyncFails(t)
    \/ CommitPublish(t) \/ CommitDone(t)

AbortStep(t) == \E id \in TxnIds : Abort(t, id) \/ AbortReadOnlyFast(t, id)

MaintenanceStep(t) == GcLoad(t) \/ GcSweep(t) \/ Checkpoint(t)

ReadStep(t) == \E id \in TxnIds, key \in Keys : Read(t, id, key)

ThreadStep(t) ==
    \/ BeginStep(t) \/ UpdateMinStep(t) \/ ReadStep(t) \/ WriteStep(t)
    \/ CommitStep(t) \/ AbortStep(t) \/ MaintenanceStep(t)

RestartStep == Crash \/ Shutdown \/ Open \/ ReplayRecord \/ FinishRecover

Next == (\E t \in Threads : ThreadStep(t)) \/ RestartStep

Spec == Init /\ [][Next]_vars

-----------------------------------------------------------------------------
(* Properties                                                              *)

MemTableTypeOK ==
    /\ chains \in [Keys -> Chains(StoredValues, Nat)]
    /\ dirtyKeys \subseteq Keys

ClientTypeOK ==
    /\ status \in {"down", "recovering", "open"}
    /\ crashes \in Nat
    /\ buffers \in [TxnIds -> Seq(DataRecords)]
    /\ handles \in [TxnIds -> Handles]

\* A call past its first step has a transaction, except gc and the tail of
\* abort.
HasTxn(locals) == locals.at \in TxnLabels \/ locals.return \in TxnLabels => locals.id \in TxnIds

ThreadTypeOK ==
    /\ thread \in [Threads -> Locals]
    /\ \A t \in Threads : HasTxn(thread[t])

\* Every variable keeps its type: no call leaves a transaction id, timestamp,
\* version or record outside its range, and replay only meets records it can
\* attribute to a transaction and a key.
TypeOK == WalTypeOK /\ MvccTypeOK /\ MemTableTypeOK /\ ClientTypeOK /\ ThreadTypeOK

SnapshotUnchanged(id) ==
    \A key \in Keys :
        Visible(chains'[key], txn'[id].snapshot) = Visible(chains[key], txn[id].snapshot)

\* What an active transaction sees of a key, its own writes aside, never
\* changes while it runs: neither a commit nor garbage collection may alter
\* its snapshot.  (Isolation contract, durable_storage.rs:69-71 and 96-99.)
SnapshotReadsStable ==
    [][\A id \in activeTxns \cap activeTxns' : SnapshotUnchanged(id)]_vars

\* The commit of thread t has its timestamp and has not returned yet.
Committing(locals) ==
    \/ locals.at \in {"track", "commitRecord", "sync", "publish"}
    \/ locals.return = "commitRecord"

NoSnapshotBelow(bound) == \A id \in activeTxns : bound <= txn[id].snapshot
NoSnapshotAbove(bound) == \A id \in activeTxns : txn[id].snapshot <= bound

\* Why snapshots are stable when one thread at a time is in a call: no
\* snapshot is taken between the allocation of a commit timestamp and the
\* publication of its writes, and the watermark, as stored and as held by a
\* call, is below every active snapshot.
SnapshotInv ==
    /\ \A id \in TxnIds : txn[id].snapshot <= tsCounter
    /\ minActiveTs <= tsCounter /\ NoSnapshotBelow(minActiveTs)
    /\ \A id \in activeTxns : id < nextTxnId
    /\ status # "open" => activeTxns = {} /\ \A t \in Threads : thread[t] = Idle
    /\ \A t \in Threads :
          /\ thread[t].return \in {"idle", "commitRecord"}
          /\ thread[t].at = "insert" => /\ minActiveTs <= txn[thread[t].id].snapshot
                                        /\ thread[t].id < nextTxnId
          /\ thread[t].at = "minStore" => thread[t].min <= tsCounter
          /\ thread[t].at \in {"minStore", "gcSweep"} => NoSnapshotBelow(thread[t].min)
          /\ Committing(thread[t]) => NoSnapshotAbove(thread[t].ts)

\* The position of a transaction's commit record.
CommittedAt(id, i) == i \in 1..Len(wal) /\ wal[i] = TxnCommit(id)

\* The commits of one key are logged in the order of their timestamps: replay,
\* which applies them in log order, ends with the version that is newest in
\* memory.  Versions put there by recovery have no commit record of their own
\* and are older than all others (ts = 1).
LogOrderMatchesVersionOrder ==
    \A key \in Keys : \A v, w \in chains[key].committed :
        1 < v.ts /\ v.ts < w.ts =>
            \E i, j \in 1..Len(wal) : i < j /\ CommittedAt(v.txn, i) /\ CommittedAt(w.txn, j)

\* The version of a key that is decided: its owner's commit record is in the
\* log although the key is not published yet, or will never be because an
\* fsync failed.  Without one, the newest committed version.
Decisive(key) ==
    LET logged == {v \in chains[key].uncommitted : \E i \in 1..Len(wal) : CommittedAt(v.txn, i)}
    IN  IF logged # {} THEN logged ELSE Newest(chains[key].committed)

\* At every moment, what recovery would rebuild from the log is what the
\* memtable holds as the newest version of the key, as the log encodes it
\* (WalValue); where the two differ, the slot of a commit that is in the log
\* and not published accounts for it.
LiveMatchesLog ==
    status = "open" =>
        \A key \in Keys :
            /\ Decisive(key) = {} => LoggedValue(wal, key) = NoWrite
            /\ \A v \in Decisive(key) : LoggedValue(wal, key) = WalValue(v.value)

\* When the replay loop ends it has computed what the log says (LoggedValue),
\* however the records of concurrent transactions interleave in it.
ReplayComputesLoggedValues ==
    (status = "recovering" /\ replay.pos + 1 \notin ReadableRecords) =>
        \A key \in Keys :
            replay.result[key] = LoggedValue(SubSeq(wal, 1, replay.pos), key)

\* A transaction that is over, by a commit that returned Ok or by abort(), has
\* left no uncommitted version behind, which would block its key for every
\* later writer: for write transactions abort scans the memtable "to remove
\* uncommitted versions" (durable_storage.rs:3383-3384).
AbortLeavesNothing ==
    \A key \in Keys : \A v \in chains[key].uncommitted : handles[v.txn] # "free"
=============================================================================
