--------------------------- MODULE IsolationProofs --------------------------
(***************************************************************************)
(* What validation and publication guarantee to the committed transactions *)
(* of MCIsolation's history, when one thread at a time is in a call: no    *)
(* two of them that full validation looked at form a write skew, and a new *)
(* snapshot sees the last commit of every key.                             *)
(***************************************************************************)
EXTENDS SnapshotProofs, SlotProofs, MCIsolation

-----------------------------------------------------------------------------
(* The inductive invariant.                                                *)

\* Transaction id may still read, write and commit.
Live(id) == id \in activeTxns \/ \E t \in Threads : thread[t].at = "insert" /\ thread[t].id = id

\* A key is observed at its first tracked read.
ObservedInv ==
    /\ observed \in [TxnIds -> SUBSET Keys]
    /\ \A id \in TxnIds :
          /\ handles[id] = "free" => observed[id] = {}
          /\ Live(id) => observed[id] \subseteq txn[id].reads

\* What is true of a committed transaction for ever.
CommittedOf(h) ==
    /\ h.id \in TxnIds /\ h.ts \in Nat /\ h.tracked \in Transactions
    /\ h.snapshot = h.tracked.snapshot /\ h.writes = h.tracked.writes
    /\ h.reads \subseteq h.tracked.reads
    /\ h.id < nextTxnId /\ ~Live(h.id)
    /\ h.ts < tsCounter

\* Where the timestamps of the history are with respect to the call in
\* progress.
CallTsInv ==
    \A t \in Threads : \A h \in history :
        /\ thread[t].at = "insert" => h.ts < txn[thread[t].id].snapshot
        /\ thread[t].at = "track" => h.ts < thread[t].ts
        /\ Decided(thread[t]) => h.ts <= thread[t].ts

HistoryInv ==
    /\ status # "open" => history = {}
    /\ \A h \in history : CommittedOf(h)
    /\ CallTsInv

\* validate_ssi looks at this transaction.
Validated(tracked) == tracked.mode = "ReadWrite" /\ tracked.reads # {} /\ tracked.writes # {}

EntryOf(h) == [txn |-> h.id, ts |-> h.ts, reads |-> h.tracked.reads, writes |-> h.tracked.writes]

\* The window still holds every commit that an active transaction may have
\* to be validated against, and a transaction that got its timestamp was
\* validated against the window as it is.
WindowInv ==
    /\ \A h \in history : \A id \in activeTxns :
          Validated(h.tracked) /\ txn[id].snapshot <= h.ts => EntryOf(h) \in recentCommits
    /\ \A t \in Threads : thread[t].at \in {"allocTs", "track"} => MayCommit(txn[thread[t].id])

\* A transaction holds the slots of what it wrote until it publishes them.
OwnershipInv ==
    /\ \A id \in TxnIds : handles[id] = "open" =>
          \A key \in txn[id].writes : OwnsSlot(chains[key], id)
    /\ \A t \in Threads : Decided(thread[t]) =>
          /\ \A key \in thread[t].todo : OwnsSlot(chains[key], thread[t].id)
          /\ txn[thread[t].id].writes = {}

\* The commit in progress is in the history.
PublisherInv ==
    \A t \in Threads : Decided(thread[t]) =>
        /\ \E h \in history : h.id = thread[t].id /\ h.ts = thread[t].ts /\ thread[t].todo \subseteq h.writes
        /\ \A h \in history : h.id = thread[t].id => h.ts = thread[t].ts

ToPublish(h, key) ==
    \E t \in Threads : Decided(thread[t]) /\ thread[t].id = h.id /\ key \in thread[t].todo

Published(key) == {h \in history : key \in h.writes /\ ~ToPublish(h, key)}

\* The newest version of a key is of the last transaction that published it,
\* or of recovery.
NewestPublished(key) ==
    \/ Published(key) = {} /\ \A v \in chains[key].committed : v.ts = 1
    \/ \E h \in Published(key), v \in chains[key].committed :
          /\ v.txn = h.id /\ v.ts = h.ts
          /\ \A g \in Published(key) : g.ts <= h.ts
          /\ \A w \in chains[key].committed : w.ts <= v.ts

PublishedInv == \A key \in Keys : NewestPublished(key)

-----------------------------------------------------------------------------
(* Steps.                                                                  *)

\* A thread that has its commit timestamp leaves active_txns next.
LEMMA TrackNext ==
  ASSUME NEW t \in Threads, ThreadStep(t), thread[t].at = "track"
  PROVE  CommitTrack(t)
<1>1. ~BeginStep(t)
  BY DEF BeginStep, BeginWithMode, BeginReadOnlyFast, BeginInsert, MayCall, In
<1>2. ~UpdateMinStep(t) /\ ~MaintenanceStep(t)
  BY DEF UpdateMinStep, UpdateMinScan, UpdateMinStore, MaintenanceStep, GcLoad, GcSweep, Checkpoint, In
<1>3. ~ReadStep(t) /\ ~WriteStep(t) /\ ~AbortStep(t)
  BY DEF ReadStep, Read, WriteStep, Write, Delete, WriteKey, AbortStep, Abort, AbortReadOnlyFast, MayCall
<1>4. CommitStep(t) => CommitTrack(t)
  BY DEF CommitStep, CommitFlush, CommitValidate, CommitRevalidate, CommitRefused, CommitAllocTs,
         CommitRecord, GroupSync, CommitSync, CommitSyncFails, CommitPublish, CommitDone, MayCall, In
<1> QED BY <1>1, <1>2, <1>3, <1>4 DEF ThreadStep

\* What a thread is after it left active_txns.
LEMMA TrackLocals ==
  ASSUME ThreadTypeOK, NEW t \in Threads, CommitTrack(t)
  PROVE  /\ thread'[t].at = "minScan" /\ thread'[t].return = "commitRecord" /\ thread'[t].id = thread[t].id
         /\ thread'[t].ts = thread[t].ts /\ thread'[t].todo = txn[thread[t].id].writes
         /\ \A u \in Threads \ {t} : thread'[u] = thread[u]
<1>1. PICK new : /\ new = [thread[t] EXCEPT !.at = "minScan", !.return = "commitRecord",
                                            !.todo = txn[thread[t].id].writes]
                 /\ Become(t, new)
  BY DEF CommitTrack
<1>2. thread'[t] = new /\ \A u \in Threads \ {t} : thread'[u] = thread[u]
  BY <1>1, OtherThreads
<1>3. /\ new.at = "minScan" /\ new.return = "commitRecord" /\ new.id = thread[t].id
      /\ new.ts = thread[t].ts /\ new.todo = txn[thread[t].id].writes
  BY <1>1, LocalsOf DEF Locals
<1>4. QED BY <1>2, <1>3

\* The entry the history gains for transaction id.
NewEntry(t, id) ==
    [id |-> id, ts |-> thread[t].ts, snapshot |-> txn[id].snapshot,
     reads |-> observed[id], writes |-> txn[id].writes, tracked |-> txn[id]]

\* The history grows when a transaction leaves active_txns with a timestamp.
LEMMA HistoryGrows ==
  ASSUME TypeOK, CallInv, IsolationNext, NEW t \in Threads, ThreadStep(t)
  PROVE  /\ ~CommitTrack(t) => history' = history
         /\ CommitTrack(t) => history' = history \cup {NewEntry(t, thread[t].id)}
<1>0. ThreadTypeOK
  BY DEF TypeOK
<1>1. status' = "open" /\ \A u \in Threads \ {t} : thread'[u] = thread[u]
  BY <1>0, ThreadStepMoves, OtherThreads DEF Moves
<1>2. history' = history \cup NewlyCommitted
  BY <1>1 DEF IsolationNext
<1>3. CASE ~CommitTrack(t)
  <2>1. thread[t].at # "track"
    BY <1>3, TrackNext
  <2>2. \A u \in Threads : ~(thread[u].at = "track" /\ thread'[u].at = "minScan")
    BY <1>1, <2>1
  <2>3. NewlyCommitted = {}
    BY <2>2 DEF NewlyCommitted
  <2>4. QED BY <1>2, <1>3, <2>3
<1>4. CASE CommitTrack(t)
  <2>1. thread[t].at = "track" /\ thread'[t].at = "minScan"
    BY <1>0, <1>4, TrackLocals DEF CommitTrack, In
  <2>2. {u \in Threads : thread[u].at = "track" /\ thread'[u].at = "minScan"} = {t}
    BY <1>1, <2>1
  <2>3. NewlyCommitted = {NewEntry(t, thread[t].id)}
    BY <2>2 DEF NewlyCommitted, NewEntry
  <2>4. QED BY <1>2, <1>4, <2>3
<1> QED BY <1>3, <1>4

\* A transaction that may still act is one that could before, with the same
\* snapshot, or the one that begins.
LEMMA LiveSteps ==
  ASSUME TypeOK, CallInv, NEW t \in Threads, ThreadStep(t), NEW id \in TxnIds, Live(id)'
  PROVE  \/ /\ Live(id)
            /\ txn'[id].snapshot = txn[id].snapshot
            /\ txn[id].reads \subseteq txn'[id].reads
         \/ /\ id = nextTxnId /\ thread'[t].at = "insert" /\ thread'[t].id = id
            /\ txn'[id].snapshot = tsCounter
<1>0. /\ ThreadTypeOK /\ activeTxns \subseteq TxnIds /\ txn \in [TxnIds -> Transactions]
      /\ \A u \in Threads \ {t} : thread'[u] = thread[u]
  BY ThreadStepMoves, OtherThreads DEF Moves, TypeOK, MvccTypeOK
<1> DEFINE Same == /\ Live(id)
                   /\ txn'[id].snapshot = txn[id].snapshot
                   /\ txn[id].reads \subseteq txn'[id].reads
<1>1. ASSUME (\E mode \in ClientModes : BeginWithMode(t, mode)) \/ BeginReadOnlyFast(t)
      PROVE  \/ Same
             \/ /\ id = nextTxnId /\ thread'[t].at = "insert" /\ thread'[t].id = id
                /\ txn'[id].snapshot = tsCounter
  <2>1. PICK d, mode :
          /\ d \in TxnIds /\ d = nextTxnId /\ Enter(t, "insert", d) /\ UNCHANGED activeTxns
          /\ txn' = [txn EXCEPT ![d] = NewTransaction(mode, tsCounter)]
    BY <1>1 DEF BeginWithMode, BeginReadOnlyFast, AllocTxnId
  <2>2. thread'[t].at = "insert" /\ thread'[t].id = d
    BY <1>0, <2>1, EnterLocals
  <2>3. CASE id = d
    BY <1>0, <2>1, <2>2, <2>3 DEF NewTransaction
  <2>4. CASE id # d
    <3>1. Live(id)
      BY <1>0, <2>1, <2>2, <2>4 DEF Live
    <3>2. txn'[id] = txn[id]
      BY <1>0, <2>1, <2>4
    <3>3. QED BY <3>1, <3>2
  <2>5. QED BY <2>3, <2>4
<1>2. ASSUME BeginInsert(t) PROVE Same
  <2>1. /\ thread[t].at = "insert" /\ UpdateMinThen(t, "idle") /\ UNCHANGED txn
        /\ activeTxns' = activeTxns \cup {thread[t].id}
    BY <1>2 DEF BeginInsert, In
  <2>2. thread'[t].at = "minScan"
    BY <1>0, <2>1, MinThenLocals
  <2>3. QED BY <1>0, <2>1, <2>2 DEF Live
<1>3. ASSUME NEW d \in TxnIds, activeTxns' = activeTxns \ {d}, txn' = [txn EXCEPT ![d] = NoTransaction],
             thread'[t].at # "insert", \A u \in Threads \ {t} : thread[u].id # d
      PROVE  Same
  <2>1. id # d
    BY <1>0, <1>3 DEF Live
  <2>2. Live(id) /\ txn'[id] = txn[id]
    BY <1>0, <1>3, <2>1 DEF Live
  <2>3. QED BY <2>2
<1>4. ASSUME AbortStep(t) PROVE Same
  <2>1. PICK d \in TxnIds : Abort(t, d) \/ AbortReadOnlyFast(t, d)
    BY <1>4 DEF AbortStep
  <2>2. /\ MayCall(t, d) /\ UpdateMinThen(t, "idle")
        /\ activeTxns' = activeTxns \ {d} /\ txn' = [txn EXCEPT ![d] = NoTransaction]
    BY <2>1, Zenon DEF Abort, AbortReadOnlyFast
  <2>3. thread'[t].at = "minScan" /\ \A u \in Threads : thread[u].id # d
    BY <1>0, <2>2, MinThenLocals DEF MayCall
  <2>4. QED BY <1>3, <2>2, <2>3
<1>5. ASSUME CommitRefused(t) \/ CommitTrack(t) PROVE Same
  <2>1. thread[t].at \in {"revalidate", "track"}
    BY <1>5 DEF CommitRefused, CommitTrack, In
  <2>2. PICK d \in TxnIds : d = thread[t].id /\ d # 0
    BY <1>0, <2>1, TxnIdsNat DEF ThreadTypeOK, HasTxn, TxnLabels, Labels
  <2>3. activeTxns' = activeTxns \ {d} /\ txn' = [txn EXCEPT ![d] = NoTransaction]
    BY <1>5, <2>2, Zenon DEF CommitRefused, CommitTrack
  <2>4. thread'[t].at = "minScan"
    BY <1>0, <1>5, MinThenLocals, TrackLocals DEF CommitRefused
  <2>5. \A u \in Threads \ {t} : thread[u].id # d
    BY <2>2 DEF CallInv
  <2>6. QED BY <1>3, <2>3, <2>4, <2>5
<1>6. ASSUME UNCHANGED activeTxns, thread'[t].at # "insert",
             \A i \in TxnIds : /\ txn'[i].snapshot = txn[i].snapshot
                               /\ txn[i].reads \subseteq txn'[i].reads
      PROVE  Same
  BY <1>0, <1>6 DEF Live
<1>7. ASSUME ReadStep(t) \/ WriteStep(t) PROVE Same
  <2>1. UNCHANGED <<activeTxns, thread>> /\ thread[t].at = "idle"
    BY <1>7 DEF ReadStep, Read, WriteStep, Write, Delete, WriteKey, MayCall, storageVars
  <2>2. PICK d \in TxnIds, key \in Keys :
          txn' \in {txn, [txn EXCEPT ![d] = RecordRead(txn[d], key)],
                         [txn EXCEPT ![d] = RecordWrite(txn[d], key)]}
    BY <1>7 DEF ReadStep, Read, WriteStep, Write, Delete, WriteKey
  <2>3. \A x \in Transactions :
          /\ RecordRead(x, key).snapshot = x.snapshot /\ x.reads \subseteq RecordRead(x, key).reads
          /\ RecordWrite(x, key).snapshot = x.snapshot /\ x.reads = RecordWrite(x, key).reads
    BY DEF RecordRead, RecordWrite, Transactions
  <2>4. \A i \in TxnIds : /\ txn'[i].snapshot = txn[i].snapshot
                          /\ txn[i].reads \subseteq txn'[i].reads
    BY <1>0, <2>2, <2>3
  <2>5. QED BY <1>6, <2>1, <2>4
<1>8. ASSUME \/ UpdateMinStep(t) \/ MaintenanceStep(t) \/ (\E d \in TxnIds : CommitFlush(t, d))
             \/ CommitValidate(t) \/ CommitRevalidate(t) \/ CommitAllocTs(t) \/ CommitRecord(t)
             \/ GroupSync(t) \/ CommitSync(t) \/ CommitSyncFails(t) \/ CommitPublish(t) \/ CommitDone(t)
      PROVE  Same
  <2>1. UNCHANGED <<activeTxns, txn>>
    BY <1>8 DEF UpdateMinStep, UpdateMinScan, UpdateMinStore, MaintenanceStep, GcLoad, GcSweep, Checkpoint,
         CommitFlush, CommitValidate, CommitRevalidate, CommitAllocTs, CommitRecord, GroupSync, CommitSync,
         CommitSyncFails, CommitPublish, CommitDone, mvccVars
  <2>2. thread'[t].at # "insert"
    <3>1. ASSUME NEW d \in TxnIds, CommitFlush(t, d) PROVE thread'[t].at # "insert"
      BY <1>0, <3>1, EnterLocals DEF CommitFlush
    <3>2. ASSUME CommitSyncFails(t) \/ CommitDone(t) PROVE thread'[t].at # "insert"
      BY <1>0, <3>2, OtherThreads DEF CommitSyncFails, CommitDone, Return, Idle
    <3>3. ASSUME CommitPublish(t) PROVE thread'[t].at # "insert"
      <4>1. thread[t].at = "publish" /\ \E key \in thread[t].todo : Become(t, [thread[t] EXCEPT !.todo = @ \ {key}])
        BY <3>3 DEF CommitPublish, In
      <4>2. QED BY <1>0, <4>1, OtherThreads, LocalsOf DEF Locals
    <3>4. ASSUME \/ UpdateMinStep(t) \/ MaintenanceStep(t)
                 \/ CommitValidate(t) \/ CommitRevalidate(t) \/ CommitAllocTs(t) \/ CommitRecord(t)
                 \/ GroupSync(t) \/ CommitSync(t)
          PROVE  thread'[t].at # "insert"
      <4>1. SamePhase(thread[t], thread'[t])
        BY <3>4, QuietSteps DEF Quiet
      <4>2. thread[t].at # "insert"
        BY <3>4 DEF UpdateMinStep, UpdateMinScan, UpdateMinStore, MaintenanceStep, GcLoad, GcSweep,
             Checkpoint, CommitValidate, CommitRevalidate, CommitAllocTs, CommitRecord, GroupSync,
             CommitSync, In
      <4>3. QED BY <4>1, <4>2 DEF SamePhase
    <3>5. QED BY <1>8, <3>1, <3>2, <3>3, <3>4
  <2>3. QED BY <1>6, <2>1, <2>2
<1> HIDE DEF Same
<1>9. QED
  BY <1>1, <1>2, <1>4, <1>5, <1>7, <1>8, Zenon DEF ThreadStep, BeginStep, CommitStep, Same

\* Where the calls that put a thread at these labels come from.
LEMMA InsertFromBegin ==
  ASSUME TypeOK, CallInv, NEW t \in Threads, ThreadStep(t), thread'[t].at = "insert"
  PROVE  (\E mode \in ClientModes : BeginWithMode(t, mode)) \/ BeginReadOnlyFast(t)
<1>0. ThreadTypeOK
  BY DEF TypeOK
<1>1. ASSUME BeginInsert(t) \/ AbortStep(t) \/ CommitRefused(t) \/ CommitTrack(t) PROVE FALSE
  <2>1. UpdateMinThen(t, "idle") \/ CommitTrack(t)
    BY <1>1, Zenon DEF BeginInsert, AbortStep, Abort, AbortReadOnlyFast, CommitRefused
  <2>2. QED BY <1>0, <2>1, MinThenLocals, TrackLocals
<1>2. ASSUME ReadStep(t) \/ WriteStep(t) PROVE FALSE
  BY <1>2 DEF ReadStep, Read, WriteStep, Write, Delete, WriteKey, MayCall, storageVars
<1>3. ASSUME NEW d \in TxnIds, CommitFlush(t, d) PROVE FALSE
  BY <1>0, <1>3, EnterLocals DEF CommitFlush
<1>4. ASSUME CommitSyncFails(t) \/ CommitDone(t) PROVE FALSE
  BY <1>0, <1>4, OtherThreads DEF CommitSyncFails, CommitDone, Return, Idle
<1>5. ASSUME CommitPublish(t) PROVE FALSE
  <2>1. thread[t].at = "publish" /\ \E key \in thread[t].todo : Become(t, [thread[t] EXCEPT !.todo = @ \ {key}])
    BY <1>5 DEF CommitPublish, In
  <2>2. QED BY <1>0, <2>1, OtherThreads, LocalsOf DEF Locals
<1>6. ASSUME \/ UpdateMinStep(t) \/ MaintenanceStep(t)
             \/ CommitValidate(t) \/ CommitRevalidate(t) \/ CommitAllocTs(t) \/ CommitRecord(t)
             \/ GroupSync(t) \/ CommitSync(t)
      PROVE  FALSE
  <2>1. SamePhase(thread[t], thread'[t])
    BY <1>6, QuietSteps DEF Quiet
  <2>2. thread[t].at # "insert"
    BY <1>6 DEF UpdateMinStep, UpdateMinScan, UpdateMinStore, MaintenanceStep, GcLoad, GcSweep,
         Checkpoint, CommitValidate, CommitRevalidate, CommitAllocTs, CommitRecord, GroupSync,
         CommitSync, In
  <2>3. QED BY <2>1, <2>2 DEF SamePhase
<1>7. QED
  BY <1>1, <1>2, <1>3, <1>4, <1>5, <1>6, Zenon DEF ThreadStep, BeginStep, CommitStep

\* Before the timestamp is validation, and before that the flush.
LEMMA TrackFromAlloc ==
  ASSUME TypeOK, CallInv, NEW t \in Threads, ThreadStep(t)
  PROVE  /\ thread'[t].at = "track" =>
               /\ CommitAllocTs(t) /\ thread[t].at = "allocTs" /\ thread'[t].id = thread[t].id
               /\ thread'[t].ts = tsCounter
         /\ thread'[t].at = "allocTs" => CommitValidate(t) /\ thread'[t].id = thread[t].id
<1>0. ThreadTypeOK
  BY DEF TypeOK
<1> DEFINE Early == thread'[t].at \in {"track", "allocTs"}
<1>1. ASSUME BeginStep(t) \/ AbortStep(t) \/ CommitRefused(t) \/ CommitTrack(t) PROVE ~Early
  <2>1. UpdateMinThen(t, "idle") \/ CommitTrack(t) \/ \E d \in TxnIds : Enter(t, "insert", d)
    BY <1>1, Zenon DEF BeginStep, BeginWithMode, BeginReadOnlyFast, BeginInsert, AbortStep, Abort,
                       AbortReadOnlyFast, CommitRefused
  <2>2. QED BY <1>0, <2>1, MinThenLocals, TrackLocals, EnterLocals
<1>2. ASSUME ReadStep(t) \/ WriteStep(t) PROVE ~Early
  BY <1>2 DEF ReadStep, Read, WriteStep, Write, Delete, WriteKey, MayCall, storageVars
<1>3. ASSUME NEW d \in TxnIds, CommitFlush(t, d) PROVE ~Early
  BY <1>0, <1>3, EnterLocals DEF CommitFlush
<1>4. ASSUME CommitSyncFails(t) \/ CommitDone(t) \/ GcSweep(t) PROVE ~Early
  BY <1>0, <1>4, OtherThreads DEF CommitSyncFails, CommitDone, GcSweep, Return, Idle
<1>5. ASSUME CommitPublish(t) PROVE ~Early
  <2>1. thread[t].at = "publish" /\ \E key \in thread[t].todo : Become(t, [thread[t] EXCEPT !.todo = @ \ {key}])
    BY <1>5 DEF CommitPublish, In
  <2>2. QED BY <1>0, <2>1, OtherThreads, LocalsOf DEF Locals
<1>6. ASSUME UpdateMinStep(t) \/ CommitRecord(t) \/ GroupSync(t) \/ CommitSync(t) \/ GcLoad(t) \/ Checkpoint(t)
      PROVE  ~Early
  <2>1. SamePhase(thread[t], thread'[t])
    BY <1>6, QuietSteps DEF Quiet, MaintenanceStep
  <2>2. ~Deciding(thread[t])
    BY <1>6 DEF UpdateMinStep, UpdateMinScan, UpdateMinStore, GcLoad, Checkpoint, CommitRecord, GroupSync,
         CommitSync, In, Deciding
  <2>3. QED BY <2>1, <2>2 DEF SamePhase, Deciding
<1>7. ASSUME CommitRevalidate(t) PROVE ~Early
  BY <1>0, <1>7, GotoLocals DEF CommitRevalidate
<1>8. ASSUME CommitValidate(t) PROVE thread'[t].at = "allocTs" /\ thread'[t].id = thread[t].id
  BY <1>0, <1>8, GotoLocals DEF CommitValidate
<1>9. ASSUME CommitAllocTs(t)
      PROVE  /\ thread[t].at = "allocTs" /\ thread'[t].at = "track" /\ thread'[t].id = thread[t].id
             /\ thread'[t].ts = tsCounter
  <2>1. PICK new : new = [thread[t] EXCEPT !.at = "track", !.ts = tsCounter] /\ Become(t, new)
    BY <1>9 DEF CommitAllocTs
  <2>2. thread'[t] = new
    BY <1>0, <2>1, OtherThreads
  <2>3. new.at = "track" /\ new.ts = tsCounter /\ new.id = thread[t].id
    BY <1>0, <2>1, LocalsOf DEF Locals
  <2>4. QED BY <1>9, <2>2, <2>3 DEF CommitAllocTs, In
<1> HIDE DEF Early
<1>10. CommitValidate(t) \/ CommitAllocTs(t) \/ ~Early
  BY <1>1, <1>2, <1>3, <1>4, <1>5, <1>6, <1>7, Zenon DEF ThreadStep, CommitStep, MaintenanceStep
<1>11. QED BY <1>8, <1>9, <1>10 DEF Early

\* A commit call that has decided goes on with the same transaction and
\* timestamp, and only publication takes keys off its list.
LEMMA DecidedSteps ==
  ASSUME TypeOK, CallInv, NEW t \in Threads, ThreadStep(t), Decided(thread'[t]), ~CommitTrack(t)
  PROVE  /\ Decided(thread[t]) /\ thread'[t].id = thread[t].id /\ thread'[t].ts = thread[t].ts
         /\ CommitPublish(t) \/ thread'[t].todo = thread[t].todo
<1>0. ThreadTypeOK /\ CallShape(thread[t])
  BY DEF TypeOK, CallInv
<1>1. ASSUME BeginStep(t) \/ WriteStep(t) \/ AbortStep(t) \/ CommitRefused(t) \/ CommitSyncFails(t)
             \/ CommitDone(t) \/ \E d \in TxnIds : CommitFlush(t, d)
      PROVE  FALSE
  <2>1. CASE BeginStep(t)
    <3>1. thread'[t].return = "idle"
      BY <1>0, <2>1, EnterLocals, MinThenLocals DEF BeginStep, BeginWithMode, BeginReadOnlyFast, BeginInsert
    <3>2. QED BY <3>1 DEF Decided
  <2>2. CASE WriteStep(t)
    <3>1. UNCHANGED thread /\ thread[t].at = "idle"
      BY <2>2 DEF WriteStep, Write, Delete, WriteKey, MayCall
    <3>2. QED BY <1>0, <3>1 DEF CallShape, Idle, Decided
  <2>3. CASE AbortStep(t)
    <3>1. UpdateMinThen(t, "idle")
      BY <2>3, Zenon DEF AbortStep, Abort, AbortReadOnlyFast
    <3>2. QED BY <1>0, <3>1, MinThenLocals DEF Decided
  <2>4. CASE CommitRefused(t)
    BY <1>0, <2>4, MinThenLocals DEF CommitRefused, Decided
  <2>5. CASE CommitSyncFails(t) \/ CommitDone(t)
    BY <1>0, <2>5, OtherThreads DEF CommitSyncFails, CommitDone, Return, Idle, Decided
  <2>6. ASSUME NEW d \in TxnIds, CommitFlush(t, d) PROVE FALSE
    BY <1>0, <2>6, EnterLocals DEF CommitFlush, Decided
  <2>7. QED BY <1>1, <2>1, <2>2, <2>3, <2>4, <2>5, <2>6
<1>2. ASSUME CommitPublish(t)
      PROVE  Decided(thread[t]) /\ thread'[t].id = thread[t].id /\ thread'[t].ts = thread[t].ts
  <2>1. PICK key \in thread[t].todo : Become(t, [thread[t] EXCEPT !.todo = @ \ {key}])
    BY <1>2 DEF CommitPublish
  <2>2. /\ thread'[t].return = thread[t].return /\ thread'[t].id = thread[t].id
        /\ thread'[t].ts = thread[t].ts
    BY <1>0, <2>1, LocalsOf, OtherThreads DEF Locals
  <2>3. QED BY <2>2 DEF Decided
<1>3. ASSUME \/ UpdateMinStep(t) \/ ReadStep(t) \/ MaintenanceStep(t)
             \/ CommitValidate(t) \/ CommitRevalidate(t) \/ CommitAllocTs(t)
             \/ CommitRecord(t) \/ GroupSync(t) \/ CommitSync(t)
      PROVE  /\ Decided(thread[t]) /\ thread'[t].id = thread[t].id /\ thread'[t].ts = thread[t].ts
             /\ thread'[t].todo = thread[t].todo
  <2>1. SamePhase(thread[t], thread'[t])
    BY <1>3, QuietSteps DEF Quiet
  <2>2. Decided(thread[t]) /\ thread'[t].id = thread[t].id /\ thread'[t].todo = thread[t].todo
    BY <2>1 DEF SamePhase, InCommit
  <2>3. CASE CommitAllocTs(t)
    BY <1>0, <2>2, <2>3 DEF CommitAllocTs, In, CallShape
  <2>4. CASE CommitRecord(t)
    <3>1. PICK new : new = [thread[t] EXCEPT !.at = "sync"] /\ Become(t, new)
      BY <2>4 DEF CommitRecord, Goto
    <3>2. thread'[t] = new
      BY <1>0, <3>1, OtherThreads
    <3>3. new.ts = thread[t].ts
      BY <1>0, <3>1, LocalsOf DEF Locals
    <3>4. QED BY <2>2, <3>2, <3>3
  <2>5. CASE Fades(t, thread'[t])
    BY <2>2, <2>5 DEF Fades, Committing, Decided
  <2>6. QED BY <2>2, <2>3, <2>4, <2>5, ThreadStepMoves
<1>4. QED
  BY <1>1, <1>2, <1>3, Zenon DEF ThreadStep, CommitStep

\* The databases that come and go have no transaction and no history.
LEMMA RestartIsolation ==
  ASSUME TypeOK, CallInv, HistoryInv, IsolationNext, RestartStep
  PROVE  /\ history' = {}
         /\ \A t \in Threads : thread'[t] = Idle
         /\ \A id \in TxnIds : handles'[id] = "free"
         /\ activeTxns' = {}
<1>1. CASE Crash \/ Shutdown
  <2>1. Forget
    BY <1>1 DEF Crash, Shutdown
  <2>2. QED BY <2>1 DEF Forget, MvccReset, IsolationNext
<1>2. CASE Open \/ ReplayRecord \/ FinishRecover
  <2>1. /\ status # "open" /\ UNCHANGED <<thread, handles, activeTxns>> /\ status' # "down"
    BY <1>2 DEF Open, ReplayRecord, FinishRecover, mvccVars, storageVars
  <2>2. Closed /\ history = {}
    BY <2>1 DEF CallInv, HistoryInv
  <2>3. NewlyCommitted = {}
    <3>1. {u \in Threads : thread[u].at = "track" /\ thread'[u].at = "minScan"} = {}
      BY <2>2 DEF Closed, Idle
    <3>2. QED BY <3>1 DEF NewlyCommitted
  <2>4. history' = {}
    BY <2>1, <2>2, <2>3 DEF IsolationNext
  <2>5. QED BY <2>1, <2>2, <2>4 DEF Closed
<1> QED BY <1>1, <1>2 DEF RestartStep

\* What a transaction observed, its read set holds.
LEMMA NextObserved ==
  ASSUME TypeOK, TypeOK', CallInv, HandleInv, HistoryInv, ObservedInv, IsolationNext
  PROVE  ObservedInv'
<1>0. \A id \in TxnIds : observed'[id] = IF handles'[id] = "free" THEN {} ELSE observed[id] \cup NewlyObserved(id)
  BY DEF IsolationNext
<1>1. \A id \in TxnIds : NewlyObserved(id) \subseteq txn'[id].reads /\ txn'[id].reads \subseteq Keys
  <2>1. \A id \in TxnIds : txn'[id] \in Transactions
    BY DEF TypeOK, MvccTypeOK
  <2>2. QED BY <2>1 DEF NewlyObserved, Transactions
<1>2. observed' \in [TxnIds -> SUBSET Keys]
  <2>1. \A id \in TxnIds : (IF handles'[id] = "free" THEN {} ELSE observed[id] \cup NewlyObserved(id)) \subseteq Keys
    BY <1>1 DEF ObservedInv
  <2>2. QED BY <2>1 DEF IsolationNext
<1>3. ASSUME NEW id \in TxnIds, Live(id)' PROVE observed'[id] \subseteq txn'[id].reads
  <2>1. CASE RestartStep
    BY <1>3, <2>1, RestartIsolation DEF Live, Idle
  <2>2. ASSUME NEW t \in Threads, ThreadStep(t) PROVE observed'[id] \subseteq txn'[id].reads
    <3>1. observed'[id] \subseteq observed[id] \cup txn'[id].reads
      BY <1>0, <1>1
    <3>2. CASE Live(id) /\ txn[id].reads \subseteq txn'[id].reads
      BY <3>1, <3>2 DEF ObservedInv
    <3>3. CASE id = nextTxnId
      <4>1. handles[id] = "free"
        BY <3>3, TxnIdsNat DEF HandleInv, HandleOf
      <4>2. QED BY <3>1, <4>1 DEF ObservedInv
    <3>4. QED BY <1>3, <2>2, <3>2, <3>3, LiveSteps
  <2>3. QED BY <2>1, <2>2 DEF IsolationNext, Next
<1>4. \A id \in TxnIds : handles'[id] = "free" => observed'[id] = {}
  BY <1>0
<1> QED BY <1>2, <1>3, <1>4 DEF ObservedInv

\* A thread between its timestamp and leaving active_txns is about an active
\* transaction that is not in the history.
LEMMA TrackedTxn ==
  ASSUME TypeOK, CallInv, HandleInv, HistoryInv, NEW t \in Threads, thread[t].at \in {"validate", "revalidate", "allocTs", "track"}
  PROVE  /\ thread[t].id \in TxnIds /\ thread[t].id \in activeTxns /\ thread[t].id < nextTxnId
         /\ handles[thread[t].id] = "open"
         /\ \A u \in Threads \ {t} : thread[u].id # thread[t].id
         /\ \A h \in history : h.id # thread[t].id
<1>1. PICK d \in TxnIds : d = thread[t].id /\ d # 0
  BY TxnIdsNat DEF TypeOK, ThreadTypeOK, HasTxn, TxnLabels, Labels
<1>2. \A u \in Threads \ {t} : thread[u].id # d
  BY <1>1 DEF CallInv
<1>3. Deciding(thread[t]) /\ InCommit(thread[t]) /\ ~Decided(thread[t])
  <2>1. Deciding(thread[t])
    BY DEF Deciding
  <2>2. QED BY <2>1 DEF InCommit, CallInv, CallShape
<1>4. handles[d] = "open"
  BY <1>1, <1>3 DEF HandleInv, HandleOf
<1>5. ~\E u \in Threads : (thread[u].at = "insert" \/ Decided(thread[u])) /\ thread[u].id = d
  BY <1>1, <1>2, <1>3
<1>6. d \in activeTxns
  BY <1>4, <1>5 DEF HandleInv, HandleOf
<1>7. d < nextTxnId
  <2>1. ~(nextTxnId <= d)
    BY <1>1 DEF HandleInv, HandleOf
  <2>2. nextTxnId \in Nat /\ d \in Nat
    BY TxnIdsNat DEF TypeOK, WalTypeOK
  <2>3. QED BY <2>1, <2>2
<1>8. \A h \in history : h.id # d
  BY <1>6 DEF HistoryInv, CommittedOf, Live
<1> QED BY <1>1, <1>2, <1>4, <1>6, <1>7, <1>8

\* The history keeps what is true of it.
LEMMA NextHistory ==
  ASSUME OneThread, TypeOK, TypeOK', CallInv, OrderInv, HandleInv, ObservedInv, HistoryInv, IsolationNext
  PROVE  HistoryInv'
<1>1. CASE RestartStep
  <2>1. history' = {}
    BY <1>1, RestartIsolation
  <2>2. QED BY <2>1 DEF HistoryInv, CallTsInv
<1>2. ASSUME NEW t \in Threads, ThreadStep(t) PROVE HistoryInv'
  <2>0. /\ ThreadTypeOK /\ tsCounter \in Nat /\ tsCounter' \in Nat /\ nextTxnId \in Nat /\ nextTxnId' \in Nat
        /\ txn \in [TxnIds -> Transactions]
    BY DEF TypeOK, MvccTypeOK, WalTypeOK
  <2>1. status' = "open" /\ \A u \in Threads : u = t
    BY <1>2, ThreadStepMoves DEF Moves, OneThread
  <2>2. tsCounter <= tsCounter' /\ nextTxnId <= nextTxnId'
    <3>1. tsCounter' \in {tsCounter, tsCounter + 1} /\ nextTxnId' \in {nextTxnId, nextTxnId + 1}
      BY <1>2
      DEF ThreadStep, BeginStep, BeginWithMode, BeginReadOnlyFast, BeginInsert, UpdateMinStep, UpdateMinScan,
          UpdateMinStore, ReadStep, Read, WriteStep, Write, Delete, WriteKey, CommitStep, CommitFlush,
          CommitValidate, CommitRevalidate, CommitRefused, CommitAllocTs, CommitTrack, CommitRecord,
          GroupSync, CommitSync, CommitSyncFails, CommitPublish, CommitDone, AbortStep, Abort,
          AbortReadOnlyFast, MaintenanceStep, GcLoad, GcSweep, Checkpoint, AllocTxnId, walVars, mvccVars
    <3>2. QED BY <2>0, <3>1
  <2>3. ASSUME NEW h \in history PROVE CommittedOf(h)'
    <3>1. CommittedOf(h)
      BY DEF HistoryInv
    <3>2. h.id \in TxnIds /\ h.id < nextTxnId /\ ~Live(h.id) /\ h.ts < tsCounter /\ h.ts \in Nat
      BY <3>1 DEF CommittedOf
    <3>3. h.id \in Nat
      BY <3>2, TxnIdsNat
    <3>4. PICK d \in TxnIds : d = h.id
      BY <3>2
    <3>5. ~Live(d)'
      BY <1>2, <3>2, <3>3, <3>4, LiveSteps
    <3>6. h.id < nextTxnId' /\ h.ts < tsCounter'
      BY <2>0, <2>2, <3>2, <3>3
    <3>7. QED BY <3>1, <3>4, <3>5, <3>6 DEF CommittedOf
  <2>4. CASE CommitTrack(t)
    <3>1. thread[t].at = "track"
      BY <2>4 DEF CommitTrack, In
    <3>2. PICK d \in TxnIds : d = thread[t].id /\ d \in activeTxns /\ d < nextTxnId
      BY <3>1, TrackedTxn
    <3>3. PICK new : new = NewEntry(t, d)
      OBVIOUS
    <3>4. history' = history \cup {new}
      BY <1>2, <2>4, <3>2, <3>3, HistoryGrows
    <3>5. /\ new.id = d /\ new.ts = thread[t].ts /\ new.tracked = txn[d]
          /\ new.snapshot = txn[d].snapshot /\ new.writes = txn[d].writes /\ new.reads = observed[d]
      BY <3>3 DEF NewEntry
    <3>6. observed[d] \subseteq txn[d].reads
      BY <3>2 DEF ObservedInv, Live
    <3>7. thread[t].ts < tsCounter /\ thread[t].ts \in Nat
      BY <2>0, <3>1, LocalsOf DEF OrderInv, Committing
    <3>8. ~Live(d)'
      <4>1. thread'[t].at = "minScan"
        BY <2>0, <2>4, TrackLocals
      <4>2. d \notin activeTxns'
        BY <2>4, <3>2 DEF CommitTrack
      <4>3. QED BY <2>1, <4>1, <4>2 DEF Live
    <3>9. d < nextTxnId' /\ thread[t].ts < tsCounter'
      <4>1. d \in Nat
        BY TxnIdsNat
      <4>2. QED BY <2>0, <2>2, <3>2, <3>7, <4>1
    <3>10. CommittedOf(new)'
      <4>1. txn[d] \in Transactions
        BY <2>0
      <4>2. QED BY <3>5, <3>6, <3>7, <3>8, <3>9, <4>1 DEF CommittedOf
    <3>11. CallTsInv'
      <4>1. thread'[t].at = "minScan" /\ thread'[t].ts = thread[t].ts
        BY <2>0, <2>4, TrackLocals
      <4>2. \A h \in history : h.ts < thread[t].ts /\ h.ts \in Nat
        BY <3>1 DEF HistoryInv, CallTsInv, CommittedOf
      <4>3. \A h \in history' : h.ts <= thread[t].ts
        BY <3>4, <3>5, <3>7, <4>2
      <4>4. QED BY <2>1, <4>1, <4>3 DEF CallTsInv
    <3>12. QED BY <2>1, <2>3, <3>4, <3>10, <3>11 DEF HistoryInv
  <2>5. CASE ~CommitTrack(t)
    <3>1. history' = history
      BY <1>2, <2>5, HistoryGrows
    <3>2. ASSUME NEW h \in history
          PROVE  /\ thread'[t].at = "insert" => h.ts < txn'[thread'[t].id].snapshot
                 /\ thread'[t].at = "track" => h.ts < thread'[t].ts
                 /\ Decided(thread'[t]) => h.ts <= thread'[t].ts
      <4>1. h.ts < tsCounter
        BY DEF HistoryInv, CommittedOf
      <4>2. ASSUME thread'[t].at = "insert" PROVE h.ts < txn'[thread'[t].id].snapshot
        <5>1. PICK d \in TxnIds : d = thread'[t].id
          BY <4>2 DEF TypeOK, ThreadTypeOK, HasTxn, TxnLabels, Labels
        <5>2. Live(d)'
          BY <4>2, <5>1 DEF Live
        <5>3. txn'[d].snapshot = tsCounter \/ (Live(d) /\ txn'[d].snapshot = txn[d].snapshot)
          BY <1>2, <5>2, LiveSteps
        <5>4. (\E mode \in ClientModes : BeginWithMode(t, mode)) \/ BeginReadOnlyFast(t)
          BY <1>2, <4>2, InsertFromBegin
        <5>5. txn'[d].snapshot = tsCounter
          <6>1. PICK e, mode : e \in TxnIds /\ Enter(t, "insert", e) /\ txn' = [txn EXCEPT ![e] = NewTransaction(mode, tsCounter)]
            BY <5>4 DEF BeginWithMode, BeginReadOnlyFast
          <6>2. e = d
            BY <2>0, <5>1, <6>1, EnterLocals
          <6>3. QED BY <2>0, <6>1, <6>2 DEF NewTransaction
        <5>6. QED BY <4>1, <5>1, <5>5
      <4>3. ASSUME thread'[t].at = "track" PROVE h.ts < thread'[t].ts
        <5>1. thread'[t].ts = tsCounter
          BY <1>2, <4>3, TrackFromAlloc
        <5>2. QED BY <4>1, <5>1
      <4>4. ASSUME Decided(thread'[t]) PROVE h.ts <= thread'[t].ts
        BY <1>2, <2>5, <4>4, DecidedSteps DEF HistoryInv, CallTsInv
      <4>5. QED BY <4>2, <4>3, <4>4
    <3>3. CallTsInv'
      BY <2>1, <3>1, <3>2 DEF CallTsInv
    <3>4. QED BY <2>1, <2>3, <3>1, <3>3 DEF HistoryInv
  <2>6. QED BY <2>4, <2>5
<1> QED BY <1>1, <1>2 DEF IsolationNext, Next

-----------------------------------------------------------------------------
(* Validation.                                                             *)

\* track_commit_owned keeps every entry at or above the watermark, other than
\* one of the same transaction.
LEMMA TrackKeeps ==
  ASSUME NEW id, NEW x, NEW ts
  PROVE  /\ \A c \in recentCommits : c.txn # id /\ c.ts >= minActiveTs => c \in TrackCommit(id, x, ts)
         /\ Validated(x) /\ ts >= minActiveTs =>
               [txn |-> id, ts |-> ts, reads |-> x.reads, writes |-> x.writes] \in TrackCommit(id, x, ts)
<1> DEFINE entry   == [txn |-> id, ts |-> ts, reads |-> x.reads, writes |-> x.writes]
           tracked == {c \in recentCommits : c.txn # id} \cup {entry}
<1>1. /\ TrackCommit(id, x, ts) \in {recentCommits, {c \in tracked : c.ts >= minActiveTs}, tracked}
      /\ Validated(x) => TrackCommit(id, x, ts) \in {{c \in tracked : c.ts >= minActiveTs}, tracked}
  BY DEF TrackCommit, Validated
<1>2. entry.ts = ts
  OBVIOUS
<1>3. QED BY <1>1, <1>2

\* Only leaving active_txns changes the window of recent commits.
LEMMA WindowUnchanged ==
  ASSUME NEW t \in Threads, ThreadStep(t), ~CommitTrack(t)
  PROVE  recentCommits' = recentCommits
<1>1. ~CommitStep(t) => recentCommits' = recentCommits
  BY DEF ThreadStep, BeginStep, BeginWithMode, BeginReadOnlyFast, BeginInsert, UpdateMinStep, UpdateMinScan,
         UpdateMinStore, ReadStep, Read, WriteStep, Write, Delete, WriteKey, AbortStep, Abort,
         AbortReadOnlyFast, MaintenanceStep, GcLoad, GcSweep, Checkpoint, mvccVars
<1>2. CommitStep(t) => recentCommits' = recentCommits
  BY DEF CommitStep, CommitFlush, CommitValidate, CommitRevalidate, CommitRefused, CommitAllocTs,
         CommitRecord, GroupSync, CommitSync, CommitSyncFails, CommitPublish, CommitDone, mvccVars
<1> QED BY <1>1, <1>2

\* Pruning the window loses no commit that an active transaction needs.
LEMMA NextWindow ==
  ASSUME OneThread, TypeOK, TypeOK', CallInv, SnapshotInv, HandleInv, HistoryInv, WindowInv, IsolationNext
  PROVE  WindowInv'
<1>1. CASE RestartStep
  <2>1. history' = {} /\ \A t \in Threads : thread'[t] = Idle
    BY <1>1, RestartIsolation
  <2>2. QED BY <2>1 DEF WindowInv, Idle
<1>2. ASSUME NEW t \in Threads, ThreadStep(t) PROVE WindowInv'
  <2>0. /\ ThreadTypeOK /\ activeTxns \subseteq TxnIds /\ activeTxns' \subseteq TxnIds
        /\ txn \in [TxnIds -> Transactions] /\ minActiveTs \in Nat
        /\ \A u \in Threads : u = t
    BY DEF TypeOK, MvccTypeOK, OneThread
  <2>1. ASSUME NEW h \in history', NEW id \in activeTxns', Validated(h.tracked), txn'[id].snapshot <= h.ts
        PROVE  EntryOf(h) \in recentCommits'
    <3>1. CASE ~CommitTrack(t)
      <4>1. h \in history /\ recentCommits' = recentCommits
        BY <1>2, <2>1, <3>1, HistoryGrows, WindowUnchanged
      <4>2. h.ts < tsCounter /\ h.ts \in Nat /\ tsCounter \in Nat
        BY <4>1 DEF HistoryInv, CommittedOf, TypeOK, MvccTypeOK
      <4>3. id \in TxnIds /\ Live(id)'
        BY <2>0 DEF Live
      <4>4. Live(id) /\ txn'[id].snapshot = txn[id].snapshot
        BY <1>2, <2>1, <4>2, <4>3, LiveSteps
      <4>5. CASE id \in activeTxns
        BY <2>1, <4>1, <4>4, <4>5 DEF WindowInv
      <4>6. ASSUME NEW u \in Threads, thread[u].at = "insert", thread[u].id = id PROVE FALSE
        <5>1. h.ts < txn[id].snapshot
          BY <4>1, <4>6 DEF HistoryInv, CallTsInv
        <5>2. txn[id].snapshot \in Nat
          BY <2>0, <4>3 DEF Transactions
        <5>3. QED BY <2>1, <4>2, <4>4, <5>1, <5>2
      <4>7. QED BY <4>4, <4>5, <4>6 DEF Live
    <3>2. CASE CommitTrack(t)
      <4>1. thread[t].at = "track"
        BY <3>2 DEF CommitTrack, In
      <4>2. PICK d \in TxnIds : d = thread[t].id /\ \A g \in history : g.id # d
        BY <4>1, TrackedTxn
      <4>3. /\ activeTxns' = activeTxns \ {d} /\ txn' = [txn EXCEPT ![d] = NoTransaction]
            /\ recentCommits' = TrackCommit(d, txn[d], thread[t].ts)
        BY <3>2, <4>2 DEF CommitTrack
      <4>4. id \in activeTxns /\ id \in TxnIds /\ txn'[id] = txn[id]
        BY <2>0, <4>3
      <4>5. minActiveTs <= txn[id].snapshot /\ txn[id].snapshot \in Nat
        <5>1. txn[id] \in Transactions
          BY <2>0, <4>4
        <5>2. QED BY <4>4, <5>1 DEF SnapshotInv, NoSnapshotBelow, Transactions
      <4>6. CASE h \in history
        <5>1. EntryOf(h) \in recentCommits
          BY <2>1, <4>4, <4>6 DEF WindowInv
        <5>2. EntryOf(h).txn # d /\ EntryOf(h).ts = h.ts /\ h.ts \in Nat
          BY <4>2, <4>6 DEF EntryOf, HistoryInv, CommittedOf
        <5>3. h.ts >= minActiveTs
          BY <2>0, <2>1, <4>4, <4>5, <5>2
        <5>4. QED BY <4>3, <5>1, <5>2, <5>3, TrackKeeps
      <4>7. CASE h = NewEntry(t, d)
        <5>1. h.id = d /\ h.ts = thread[t].ts /\ h.tracked = txn[d] /\ thread[t].ts \in Nat
          BY <2>0, <4>7, LocalsOf DEF NewEntry
        <5>2. thread[t].ts >= minActiveTs
          BY <2>0, <2>1, <4>4, <4>5, <5>1
        <5>3. QED BY <2>1, <4>3, <5>1, <5>2, TrackKeeps DEF EntryOf
      <4>8. QED BY <1>2, <2>1, <3>2, <4>2, <4>6, <4>7, HistoryGrows
    <3>3. QED BY <3>1, <3>2
  <2>2. ASSUME thread'[t].at \in {"allocTs", "track"} PROVE MayCommit(txn[thread[t].id])'
    <3>1. \/ CommitAllocTs(t) /\ thread[t].at = "allocTs" /\ thread'[t].id = thread[t].id
          \/ CommitValidate(t) /\ thread'[t].id = thread[t].id
      BY <1>2, <2>2, TrackFromAlloc
    <3>2. MayCommit(txn[thread[t].id])
      BY <3>1 DEF WindowInv, CommitValidate
    <3>3. UNCHANGED <<txn, recentCommits>>
      BY <3>1 DEF CommitAllocTs, CommitValidate, mvccVars
    <3>4. QED BY <3>1, <3>2, <3>3 DEF MayCommit
  <2>3. QED BY <2>0, <2>1, <2>2 DEF WindowInv
<1> QED BY <1>1, <1>2 DEF IsolationNext, Next

\* A transaction that full validation admits forms no write skew with one
\* that committed before it.
LEMMA NextSkew ==
  ASSUME OneThread, TypeOK, CallInv, HandleInv, ObservedInv, HistoryInv, WindowInv,
         FullValidationStopsWriteSkew, IsolationNext
  PROVE  FullValidationStopsWriteSkew'
<1>1. CASE RestartStep
  <2>1. history' = {}
    BY <1>1, RestartIsolation
  <2>2. QED BY <2>1 DEF FullValidationStopsWriteSkew
<1>2. ASSUME NEW t \in Threads, ThreadStep(t) PROVE FullValidationStopsWriteSkew'
  <2>1. CASE ~CommitTrack(t)
    BY <1>2, <2>1, HistoryGrows DEF FullValidationStopsWriteSkew
  <2>2. CASE CommitTrack(t)
    <3>1. thread[t].at = "track" /\ thread[t].ts \in Nat
      BY <2>2, LocalsOf DEF CommitTrack, In, TypeOK
    <3>2. PICK d \in TxnIds : d = thread[t].id /\ d \in activeTxns
      BY <3>1, TrackedTxn
    <3>3. PICK new : new = NewEntry(t, d)
      OBVIOUS
    <3>4. history' = history \cup {new}
      BY <1>2, <2>2, <3>2, <3>3, HistoryGrows
    <3>5. /\ new.ts = thread[t].ts /\ new.tracked = txn[d]
          /\ new.snapshot = txn[d].snapshot /\ new.writes = txn[d].writes /\ new.reads = observed[d]
      BY <3>3 DEF NewEntry
    <3>6. observed[d] \subseteq txn[d].reads
      BY <3>2 DEF ObservedInv, Live
    <3>7. \A h \in history : h.ts \in Nat /\ h.ts < thread[t].ts
      BY <3>1 DEF HistoryInv, CallTsInv, CommittedOf
    <3>8. ASSUME NEW a \in history, a.tracked.mode = "ReadWrite", txn[d].mode = "ReadWrite",
                 ReadWrite(a, new), ReadWrite(new, a)
          PROVE  SingleKey(txn[d])
      <4>1. /\ a.reads \subseteq a.tracked.reads /\ a.writes = a.tracked.writes
        BY DEF HistoryInv, CommittedOf
      <4>2. /\ a.reads \cap txn[d].writes # {}
            /\ observed[d] \cap a.writes # {} /\ a.ts >= txn[d].snapshot
        BY <3>5, <3>8 DEF ReadWrite
      <4>3. Validated(a.tracked) /\ txn[d].writes # {}
        BY <3>8, <4>1, <4>2 DEF Validated
      <4>4. txn[d].snapshot \in Nat
        BY DEF TypeOK, MvccTypeOK, Transactions
      <4>5. txn[d].snapshot <= a.ts
        BY <3>7, <4>2, <4>4
      <4>6. PICK entry \in recentCommits : entry = EntryOf(a)
        BY <3>2, <4>3, <4>5 DEF WindowInv
      <4>7. entry.ts = a.ts /\ entry.reads = a.tracked.reads /\ entry.writes = a.writes
        BY <4>1, <4>6 DEF EntryOf
      <4>8. entry \in ConcurrentWith(txn[d], recentCommits)
        BY <4>2, <4>7 DEF ConcurrentWith
      <4>9. entry.writes \cap txn[d].reads # {} /\ entry.reads \cap txn[d].writes # {}
        BY <3>6, <4>1, <4>2, <4>7
      <4>10. ValidateSsi(txn[d], recentCommits)
        BY <3>1, <3>2, <3>8 DEF WindowInv, MayCommit
      <4>11. QED BY <4>3, <4>6, <4>8, <4>9, <4>10 DEF ValidateSsi
    <3>9. ASSUME NEW a \in history', NEW b \in history', a.ts < b.ts,
                 a.tracked.mode = "ReadWrite", b.tracked.mode = "ReadWrite",
                 ReadWrite(a, b), ReadWrite(b, a)
          PROVE  SingleKey(b.tracked)
      <4>1. CASE a \in history /\ b \in history
        BY <3>9, <4>1 DEF FullValidationStopsWriteSkew
      <4>2. CASE a \in history /\ b = new
        BY <3>5, <3>8, <3>9, <4>2
      <4>3. CASE a = new
        BY <3>1, <3>4, <3>5, <3>7, <3>9, <4>3
      <4>4. QED BY <3>4, <3>9, <4>1, <4>2, <4>3
    <3>10. QED BY <3>9 DEF FullValidationStopsWriteSkew
  <2>3. QED BY <2>1, <2>2
<1> QED BY <1>1, <1>2 DEF IsolationNext, Next

\* A behaviour with its history is a behaviour of the storage engine.
LEMMA HistoryIsFree == IsolationSpec => Spec
<1>1. IsolationInit => Init
  BY DEF IsolationInit
<1>2. [IsolationNext]_isolationVars => [Next]_vars
  BY DEF IsolationNext, isolationVars
<1>3. QED BY <1>1, <1>2, PTL DEF IsolationSpec, Spec

IsolationInv == ObservedInv /\ HistoryInv /\ WindowInv

\* The history starts empty.
LEMMA InitIsolation == IsolationInit => IsolationInv
<1> SUFFICES ASSUME IsolationInit PROVE IsolationInv
  OBVIOUS
<1>1. ObservedInv
  BY DEF IsolationInit, Init, MvccInit, ObservedInv, Live, Idle
<1>2. HistoryInv /\ WindowInv
  BY DEF IsolationInit, Init, MvccInit, HistoryInv, CallTsInv, WindowInv, Idle
<1>3. QED BY <1>1, <1>2 DEF IsolationInv

\* The invariant is inductive, relative to those of the storage engine.
LEMMA NextIsolation ==
  ASSUME OneThread, TypeOK, TypeOK', CallInv, OrderInv, SnapshotInv, HandleInv, IsolationInv,
         [IsolationNext]_isolationVars
  PROVE  IsolationInv'
<1>1. CASE IsolationNext
  BY <1>1, NextObserved, NextHistory, NextWindow DEF IsolationInv
<1>2. CASE UNCHANGED isolationVars
  BY <1>2
  DEF isolationVars, vars, walVars, mvccVars, storageVars, IsolationInv, ObservedInv, Live, HistoryInv,
      CommittedOf, CallTsInv, WindowInv, MayCommit
<1> QED BY <1>1, <1>2

\* The invariants of the storage engine the isolation arguments start from.
EngineInv == TypeOK /\ CallInv /\ OrderInv /\ SnapshotInv /\ HandleInv /\ SlotInv

\* They hold with the history as they do without it.
LEMMA EngineInvariant ==
  ASSUME OneThread
  PROVE  IsolationSpec => []EngineInv
<1>1. Init => HandleInv /\ SlotInv
  BY InitAccounts
<1>2. TypeOK /\ CallInv /\ HandleInv /\ SlotInv /\ [Next]_vars => HandleInv' /\ SlotInv'
  BY NextAccounts
<1>3. Spec => []EngineInv
  BY <1>1, <1>2, TypeCorrect, InitCallInv, NextCallInv, InitOrder, NextOrder, SnapshotInvariant, PTL
  DEF Spec, EngineInv
<1>4. QED BY <1>3, HistoryIsFree, PTL

\* When one thread at a time is in a call: two concurrent ReadWrite
\* transactions that each read what the other wrote never both commit, unless
\* the single-key fast path excuses the later one.  For every number of
\* transactions and keys, every size of the window of recent commits and of
\* the read sets, whatever begins, aborts, is pruned or garbage-collected in
\* between.
THEOREM WriteSkewStopped ==
  ASSUME OneThread
  PROVE  IsolationSpec => []FullValidationStopsWriteSkew
<1>1. IsolationInit => FullValidationStopsWriteSkew
  BY DEF IsolationInit, FullValidationStopsWriteSkew
<1>2. EngineInv /\ EngineInv' /\ IsolationInv /\ [IsolationNext]_isolationVars => IsolationInv'
  BY NextIsolation DEF EngineInv
<1>3. EngineInv /\ IsolationInv /\ FullValidationStopsWriteSkew /\ [IsolationNext]_isolationVars
        => FullValidationStopsWriteSkew'
  <2> SUFFICES ASSUME EngineInv, IsolationInv, FullValidationStopsWriteSkew, [IsolationNext]_isolationVars
               PROVE  FullValidationStopsWriteSkew'
    OBVIOUS
  <2>1. CASE IsolationNext
    BY <2>1, NextSkew DEF EngineInv, IsolationInv
  <2>2. CASE UNCHANGED isolationVars
    BY <2>2 DEF isolationVars, FullValidationStopsWriteSkew
  <2>3. QED BY <2>1, <2>2
<1>4. QED
  BY <1>1, <1>2, <1>3, EngineInvariant, InitIsolation, PTL DEF IsolationSpec

-----------------------------------------------------------------------------
(* Publication.                                                            *)

\* What publishing one key changes.
LEMMA PublishKey ==
  ASSUME TypeOK, CallInv, NEW t \in Threads, CommitPublish(t)
  PROVE  /\ Decided(thread[t]) /\ thread[t].id \in TxnIds
         /\ \E key \in thread[t].todo :
               /\ key \in Keys
               /\ chains'[key] = CommitVersion(chains[key], thread[t].id, thread[t].ts)
               /\ \A k \in Keys \ {key} : chains'[k] = chains[k]
               /\ thread'[t].todo = thread[t].todo \ {key} /\ thread'[t].return = thread[t].return
               /\ thread'[t].id = thread[t].id /\ thread'[t].ts = thread[t].ts
<1>0. ThreadTypeOK /\ chains \in [Keys -> Chains(StoredValues, Nat)]
  BY DEF TypeOK, MemTableTypeOK
<1>1. thread[t].at = "publish"
  BY DEF CommitPublish, In
<1>2. Decided(thread[t]) /\ thread[t].id \in TxnIds
  <2>1. Decided(thread[t])
    BY <1>1 DEF CallInv, CallShape
  <2>2. thread[t].id \in TxnIds
    BY <1>0, <1>1, LocalsOf DEF TxnLabels, Labels
  <2>3. QED BY <2>1, <2>2
<1>3. PICK key \in thread[t].todo :
        /\ chains' = [chains EXCEPT ![key] = CommitVersion(@, thread[t].id, thread[t].ts)]
        /\ Become(t, [thread[t] EXCEPT !.todo = @ \ {key}])
  BY DEF CommitPublish
<1>4. PICK new : new = [thread[t] EXCEPT !.todo = @ \ {key}] /\ Become(t, new)
  BY <1>3
<1>5. thread'[t] = new
  BY <1>0, <1>4, OtherThreads
<1>6. /\ new.todo = thread[t].todo \ {key} /\ new.return = thread[t].return
      /\ new.id = thread[t].id /\ new.ts = thread[t].ts
  BY <1>0, <1>4, LocalsOf DEF Locals
<1>7. key \in Keys
  BY <1>0, LocalsOf
<1>8. /\ chains'[key] = CommitVersion(chains[key], thread[t].id, thread[t].ts)
      /\ \A k \in Keys \ {key} : chains'[k] = chains[k]
  BY <1>0, <1>3, <1>7
<1> QED BY <1>2, <1>5, <1>6, <1>7, <1>8

\* A slot stays until its owner publishes or aborts it.
LEMMA OwnedStays ==
  ASSUME TypeOK, CallInv, OrderInv, NEW t \in Threads, ThreadStep(t), NEW key \in Keys, NEW id \in TxnIds,
         OwnsSlot(chains[key], id),
         CommitPublish(t) => id # thread[t].id \/ key \in thread'[t].todo,
         handles'[id] # "free"
  PROVE  OwnsSlot(chains'[key], id)
<1>0. /\ chains \in [Keys -> Chains(StoredValues, Nat)]
      /\ handles \in [TxnIds -> Handles]
  BY DEF TypeOK, MemTableTypeOK, ClientTypeOK
<1>1. CASE ~WriteStep(t) /\ ~CommitPublish(t) /\ ~AbortStep(t)
  BY <1>1, SlotsUnchanged DEF OwnsSlot
<1>2. CASE WriteStep(t)
  <2>1. PICK d \in TxnIds, k \in Keys, value \in StoredValues : WriteKey(t, d, k, value)
    BY <1>2 DEF WriteStep, Write, Delete, StoredValues
  <2>2. CASE chains'[key] = chains[key]
    BY <2>2
  <2>3. CASE key = k /\ chains' # chains
    <3>1. /\ chains'[key].uncommitted = {[value |-> value, txn |-> d, ts |-> 0]}
          /\ \A v \in chains[key].uncommitted : v.txn = d
      BY <2>1, <2>3, WriteSlots
    <3>2. id = d
      BY <3>1 DEF OwnsSlot
    <3>3. QED BY <3>1, <3>2 DEF OwnsSlot
  <2>4. QED BY <2>1, <2>2, <2>3, WriteSlots
<1>3. CASE CommitPublish(t)
  <2>1. PICK k \in thread[t].todo :
          /\ k \in Keys
          /\ chains'[k] = CommitVersion(chains[k], thread[t].id, thread[t].ts)
          /\ \A j \in Keys \ {k} : chains'[j] = chains[j]
          /\ thread'[t].todo = thread[t].todo \ {k}
    BY <1>3, PublishKey
  <2>2. CASE key # k
    BY <2>1, <2>2
  <2>3. CASE key = k
    <3>1. id # thread[t].id
      BY <1>3, <2>1, <2>3
    <3>2. \A v, w \in chains[key].uncommitted : v.txn = w.txn
      BY DEF OrderInv, KeyOrder
    <3>3. ~OwnsSlot(chains[key], thread[t].id)
      BY <3>1, <3>2 DEF OwnsSlot
    <3>4. QED BY <2>1, <2>3, <3>3 DEF CommitVersion
  <2>4. QED BY <2>2, <2>3
<1>4. CASE AbortStep(t)
  <2>1. PICK d \in TxnIds : Abort(t, d) \/ AbortReadOnlyFast(t, d)
    BY <1>4 DEF AbortStep
  <2>2. /\ handles' = [handles EXCEPT ![d] = "free"]
        /\ chains' \in {chains, [k \in Keys |-> AbortVersion(chains[k], d)]}
    BY <2>1 DEF Abort, AbortReadOnlyFast
  <2>3. id # d
    BY <1>0, <2>2
  <2>4. OwnsSlot(AbortVersion(chains[key], d), id)
    <3>1. chains[key] \in Chains(StoredValues, Nat)
      BY <1>0
    <3>2. AbortVersion(chains[key], d).uncommitted = {v \in chains[key].uncommitted : v.txn # d}
      BY <3>1 DEF AbortVersion, Chains
    <3>3. QED BY <2>3, <3>2 DEF OwnsSlot
  <2>5. chains'[key] \in {chains[key], AbortVersion(chains[key], d)}
    BY <2>2
  <2>6. QED BY <2>4, <2>5
<1> QED BY <1>1, <1>2, <1>3, <1>4

\* The write set of an open transaction grows by writes that get their slot.
LEMMA WritesGrow ==
  ASSUME AbortsOnError = TRUE, TypeOK, CallInv, NEW t \in Threads, ThreadStep(t), NEW id \in TxnIds, NEW key,
         handles'[id] = "open", key \in txn'[id].writes
  PROVE  \/ handles[id] = "open" /\ key \in txn[id].writes
         \/ OwnsSlot(chains'[key], id) /\ \A u \in Threads : thread[u].id # id
<1>0. /\ handles \in [TxnIds -> Handles] /\ txn \in [TxnIds -> Transactions]
      /\ chains \in [Keys -> Chains(StoredValues, Nat)]
  BY DEF TypeOK, MvccTypeOK, ClientTypeOK, MemTableTypeOK
<1> DEFINE Goal == \/ handles[id] = "open" /\ key \in txn[id].writes
                   \/ OwnsSlot(chains'[key], id) /\ \A u \in Threads : thread[u].id # id
<1>1. ASSUME (\E mode \in ClientModes : BeginWithMode(t, mode)) \/ BeginReadOnlyFast(t) PROVE Goal
  <2>1. PICK d, mode, handle :
          /\ d \in TxnIds /\ txn' = [txn EXCEPT ![d] = NewTransaction(mode, tsCounter)]
          /\ handles' = [handles EXCEPT ![d] = handle]
    BY <1>1 DEF BeginWithMode, BeginReadOnlyFast
  <2>2. id # d
    BY <1>0, <2>1 DEF NewTransaction
  <2>3. QED BY <1>0, <2>1, <2>2
<1>2. ASSUME WriteStep(t) PROVE Goal
  <2>1. PICK d \in TxnIds, k \in Keys, value \in StoredValues : WriteKey(t, d, k, value)
    BY <1>2 DEF WriteStep, Write, Delete, StoredValues
  <2>2. /\ handles[d] = "open" /\ MayCall(t, d)
        /\ handles' \in {handles, [handles EXCEPT ![d] = "failed"]}
        /\ txn' \in {txn, [txn EXCEPT ![d] = RecordWrite(txn[d], k)]}
    BY <2>1 DEF WriteKey
  <2>3. CASE key \in txn[id].writes
    BY <1>0, <2>2, <2>3
  <2>4. CASE key \notin txn[id].writes
    <3>1. \A x \in Transactions : RecordWrite(x, k).writes = x.writes \cup {k}
      BY DEF RecordWrite, Transactions
    <3>2. id = d /\ key = k
      BY <1>0, <2>2, <2>4, <3>1
    <3>3. ~HasWriteConflict(chains[key], id)
      BY <1>0, <2>1, <3>2 DEF WriteKey
    <3>4. chains' = [chains EXCEPT ![key] = AddUncommitted(@, value, id)]
      BY <2>1, <3>2, <3>3 DEF WriteKey
    <3>5. \A c \in Chains(StoredValues, Nat) : OwnsSlot(AddUncommitted(c, value, id), id)
      BY DEF AddUncommitted, OwnsSlot, Chains
    <3>6. QED BY <1>0, <2>2, <3>2, <3>4, <3>5 DEF MayCall
  <2>5. QED BY <2>3, <2>4
<1>3. ASSUME UNCHANGED txn, NEW d, NEW handle \in {"dead", "free"},
             handles' \in {handles, [handles EXCEPT ![d] = handle]}
      PROVE  Goal
  BY <1>0, <1>3
<1>4. ASSUME NEW d \in TxnIds, NEW handle \in {"dead", "free"}, txn' = [txn EXCEPT ![d] = NoTransaction],
             handles' \in {handles, [handles EXCEPT ![d] = handle]}
      PROVE  Goal
  <2>1. id # d
    BY <1>0, <1>4 DEF NoTransaction, NewTransaction
  <2>2. QED BY <1>0, <1>4, <2>1
<1>5. ASSUME AbortStep(t) PROVE Goal
  <2>1. PICK d \in TxnIds : Abort(t, d) \/ AbortReadOnlyFast(t, d)
    BY <1>5 DEF AbortStep
  <2>2. handles' = [handles EXCEPT ![d] = "free"] /\ txn' = [txn EXCEPT ![d] = NoTransaction]
    BY <2>1, Zenon DEF Abort, AbortReadOnlyFast
  <2>3. QED BY <1>4, <2>2
<1>6. ASSUME CommitRefused(t) \/ CommitTrack(t) PROVE Goal
  <2>1. thread[t].at \in {"revalidate", "track"}
    BY <1>6 DEF CommitRefused, CommitTrack, In
  <2>2. PICK d \in TxnIds : d = thread[t].id
    BY <2>1 DEF TypeOK, ThreadTypeOK, HasTxn, TxnLabels, Labels
  <2>3. txn' = [txn EXCEPT ![d] = NoTransaction] /\ handles' \in {handles, [handles EXCEPT ![d] = "dead"]}
    BY <1>6, <2>2 DEF CommitRefused, CommitTrack
  <2>4. QED BY <1>4, <2>3
<1>7. ASSUME BeginInsert(t) \/ CommitSyncFails(t) \/ CommitPublish(t) \/ CommitDone(t)
             \/ \E d \in TxnIds : CommitFlush(t, d)
      PROVE  Goal
  <2>1. UNCHANGED txn
    BY <1>7 DEF BeginInsert, CommitSyncFails, CommitPublish, CommitDone, CommitFlush, mvccVars
  <2>2. \E handle \in {"dead", "free"} : handles' \in {handles, [handles EXCEPT ![thread[t].id] = handle]}
    BY <1>7 DEF BeginInsert, CommitSyncFails, CommitPublish, CommitDone, CommitFlush
  <2>3. QED BY <1>3, <2>1, <2>2
<1>8. ASSUME \/ UpdateMinStep(t) \/ ReadStep(t) \/ MaintenanceStep(t)
             \/ CommitValidate(t) \/ CommitRevalidate(t) \/ CommitAllocTs(t)
             \/ CommitRecord(t) \/ GroupSync(t) \/ CommitSync(t)
      PROVE  Goal
  BY <1>8, QuietSteps DEF Quiet
<1> HIDE DEF Goal
<1>9. Goal
  BY <1>1, <1>2, <1>5, <1>6, <1>7, <1>8, Zenon DEF ThreadStep, BeginStep, CommitStep
<1> QED BY <1>9 DEF Goal

\* Owners keep their slots.
LEMMA NextOwnership ==
  ASSUME AbortsOnError = TRUE, TypeOK, TypeOK', CallInv, OrderInv, HandleInv, HandleInv', HistoryInv,
         OwnershipInv, IsolationNext
  PROVE  OwnershipInv'
<1>0. /\ ThreadTypeOK /\ TxnIds \subseteq Nat /\ 0 \notin TxnIds
      /\ \A id \in TxnIds : txn[id].writes \subseteq Keys /\ txn'[id].writes \subseteq Keys
      /\ \A u \in Threads : Decided(thread[u]) => thread[u].id \in TxnIds
      /\ \A u \in Threads : Decided(thread'[u]) => thread'[u].id \in TxnIds
      /\ \A u \in Threads : thread[u].todo \subseteq Keys /\ thread'[u].todo \subseteq Keys
  BY TxnIdsNat
  DEF TypeOK, MvccTypeOK, Transactions, ThreadTypeOK, Locals, HasTxn, Decided, TxnLabels, Labels
<1>1. CASE RestartStep
  <2>1. (\A u \in Threads : thread'[u] = Idle) /\ \A id \in TxnIds : handles'[id] = "free"
    BY <1>1, RestartIsolation
  <2>2. QED BY <2>1 DEF OwnershipInv, Decided, Idle
<1>2. ASSUME NEW t \in Threads, ThreadStep(t) PROVE OwnershipInv'
  <2>1. ASSUME NEW id \in TxnIds, handles'[id] = "open", NEW key \in txn'[id].writes
        PROVE  OwnsSlot(chains'[key], id)
    <3>1. CASE handles[id] = "open" /\ key \in txn[id].writes
      <4>1. OwnsSlot(chains[key], id) /\ key \in Keys
        BY <1>0, <3>1 DEF OwnershipInv
      <4>2. CommitPublish(t) => id # thread[t].id
        BY <3>1, PublishKey DEF OwnershipInv
      <4>3. QED BY <1>2, <2>1, <4>1, <4>2, OwnedStays
    <3>2. QED BY <1>2, <2>1, <3>1, WritesGrow
  <2>2. ASSUME NEW u \in Threads, Decided(thread'[u])
        PROVE  /\ \A key \in thread'[u].todo : OwnsSlot(chains'[key], thread'[u].id)
               /\ txn'[thread'[u].id].writes = {}
    <3>1. PICK d \in TxnIds : d = thread'[u].id
      BY <1>0, <2>2
    <3>2. handles'[d] = "open"
      BY <2>2, <3>1 DEF HandleInv, HandleOf, InCommit
    <3>3. CASE CommitTrack(t) /\ u = t
      <4>1. /\ thread'[t].todo = txn[d].writes /\ thread[t].id = d /\ thread[t].at = "track"
        BY <1>0, <3>1, <3>3, TrackLocals DEF CommitTrack, In
      <4>2. handles[d] = "open"
        BY <4>1, TrackedTxn
      <4>3. chains' = chains /\ txn' = [txn EXCEPT ![d] = NoTransaction]
        BY <3>3, <4>1 DEF CommitTrack
      <4>4. txn'[d].writes = {}
        BY <4>3 DEF TypeOK, MvccTypeOK, NoTransaction, NewTransaction
      <4>5. QED BY <3>1, <3>3, <4>1, <4>2, <4>3, <4>4 DEF OwnershipInv
    <3>4. CASE ~(CommitTrack(t) /\ u = t)
      <4>1. /\ Decided(thread[u]) /\ thread[u].id = d /\ thread'[u].todo \subseteq thread[u].todo
        <5>1. CASE u = t
          <6>1. /\ Decided(thread[t]) /\ thread[t].id = d
                /\ CommitPublish(t) \/ thread'[t].todo = thread[t].todo
            BY <1>2, <2>2, <3>1, <3>4, <5>1, DecidedSteps
          <6>2. QED BY <5>1, <6>1, PublishKey
        <5>2. CASE u # t
          <6>1. thread'[u] = thread[u]
            BY <1>0, <1>2, <5>2, ThreadStepMoves, OtherThreads DEF Moves
          <6>2. QED BY <2>2, <3>1, <6>1
        <5>3. QED BY <5>1, <5>2
      <4>2. ASSUME NEW key \in thread'[u].todo PROVE OwnsSlot(chains'[key], d)
        <5>1. key \in Keys /\ OwnsSlot(chains[key], d)
          BY <1>0, <4>1 DEF OwnershipInv
        <5>2. d = thread[t].id => u = t
          BY <1>0, <4>1 DEF CallInv
        <5>3. CommitPublish(t) => d # thread[t].id \/ key \in thread'[t].todo
          BY <5>2
        <5>4. QED BY <1>2, <3>2, <5>1, <5>3, OwnedStays
      <4>3. txn'[d].writes = {}
        <5>1. SUFFICES ASSUME NEW key \in txn'[d].writes PROVE FALSE
          OBVIOUS
        <5>2. \/ handles[d] = "open" /\ key \in txn[d].writes
              \/ \A w \in Threads : thread[w].id # d
          BY <1>2, <3>2, WritesGrow
        <5>3. QED BY <4>1, <5>2 DEF OwnershipInv
      <4>4. QED BY <3>1, <4>2, <4>3
    <3>5. QED BY <3>3, <3>4
  <2>3. QED BY <2>1, <2>2 DEF OwnershipInv
<1> QED BY <1>1, <1>2 DEF IsolationNext, Next

\* The commit in progress stays in the history.
LEMMA NextPublisher ==
  ASSUME TypeOK, TypeOK', CallInv, HandleInv, HistoryInv, PublisherInv, IsolationNext
  PROVE  PublisherInv'
<1>0. /\ ThreadTypeOK /\ 0 \notin TxnIds
      /\ \A u \in Threads : Decided(thread[u]) => thread[u].id \in TxnIds
  BY TxnIdsNat DEF TypeOK, ThreadTypeOK, HasTxn, Decided, TxnLabels, Labels
<1>1. CASE RestartStep
  <2>1. \A u \in Threads : thread'[u] = Idle
    BY <1>1, RestartIsolation
  <2>2. QED BY <2>1 DEF PublisherInv, Decided, Idle
<1>2. ASSUME NEW t \in Threads, ThreadStep(t) PROVE PublisherInv'
  <2>1. ASSUME NEW u \in Threads, Decided(thread'[u])
        PROVE  /\ \E h \in history' : /\ h.id = thread'[u].id /\ h.ts = thread'[u].ts
                                      /\ thread'[u].todo \subseteq h.writes
               /\ \A h \in history' : h.id = thread'[u].id => h.ts = thread'[u].ts
    <3>1. CASE CommitTrack(t)
      <4>1. thread[t].at = "track"
        BY <3>1 DEF CommitTrack, In
      <4>2. PICK d \in TxnIds : d = thread[t].id /\ \A h \in history : h.id # d
        BY <4>1, TrackedTxn
      <4>3. PICK new : new = NewEntry(t, d)
        OBVIOUS
      <4>4. history' = history \cup {new}
        BY <1>2, <3>1, <4>2, <4>3, HistoryGrows
      <4>5. new.id = d /\ new.ts = thread[t].ts /\ new.writes = txn[d].writes
        BY <4>3 DEF NewEntry
      <4>6. CASE u = t
        <5>1. thread'[t].id = d /\ thread'[t].ts = thread[t].ts /\ thread'[t].todo = txn[d].writes
          BY <1>0, <3>1, <4>2, TrackLocals
        <5>2. QED BY <4>2, <4>4, <4>5, <4>6, <5>1
      <4>7. CASE u # t
        <5>1. thread'[u] = thread[u]
          BY <1>0, <3>1, <4>7, TrackLocals
        <5>2. thread[u].id # d
          BY <4>1, <4>2, <4>7, TrackedTxn
        <5>3. QED BY <2>1, <4>4, <4>5, <5>1, <5>2 DEF PublisherInv
      <4>8. QED BY <4>6, <4>7
    <3>2. CASE ~CommitTrack(t)
      <4>1. history' = history
        BY <1>2, <3>2, HistoryGrows
      <4>2. /\ Decided(thread[u]) /\ thread'[u].id = thread[u].id /\ thread'[u].ts = thread[u].ts
            /\ thread'[u].todo \subseteq thread[u].todo
        <5>1. CASE u = t
          <6>1. /\ Decided(thread[t]) /\ thread'[t].id = thread[t].id /\ thread'[t].ts = thread[t].ts
                /\ CommitPublish(t) \/ thread'[t].todo = thread[t].todo
            BY <1>2, <2>1, <3>2, <5>1, DecidedSteps
          <6>2. QED BY <5>1, <6>1, PublishKey
        <5>2. CASE u # t
          <6>1. thread'[u] = thread[u]
            BY <1>0, <1>2, <5>2, ThreadStepMoves, OtherThreads DEF Moves
          <6>2. QED BY <2>1, <6>1
        <5>3. QED BY <5>1, <5>2
      <4>3. QED BY <4>1, <4>2 DEF PublisherInv
    <3>3. QED BY <3>1, <3>2
  <2>2. QED BY <2>1 DEF PublisherInv
<1> QED BY <1>1, <1>2 DEF IsolationNext, Next

\* A commit call that has decided goes on until it returns.
LEMMA DecidedStays ==
  ASSUME "ioError" \notin Workload, TypeOK, CallInv, NEW t \in Threads, ThreadStep(t), Decided(thread[t])
  PROVE  Decided(thread'[t]) \/ CommitDone(t)
<1>1. /\ thread[t].at \in {"minScan", "minStore", "commitRecord", "sync", "publish"}
      /\ thread[t].return = "commitRecord"
  BY DEF CallInv, CallShape, Decided
<1>2. ASSUME \/ BeginStep(t) \/ WriteStep(t) \/ AbortStep(t) \/ CommitRefused(t) \/ CommitTrack(t)
             \/ CommitSyncFails(t) \/ \E d \in TxnIds : CommitFlush(t, d)
      PROVE  FALSE
  BY <1>1, <1>2
  DEF BeginStep, BeginWithMode, BeginReadOnlyFast, BeginInsert, WriteStep, Write, Delete, WriteKey,
      AbortStep, Abort, AbortReadOnlyFast, CommitRefused, CommitTrack, CommitSyncFails, CommitFlush, MayCall, In
<1>3. ASSUME CommitPublish(t) PROVE Decided(thread'[t])
  BY <1>3, PublishKey DEF Decided
<1>4. ASSUME \/ UpdateMinStep(t) \/ ReadStep(t) \/ MaintenanceStep(t)
             \/ CommitValidate(t) \/ CommitRevalidate(t) \/ CommitAllocTs(t)
             \/ CommitRecord(t) \/ GroupSync(t) \/ CommitSync(t)
      PROVE  Decided(thread'[t])
  BY <1>4, QuietSteps DEF Quiet, SamePhase
<1> QED BY <1>2, <1>3, <1>4, Zenon DEF ThreadStep, CommitStep

\* The versions of a database that was just opened are those of recovery.
LEMMA RestartVersions ==
  ASSUME TypeOK, CallInv, RestartStep, NEW key \in Keys
  PROVE  \A v \in chains'[key].committed : v.ts = 1
<1>1. CASE Crash \/ Shutdown
  <2>1. chains'[key] = EmptyChain
    BY <1>1 DEF Crash, Shutdown, Forget
  <2>2. QED BY <2>1 DEF EmptyChain
<1>2. CASE Open \/ ReplayRecord
  <2>1. status # "open" /\ chains' = chains
    BY <1>2 DEF Open, ReplayRecord, storageVars
  <2>2. chains[key] = EmptyChain
    BY <2>1 DEF CallInv, Closed
  <2>3. QED BY <2>1, <2>2 DEF EmptyChain
<1>3. CASE FinishRecover
  <2>1. tsCounter = 1
    BY <1>3 DEF FinishRecover, CallInv, Closed
  <2>2. \/ chains'[key] = EmptyChain
        \/ chains'[key] = [committed |-> {[value |-> replay.result[key], txn |-> nextTxnId, ts |-> tsCounter]},
                           uncommitted |-> {}]
    BY <1>3 DEF FinishRecover
  <2>3. QED BY <2>1, <2>2 DEF EmptyChain
<1> QED BY <1>1, <1>2, <1>3 DEF RestartStep

\* A step that publishes nothing of the key keeps its newest version.
LEMMA PublishedKept ==
  ASSUME NEW key \in Keys, NewestPublished(key), Published(key)' = Published(key),
         chains'[key].committed \subseteq chains[key].committed,
         \A v \in chains[key].committed :
            (\A w \in chains[key].committed : w.ts <= v.ts) => v \in chains'[key].committed
  PROVE  NewestPublished(key)'
  BY DEF NewestPublished

\* Publication makes the last commit of the key its newest version.
LEMMA PublishNewest ==
  ASSUME OneThread, TypeOK, CallInv, OrderInv, HistoryInv, PublisherInv, OwnershipInv,
         NEW t \in Threads, NEW key \in thread[t].todo, key \in Keys, Decided(thread[t]), history' = history,
         chains'[key] = CommitVersion(chains[key], thread[t].id, thread[t].ts), key \notin thread'[t].todo
  PROVE  NewestPublished(key)'
<1>0. chains[key] \in Chains(StoredValues, Nat) /\ thread[t].ts \in Nat /\ \A u \in Threads : u = t
  BY LocalsOf DEF TypeOK, MemTableTypeOK, OneThread
<1>1. OwnsSlot(chains[key], thread[t].id)
  BY DEF OwnershipInv
<1>2. PICK h \in history : h.id = thread[t].id /\ h.ts = thread[t].ts /\ thread[t].todo \subseteq h.writes
  BY DEF PublisherInv
<1>3. h \in Published(key)'
  BY <1>0, <1>2 DEF Published, ToPublish
<1>4. PICK v \in chains[key].uncommitted : v.txn = thread[t].id
  BY <1>1 DEF OwnsSlot
<1>5. PICK new : new = [v EXCEPT !.ts = thread[t].ts]
  OBVIOUS
<1>6. new.txn = thread[t].id /\ new.ts = thread[t].ts
  BY <1>0, <1>4, <1>5 DEF Chains
<1>7. new \in chains'[key].committed
  <2>1. chains'[key].committed =
          chains[key].committed \cup {[w EXCEPT !.ts = thread[t].ts] : w \in chains[key].uncommitted}
    BY <1>1 DEF CommitVersion
  <2>2. QED BY <1>4, <1>5, <2>1
<1>8. \A w \in chains'[key].committed : w \in chains[key].committed \/ w.ts = thread[t].ts
  BY <1>0, <1>1, PublishedChain DEF OrderInv, KeyOrder
<1>9. \A w \in chains[key].committed : w.ts \in Nat /\ w.ts < thread[t].ts
  <2>1. Publishes(t, key)
    BY <1>1 DEF Publishes, Committing, Decided
  <2>2. QED BY <1>0, <2>1 DEF OrderInv, KeyOrder, Chains
<1>10. \A w \in chains'[key].committed : w.ts <= new.ts
  BY <1>0, <1>6, <1>8, <1>9
<1>11. \A g \in Published(key)' : g.ts <= h.ts
  BY <1>2 DEF Published, HistoryInv, CallTsInv
<1> QED BY <1>2, <1>3, <1>6, <1>7, <1>10, <1>11 DEF NewestPublished

\* The newest version of every key stays that of the last commit.
LEMMA NextPublished ==
  ASSUME OneThread, "ioError" \notin Workload, TypeOK, CallInv, OrderInv, HandleInv, HistoryInv,
         OwnershipInv, PublisherInv, PublishedInv, IsolationNext
  PROVE  PublishedInv'
<1> SUFFICES ASSUME NEW key \in Keys PROVE NewestPublished(key)'
  BY DEF PublishedInv
<1>0. ThreadTypeOK /\ NewestPublished(key)
  BY DEF TypeOK, PublishedInv
<1>1. CASE RestartStep
  <2>1. history' = {}
    BY <1>1, RestartIsolation
  <2>2. QED BY <1>1, <2>1, RestartVersions DEF NewestPublished, Published
<1>2. ASSUME NEW t \in Threads, ThreadStep(t) PROVE NewestPublished(key)'
  <2>0. \A u \in Threads : u = t
    BY DEF OneThread
  <2>1. CASE CommitTrack(t)
    <3>1. thread[t].at = "track" /\ ~Decided(thread[t])
      BY <2>1 DEF CommitTrack, In, CallInv, CallShape
    <3>2. PICK d \in TxnIds : d = thread[t].id /\ \A h \in history : h.id # d
      BY <3>1, TrackedTxn
    <3>3. PICK new : new = NewEntry(t, d)
      OBVIOUS
    <3>4. history' = history \cup {new}
      BY <1>2, <2>1, <3>2, <3>3, HistoryGrows
    <3>5. new.id = d /\ new.writes = txn[d].writes
      BY <3>3 DEF NewEntry
    <3>6. thread'[t].id = d /\ thread'[t].todo = txn[d].writes /\ Decided(thread'[t])
      BY <1>0, <2>1, <3>2, TrackLocals DEF Decided
    <3>7. \A h \in history : ~ToPublish(h, key)
      BY <2>0, <3>1 DEF ToPublish
    <3>8. \A h \in history : ~ToPublish(h, key)'
      BY <2>0, <3>2, <3>6 DEF ToPublish
    <3>9. key \in new.writes => ToPublish(new, key)'
      BY <3>5, <3>6 DEF ToPublish
    <3>10. Published(key)' = Published(key)
      BY <3>4, <3>7, <3>8, <3>9 DEF Published
    <3>11. chains' = chains
      BY <2>1 DEF CommitTrack
    <3>12. QED BY <1>0, <3>10, <3>11, PublishedKept
  <2>2. CASE CommitPublish(t)
    <3>1. history' = history
      BY <1>2, <2>2, HistoryGrows DEF CommitPublish, CommitTrack, In
    <3>2. PICK k \in thread[t].todo :
            /\ k \in Keys
            /\ chains'[k] = CommitVersion(chains[k], thread[t].id, thread[t].ts)
            /\ \A j \in Keys \ {k} : chains'[j] = chains[j]
            /\ thread'[t].todo = thread[t].todo \ {k} /\ thread'[t].return = thread[t].return
            /\ thread'[t].id = thread[t].id
      BY <2>2, PublishKey
    <3>3. Decided(thread[t]) /\ Decided(thread'[t])
      BY <2>2, <3>2, PublishKey DEF Decided
    <3>4. CASE key = k
      BY <3>1, <3>2, <3>3, <3>4, PublishNewest
    <3>5. CASE key # k
      <4>1. \A h : ToPublish(h, key)' <=> ToPublish(h, key)
        BY <2>0, <3>2, <3>3, <3>5 DEF ToPublish
      <4>2. Published(key)' = Published(key)
        BY <3>1, <4>1 DEF Published
      <4>3. chains'[key] = chains[key]
        BY <3>2, <3>5
      <4>4. QED BY <1>0, <4>2, <4>3, PublishedKept
    <3>6. QED BY <3>4, <3>5
  <2>3. CASE ~CommitTrack(t) /\ ~CommitPublish(t)
    <3>1. history' = history
      BY <1>2, <2>3, HistoryGrows
    <3>2. Decided(thread'[t]) => /\ Decided(thread[t]) /\ thread'[t].id = thread[t].id
                                 /\ thread'[t].todo = thread[t].todo
      BY <1>2, <2>3, DecidedSteps
    <3>3. Decided(thread[t]) => Decided(thread'[t]) \/ thread[t].todo = {}
      BY <1>2, DecidedStays DEF CommitDone
    <3>4. \A h : ToPublish(h, key)' <=> ToPublish(h, key)
      BY <2>0, <3>2, <3>3 DEF ToPublish
    <3>5. Published(key)' = Published(key)
      BY <3>1, <3>4 DEF Published
    <3>6. QED BY <1>0, <1>2, <2>3, <3>5, MaximalKept, PublishedKept
  <2>4. QED BY <2>1, <2>2, <2>3
<1> QED BY <1>1, <1>2 DEF IsolationNext, Next

PublicationInv == OwnershipInv /\ PublisherInv /\ PublishedInv

\* Between calls everything is published, and the next snapshot is above
\* every version.
LEMMA LastCommitSeen ==
  ASSUME TypeOK, CallInv, OrderInv, PublishedInv
  PROVE  LastCommitIsVisible
<1> SUFFICES ASSUME \A t \in Threads : thread[t].at = "idle", NEW key \in Keys
             PROVE  LET writers == {h \in history : key \in h.writes}
                        seen    == Visible(chains[key], tsCounter)
                    IN  /\ writers = {} => \A v \in seen : v.ts = 1
                        /\ writers # {} => \E v \in seen, h \in writers :
                              /\ v.txn = h.id /\ v.ts = h.ts
                              /\ \A g \in writers : g.ts <= h.ts
  BY DEF LastCommitIsVisible
<1>1. \A t \in Threads : ~Decided(thread[t])
  BY DEF CallInv, CallShape, Idle, Decided
<1>2. Published(key) = {h \in history : key \in h.writes}
  BY <1>1 DEF Published, ToPublish
<1>3. Below(chains[key].committed, tsCounter) = chains[key].committed
  BY DEF OrderInv, KeyOrder, Below
<1>4. Visible(chains[key], tsCounter) =
        {v \in chains[key].committed : \A w \in chains[key].committed : w.ts <= v.ts}
  BY <1>3 DEF Visible, Newest
<1>5. NewestPublished(key)
  BY DEF PublishedInv
<1> QED BY <1>2, <1>4, <1>5 DEF NewestPublished

\* When one thread at a time is in a call, no fsync fails and clients abort a
\* transaction one of whose writes was refused: between calls, a new snapshot
\* sees of every key the write of the last transaction that committed one, or
\* what recovery restored.  For every number of keys and transactions,
\* whatever was refused, aborted, garbage-collected or recovered meanwhile.
THEOREM LastCommitVisible ==
  ASSUME OneThread, "ioError" \notin Workload, AbortsOnError = TRUE
  PROVE  IsolationSpec => []LastCommitIsVisible
<1>1. IsolationInit => PublicationInv
  BY DEF IsolationInit, Init, MvccInit, NoTransaction, NewTransaction, PublicationInv, OwnershipInv, PublisherInv,
         PublishedInv, NewestPublished, Published, Decided, Idle, EmptyChain
<1>2. EngineInv /\ EngineInv' /\ IsolationInv /\ [IsolationNext]_isolationVars => IsolationInv'
  BY NextIsolation DEF EngineInv
<1>3. EngineInv /\ EngineInv' /\ IsolationInv /\ PublicationInv /\ [IsolationNext]_isolationVars
        => PublicationInv'
  <2> SUFFICES ASSUME EngineInv, EngineInv', IsolationInv, PublicationInv, [IsolationNext]_isolationVars
               PROVE  PublicationInv'
    OBVIOUS
  <2>1. CASE IsolationNext
    BY <2>1, NextOwnership, NextPublisher, NextPublished DEF EngineInv, IsolationInv, PublicationInv
  <2>2. CASE UNCHANGED isolationVars
    BY <2>2
    DEF isolationVars, vars, mvccVars, storageVars, PublicationInv, OwnershipInv, PublisherInv, PublishedInv,
        NewestPublished, Published, ToPublish
  <2>3. QED BY <2>1, <2>2
<1>4. EngineInv /\ PublicationInv => LastCommitIsVisible
  BY LastCommitSeen DEF EngineInv, PublicationInv
<1>5. QED
  BY <1>1, <1>2, <1>3, <1>4, EngineInvariant, InitIsolation, PTL DEF IsolationSpec

=============================================================================
