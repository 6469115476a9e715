----------------------- MODULE DurableStorageProofs -------------------------
(***************************************************************************)
(* Type correctness of the storage engine for every set of keys, values    *)
(* and threads and every bound: one lemma per chain operation, then one    *)
(* per group of actions, combined in TypeCorrect.                          *)
(***************************************************************************)
EXTENDS DurableStorage, TLAPS

\* The empty chain is well-formed.
LEMMA EmptyChainType == EmptyChain \in Chains(StoredValues, Nat)
  BY DEF EmptyChain, Chains

\* Installing a slot keeps a chain well-formed.
LEMMA AddUncommittedType ==
  ASSUME NEW c \in Chains(StoredValues, Nat), NEW v \in StoredValues, NEW id \in Nat
  PROVE  AddUncommitted(c, v, id) \in Chains(StoredValues, Nat)
  BY DEF AddUncommitted, Chains

\* Publishing a slot keeps a chain well-formed.
LEMMA CommitVersionType ==
  ASSUME NEW c \in Chains(StoredValues, Nat), NEW id \in Nat, NEW ts \in Nat
  PROVE  CommitVersion(c, id, ts) \in Chains(StoredValues, Nat)
  BY DEF CommitVersion, Chains

\* Dropping a slot keeps a chain well-formed.
LEMMA AbortVersionType ==
  ASSUME NEW c \in Chains(StoredValues, Nat), NEW id
  PROVE  AbortVersion(c, id) \in Chains(StoredValues, Nat)
  BY DEF AbortVersion, Chains

\* Garbage collection keeps a chain well-formed.
LEMMA GcByTsType ==
  ASSUME NEW c \in Chains(StoredValues, Nat), NEW m
  PROVE  GcByTs(c, m) \in Chains(StoredValues, Nat)
  BY DEF GcByTs, Newest, Below, Chains

\* One record of the replay loop keeps the types of its accumulators.
LEMMA ReplayOneType ==
  ASSUME WalTypeOK, NEW rec \in Records
  PROVE  ReplayOne(replay, rec) \in
             [pos : Nat,
              pending : [TxnIds -> [Keys -> WalValues \cup {NoWrite}]],
              result : [Keys -> WalValues \cup {NoWrite}]]
<1> USE DEF WalTypeOK, ReplayOne
<1>1. CASE rec \in ControlRecords
  <2>1. rec.type \in {"Begin", "Commit", "Abort"} /\ rec.txn \in TxnIds /\ rec.type # "Data"
    BY <1>1 DEF ControlRecords
  <2>2. Overwrite(replay.result, replay.pending[rec.txn]) \in [Keys -> WalValues \cup {NoWrite}]
    BY <2>1 DEF Overwrite
  <2>3. QED BY <2>1, <2>2
<1>2. CASE rec \in DataRecords
  BY <1>2 DEF DataRecords
<1>3. CASE rec \in OtherRecords
  BY <1>3 DEF OtherRecords
<1> QED BY <1>1, <1>2, <1>3 DEF Records

\* A thread that moves to well-typed locals stays well-typed.
LEMMA BecomeType ==
  ASSUME ThreadTypeOK, NEW t \in Threads, NEW l \in Locals, HasTxn(l), Become(t, l)
  PROVE  ThreadTypeOK'
  BY DEF ThreadTypeOK, Become

\* What the type invariant says of one thread, field by field.
LEMMA LocalsOf ==
  ASSUME ThreadTypeOK, NEW t \in Threads
  PROVE  /\ thread[t] \in Locals
         /\ HasTxn(thread[t])
         /\ thread[t].at \in Labels /\ thread[t].return \in Labels
         /\ thread[t].ts \in Nat /\ thread[t].min \in Nat
         /\ thread[t].todo \in SUBSET Keys
         /\ thread[t].at \in TxnLabels => thread[t].id \in TxnIds
  BY DEF ThreadTypeOK, Locals, HasTxn

\* Transaction ids are positive; 0 is the id of no transaction.
LEMMA TxnIdsNat == TxnIds \subseteq Nat /\ 0 \notin TxnIds
  BY MaxTxnIdAssumption DEF TxnIds

\* A thread between calls is well-typed.
LEMMA IdleType == Idle \in Locals /\ HasTxn(Idle)
  BY DEF Idle, Locals, Labels, HasTxn, TxnLabels

\* A fresh database is well-typed.
LEMMA InitTypeOK == Init => TypeOK
<1> SUFFICES ASSUME Init PROVE TypeOK
  OBVIOUS
<1>1. WalTypeOK
  BY DEF Init, WalTypeOK, ReplayStart, NothingPending
<1>2. MvccTypeOK
  BY DEF Init, MvccInit, MvccTypeOK, NoTransaction, NewTransaction, Transactions, Modes
<1>3. MemTableTypeOK /\ ClientTypeOK
  BY EmptyChainType DEF Init, MemTableTypeOK, ClientTypeOK, Handles
<1>4. ThreadTypeOK
  BY IdleType DEF Init, ThreadTypeOK
<1> QED BY <1>1, <1>2, <1>3, <1>4 DEF TypeOK

\* The steps of begin_transaction preserve the types.
LEMMA BeginTypeOK ==
  ASSUME TypeOK, NEW t \in Threads, BeginStep(t)
  PROVE  TypeOK'
<1>0. WalTypeOK /\ MvccTypeOK /\ MemTableTypeOK /\ ClientTypeOK /\ ThreadTypeOK
  BY DEF TypeOK
<1>1. ASSUME NEW mode \in ClientModes, BeginWithMode(t, mode) PROVE TypeOK'
  <2>1. PICK id \in TxnIds : BeginWithMode(t, mode)!(id)
    BY <1>1 DEF BeginWithMode
  <2>2. TxnBegin(id) \in Records
    BY DEF TxnBegin, Records, ControlRecords
  <2>3. WalTypeOK'
    BY <1>0, <2>1, <2>2 DEF Append1, AllocTxnId, WalTypeOK
  <2>4. MvccTypeOK'
    BY <1>0, <2>1, StorageAssumption DEF NewTransaction, Transactions, MvccTypeOK
  <2>5. MemTableTypeOK' /\ ClientTypeOK'
    BY <1>0, <2>1 DEF MemTableTypeOK, ClientTypeOK, Handles
  <2>6. ThreadTypeOK'
    BY <1>0, <2>1, BecomeType DEF Enter, Idle, Locals, Labels, HasTxn
  <2>7. QED
    BY <2>3, <2>4, <2>5, <2>6 DEF TypeOK
<1>2. ASSUME BeginReadOnlyFast(t) PROVE TypeOK'
  <2>1. PICK id \in TxnIds : BeginReadOnlyFast(t)!(id)
    BY <1>2 DEF BeginReadOnlyFast
  <2>2. WalTypeOK'
    BY <1>0, <2>1 DEF AllocTxnId, WalTypeOK
  <2>3. MvccTypeOK'
    BY <1>0, <2>1 DEF NewTransaction, Transactions, Modes, MvccTypeOK
  <2>4. MemTableTypeOK' /\ ClientTypeOK'
    BY <1>0, <2>1 DEF MemTableTypeOK, ClientTypeOK, Handles
  <2>5. ThreadTypeOK'
    BY <1>0, <2>1, BecomeType DEF Enter, Idle, Locals, Labels, HasTxn
  <2>6. QED
    BY <2>2, <2>3, <2>4, <2>5 DEF TypeOK
<1>3. ASSUME BeginInsert(t) PROVE TypeOK'
  <2>1. thread[t].id \in TxnIds
    BY <1>0, <1>3, LocalsOf DEF BeginInsert, In, TxnLabels, Labels
  <2>2. WalTypeOK' /\ MemTableTypeOK' /\ ClientTypeOK'
    BY <1>0, <1>3 DEF BeginInsert, walVars, WalTypeOK, MemTableTypeOK, ClientTypeOK
  <2>3. MvccTypeOK'
    BY <1>0, <1>3, <2>1 DEF BeginInsert, MvccTypeOK
  <2>4. ThreadTypeOK'
    BY <1>0, <1>3, <2>1, BecomeType, LocalsOf DEF BeginInsert, UpdateMinThen, Locals, Labels, HasTxn
  <2>5. QED
    BY <2>2, <2>3, <2>4 DEF TypeOK
<1> QED BY <1>1, <1>2, <1>3 DEF BeginStep

\* The two steps of update_min_active_ts preserve the types.
LEMMA UpdateMinTypeOK ==
  ASSUME TypeOK, NEW t \in Threads, UpdateMinStep(t)
  PROVE  TypeOK'
<1>0. WalTypeOK /\ MvccTypeOK /\ MemTableTypeOK /\ ClientTypeOK /\ ThreadTypeOK
  BY DEF TypeOK
<1>1. WalTypeOK' /\ MemTableTypeOK' /\ ClientTypeOK'
  BY <1>0 DEF UpdateMinStep, UpdateMinScan, UpdateMinStore, walVars, WalTypeOK,
              MemTableTypeOK, ClientTypeOK
<1>2. ASSUME UpdateMinScan(t) PROVE MvccTypeOK' /\ ThreadTypeOK'
  <2>1. LowestSnapshot \subseteq Nat
    BY <1>0 DEF LowestSnapshot, Transactions, MvccTypeOK
  <2>2. PICK min \in Nat : Become(t, [thread[t] EXCEPT !.at = "minStore", !.min = min])
    BY <1>2, <2>1 DEF UpdateMinScan
  <2>3. ThreadTypeOK'
    BY <1>0, <2>2, BecomeType, LocalsOf DEF Locals, Labels, HasTxn, TxnLabels
  <2>4. QED
    BY <1>0, <1>2, <2>3 DEF UpdateMinScan, mvccVars, MvccTypeOK
<1>3. ASSUME UpdateMinStore(t) PROVE MvccTypeOK' /\ ThreadTypeOK'
  <2>1. MvccTypeOK'
    BY <1>0, <1>3, LocalsOf DEF UpdateMinStore, MvccTypeOK
  <2>2. ThreadTypeOK'
    BY <1>0, <1>3, BecomeType, LocalsOf, IdleType
    DEF UpdateMinStore, Return, Locals, HasTxn
  <2>3. QED BY <2>1, <2>2
<1> QED BY <1>1, <1>2, <1>3 DEF UpdateMinStep, TypeOK

\* read, write and delete preserve the types.
LEMMA ReadWriteTypeOK ==
  ASSUME TypeOK, NEW t \in Threads, ReadStep(t) \/ WriteStep(t)
  PROVE  TypeOK'
<1>0. WalTypeOK /\ MvccTypeOK /\ MemTableTypeOK /\ ClientTypeOK /\ ThreadTypeOK
  BY DEF TypeOK
<1>1. ASSUME NEW id \in TxnIds, NEW key \in Keys, Read(t, id, key) PROVE TypeOK'
  <2>1. RecordRead(txn[id], key) \in Transactions
    BY <1>0 DEF RecordRead, Transactions, MvccTypeOK
  <2>2. MvccTypeOK'
    BY <1>0, <1>1, <2>1 DEF Read, MvccTypeOK
  <2>3. QED
    BY <1>0, <1>1, <2>2 DEF Read, walVars, storageVars, TypeOK, WalTypeOK, MemTableTypeOK,
                            ClientTypeOK, ThreadTypeOK
<1>2. ASSUME NEW id \in TxnIds, NEW key \in Keys, NEW value \in StoredValues,
             WriteKey(t, id, key, value)
      PROVE  TypeOK'
  <2>1. Data(id, key, value) \in DataRecords
    BY DEF Data, DataRecords, WalValue, WalValues, StoredValues
  <2>2. AddUncommitted(chains[key], value, id) \in Chains(StoredValues, Nat)
    BY <1>0, AddUncommittedType, TxnIdsNat DEF MemTableTypeOK
  <2>3. MemTableTypeOK'
    BY <1>0, <1>2, <2>2 DEF WriteKey, MemTableTypeOK
  <2>4. ClientTypeOK'
    BY <1>0, <1>2, <2>1 DEF WriteKey, ClientTypeOK, Handles
  <2>5. RecordWrite(txn[id], key) \in Transactions
    BY <1>0 DEF RecordWrite, Transactions, MvccTypeOK
  <2>6. MvccTypeOK'
    BY <1>0, <1>2, <2>5 DEF WriteKey, MvccTypeOK
  <2>7. WalTypeOK' /\ ThreadTypeOK'
    BY <1>0, <1>2 DEF WriteKey, walVars, WalTypeOK, ThreadTypeOK
  <2>8. QED
    BY <2>3, <2>4, <2>6, <2>7 DEF TypeOK
<1>3. QED
  BY <1>1, <1>2 DEF ReadStep, WriteStep, Write, Delete, StoredValues

\* The steps of commit preserve the types.
LEMMA CommitTypeOK ==
  ASSUME TypeOK, NEW t \in Threads, CommitStep(t)
  PROVE  TypeOK'
<1>0. WalTypeOK /\ MvccTypeOK /\ MemTableTypeOK /\ ClientTypeOK /\ ThreadTypeOK
  BY DEF TypeOK
<1> DEFINE id == thread[t].id
<1>a. ASSUME thread[t].at \in {"validate", "revalidate", "allocTs", "track", "commitRecord",
                               "sync", "publish"}
      PROVE  id \in TxnIds /\ id \in Nat
  BY <1>0, <1>a, LocalsOf, TxnIdsNat DEF TxnLabels, Labels
<1>1. ASSUME NEW i \in TxnIds, CommitFlush(t, i) PROVE TypeOK'
  <2>1. buffers[i] \in Seq(Records)
    BY <1>0 DEF ClientTypeOK, Records
  <2>2. WalTypeOK'
    BY <1>0, <1>1, <2>1 DEF CommitFlush, WalTypeOK
  <2>3. MvccTypeOK' /\ MemTableTypeOK' /\ ClientTypeOK'
    BY <1>0, <1>1 DEF CommitFlush, mvccVars, MvccTypeOK, MemTableTypeOK, ClientTypeOK
  <2>4. ThreadTypeOK'
    BY <1>0, <1>1, BecomeType DEF CommitFlush, Enter, Idle, Locals, Labels, HasTxn
  <2>5. QED
    BY <2>2, <2>3, <2>4 DEF TypeOK
<1>2. ASSUME CommitValidate(t) \/ CommitRevalidate(t) PROVE TypeOK'
  <2>1. ThreadTypeOK'
    BY <1>0, <1>a, <1>2, BecomeType, LocalsOf
    DEF CommitValidate, CommitRevalidate, In, Goto, Locals, Labels, HasTxn
  <2>2. QED
    BY <1>0, <1>2, <2>1 DEF CommitValidate, CommitRevalidate, walVars, mvccVars, TypeOK,
                            WalTypeOK, MvccTypeOK, MemTableTypeOK, ClientTypeOK
<1>3. ASSUME CommitRefused(t) PROVE TypeOK'
  <2>1. ThreadTypeOK'
    BY <1>0, <1>a, <1>3, BecomeType, LocalsOf
    DEF CommitRefused, In, UpdateMinThen, Locals, Labels, HasTxn, TxnLabels
  <2>2. MvccTypeOK'
    BY <1>0, <1>3 DEF CommitRefused, MvccTypeOK, NoTransaction, NewTransaction, Transactions, Modes
  <2>3. WalTypeOK' /\ MemTableTypeOK' /\ ClientTypeOK'
    BY <1>0, <1>3 DEF CommitRefused, walVars, WalTypeOK, MemTableTypeOK, ClientTypeOK, Handles
  <2>4. QED
    BY <2>1, <2>2, <2>3 DEF TypeOK
<1>4. ASSUME CommitAllocTs(t) PROVE TypeOK'
  <2>1. ThreadTypeOK'
    BY <1>0, <1>a, <1>4, BecomeType, LocalsOf
    DEF CommitAllocTs, In, Locals, Labels, HasTxn, MvccTypeOK
  <2>2. QED
    BY <1>0, <1>4, <2>1 DEF CommitAllocTs, walVars, TypeOK, WalTypeOK, MvccTypeOK,
                            MemTableTypeOK, ClientTypeOK
<1>5. ASSUME CommitTrack(t) PROVE TypeOK'
  <2>1. id \in TxnIds /\ txn[id] \in Transactions /\ thread[t].ts \in Nat
    BY <1>0, <1>5, <1>a, LocalsOf DEF CommitTrack, In, MvccTypeOK
  <2>2. TrackCommit(id, txn[id], thread[t].ts) \subseteq CommitEntries
    BY <1>0, <2>1 DEF TrackCommit, CommitEntries, Transactions, MvccTypeOK
  <2>3. MvccTypeOK'
    BY <1>0, <1>5, <2>2
    DEF CommitTrack, MvccTypeOK, NoTransaction, NewTransaction, Transactions, Modes
  <2>4. txn[id].writes \in SUBSET Keys
    BY <2>1 DEF Transactions
  <2>5. ThreadTypeOK'
    BY <1>0, <1>5, <2>1, <2>4, BecomeType, LocalsOf DEF CommitTrack, Locals, Labels, HasTxn
  <2>6. QED
    BY <1>0, <1>5, <2>3, <2>5 DEF CommitTrack, walVars, TypeOK, WalTypeOK, MemTableTypeOK,
                                  ClientTypeOK
<1>6. ASSUME CommitRecord(t) PROVE TypeOK'
  <2>1. id \in TxnIds
    BY <1>6, <1>a DEF CommitRecord, In
  <2>2. TxnCommit(id) \in Records
    BY <2>1 DEF TxnCommit, Records, ControlRecords
  <2>3. WalTypeOK'
    BY <1>0, <1>6, <2>2 DEF CommitRecord, Append1, WalTypeOK
  <2>4. ThreadTypeOK'
    BY <1>0, <1>6, <2>1, BecomeType, LocalsOf DEF CommitRecord, Goto, Locals, Labels, HasTxn
  <2>5. QED
    BY <1>0, <1>6, <2>3, <2>4 DEF CommitRecord, mvccVars, TypeOK, MvccTypeOK, MemTableTypeOK,
                                  ClientTypeOK
<1>7. ASSUME CommitSync(t) PROVE TypeOK'
  <2>1. ThreadTypeOK'
    BY <1>0, <1>a, <1>7, BecomeType, LocalsOf DEF CommitSync, In, Goto, Locals, Labels, HasTxn
  <2>2. WalTypeOK'
    BY <1>0, <1>7 DEF CommitSync, WalTypeOK
  <2>3. QED
    BY <1>0, <1>7, <2>1, <2>2 DEF CommitSync, mvccVars, TypeOK, MvccTypeOK, MemTableTypeOK,
                                  ClientTypeOK
<1>8. ASSUME CommitPublish(t) PROVE TypeOK'
  <2>1. id \in TxnIds /\ id \in Nat /\ thread[t].ts \in Nat
    BY <1>0, <1>8, <1>a, LocalsOf DEF CommitPublish, In
  <2>2. PICK key \in thread[t].todo :
               /\ chains' = [chains EXCEPT ![key] = CommitVersion(@, id, thread[t].ts)]
               /\ Become(t, [thread[t] EXCEPT !.todo = @ \ {key}])
    BY <1>8 DEF CommitPublish
  <2>3. MemTableTypeOK'
    <3>1. CommitVersion(chains[key], id, thread[t].ts) \in Chains(StoredValues, Nat)
      BY <1>0, <2>1, CommitVersionType, LocalsOf DEF MemTableTypeOK
    <3>2. QED
      BY <1>0, <1>8, <2>2, <3>1 DEF CommitPublish, MemTableTypeOK
  <2>4. ThreadTypeOK'
    BY <1>0, <2>1, <2>2, BecomeType, LocalsOf DEF Locals, HasTxn
  <2>5. QED
    BY <1>0, <1>8, <2>3, <2>4 DEF CommitPublish, walVars, mvccVars, TypeOK, WalTypeOK,
                                  MvccTypeOK, ClientTypeOK
<1>9. ASSUME CommitDone(t) PROVE TypeOK'
  <2>1. ThreadTypeOK'
    BY <1>0, <1>9, BecomeType, IdleType DEF CommitDone, Return
  <2>2. ClientTypeOK'
    BY <1>0, <1>9 DEF CommitDone, ClientTypeOK, Handles
  <2>3. QED
    BY <1>0, <1>9, <2>1, <2>2 DEF CommitDone, walVars, mvccVars, TypeOK, WalTypeOK,
                                  MvccTypeOK, MemTableTypeOK
<1>10. ASSUME CommitSyncFails(t) PROVE TypeOK'
  <2>1. ThreadTypeOK'
    BY <1>0, <1>10, BecomeType, IdleType DEF CommitSyncFails, Return
  <2>2. ClientTypeOK'
    BY <1>0, <1>10 DEF CommitSyncFails, ClientTypeOK, Handles
  <2>3. QED
    BY <1>0, <1>10, <2>1, <2>2 DEF CommitSyncFails, walVars, mvccVars, TypeOK, WalTypeOK,
                                   MvccTypeOK, MemTableTypeOK
<1>11. ASSUME GroupSync(t) PROVE TypeOK'
  <2>1. WalTypeOK'
    BY <1>0, <1>11 DEF GroupSync, WalTypeOK
  <2>2. QED
    BY <1>0, <1>11, <2>1 DEF GroupSync, storageVars, mvccVars, TypeOK, MvccTypeOK,
                             MemTableTypeOK, ClientTypeOK, ThreadTypeOK
<1> QED BY <1>1, <1>2, <1>3, <1>4, <1>5, <1>6, <1>7, <1>8, <1>9, <1>10, <1>11 DEF CommitStep

\* The steps of abort preserve the types.
LEMMA AbortTypeOK ==
  ASSUME TypeOK, NEW t \in Threads, AbortStep(t)
  PROVE  TypeOK'
<1>0. WalTypeOK /\ MvccTypeOK /\ MemTableTypeOK /\ ClientTypeOK /\ ThreadTypeOK
  BY DEF TypeOK
<1>1. PICK id \in TxnIds : Abort(t, id) \/ AbortReadOnlyFast(t, id)
  BY DEF AbortStep
<1>2. MvccTypeOK'
  BY <1>0, <1>1 DEF Abort, AbortReadOnlyFast, MvccTypeOK, NoTransaction, NewTransaction,
                    Transactions, Modes
<1>3. ThreadTypeOK'
  <2>1. thread[t].at = "idle" /\ UpdateMinThen(t, "idle")
    BY <1>1 DEF Abort, AbortReadOnlyFast, MayCall
  <2>2. QED
    BY <1>0, <2>1, BecomeType, LocalsOf DEF UpdateMinThen, Locals, Labels, HasTxn, TxnLabels
<1>4. ClientTypeOK'
  <2>1. /\ buffers' = buffers \/ buffers' = [buffers EXCEPT ![id] = << >>]
        /\ handles' = [handles EXCEPT ![id] = "free"]
        /\ UNCHANGED <<status, crashes>>
    BY <1>1, Zenon DEF Abort, AbortReadOnlyFast
  <2>2. << >> \in Seq(DataRecords)
    OBVIOUS
  <2>3. buffers' \in [TxnIds -> Seq(DataRecords)]
    BY <1>0, <2>1, <2>2, Zenon DEF ClientTypeOK
  <2>4. QED
    BY <1>0, <2>1, <2>3 DEF ClientTypeOK, Handles
<1>5. CASE AbortReadOnlyFast(t, id)
  BY <1>0, <1>2, <1>3, <1>4, <1>5
  DEF AbortReadOnlyFast, walVars, TypeOK, WalTypeOK, MemTableTypeOK
<1>6. CASE Abort(t, id)
  <2>1. TxnAbort(id) \in Records
    BY DEF TxnAbort, Records, ControlRecords
  <2>2. CASE buffers[id] # << >>
    <3>0. /\ wal' = Append(wal, TxnAbort(id)) 
          /\ UNCHANGED <<synced, nextTxnId, replay>>
      BY <1>6, <2>2, Zenon DEF Abort, Append1
    <3>1. WalTypeOK'
      BY <1>0, <2>1, <3>0 DEF WalTypeOK
    <3>2. chains' = [k \in Keys |-> AbortVersion(chains[k], id)] /\ dirtyKeys' = dirtyKeys
      BY <1>6, <2>2 DEF Abort
    <3>3. MemTableTypeOK'
      BY <1>0, <3>2, AbortVersionType DEF MemTableTypeOK
    <3>4. QED
      BY <1>2, <1>3, <1>4, <3>1, <3>3 DEF TypeOK
  <2>3. CASE buffers[id] = << >>
    BY <1>0, <1>2, <1>3, <1>4, <1>6, <2>3 DEF Abort, TypeOK, WalTypeOK, MemTableTypeOK
  <2>4. QED BY <2>2, <2>3
<1> QED BY <1>1, <1>5, <1>6

\* gc and checkpoint preserve the types.
LEMMA MaintenanceTypeOK ==
  ASSUME TypeOK, NEW t \in Threads, MaintenanceStep(t)
  PROVE  TypeOK'
<1>0. WalTypeOK /\ MvccTypeOK /\ MemTableTypeOK /\ ClientTypeOK /\ ThreadTypeOK
  BY DEF TypeOK
<1>1. ASSUME GcLoad(t) PROVE TypeOK'
  <2>1. ThreadTypeOK'
    BY <1>0, <1>1, BecomeType, LocalsOf
    DEF GcLoad, Locals, Labels, HasTxn, TxnLabels, MvccTypeOK
  <2>2. QED
    BY <1>0, <1>1, <2>1 DEF GcLoad, walVars, mvccVars, TypeOK, WalTypeOK, MvccTypeOK,
                            MemTableTypeOK, ClientTypeOK
<1>2. ASSUME GcSweep(t) PROVE TypeOK'
  <2>1. MemTableTypeOK'
    BY <1>0, <1>2, GcByTsType DEF GcSweep, MemTableTypeOK
  <2>2. ThreadTypeOK'
    BY <1>0, <1>2, BecomeType, IdleType DEF GcSweep, Return
  <2>3. QED
    BY <1>0, <1>2, <2>1, <2>2 DEF GcSweep, walVars, mvccVars, TypeOK, WalTypeOK, MvccTypeOK,
                                  ClientTypeOK
<1>3. ASSUME Checkpoint(t) PROVE TypeOK'
  <2>1. CheckpointRecord \in Records
    BY DEF CheckpointRecord, Records, OtherRecords
  <2>2. WalTypeOK'
    BY <1>0, <1>3, <2>1 DEF Checkpoint, AppendSync, WalTypeOK
  <2>3. QED
    BY <1>0, <1>3, <2>2 DEF Checkpoint, mvccVars, storageVars, TypeOK, MvccTypeOK,
                            MemTableTypeOK, ClientTypeOK, ThreadTypeOK
<1> QED BY <1>1, <1>2, <1>3 DEF MaintenanceStep

\* Crash, shutdown, open and each step of recovery preserve the types.
LEMMA RestartTypeOK ==
  ASSUME TypeOK, RestartStep
  PROVE  TypeOK'
<1>0. WalTypeOK /\ MvccTypeOK /\ MemTableTypeOK /\ ClientTypeOK /\ ThreadTypeOK
  BY DEF TypeOK
<1>1. ASSUME Forget, wal' \in Seq(Records), synced' \in 0..Len(wal') PROVE TypeOK'
  <2>1. WalTypeOK'
    BY <1>1 DEF Forget, WalTypeOK, ReplayStart, NothingPending
  <2>2. MvccTypeOK'
    BY <1>1 DEF Forget, MvccReset, MvccTypeOK, NoTransaction, NewTransaction, Transactions, Modes
  <2>3. MemTableTypeOK' /\ ClientTypeOK'
    BY <1>0, <1>1, EmptyChainType DEF Forget, MemTableTypeOK, ClientTypeOK, Handles
  <2>4. ThreadTypeOK'
    BY <1>1, IdleType DEF Forget, ThreadTypeOK
  <2>5. QED BY <2>1, <2>2, <2>3, <2>4 DEF TypeOK
<1>2. CASE Crash
  <2>1. PICK n \in synced..Len(wal) :
               \/ wal' = SubSeq(wal, 1, n)
               \/ n < Len(wal) /\ wal' = Append(SubSeq(wal, 1, n), TornRecord)
    BY <1>2 DEF Crash, LoseTail
  <2>2. TornRecord \in Records
    BY DEF TornRecord, Records, OtherRecords
  <2>3. n \in 0..Len(wal) /\ synced <= n
    BY <1>0 DEF WalTypeOK
  <2>4. SubSeq(wal, 1, n) \in Seq(Records) /\ Len(SubSeq(wal, 1, n)) = n
    BY <1>0, <2>3 DEF WalTypeOK
  <2>5. wal' \in Seq(Records) /\ Len(wal') >= n
    BY <2>1, <2>2, <2>3, <2>4
  <2>6. synced' \in 0..Len(wal')
    BY <1>0, <1>2, <2>3, <2>5 DEF Crash, WalTypeOK
  <2>7. QED
    BY <1>1, <1>2, <2>5, <2>6 DEF Crash
<1>3. CASE Shutdown
  <2>1. wal' \in Seq(Records) /\ synced' \in 0..Len(wal')
    BY <1>0, <1>3 DEF Shutdown, WalTypeOK
  <2>2. QED
    BY <1>1, <1>3, <2>1 DEF Shutdown
<1>4. CASE Open
  <2>1. IdsSeen \subseteq Nat
    <3>1. ASSUME NEW i \in ReadableRecords, wal[i].type \notin {"Checkpoint", "Torn"}
          PROVE  wal[i].txn \in Nat
      <4>1. wal[i] \in Records
        BY <1>0 DEF ReadableRecords, WalTypeOK
      <4>2. QED
        BY <3>1, <4>1, TxnIdsNat DEF Records, ControlRecords, DataRecords, OtherRecords
    <3>2. QED BY <3>1 DEF IdsSeen
  <2>2. nextTxnId' \in Nat
    BY <1>4, <2>1 DEF Open, RecoverState
  <2>3. QED
    BY <1>0, <1>4, <2>2 DEF Open, mvccVars, TypeOK, WalTypeOK, MvccTypeOK, MemTableTypeOK,
                            ClientTypeOK, ThreadTypeOK
<1>5. CASE ReplayRecord
  <2>1. wal[replay.pos + 1] \in Records
    BY <1>0, <1>5 DEF ReplayRecord, ReadableRecords, WalTypeOK
  <2>2. WalTypeOK'
    BY <1>0, <1>5, <2>1, ReplayOneType DEF ReplayRecord, WalTypeOK
  <2>3. QED
    BY <1>0, <1>5, <2>2 DEF ReplayRecord, mvccVars, storageVars, TypeOK, MvccTypeOK,
                            MemTableTypeOK, ClientTypeOK, ThreadTypeOK
<1>6. CASE FinishRecover
  <2>1. MemTableTypeOK'
    <3>1. ASSUME NEW k \in Keys, replay.result[k] # NoWrite
          PROVE  [committed |-> {[value |-> replay.result[k], txn |-> nextTxnId, ts |-> tsCounter]},
                  uncommitted |-> {}] \in Chains(StoredValues, Nat)
      BY <1>0, <3>1 DEF WalTypeOK, MvccTypeOK, Chains, StoredValues, WalValues
    <3>2. QED
      BY <1>6, <3>1, EmptyChainType DEF FinishRecover, MemTableTypeOK
  <2>2. WalTypeOK'
    BY <1>0, <1>6 DEF FinishRecover, WalTypeOK, ReplayStart, NothingPending
  <2>3. QED
    BY <1>0, <1>6, <2>1, <2>2 DEF FinishRecover, TypeOK, MvccTypeOK, ClientTypeOK, ThreadTypeOK
<1> QED BY <1>2, <1>3, <1>4, <1>5, <1>6 DEF RestartStep

\* Type correctness: whatever the interleaving of the threads' calls, crashes
\* and recoveries, every variable of the storage engine keeps its type.
THEOREM TypeCorrect == Spec => []TypeOK
<1>1. TypeOK /\ [Next]_vars => TypeOK'
  <2> SUFFICES ASSUME TypeOK, [Next]_vars PROVE TypeOK'
    OBVIOUS
  <2>1. CASE UNCHANGED vars
    BY <2>1 DEF vars, walVars, mvccVars, storageVars, TypeOK, WalTypeOK, MvccTypeOK,
                MemTableTypeOK, ClientTypeOK, ThreadTypeOK
  <2>2. ASSUME NEW t \in Threads, ThreadStep(t) PROVE TypeOK'
    BY <2>2, BeginTypeOK, UpdateMinTypeOK, ReadWriteTypeOK, CommitTypeOK, AbortTypeOK,
       MaintenanceTypeOK DEF ThreadStep
  <2>3. QED
    BY <2>1, <2>2, RestartTypeOK DEF Next
<1>2. QED
  BY <1>1, InitTypeOK, PTL DEF Spec
=============================================================================
