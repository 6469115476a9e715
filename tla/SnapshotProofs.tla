--------------------------- MODULE SnapshotProofs ---------------------------
(***************************************************************************)
(* Snapshot stability for every number of keys, transactions, crashes and  *)
(* restarts, when one thread at a time is in a call of the storage engine  *)
(* (the embedded, single-threaded use).  With two threads it does not      *)
(* hold: the model checker has the counterexample.                         *)
(***************************************************************************)
EXTENDS DurableStorageProofs

OneThread == \A t, u \in Threads : t = u

-----------------------------------------------------------------------------
(* The version chain.                                                      *)

\* Garbage collection at a watermark at or below a snapshot does not change
\* what the snapshot sees: the anchor version gc_by_ts keeps is enough.
THEOREM GcPreservesVisible ==
  ASSUME NEW c \in Chains(StoredValues, Nat), NEW m \in Nat, NEW s \in Nat, m <= s
  PROVE  Visible(GcByTs(c, m), s) = Visible(c, s)
<1> DEFINE C == c.committed
           N == Newest(Below(C, m))
           D == GcByTs(c, m).committed
<1>1. /\ D = {v \in C : v.ts >= m} \cup N
      /\ \A v \in C : v.ts \in Nat
  BY DEF GcByTs, Chains
<1>2. \A v : v \in Below(D, s) <=> v \in C /\ v.ts < s /\ (v.ts >= m \/ v \in N)
  BY <1>1 DEF Below, Newest
<1>3. CASE \E u \in C : m <= u.ts /\ u.ts < s
  <2>1. PICK u \in C : m <= u.ts /\ u.ts < s
    BY <1>3
  <2>2. u \in Below(D, s) /\ u \in Below(C, s)
    BY <1>2, <2>1 DEF Below
  <2>3. ASSUME NEW v \in Newest(Below(D, s)) PROVE v \in Newest(Below(C, s))
    <3>1. v \in C /\ v.ts < s /\ v.ts \in Nat /\ u.ts <= v.ts
      BY <1>1, <1>2, <2>2 DEF Newest
    <3>2. ASSUME NEW w \in Below(C, s) PROVE w.ts <= v.ts
      <4>1. CASE w.ts >= m
        BY <1>2, <4>1 DEF Below, Newest
      <4>2. CASE ~(w.ts >= m)
        BY <1>1, <2>1, <3>1, <4>2 DEF Below
      <4>3. QED BY <4>1, <4>2
    <3>3. QED BY <3>1, <3>2 DEF Newest, Below
  <2>4. ASSUME NEW v \in Newest(Below(C, s)) PROVE v \in Newest(Below(D, s))
    <3>1. v \in C /\ v.ts < s /\ u.ts <= v.ts
      BY <2>2 DEF Newest, Below
    <3>2. v \in Below(D, s)
      BY <1>1, <1>2, <2>1, <3>1
    <3>3. \A w \in Below(D, s) : w.ts <= v.ts
      BY <1>2 DEF Newest, Below
    <3>4. QED BY <3>2, <3>3 DEF Newest
  <2>5. QED BY <2>3, <2>4 DEF Visible
<1>4. CASE ~ \E u \in C : m <= u.ts /\ u.ts < s
  <2>1. Below(C, s) = Below(C, m)
    BY <1>1, <1>4 DEF Below
  <2>2. Below(D, s) = N
    BY <1>1, <1>2, <1>4 DEF Below, Newest
  <2>3. Newest(N) = N
    BY DEF Newest
  <2>4. QED BY <2>1, <2>2, <2>3 DEF Visible
<1> QED BY <1>3, <1>4

\* A version committed at or above a snapshot is invisible to it.
LEMMA CommitPreservesVisible ==
  ASSUME NEW c \in Chains(StoredValues, Nat), NEW id, NEW ts \in Nat, NEW s \in Nat, s <= ts
  PROVE  Visible(CommitVersion(c, id, ts), s) = Visible(c, s)
<1>1. CASE OwnsSlot(c, id)
  <2>1. CommitVersion(c, id, ts).committed =
            c.committed \cup {[v EXCEPT !.ts = ts] : v \in c.uncommitted}
    BY <1>1 DEF CommitVersion
  <2>2. \A v \in c.uncommitted : [v EXCEPT !.ts = ts].ts = ts
    BY DEF Chains
  <2>3. Below(CommitVersion(c, id, ts).committed, s) = Below(c.committed, s)
    BY <2>1, <2>2 DEF Below, Chains
  <2>4. QED BY <2>3 DEF Visible
<1>2. CASE ~OwnsSlot(c, id)
  BY <1>2 DEF CommitVersion
<1> QED BY <1>1, <1>2

\* Installing or dropping an uncommitted slot changes what no snapshot sees.
LEMMA SlotPreservesVisible ==
  ASSUME NEW c \in Chains(StoredValues, Nat), NEW v, NEW id, NEW s
  PROVE  /\ Visible(AddUncommitted(c, v, id), s) = Visible(c, s)
         /\ Visible(AbortVersion(c, id), s) = Visible(c, s)
  BY DEF AddUncommitted, AbortVersion, Visible, Chains

-----------------------------------------------------------------------------
(* The inductive invariant.                                                *)

\* A fresh database has no snapshot to break.
LEMMA InitSnapshotInv == Init => SnapshotInv
<1> SUFFICES ASSUME Init PROVE SnapshotInv
  OBVIOUS
<1>1. /\ tsCounter = 1 /\ minActiveTs = 0 /\ activeTxns = {} /\ status = "down"
      /\ \A id \in TxnIds : txn[id].snapshot = 0
      /\ \A t \in Threads : thread[t] = Idle
  BY DEF Init, MvccInit, NoTransaction, NewTransaction
<1>2. QED
  BY <1>1 DEF SnapshotInv, NoSnapshotBelow, NoSnapshotAbove, Committing, Idle

\* With one thread, its new locals are all the threads there are.
LEMMA OnlyThread ==
  ASSUME OneThread, ThreadTypeOK, NEW t \in Threads, NEW l, Become(t, l)
  PROVE  \A u \in Threads : u = t /\ thread'[u] = l
  BY DEF OneThread, Become, ThreadTypeOK

\* What the invariant says of one thread's locals.
ThreadPart(locals) ==
    /\ locals.return \in {"idle", "commitRecord"}
    /\ locals.at = "insert" => /\ minActiveTs <= txn[locals.id].snapshot
                               /\ locals.id < nextTxnId
    /\ locals.at = "minStore" => locals.min <= tsCounter
    /\ locals.at \in {"minStore", "gcSweep"} => NoSnapshotBelow(locals.min)
    /\ Committing(locals) => NoSnapshotAbove(locals.ts)

SharedPart ==
    /\ \A id \in TxnIds : txn[id].snapshot <= tsCounter
    /\ minActiveTs <= tsCounter /\ NoSnapshotBelow(minActiveTs)
    /\ \A id \in activeTxns : id < nextTxnId

\* The invariant is one part about shared state and one per thread.
LEMMA SplitInv ==
  SnapshotInv <=> /\ SharedPart
                  /\ status # "open" => activeTxns = {} /\ \A t \in Threads : thread[t] = Idle
                  /\ \A t \in Threads : ThreadPart(thread[t])
  BY DEF SnapshotInv, SharedPart, ThreadPart

\* The same split in the next state.
LEMMA SplitInvNext ==
  SnapshotInv' <=> /\ SharedPart'
                   /\ status' # "open" => activeTxns' = {} /\ \A t \in Threads : thread'[t] = Idle
                   /\ \A t \in Threads : ThreadPart(thread[t])'
  BY DEF SnapshotInv, SharedPart, ThreadPart

\* The steps of begin_transaction preserve the invariant.
LEMMA BeginSnapshotInv ==
  ASSUME OneThread, TypeOK, SnapshotInv, NEW t \in Threads, BeginStep(t)
  PROVE  SnapshotInv'
<1>0. SharedPart /\ ThreadPart(thread[t]) /\ MvccTypeOK /\ WalTypeOK /\ ThreadTypeOK
  BY SplitInv DEF TypeOK
<1>1. ASSUME NEW id \in TxnIds, NEW mode, status = "open", AllocTxnId(id),
             txn' = [txn EXCEPT ![id] = NewTransaction(mode, tsCounter)],
             Enter(t, "insert", id),
             UNCHANGED <<tsCounter, minActiveTs, activeTxns, status>>
      PROVE  SnapshotInv'
  <2>1. id = nextTxnId /\ nextTxnId' = nextTxnId + 1 /\ id \notin activeTxns /\ id \in Nat
    BY <1>0, <1>1, TxnIdsNat DEF AllocTxnId, SharedPart, MvccTypeOK, WalTypeOK
  <2>2. /\ txn'[id].snapshot = tsCounter
        /\ \A i \in TxnIds : i # id => txn'[i] = txn[i]
    BY <1>0, <1>1 DEF NewTransaction, MvccTypeOK
  <2>3. SharedPart'
    BY <1>0, <1>1, <2>1, <2>2, TxnIdsNat DEF SharedPart, NoSnapshotBelow, MvccTypeOK, WalTypeOK
  <2>4. \A u \in Threads : thread'[u] = [Idle EXCEPT !.at = "insert", !.id = id]
    BY <1>0, <1>1, OnlyThread DEF Enter
  <2>5. \A u \in Threads : /\ thread'[u].at = "insert" /\ thread'[u].id = id
                           /\ thread'[u].return = "idle"
    BY <2>4 DEF Idle
  <2>6. minActiveTs' <= txn'[id].snapshot /\ id < nextTxnId'
    BY <1>0, <1>1, <2>1, <2>2 DEF SharedPart
  <2>7. \A u \in Threads : ThreadPart(thread[u])'
    BY <2>5, <2>6 DEF ThreadPart, Committing
  <2>8. QED
    BY <1>1, <2>3, <2>7, SplitInvNext
<1>2. ASSUME NEW mode \in ClientModes, BeginWithMode(t, mode) PROVE SnapshotInv'
  BY <1>1, <1>2 DEF BeginWithMode, MayCall
<1>3. ASSUME BeginReadOnlyFast(t) PROVE SnapshotInv'
  BY <1>1, <1>3 DEF BeginReadOnlyFast, MayCall
<1>4. ASSUME BeginInsert(t) PROVE SnapshotInv'
  <2>1. /\ thread[t].at = "insert" /\ status' = "open"
        /\ activeTxns' = activeTxns \cup {thread[t].id}
        /\ UNCHANGED <<tsCounter, minActiveTs, txn, nextTxnId>>
        /\ UpdateMinThen(t, "idle")
    BY <1>4 DEF BeginInsert, In, walVars
  <2>2. SharedPart'
    BY <1>0, <2>1 DEF SharedPart, ThreadPart, NoSnapshotBelow
  <2>3. \A u \in Threads : thread'[u] = [thread[t] EXCEPT !.at = "minScan", !.return = "idle"]
    BY <1>0, <2>1, OnlyThread DEF UpdateMinThen
  <2>4. \A u \in Threads : thread'[u].at = "minScan" /\ thread'[u].return = "idle"
    BY <1>0, <2>3, LocalsOf DEF Locals
  <2>5. \A u \in Threads : ThreadPart(thread[u])'
    BY <2>4 DEF ThreadPart, Committing
  <2>6. QED
    BY <2>1, <2>2, <2>5, SplitInvNext
<1> QED BY <1>2, <1>3, <1>4 DEF BeginStep

\* The scan and the store of update_min_active_ts preserve the invariant.
LEMMA UpdateMinSnapshotInv ==
  ASSUME OneThread, TypeOK, SnapshotInv, NEW t \in Threads, UpdateMinStep(t)
  PROVE  SnapshotInv'
<1>0. SharedPart /\ ThreadPart(thread[t]) /\ MvccTypeOK /\ WalTypeOK /\ ThreadTypeOK
  BY SplitInv DEF TypeOK
<1>1. ASSUME UpdateMinScan(t) PROVE SnapshotInv'
  <2>1. PICK min \in LowestSnapshot : Become(t, [thread[t] EXCEPT !.at = "minStore", !.min = min])
    BY <1>1 DEF UpdateMinScan
  <2>2. min <= tsCounter /\ NoSnapshotBelow(min)
    <3>1. CASE activeTxns = {}
      BY <1>0, <2>1, <3>1 DEF LowestSnapshot, NoSnapshotBelow, MvccTypeOK
    <3>2. CASE activeTxns # {}
      BY <1>0, <2>1, <3>2 DEF LowestSnapshot, NoSnapshotBelow, MvccTypeOK, SharedPart
    <3>3. QED BY <3>1, <3>2
  <2>3. /\ UNCHANGED <<tsCounter, minActiveTs, activeTxns, txn, nextTxnId>> /\ status' = "open"
    BY <1>1 DEF UpdateMinScan, In, walVars, mvccVars
  <2>4. \A u \in Threads : thread'[u] = [thread[t] EXCEPT !.at = "minStore", !.min = min]
    BY <1>0, <2>1, OnlyThread
  <2>5. \A u \in Threads : /\ thread'[u].at = "minStore" /\ thread'[u].min = min
                           /\ thread'[u].return = thread[t].return /\ thread'[u].ts = thread[t].ts
    BY <1>0, <2>4, LocalsOf DEF Locals
  <2>6. \A u \in Threads : ThreadPart(thread[u])'
    BY <1>0, <2>2, <2>3, <2>5 DEF ThreadPart, Committing, NoSnapshotBelow, NoSnapshotAbove
  <2>7. SharedPart'
    BY <1>0, <2>3 DEF SharedPart, NoSnapshotBelow
  <2>8. QED
    BY <2>3, <2>6, <2>7, SplitInvNext
<1>2. ASSUME UpdateMinStore(t) PROVE SnapshotInv'
  <2>1. /\ UNCHANGED <<tsCounter, activeTxns, txn, nextTxnId>> /\ status' = "open"
        /\ thread[t].at = "minStore" /\ minActiveTs' = thread[t].min
    BY <1>2 DEF UpdateMinStore, In, walVars
  <2>2. SharedPart'
    BY <1>0, <2>1 DEF SharedPart, ThreadPart, NoSnapshotBelow
  <2>3. CASE thread[t].return = "idle"
    <3>1. \A u \in Threads : thread'[u] = Idle
      BY <1>0, <1>2, <2>3, OnlyThread DEF UpdateMinStore, Return
    <3>2. \A u \in Threads : ThreadPart(thread[u])'
      BY <3>1 DEF ThreadPart, Committing, Idle
    <3>3. QED
      BY <2>1, <2>2, <3>2, SplitInvNext
  <2>4. CASE thread[t].return = "commitRecord"
    <3>1. \A u \in Threads : thread'[u] = [thread[t] EXCEPT !.at = thread[t].return, !.min = 0]
      BY <1>0, <1>2, <2>4, OnlyThread DEF UpdateMinStore
    <3>2. \A u \in Threads : /\ thread'[u].at = "commitRecord" /\ thread'[u].ts = thread[t].ts
                             /\ thread'[u].return = "commitRecord"
      BY <1>0, <2>4, <3>1, LocalsOf DEF Locals
    <3>3. \A u \in Threads : ThreadPart(thread[u])'
      BY <1>0, <2>1, <2>4, <3>2 DEF ThreadPart, Committing, NoSnapshotAbove
    <3>4. QED
      BY <2>1, <2>2, <3>3, SplitInvNext
  <2>5. QED
    BY <1>0, <2>3, <2>4 DEF ThreadPart
<1> QED BY <1>1, <1>2 DEF UpdateMinStep

\* A step that takes no snapshot: transactions may end, time may pass.
NoNewSnapshot ==
    /\ activeTxns' \subseteq activeTxns
    /\ tsCounter' \in Nat /\ tsCounter <= tsCounter'
    /\ UNCHANGED <<minActiveTs, nextTxnId>>
    /\ \A id \in TxnIds : \/ txn'[id].snapshot = txn[id].snapshot
                          \/ txn'[id].snapshot = 0 /\ id \notin activeTxns'

\* A step that starts no transaction keeps every bound on the snapshots.
LEMMA NoNewSnapshotKeeps ==
  ASSUME SharedPart, MvccTypeOK, NoNewSnapshot
  PROVE  /\ SharedPart'
         /\ \A b : NoSnapshotAbove(b) => \A id \in activeTxns' : txn'[id].snapshot <= b
<1>1. /\ \A id \in TxnIds : txn[id].snapshot \in Nat
      /\ activeTxns \subseteq TxnIds /\ tsCounter \in Nat /\ minActiveTs \in Nat
  BY DEF MvccTypeOK, Transactions
<1>2. \A id \in activeTxns' : id \in activeTxns /\ txn'[id].snapshot = txn[id].snapshot
  BY <1>1 DEF NoNewSnapshot
<1>3. \A id \in TxnIds : txn'[id].snapshot <= tsCounter'
  BY <1>1 DEF NoNewSnapshot, SharedPart
<1>4. SharedPart'
  BY <1>1, <1>2, <1>3 DEF SharedPart, NoNewSnapshot, NoSnapshotBelow
<1>5. QED
  BY <1>2, <1>4 DEF NoSnapshotAbove

\* A call that goes on without a watermark or a new transaction in hand.
LEMMA MoveSnapshotInv ==
  ASSUME OneThread, TypeOK, SnapshotInv, NoNewSnapshot, status' = "open",
         NEW t \in Threads, NEW l, Become(t, l),
         l.return \in {"idle", "commitRecord"},
         l.at \notin {"insert", "minStore", "gcSweep"},
         Committing(l) => NoSnapshotAbove(l.ts)
  PROVE  SnapshotInv'
<1>0. SharedPart /\ MvccTypeOK /\ ThreadTypeOK
  BY SplitInv DEF TypeOK
<1>1. SharedPart' /\ \A b : NoSnapshotAbove(b) => \A id \in activeTxns' : txn'[id].snapshot <= b
  BY <1>0, NoNewSnapshotKeeps
<1>2. \A u \in Threads : thread'[u] = l
  BY <1>0, OnlyThread
<1>3. \A u \in Threads : ThreadPart(thread[u])'
  BY <1>1, <1>2 DEF ThreadPart, Committing, NoSnapshotAbove
<1>4. QED
  BY <1>1, <1>3, SplitInvNext

\* read, write and delete preserve the invariant.
LEMMA ReadWriteSnapshotInv ==
  ASSUME OneThread, TypeOK, SnapshotInv, NEW t \in Threads, ReadStep(t) \/ WriteStep(t)
  PROVE  SnapshotInv'
<1>0. SharedPart /\ ThreadPart(thread[t]) /\ MvccTypeOK /\ ThreadTypeOK
  BY SplitInv DEF TypeOK
<1>1. /\ status' = "open" /\ UNCHANGED <<tsCounter, minActiveTs, activeTxns, nextTxnId, thread>>
      /\ thread[t].at = "idle"
  BY DEF ReadStep, WriteStep, Read, Write, Delete, WriteKey, MayCall, walVars, storageVars
<1>2. \A id \in TxnIds : txn'[id].snapshot = txn[id].snapshot
  <2>1. ASSUME NEW id \in TxnIds, NEW key \in Keys, Read(t, id, key)
        PROVE  \A i \in TxnIds : txn'[i].snapshot = txn[i].snapshot
    <3>1. RecordRead(txn[id], key).snapshot = txn[id].snapshot
      BY <1>0 DEF RecordRead, MvccTypeOK, Transactions
    <3>2. QED
      BY <1>0, <2>1, <3>1 DEF Read, MvccTypeOK
  <2>2. ASSUME NEW id \in TxnIds, NEW key \in Keys, NEW value, WriteKey(t, id, key, value)
        PROVE  \A i \in TxnIds : txn'[i].snapshot = txn[i].snapshot
    <3>1. RecordWrite(txn[id], key).snapshot = txn[id].snapshot
      BY <1>0 DEF RecordWrite, MvccTypeOK, Transactions
    <3>2. txn' = txn \/ txn' = [txn EXCEPT ![id] = RecordWrite(@, key)]
      BY <2>2 DEF WriteKey
    <3>3. QED
      BY <1>0, <3>1, <3>2 DEF MvccTypeOK
  <2>3. QED
    BY <2>1, <2>2 DEF ReadStep, WriteStep, Write, Delete
<1>3. NoNewSnapshot
  BY <1>0, <1>1, <1>2 DEF NoNewSnapshot, MvccTypeOK
<1>4. Become(t, thread[t])
  BY <1>0, <1>1 DEF Become, ThreadTypeOK
<1>5. QED
  BY <1>0, <1>1, <1>3, <1>4, MoveSnapshotInv DEF ThreadPart

\* The steps of commit preserve the invariant.
LEMMA CommitSnapshotInv ==
  ASSUME OneThread, TypeOK, SnapshotInv, NEW t \in Threads, CommitStep(t)
  PROVE  SnapshotInv'
<1>0. SharedPart /\ ThreadPart(thread[t]) /\ MvccTypeOK /\ ThreadTypeOK
  BY SplitInv DEF TypeOK
<1>1. ASSUME UNCHANGED <<mvccVars, nextTxnId>> PROVE NoNewSnapshot
  BY <1>0, <1>1 DEF mvccVars, NoNewSnapshot, MvccTypeOK
<1>2. ASSUME NEW id \in TxnIds, activeTxns' = activeTxns \ {id},
             txn' = [txn EXCEPT ![id] = NoTransaction],
             UNCHANGED <<tsCounter, minActiveTs, nextTxnId>>
      PROVE  NoNewSnapshot
  BY <1>0, <1>2 DEF NoNewSnapshot, MvccTypeOK, NoTransaction, NewTransaction
<1>3. CASE \E id \in TxnIds : CommitFlush(t, id)
  <2>1. PICK id \in TxnIds : CommitFlush(t, id)
    BY <1>3
  <2>2. /\ UNCHANGED <<mvccVars, nextTxnId>> /\ status' = "open"
        /\ Become(t, [Idle EXCEPT !.at = "validate", !.id = id])
    BY <2>1 DEF CommitFlush, Enter, MayCall
  <2>3. QED
    BY <1>1, <2>2, MoveSnapshotInv DEF Idle, Committing
<1>4. CASE CommitValidate(t) \/ CommitRevalidate(t)
  <2>1. PICK label \in {"allocTs", "revalidate"} : Become(t, [thread[t] EXCEPT !.at = label])
    BY <1>4 DEF CommitValidate, CommitRevalidate, Goto
  <2>2. UNCHANGED <<mvccVars, nextTxnId>> /\ status' = "open"
    BY <1>4 DEF CommitValidate, CommitRevalidate, In, walVars
  <2> DEFINE l == [thread[t] EXCEPT !.at = label]
  <2>3. l.at = label /\ l.return = thread[t].return /\ l.ts = thread[t].ts
    BY <1>0, LocalsOf DEF Locals
  <2> HIDE DEF l
  <2>4. Become(t, l)
    BY <2>1 DEF l
  <2>5. QED
    BY <1>0, <1>1, <2>2, <2>3, <2>4, MoveSnapshotInv DEF Committing, ThreadPart
<1>5. CASE CommitRefused(t)
  <2>1. thread[t].id \in TxnIds
    BY <1>0, <1>5, LocalsOf DEF CommitRefused, In, TxnLabels, Labels
  <2>2. NoNewSnapshot
    BY <1>2, <1>5, <2>1 DEF CommitRefused, walVars
  <2>3. status' = "open" /\ Become(t, [thread[t] EXCEPT !.at = "minScan", !.return = "idle"])
    BY <1>5 DEF CommitRefused, UpdateMinThen, In
  <2>4. /\ [thread[t] EXCEPT !.at = "minScan", !.return = "idle"].at = "minScan"
        /\ [thread[t] EXCEPT !.at = "minScan", !.return = "idle"].return = "idle"
    BY <1>0, LocalsOf DEF Locals
  <2>5. QED
    BY <2>2, <2>3, <2>4, MoveSnapshotInv DEF Committing
<1>6. CASE CommitAllocTs(t)
  <2>1. /\ UNCHANGED <<minActiveTs, activeTxns, txn, nextTxnId>> /\ tsCounter' = tsCounter + 1
        /\ status' = "open"
        /\ Become(t, [thread[t] EXCEPT !.at = "track", !.ts = tsCounter])
    BY <1>6 DEF CommitAllocTs, In, walVars
  <2>2. NoNewSnapshot
    BY <1>0, <2>1 DEF NoNewSnapshot, MvccTypeOK
  <2>3. /\ [thread[t] EXCEPT !.at = "track", !.ts = tsCounter].at = "track"
        /\ [thread[t] EXCEPT !.at = "track", !.ts = tsCounter].return = thread[t].return
        /\ [thread[t] EXCEPT !.at = "track", !.ts = tsCounter].ts = tsCounter
    BY <1>0, LocalsOf DEF Locals
  <2>4. NoSnapshotAbove(tsCounter)
    BY <1>0 DEF SharedPart, NoSnapshotAbove, MvccTypeOK
  <2>5. QED
    BY <1>0, <2>1, <2>2, <2>3, <2>4, MoveSnapshotInv DEF ThreadPart
<1>7. CASE CommitTrack(t)
  <2> DEFINE l == [thread[t] EXCEPT !.at = "minScan", !.return = "commitRecord",
                                    !.todo = txn[thread[t].id].writes]
  <2>1. thread[t].id \in TxnIds
    BY <1>0, <1>7, LocalsOf DEF CommitTrack, In, TxnLabels, Labels
  <2>2. NoNewSnapshot
    BY <1>2, <1>7, <2>1 DEF CommitTrack, walVars
  <2>3. status' = "open" /\ Become(t, l) /\ thread[t].at = "track"
    BY <1>7 DEF CommitTrack, In
  <2>4. l.at = "minScan" /\ l.return = "commitRecord" /\ l.ts = thread[t].ts
    BY <1>0, LocalsOf DEF Locals
  <2>5. NoSnapshotAbove(l.ts)
    BY <1>0, <2>3, <2>4 DEF ThreadPart, Committing
  <2> HIDE DEF l
  <2>6. QED
    BY <2>2, <2>3, <2>4, <2>5, MoveSnapshotInv
<1>8. CASE CommitRecord(t) \/ CommitSync(t) \/ CommitPublish(t)
  <2>1. /\ UNCHANGED <<mvccVars, nextTxnId>> /\ status' = "open"
        /\ thread[t].at \in {"commitRecord", "sync", "publish"}
    BY <1>8 DEF CommitRecord, CommitSync, CommitPublish, In, walVars
  <2>2. \E l \in Locals : /\ Become(t, l)
                          /\ l.return = thread[t].return /\ l.ts = thread[t].ts
                          /\ l.at \in {"sync", "publish"}
    <3>1. CASE CommitRecord(t)
      BY <1>0, <3>1, LocalsOf DEF CommitRecord, Goto, Locals, Labels
    <3>2. CASE CommitSync(t)
      BY <1>0, <3>2, LocalsOf DEF CommitSync, Goto, Locals, Labels
    <3>3. CASE CommitPublish(t)
      <4>1. PICK key \in thread[t].todo : Become(t, [thread[t] EXCEPT !.todo = @ \ {key}])
        BY <3>3 DEF CommitPublish
      <4>2. QED
        BY <1>0, <3>3, <4>1, LocalsOf DEF CommitPublish, In, Locals
    <3>4. QED BY <1>8, <3>1, <3>2, <3>3
  <2>3. NoSnapshotAbove(thread[t].ts)
    BY <1>0, <2>1 DEF ThreadPart, Committing
  <2>4. QED
    BY <1>0, <1>1, <2>1, <2>2, <2>3, MoveSnapshotInv DEF ThreadPart
<1>9. CASE CommitDone(t) \/ CommitSyncFails(t)
  <2>1. UNCHANGED <<mvccVars, nextTxnId>> /\ status' = "open" /\ Become(t, Idle)
    BY <1>9 DEF CommitDone, CommitSyncFails, Return, In, walVars
  <2>2. QED
    BY <1>1, <2>1, MoveSnapshotInv DEF Idle, Committing
<1>10. CASE GroupSync(t)
  <2>1. /\ UNCHANGED <<mvccVars, nextTxnId>> /\ status' = "open"
        /\ thread[t].at = "sync" /\ Become(t, thread[t])
    BY <1>0, <1>10 DEF GroupSync, In, storageVars, Become, ThreadTypeOK
  <2>2. NoSnapshotAbove(thread[t].ts)
    BY <1>0, <2>1 DEF ThreadPart, Committing
  <2>3. QED
    BY <1>0, <1>1, <2>1, <2>2, MoveSnapshotInv DEF ThreadPart
<1> QED BY <1>3, <1>4, <1>5, <1>6, <1>7, <1>8, <1>9, <1>10 DEF CommitStep

\* The steps of abort preserve the invariant.
LEMMA AbortSnapshotInv ==
  ASSUME OneThread, TypeOK, SnapshotInv, NEW t \in Threads, AbortStep(t)
  PROVE  SnapshotInv'
<1>0. SharedPart /\ ThreadPart(thread[t]) /\ MvccTypeOK /\ ThreadTypeOK
  BY SplitInv DEF TypeOK
<1> DEFINE l == [thread[t] EXCEPT !.at = "minScan", !.return = "idle"]
<1>1. PICK id \in TxnIds : Abort(t, id) \/ AbortReadOnlyFast(t, id)
  BY DEF AbortStep
<1>2. /\ activeTxns' = activeTxns \ {id}
      /\ txn' = [txn EXCEPT ![id] = NoTransaction]
      /\ UNCHANGED <<tsCounter, minActiveTs, nextTxnId>>
      /\ status' = "open" /\ Become(t, l)
  BY <1>1 DEF Abort, AbortReadOnlyFast, MayCall, UpdateMinThen, walVars
<1>3. NoNewSnapshot
  BY <1>0, <1>2 DEF NoNewSnapshot, MvccTypeOK, NoTransaction, NewTransaction
<1>4. l.at = "minScan" /\ l.return = "idle"
  BY <1>0, LocalsOf DEF Locals
<1> HIDE DEF l
<1>5. QED
  BY <1>2, <1>3, <1>4, MoveSnapshotInv DEF Committing

\* gc and checkpoint preserve the invariant.
LEMMA MaintenanceSnapshotInv ==
  ASSUME OneThread, TypeOK, SnapshotInv, NEW t \in Threads, MaintenanceStep(t)
  PROVE  SnapshotInv'
<1>0. SharedPart /\ ThreadPart(thread[t]) /\ MvccTypeOK /\ ThreadTypeOK
  BY SplitInv DEF TypeOK
<1>1. /\ UNCHANGED <<tsCounter, minActiveTs, activeTxns, txn, nextTxnId>> /\ status' = "open"
      /\ NoNewSnapshot
  BY <1>0 DEF MaintenanceStep, GcLoad, GcSweep, Checkpoint, In, walVars, mvccVars, storageVars,
              NoNewSnapshot, MvccTypeOK
<1>2. CASE GcLoad(t)
  <2>1. \A u \in Threads : thread'[u] = [thread[t] EXCEPT !.at = "gcSweep", !.min = minActiveTs]
    BY <1>0, <1>2, OnlyThread DEF GcLoad
  <2>2. \A u \in Threads : /\ thread'[u].at = "gcSweep" /\ thread'[u].min = minActiveTs
                           /\ thread'[u].return = thread[t].return /\ thread'[u].ts = thread[t].ts
    BY <1>0, <2>1, LocalsOf DEF Locals
  <2>3. SharedPart'
    BY <1>0, <1>1, NoNewSnapshotKeeps
  <2>4. \A u \in Threads : ThreadPart(thread[u])'
    BY <1>0, <1>1, <2>2, <2>3
    DEF ThreadPart, SharedPart, Committing, NoSnapshotBelow, NoSnapshotAbove
  <2>5. QED
    BY <1>1, <2>3, <2>4, SplitInvNext
<1>3. CASE GcSweep(t)
  BY <1>1, <1>3, MoveSnapshotInv DEF GcSweep, Return, Idle, Committing
<1>4. CASE Checkpoint(t)
  <2>1. thread[t].at = "idle" /\ Become(t, thread[t])
    BY <1>0, <1>4 DEF Checkpoint, In, storageVars, Become, ThreadTypeOK
  <2>2. QED
    BY <1>0, <1>1, <2>1, MoveSnapshotInv DEF ThreadPart
<1> QED BY <1>2, <1>3, <1>4 DEF MaintenanceStep

\* Outside of the open state there is no transaction and no call in progress.
LEMMA RestartSnapshotInv ==
  ASSUME TypeOK, SnapshotInv, RestartStep
  PROVE  SnapshotInv'
<1>0. SharedPart /\ MvccTypeOK /\ ThreadTypeOK
  BY SplitInv DEF TypeOK
<1>1. SUFFICES /\ tsCounter' \in Nat /\ minActiveTs' <= tsCounter' /\ activeTxns' = {}
               /\ \A id \in TxnIds : txn'[id].snapshot <= tsCounter'
               /\ \A t \in Threads : thread'[t] = Idle
  <2>1. SharedPart'
    BY <1>1 DEF SharedPart, NoSnapshotBelow
  <2>2. \A t \in Threads : ThreadPart(thread[t])'
    BY <1>1 DEF ThreadPart, Idle, Committing
  <2>3. QED
    BY <1>1, <2>1, <2>2, SplitInvNext
<1>2. CASE Crash \/ Shutdown
  <2>1. Forget
    BY <1>2 DEF Crash, Shutdown
  <2>2. QED
    BY <2>1 DEF Forget, MvccReset, NoTransaction, NewTransaction
<1>3. CASE Open \/ ReplayRecord \/ FinishRecover
  <2>1. activeTxns = {} /\ \A t \in Threads : thread[t] = Idle
    BY <1>3, SplitInv DEF Open, ReplayRecord, FinishRecover
  <2>2. /\ UNCHANGED <<minActiveTs, activeTxns, txn, thread>>
        /\ tsCounter' \in {tsCounter, tsCounter + 1}
    BY <1>3 DEF Open, ReplayRecord, FinishRecover, mvccVars, storageVars
  <2>3. \A id \in TxnIds : txn[id].snapshot \in Nat
    BY <1>0 DEF MvccTypeOK, Transactions
  <2>4. QED
    BY <1>0, <2>1, <2>2, <2>3 DEF SharedPart, MvccTypeOK
<1> QED BY <1>2, <1>3 DEF RestartStep

\* The watermark stays below every active snapshot, and no snapshot is taken
\* between a commit's timestamp and its publication, across every sequence of
\* calls, crashes and restarts of one thread.
THEOREM SnapshotInvariant ==
  ASSUME OneThread
  PROVE  Spec => []SnapshotInv
<1>1. TypeOK /\ SnapshotInv /\ [Next]_vars => SnapshotInv'
  <2> SUFFICES ASSUME TypeOK, SnapshotInv, [Next]_vars PROVE SnapshotInv'
    OBVIOUS
  <2>1. CASE UNCHANGED vars
    BY <2>1 DEF vars, walVars, mvccVars, storageVars, SnapshotInv, NoSnapshotBelow,
                NoSnapshotAbove, Committing
  <2>2. ASSUME NEW t \in Threads, ThreadStep(t) PROVE SnapshotInv'
    BY <2>2, BeginSnapshotInv, UpdateMinSnapshotInv, ReadWriteSnapshotInv, CommitSnapshotInv,
       AbortSnapshotInv, MaintenanceSnapshotInv DEF ThreadStep
  <2>3. QED
    BY <2>1, <2>2, RestartSnapshotInv DEF Next
<1>2. QED
  BY <1>1, InitSnapshotInv, TypeCorrect, PTL DEF Spec

-----------------------------------------------------------------------------
(* From the invariant to the action property.                              *)

\* A transaction keeps its snapshot timestamp for as long as it is active.
LEMMA SnapshotTsFixed ==
  ASSUME TypeOK, SnapshotInv, NEW t \in Threads, ThreadStep(t),
         NEW id \in activeTxns \cap activeTxns'
  PROVE  txn'[id].snapshot = txn[id].snapshot
<1>0. SharedPart /\ MvccTypeOK /\ WalTypeOK /\ id \in TxnIds
  BY SplitInv DEF TypeOK, MvccTypeOK
<1>1. ASSUME NEW i \in TxnIds, i # id, NEW x, txn' = [txn EXCEPT ![i] = x]
      PROVE  txn'[id].snapshot = txn[id].snapshot
  BY <1>0, <1>1 DEF MvccTypeOK
<1>2. CASE BeginStep(t)
  <2>1. ASSUME NEW i \in TxnIds, AllocTxnId(i) PROVE i # id
    BY <1>0, <2>1, TxnIdsNat DEF AllocTxnId, SharedPart, WalTypeOK
  <2>2. QED
    BY <1>1, <1>2, <2>1 DEF BeginStep, BeginWithMode, BeginReadOnlyFast, BeginInsert
<1>3. CASE UpdateMinStep(t) \/ MaintenanceStep(t)
  BY <1>3 DEF UpdateMinStep, UpdateMinScan, UpdateMinStore, MaintenanceStep, GcLoad, GcSweep,
              Checkpoint, mvccVars
<1>4. CASE ReadStep(t)
  <2>1. PICK i \in TxnIds, key \in Keys : Read(t, i, key)
    BY <1>4 DEF ReadStep
  <2>2. RecordRead(txn[i], key).snapshot = txn[i].snapshot
    BY <1>0 DEF RecordRead, MvccTypeOK, Transactions
  <2>3. QED
    BY <1>0, <2>1, <2>2 DEF Read, MvccTypeOK
<1>5. CASE WriteStep(t)
  <2>1. PICK i \in TxnIds, key \in Keys, value \in StoredValues : WriteKey(t, i, key, value)
    BY <1>5 DEF WriteStep, Write, Delete, StoredValues
  <2>2. RecordWrite(txn[i], key).snapshot = txn[i].snapshot
    BY <1>0 DEF RecordWrite, MvccTypeOK, Transactions
  <2>3. txn' = txn \/ txn' = [txn EXCEPT ![i] = RecordWrite(@, key)]
    BY <2>1 DEF WriteKey
  <2>4. QED
    BY <1>0, <2>2, <2>3 DEF MvccTypeOK
<1>6. CASE CommitStep(t)
  <2>1. CASE UNCHANGED txn
    BY <2>1
  <2>2. CASE CommitRefused(t) \/ CommitTrack(t)
    <3>1. thread[t].id # id
      BY <2>2 DEF CommitRefused, CommitTrack
    <3>2. txn' = [txn EXCEPT ![thread[t].id] = NoTransaction]
      BY <2>2 DEF CommitRefused, CommitTrack
    <3>3. QED
      BY <1>0, <3>1, <3>2 DEF MvccTypeOK
  <2>3. QED
    BY <1>6, <2>1, <2>2 DEF CommitStep, CommitFlush, CommitValidate, CommitRevalidate,
                            CommitAllocTs, CommitRecord, GroupSync, CommitSync, CommitSyncFails,
                            CommitPublish, CommitDone, mvccVars, storageVars
<1>7. CASE AbortStep(t)
  <2>1. PICK i \in TxnIds : Abort(t, i) \/ AbortReadOnlyFast(t, i)
    BY <1>7 DEF AbortStep
  <2>2. activeTxns' = activeTxns \ {i} /\ txn' = [txn EXCEPT ![i] = NoTransaction]
    BY <2>1 DEF Abort, AbortReadOnlyFast
  <2>3. QED
    BY <1>1, <2>2
<1> QED BY <1>2, <1>3, <1>4, <1>5, <1>6, <1>7 DEF ThreadStep

\* No step of a call changes what a snapshot at or below the timestamps of
\* the commit in progress, and at or above the watermark in hand, sees.
LEMMA StepPreservesVisible ==
  ASSUME TypeOK, NEW t \in Threads, ThreadStep(t), NEW s \in Nat,
         Committing(thread[t]) => s <= thread[t].ts,
         thread[t].at = "gcSweep" => thread[t].min <= s,
         NEW key \in Keys
  PROVE  Visible(chains'[key], s) = Visible(chains[key], s)
<1>0. ThreadTypeOK /\ chains \in [Keys -> Chains(StoredValues, Nat)]
  BY DEF TypeOK, MemTableTypeOK
<1>1. CASE UNCHANGED chains
  BY <1>1
<1>2. CASE WriteStep(t)
  <2>1. PICK id \in TxnIds, k \in Keys, value \in StoredValues : WriteKey(t, id, k, value)
    BY <1>2 DEF WriteStep, Write, Delete, StoredValues
  <2>2. chains' = chains \/ chains' = [chains EXCEPT ![k] = AddUncommitted(@, value, id)]
    BY <2>1 DEF WriteKey
  <2>3. QED
    BY <1>0, <2>2, SlotPreservesVisible
<1>3. CASE AbortStep(t)
  <2>1. PICK id \in TxnIds : Abort(t, id) \/ AbortReadOnlyFast(t, id)
    BY <1>3 DEF AbortStep
  <2>2. chains' = chains \/ chains' = [k \in Keys |-> AbortVersion(chains[k], id)]
    BY <2>1, Zenon DEF Abort, AbortReadOnlyFast
  <2>3. QED
    BY <1>0, <2>2, SlotPreservesVisible
<1>4. CASE CommitPublish(t)
  <2>1. PICK k \in thread[t].todo :
             chains' = [chains EXCEPT ![k] = CommitVersion(@, thread[t].id, thread[t].ts)]
    BY <1>4 DEF CommitPublish
  <2>2. s <= thread[t].ts /\ thread[t].ts \in Nat
    BY <1>0, <1>4, LocalsOf DEF CommitPublish, In, Committing
  <2>3. QED
    BY <1>0, <2>1, <2>2, CommitPreservesVisible
<1>5. CASE GcSweep(t)
  <2>1. thread[t].min <= s /\ thread[t].min \in Nat
    BY <1>0, <1>5, LocalsOf DEF GcSweep, In
  <2>2. chains'[key] = chains[key] \/ chains'[key] = GcByTs(chains[key], thread[t].min)
    BY <1>0, <1>5 DEF GcSweep
  <2>3. QED
    BY <1>0, <2>1, <2>2, GcPreservesVisible
<1>6. QED
  BY <1>1, <1>2, <1>3, <1>4, <1>5
  DEF ThreadStep, BeginStep, BeginWithMode, BeginReadOnlyFast, BeginInsert, UpdateMinStep,
      UpdateMinScan, UpdateMinStore, ReadStep, Read, CommitStep, CommitFlush, CommitValidate,
      CommitRevalidate, CommitRefused, CommitAllocTs, CommitTrack, CommitRecord, GroupSync,
      CommitSync, CommitSyncFails, CommitDone, MaintenanceStep, GcLoad, Checkpoint, storageVars

\* Snapshot isolation of reads: with one thread in the engine, nothing that
\* happens while a transaction is active (commits of other transactions,
\* aborts, garbage collection) changes what it sees of any key.  For every
\* number of keys, values, transactions, crashes and restarts.
THEOREM SnapshotStable ==
  ASSUME OneThread
  PROVE  Spec => SnapshotReadsStable
<1>1. TypeOK /\ SnapshotInv /\ [Next]_vars
          => [\A id \in activeTxns \cap activeTxns' : SnapshotUnchanged(id)]_vars
  <2> SUFFICES ASSUME TypeOK, SnapshotInv, Next, NEW id \in activeTxns \cap activeTxns'
               PROVE  SnapshotUnchanged(id)
    OBVIOUS
  <2>1. ASSUME NEW t \in Threads, ThreadStep(t) PROVE SnapshotUnchanged(id)
    <3>1. txn'[id].snapshot = txn[id].snapshot
      BY <2>1, SnapshotTsFixed
    <3>2. txn[id].snapshot \in Nat
      BY DEF TypeOK, MvccTypeOK, Transactions
    <3>3. /\ Committing(thread[t]) => txn[id].snapshot <= thread[t].ts
          /\ thread[t].at = "gcSweep" => thread[t].min <= txn[id].snapshot
      BY SplitInv DEF ThreadPart, NoSnapshotAbove, NoSnapshotBelow
    <3>4. \A key \in Keys : Visible(chains'[key], txn[id].snapshot)
                          = Visible(chains[key], txn[id].snapshot)
      BY <2>1, <3>2, <3>3, StepPreservesVisible
    <3>5. QED
      BY <3>1, <3>4 DEF SnapshotUnchanged
  <2>2. CASE RestartStep
    BY <2>2, SplitInv DEF RestartStep, Crash, Shutdown, Open, ReplayRecord, FinishRecover,
                          Forget, MvccReset
  <2>3. QED
    BY <2>1, <2>2 DEF Next
<1>2. Spec => []TypeOK /\ []SnapshotInv
  BY TypeCorrect, SnapshotInvariant
<1>3. QED
  BY <1>1, <1>2, PTL DEF Spec, SnapshotReadsStable
=============================================================================
