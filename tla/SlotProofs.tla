----------------------------- MODULE SlotProofs -----------------------------
(***************************************************************************)
(* What ties the uncommitted slot of a key, the call its owner is in and   *)
(* the log together, for any number of threads: nobody publishes a key he  *)
(* does not own, so the commits of a key are logged in the order of their  *)
(* timestamps, and a slot outlives its handle only after a refused commit. *)
(***************************************************************************)
EXTENDS DurableStorageProofs

-----------------------------------------------------------------------------
(* Threads.                                                                *)

\* The commit call has decided: the transaction has left active_txns.
Decided(l) == l.return = "commitRecord"

\* Its commit record is in the log.
Recorded(l) == l.at \in {"sync", "publish"}

\* It has flushed its data and not yet decided.
Deciding(l) == l.at \in {"validate", "revalidate", "allocTs", "track"}

InCommit(l) == Deciding(l) \/ Decided(l)

CallShape(l) ==
    /\ l.at = "idle" => l = Idle
    /\ l.return \in {"idle", "commitRecord"}
    /\ Decided(l) => l.at \in {"minScan", "minStore", "commitRecord", "sync", "publish"}
    /\ l.at \in {"commitRecord", "sync", "publish"} => Decided(l)

Closed ==
    /\ \A t \in Threads : thread[t] = Idle
    /\ \A key \in Keys : chains[key] = EmptyChain
    /\ \A id \in TxnIds : handles[id] = "free" /\ buffers[id] = << >>
    /\ activeTxns = {} /\ tsCounter = 1

\* A transaction is in one call at a time, and there is nothing in memory
\* while the database is not open.
CallInv ==
    /\ \A t \in Threads : CallShape(thread[t])
    /\ \A t, u \in Threads : thread[t].id = thread[u].id /\ thread[t].id # 0 => t = u
    /\ status # "open" => Closed

-----------------------------------------------------------------------------
(* Slots and the order of commits.                                         *)

\* Thread t will publish the key.
Publishes(t, key) == Committing(thread[t]) /\ OwnsSlot(chains[key], thread[t].id)

LoggedAt(log, id, i) == i \in 1..Len(log) /\ log[i] = TxnCommit(id)

LoggedBefore(log, id, j) == \E i \in 1..Len(log) : i < j /\ LoggedAt(log, id, i)

KeyOrder(key) ==
    /\ \A v, w \in chains[key].uncommitted : v.txn = w.txn
    /\ \A v \in chains[key].committed :
          v.ts < tsCounter /\ (1 < v.ts => \E i \in 1..Len(wal) : LoggedAt(wal, v.txn, i))
    /\ \A t \in Threads : Publishes(t, key) =>
          \A v \in chains[key].committed : v.ts < thread[t].ts
    /\ \A t \in Threads : Publishes(t, key) /\ Recorded(thread[t]) =>
          \E j \in 1..Len(wal) :
              /\ LoggedAt(wal, thread[t].id, j)
              /\ \A v \in chains[key].committed : 1 < v.ts => LoggedBefore(wal, v.txn, j)
    /\ \A v, w \in chains[key].committed :
          1 < v.ts /\ v.ts < w.ts =>
              \E j \in 1..Len(wal) : LoggedAt(wal, w.txn, j) /\ LoggedBefore(wal, v.txn, j)

OrderInv ==
    /\ 1 <= tsCounter
    /\ \A t \in Threads : Committing(thread[t]) => thread[t].ts < tsCounter
    /\ \A key \in Keys : KeyOrder(key)

-----------------------------------------------------------------------------
(* Slots and handles.                                                      *)

DataIn(log, id, key) ==
    \E i \in 1..Len(log) : log[i].type = "Data" /\ log[i].txn = id /\ log[i].key = key

\* The slot of the key is held by transaction id.
SlotOf(key, id) ==
    /\ id \in TxnIds /\ id < nextTxnId
    /\ handles[id] # "fast"
    /\ (handles[id] \in {"open", "failed"} /\ ~\E t \in Threads : InCommit(thread[t]) /\ thread[t].id = id)
          => DataIn(buffers[id], id, key) /\ key \in txn[id].writes
    /\ \A t \in Threads : Deciding(thread[t]) /\ thread[t].id = id =>
          key \in txn[id].writes /\ DataIn(wal, id, key)
    /\ \A t \in Threads : Decided(thread[t]) /\ thread[t].id = id =>
          key \in thread[t].todo /\ DataIn(wal, id, key)
    /\ handles[id] \in {"free", "dead"} => DataIn(wal, id, key)

SlotInv == \A key \in Keys : \A v \in chains[key].uncommitted : SlotOf(key, v.txn)

HandleOf(id) ==
    /\ nextTxnId <= id => handles[id] = "free" /\ \A t \in Threads : thread[t].id # id
    /\ \A i \in 1..Len(buffers[id]) : buffers[id][i].txn = id
    /\ buffers[id] # << >> => handles[id] \in {"open", "failed"}
    /\ \A t \in Threads : InCommit(thread[t]) /\ thread[t].id = id =>
          handles[id] = "open" /\ buffers[id] = << >>
    /\ \A t \in Threads : thread[t].at = "insert" /\ thread[t].id = id =>
          handles[id] \in {"open", "fast"} /\ buffers[id] = << >>
    /\ (handles[id] \in {"open", "failed"}
          /\ ~\E t \in Threads : (thread[t].at = "insert" \/ Decided(thread[t])) /\ thread[t].id = id)
       => id \in activeTxns

HandleInv == \A id \in TxnIds : HandleOf(id)

-----------------------------------------------------------------------------
(* The end of a transaction in the log.                                    *)

Intact == \A i \in 1..Len(wal) : wal[i].type # "Torn"

HasRecord(log, id) ==
    \E i \in 1..Len(log) : log[i].type \in {"Begin", "Commit", "Abort", "Data"} /\ log[i].txn = id

\* An id that is still to be given has no record in an intact log.
FreshInv ==
    Intact /\ status # "down" => \A id \in TxnIds : nextTxnId <= id => ~HasRecord(wal, id)

EndedIn(log, id) == \E i \in 1..Len(log) : log[i] \in {TxnCommit(id), TxnAbort(id)}

\* While its handle is in use a transaction has no end in the log, unless its
\* commit call is past the record; nor has one that left a slot behind.
EndedInv ==
    /\ Intact
    /\ \A id \in TxnIds :
          handles[id] # "free" /\ ~(\E t \in Threads : Recorded(thread[t]) /\ thread[t].id = id)
          => ~EndedIn(wal, id)
    /\ \A key \in Keys : \A v \in chains[key].uncommitted :
          handles[v.txn] = "free" => ~EndedIn(wal, v.txn)

-----------------------------------------------------------------------------
(* Calls.                                                                  *)

\* Become changes one thread.
LEMMA OtherThreads ==
  ASSUME ThreadTypeOK, NEW t \in Threads, NEW l, Become(t, l)
  PROVE  thread'[t] = l /\ \A u \in Threads \ {t} : thread'[u] = thread[u]
  BY DEF ThreadTypeOK, Become

\* A step of a thread inside the open database.
Moves(t, l) ==
    /\ Become(t, l) /\ CallShape(l)
    /\ status = "open" /\ status' = "open"
    /\ l.id \in {0, thread[t].id} \/ \A u \in Threads : thread[u].id # l.id

\* Such a step preserves the invariant on calls.
LEMMA MovesCallInv ==
  ASSUME ThreadTypeOK, CallInv, NEW t \in Threads, NEW l, Moves(t, l)
  PROVE  CallInv'
<1>1. thread'[t] = l /\ \A u \in Threads \ {t} : thread'[u] = thread[u]
  BY OtherThreads DEF Moves
<1>2. \A u \in Threads : CallShape(thread[u])'
  BY <1>1 DEF CallInv, Moves, CallShape, Decided
<1>3. \A u, w \in Threads : thread'[u].id = thread'[w].id /\ thread'[u].id # 0 => u = w
  BY <1>1 DEF CallInv, Moves
<1> QED BY <1>2, <1>3 DEF CallInv, Moves

\* What a thread's locals are after each way of moving them.
LEMMA LocalsAfter ==
  ASSUME ThreadTypeOK, NEW t \in Threads, NEW label, NEW id
  PROVE  /\ LET l == [thread[t] EXCEPT !.at = label]
            IN  /\ l.at = label /\ l.return = thread[t].return /\ l.id = thread[t].id
                /\ l.ts = thread[t].ts /\ l.todo = thread[t].todo
         /\ LET l == [thread[t] EXCEPT !.at = "minScan", !.return = label]
            IN  /\ l.at = "minScan" /\ l.return = label /\ l.id = thread[t].id
                /\ l.ts = thread[t].ts /\ l.todo = thread[t].todo
         /\ LET l == [Idle EXCEPT !.at = label, !.id = id]
            IN  /\ l.at = label /\ l.return = "idle" /\ l.id = id
                /\ l.ts = 0 /\ l.todo = {}
  BY LocalsOf DEF Locals, Idle

\* No call is left when the database closes.
LEMMA RestartCallInv ==
  ASSUME TypeOK, CallInv, RestartStep
  PROVE  CallInv'
<1>0. MemTableTypeOK /\ ClientTypeOK /\ ThreadTypeOK
  BY DEF TypeOK
<1>1. CASE Crash \/ Shutdown
  <2>1. Closed' /\ \A t \in Threads : thread'[t] = Idle
    BY <1>1 DEF Crash, Shutdown, Forget, MvccReset, Closed
  <2>2. QED
    BY <2>1 DEF CallInv, CallShape, Decided, Idle
<1>2. CASE Open \/ ReplayRecord \/ FinishRecover
  <2>1. UNCHANGED <<thread, handles, buffers, activeTxns>>
    BY <1>2 DEF Open, ReplayRecord, FinishRecover, storageVars, mvccVars
  <2>2. status' # "open" => UNCHANGED <<chains, tsCounter>>
    BY <1>2 DEF Open, ReplayRecord, FinishRecover, storageVars, mvccVars
  <2>3. status # "open"
    BY <1>2 DEF Open, ReplayRecord, FinishRecover
  <2>4. QED
    BY <2>1, <2>2, <2>3 DEF CallInv, Closed, CallShape, Decided
<1> QED BY <1>1, <1>2 DEF RestartStep

\* A thread that starts a call on a transaction of its own.
LEMMA EnterMoves ==
  ASSUME TypeOK, CallInv, NEW t \in Threads, NEW id \in TxnIds, NEW label \in {"insert", "validate"},
         MayCall(t, id), Enter(t, label, id), status' = status
  PROVE  /\ Moves(t, thread'[t]) /\ thread[t] = Idle
         /\ thread'[t] = [Idle EXCEPT !.at = label, !.id = id]
         /\ thread'[t].at = label /\ thread'[t].id = id /\ thread'[t].return = "idle"
<1> DEFINE l == [Idle EXCEPT !.at = label, !.id = id]
<1>0. ThreadTypeOK /\ CallShape(thread[t]) /\ Become(t, l)
  BY DEF TypeOK, CallInv, Enter
<1>1. l.at = label /\ l.id = id /\ l.return = "idle" /\ thread'[t] = l
  BY <1>0, LocalsAfter, OtherThreads
<1>2. thread[t] = Idle
  BY <1>0 DEF MayCall, CallShape
<1>3. Moves(t, l)
  <2> HIDE DEF l
  <2> QED BY <1>0, <1>1 DEF Moves, MayCall, CallShape, Decided
<1>4. QED
  BY <1>1, <1>2, <1>3

\* Thread t is no further in a commit than before.
Fades(t, l) ==
    /\ Committing(l) => Committing(thread[t]) /\ l.ts = thread[t].ts /\ l.id = thread[t].id
    /\ Recorded(l) => Recorded(thread[t])

\* Every step of a thread moves it, and only two steps advance a commit: the
\* one that allocates its timestamp and the one that logs its record.
LEMMA ThreadStepMoves ==
  ASSUME TypeOK, CallInv, NEW t \in Threads, ThreadStep(t)
  PROVE  /\ Moves(t, thread'[t])
         /\ Fades(t, thread'[t]) \/ CommitAllocTs(t) \/ CommitRecord(t)
<1>0. ThreadTypeOK /\ CallShape(thread[t])
  BY DEF TypeOK, CallInv
<1> USE DEF Fades, Committing, Recorded
<1> DEFINE Moved == Moves(t, thread'[t]) /\ Fades(t, thread'[t])
<1>1. ASSUME NEW l, Become(t, l), CallShape(l), Fades(t, l), l.id \in {0, thread[t].id},
             status = "open", status' = "open"
      PROVE  Moved
  <2>1. thread'[t] = l
    BY <1>0, <1>1, OtherThreads
  <2>2. QED BY <1>1, <2>1 DEF Moves
<1>2. ASSUME UNCHANGED <<thread, status>>, status = "open" PROVE Moved
  <2>1. Become(t, thread[t])
    BY <1>0, <1>2 DEF Become, ThreadTypeOK
  <2>2. QED BY <1>0, <1>1, <1>2, <2>1
<1>3. ASSUME Return(t), status = "open", status' = "open" PROVE Moved
  BY <1>1, <1>3 DEF Return, Idle, CallShape, Decided
<1>4. ASSUME UpdateMinThen(t, "idle"), status = "open", status' = "open"
      PROVE  Moved
  <2> DEFINE l == [thread[t] EXCEPT !.at = "minScan", !.return = "idle"]
  <2>1. l.at = "minScan" /\ l.return = "idle" /\ l.id = thread[t].id
    BY <1>0, LocalsAfter
  <2>2. Become(t, l)
    BY <1>4 DEF UpdateMinThen
  <2> HIDE DEF l
  <2>3. QED BY <1>1, <1>4, <2>1, <2>2 DEF CallShape, Decided
<1>5. CASE BeginStep(t)
  <2>1. ASSUME NEW mode \in ClientModes, BeginWithMode(t, mode) PROVE Moved
    <3>1. PICK id \in TxnIds : MayCall(t, id) /\ Enter(t, "insert", id) /\ status' = status
      BY <2>1 DEF BeginWithMode
    <3>2. QED BY <3>1, EnterMoves
  <2>2. ASSUME BeginReadOnlyFast(t) PROVE Moved
    <3>1. PICK id \in TxnIds : MayCall(t, id) /\ Enter(t, "insert", id) /\ status' = status
      BY <2>2 DEF BeginReadOnlyFast
    <3>2. QED BY <3>1, EnterMoves
  <2>3. ASSUME BeginInsert(t) PROVE Moved
    BY <1>4, <2>3 DEF BeginInsert, In
  <2>4. QED BY <1>5, <2>1, <2>2, <2>3 DEF BeginStep
<1>6. CASE UpdateMinStep(t)
  <2>1. ASSUME UpdateMinScan(t) PROVE Moved
    <3>1. PICK min : Become(t, [thread[t] EXCEPT !.at = "minStore", !.min = min])
      BY <2>1 DEF UpdateMinScan
    <3> DEFINE l == [thread[t] EXCEPT !.at = "minStore", !.min = min]
    <3>2. /\ l.at = "minStore" /\ l.return = thread[t].return /\ l.id = thread[t].id
          /\ l.ts = thread[t].ts
      BY <1>0, LocalsOf DEF Locals
    <3>3. Become(t, l) BY <3>1
    <3> HIDE DEF l
    <3>4. QED BY <1>0, <1>1, <2>1, <3>2, <3>3 DEF UpdateMinScan, In, CallShape, Decided
  <2>2. ASSUME UpdateMinStore(t), thread[t].return = "commitRecord"
        PROVE  Moved
    <3> DEFINE l == [thread[t] EXCEPT !.at = thread[t].return, !.min = 0]
    <3>1. /\ l.at = "commitRecord" /\ l.return = "commitRecord" /\ l.id = thread[t].id
          /\ l.ts = thread[t].ts
      BY <1>0, <2>2, LocalsOf DEF Locals
    <3>2. Become(t, l) BY <2>2 DEF UpdateMinStore
    <3> HIDE DEF l
    <3>3. QED BY <1>0, <1>1, <2>2, <3>1, <3>2 DEF UpdateMinStore, In, CallShape, Decided
  <2>3. ASSUME UpdateMinStore(t), thread[t].return = "idle" PROVE Moved
    BY <1>3, <2>3 DEF UpdateMinStore, In
  <2>4. QED BY <1>0, <1>6, <2>1, <2>2, <2>3 DEF UpdateMinStep, CallShape
<1>7. CASE ReadStep(t) \/ WriteStep(t)
  BY <1>2, <1>7 DEF ReadStep, WriteStep, Read, Write, Delete, WriteKey, MayCall, storageVars
<1>8. CASE CommitStep(t)
  <2>1. ASSUME NEW id \in TxnIds, CommitFlush(t, id) PROVE Moved
    BY <2>1, EnterMoves DEF CommitFlush
  <2>2. ASSUME NEW label, Goto(t, label), status = "open", status' = "open",
               \/ label \in {"allocTs", "revalidate"} /\ ~Decided(thread[t])
               \/ label \in {"sync", "publish"} /\ Decided(thread[t])
        PROVE  /\ Moves(t, thread'[t]) /\ thread'[t].at = label
               /\ thread'[t].return = thread[t].return
               /\ thread'[t].ts = thread[t].ts /\ thread'[t].id = thread[t].id
    <3> DEFINE l == [thread[t] EXCEPT !.at = label]
    <3>1. /\ l.at = label /\ l.return = thread[t].return /\ l.id = thread[t].id
          /\ l.ts = thread[t].ts
      BY <1>0, LocalsAfter
    <3>2. Become(t, l) /\ thread'[t] = l
      BY <1>0, <2>2, OtherThreads DEF Goto
    <3> HIDE DEF l
    <3>3. QED BY <1>0, <2>2, <3>1, <3>2 DEF Moves, CallShape, Decided
  <2>3. ASSUME CommitValidate(t) \/ CommitRevalidate(t) PROVE Moved
    BY <1>0, <2>2, <2>3 DEF CommitValidate, CommitRevalidate, In, CallShape, Decided
  <2>4. ASSUME CommitRefused(t) PROVE Moved
    BY <1>4, <2>4 DEF CommitRefused, In
  <2>5. ASSUME CommitAllocTs(t) PROVE Moves(t, thread'[t])
    <3> DEFINE l == [thread[t] EXCEPT !.at = "track", !.ts = tsCounter]
    <3>1. l.at = "track" /\ l.return = thread[t].return /\ l.id = thread[t].id
      BY <1>0, LocalsOf DEF Locals
    <3>2. Become(t, l) /\ thread'[t] = l
      BY <1>0, <2>5, OtherThreads DEF CommitAllocTs
    <3> HIDE DEF l
    <3>3. QED BY <1>0, <2>5, <3>1, <3>2 DEF CommitAllocTs, In, Moves, CallShape, Decided
  <2>6. ASSUME CommitTrack(t) PROVE Moved
    <3> DEFINE l == [thread[t] EXCEPT !.at = "minScan", !.return = "commitRecord",
                                      !.todo = txn[thread[t].id].writes]
    <3>1. l.at = "minScan" /\ l.return = "commitRecord" /\ l.id = thread[t].id /\ l.ts = thread[t].ts
      BY <1>0, LocalsOf DEF Locals
    <3>2. Become(t, l) BY <2>6 DEF CommitTrack
    <3> HIDE DEF l
    <3>3. QED BY <1>0, <1>1, <2>6, <3>1, <3>2 DEF CommitTrack, In, CallShape, Decided
  <2>7. ASSUME CommitRecord(t) PROVE Moves(t, thread'[t])
    BY <1>0, <2>2, <2>7 DEF CommitRecord, In, CallShape
  <2>8. ASSUME CommitSync(t) PROVE Moved
    BY <1>0, <2>2, <2>8 DEF CommitSync, In, CallShape
  <2>9. ASSUME CommitPublish(t) PROVE Moved
    <3>1. PICK key \in thread[t].todo : Become(t, [thread[t] EXCEPT !.todo = @ \ {key}])
      BY <2>9 DEF CommitPublish
    <3> DEFINE l == [thread[t] EXCEPT !.todo = @ \ {key}]
    <3>2. /\ l.at = thread[t].at /\ l.return = thread[t].return /\ l.id = thread[t].id
          /\ l.ts = thread[t].ts
      BY <1>0, LocalsOf DEF Locals
    <3>3. Become(t, l) BY <3>1
    <3> HIDE DEF l
    <3>4. QED BY <1>0, <1>1, <2>9, <3>2, <3>3 DEF CommitPublish, In, CallShape, Decided
  <2>10. ASSUME CommitDone(t) \/ CommitSyncFails(t) PROVE Moved
    BY <1>3, <2>10 DEF CommitDone, CommitSyncFails, In
  <2>11. ASSUME GroupSync(t) PROVE Moved
    BY <1>2, <2>11 DEF GroupSync, In, storageVars
  <2>12. QED
    BY <1>8, <2>1, <2>3, <2>4, <2>5, <2>6, <2>7, <2>8, <2>9, <2>10, <2>11 DEF CommitStep
<1>9. CASE AbortStep(t)
  BY <1>4, <1>9 DEF AbortStep, Abort, AbortReadOnlyFast, MayCall
<1>10. CASE MaintenanceStep(t)
  <2>1. ASSUME GcLoad(t) PROVE Moved
    <3> DEFINE l == [thread[t] EXCEPT !.at = "gcSweep", !.min = minActiveTs]
    <3>1. /\ l.at = "gcSweep" /\ l.return = thread[t].return /\ l.id = thread[t].id
          /\ thread[t].return = "idle"
      BY <1>0, <2>1, LocalsOf DEF Locals, GcLoad, In, CallShape, Idle
    <3>2. Become(t, l) BY <2>1 DEF GcLoad
    <3> HIDE DEF l
    <3>3. QED BY <1>0, <1>1, <2>1, <3>1, <3>2 DEF GcLoad, In, CallShape, Decided
  <2>2. ASSUME GcSweep(t) PROVE Moved
    BY <1>3, <2>2 DEF GcSweep, In
  <2>3. ASSUME Checkpoint(t) PROVE Moved
    BY <1>2, <2>3 DEF Checkpoint, In, storageVars
  <2>4. QED BY <1>10, <2>1, <2>2, <2>3 DEF MaintenanceStep
<1> QED BY <1>5, <1>6, <1>7, <1>8, <1>9, <1>10 DEF ThreadStep

\* No step of a thread breaks the invariant on calls.
LEMMA ThreadStepCallInv ==
  ASSUME TypeOK, CallInv, NEW t \in Threads, ThreadStep(t)
  PROVE  CallInv'
  BY ThreadStepMoves, MovesCallInv DEF TypeOK

\* The invariant on calls is inductive.
LEMMA NextCallInv ==
  ASSUME TypeOK, CallInv, [Next]_vars
  PROVE  CallInv'
<1>1. CASE UNCHANGED vars
  BY <1>1 DEF vars, walVars, mvccVars, storageVars, CallInv, CallShape, Decided, Closed
<1>2. ASSUME NEW t \in Threads, ThreadStep(t) PROVE CallInv'
  BY <1>2, ThreadStepCallInv
<1> QED BY <1>1, <1>2, RestartCallInv DEF Next

\* A fresh database has no call and nothing in memory.
LEMMA InitCallInv == Init => CallInv
<1> SUFFICES ASSUME Init PROVE CallInv
  OBVIOUS
<1>1. Closed
  BY DEF Init, MvccInit, Closed
<1>2. QED
  BY <1>1 DEF Closed, CallInv, CallShape, Decided, Idle

-----------------------------------------------------------------------------
(* The log of an open database only grows.                                 *)

WalGrows ==
    /\ wal' \in Seq(Records) /\ Len(wal) <= Len(wal')
    /\ \A i \in 1..Len(wal) : wal'[i] = wal[i]

\* No call rewrites the log: it appends records or leaves it alone.
LEMMA ThreadStepGrowsWal ==
  ASSUME TypeOK, NEW t \in Threads, ThreadStep(t)
  PROVE  WalGrows
<1>0. wal \in Seq(Records) /\ ThreadTypeOK
  BY DEF TypeOK, WalTypeOK
<1>1. ASSUME UNCHANGED wal PROVE WalGrows
  BY <1>0, <1>1 DEF WalGrows
<1>2. ASSUME NEW rec \in Records, wal' = Append(wal, rec) PROVE WalGrows
  BY <1>0, <1>2 DEF WalGrows
<1>3. ASSUME NEW mode, BeginWithMode(t, mode) PROVE WalGrows
  <2>1. PICK id \in TxnIds : Append1(TxnBegin(id))
    BY <1>3 DEF BeginWithMode
  <2>2. QED BY <1>2, <2>1 DEF Append1, TxnBegin, Records, ControlRecords
<1>4. ASSUME NEW id \in TxnIds, CommitFlush(t, id) PROVE WalGrows
  <2>1. buffers[id] \in Seq(Records) /\ wal' = wal \o buffers[id]
    BY <1>4 DEF TypeOK, ClientTypeOK, Records, CommitFlush
  <2>2. QED BY <1>0, <2>1 DEF WalGrows
<1>5. ASSUME CommitRecord(t) PROVE WalGrows
  <2>1. TxnCommit(thread[t].id) \in Records
    BY <1>0, <1>5, LocalsOf DEF CommitRecord, In, TxnLabels, Labels, TxnCommit, Records, ControlRecords
  <2>2. QED BY <1>2, <1>5, <2>1 DEF CommitRecord, Append1
<1>6. ASSUME AbortStep(t) PROVE WalGrows
  <2>1. PICK id \in TxnIds : wal' = wal \/ wal' = Append(wal, TxnAbort(id))
    BY <1>6, Zenon DEF AbortStep, Abort, AbortReadOnlyFast, Append1, walVars
  <2>2. QED BY <1>1, <1>2, <2>1 DEF TxnAbort, Records, ControlRecords
<1>7. ASSUME Checkpoint(t) PROVE WalGrows
  BY <1>2, <1>7 DEF Checkpoint, AppendSync, CheckpointRecord, Records, OtherRecords
<1>8. QED
  BY <1>1, <1>3, <1>4, <1>5, <1>6, <1>7
  DEF ThreadStep, BeginStep, BeginReadOnlyFast, BeginInsert, UpdateMinStep, UpdateMinScan,
      UpdateMinStore, ReadStep, Read, WriteStep, Write, Delete, WriteKey, CommitStep,
      CommitValidate, CommitRevalidate, CommitRefused, CommitAllocTs, CommitTrack, GroupSync,
      CommitSync, CommitSyncFails, CommitPublish, CommitDone, MaintenanceStep, GcLoad, GcSweep,
      walVars

\* What was committed in the log stays committed.
LEMMA CommittedStays ==
  ASSUME WalTypeOK, WalGrows
  PROVE  /\ \A id, i : LoggedAt(wal, id, i) => LoggedAt(wal', id, i)
         /\ \A id, j : LoggedBefore(wal, id, j) => LoggedBefore(wal', id, j)
<1>1. \A i \in 1..Len(wal) : i \in 1..Len(wal') /\ wal'[i] = wal[i]
  BY DEF WalTypeOK, WalGrows
<1>2. \A id, i : LoggedAt(wal, id, i) => LoggedAt(wal', id, i)
  BY <1>1 DEF LoggedAt
<1> QED BY <1>1, <1>2 DEF LoggedBefore

-----------------------------------------------------------------------------
(* Commits of a key are logged in the order of their timestamps.           *)

\* The chains lose versions and gain none.
Shrinks ==
    \A key \in Keys : /\ chains'[key].committed \subseteq chains[key].committed
                      /\ chains'[key].uncommitted \subseteq chains[key].uncommitted

\* A step that neither publishes nor advances a commit keeps the order.
LEMMA KeepOrder ==
  ASSUME TypeOK, OrderInv, WalGrows, Shrinks, tsCounter' = tsCounter,
         NEW t \in Threads, NEW l, Become(t, l), Fades(t, l)
  PROVE  OrderInv'
<1>0. WalTypeOK /\ ThreadTypeOK
  BY DEF TypeOK
<1>1. thread'[t] = l /\ \A u \in Threads \ {t} : thread'[u] = thread[u]
  BY <1>0, OtherThreads
<1>2. /\ \A id, i : LoggedAt(wal, id, i) => LoggedAt(wal', id, i)
      /\ \A id, j : LoggedBefore(wal, id, j) => LoggedBefore(wal', id, j)
      /\ 1..Len(wal) \subseteq 1..Len(wal')
  BY <1>0, CommittedStays DEF WalGrows, WalTypeOK
<1>3. \A u \in Threads : Committing(thread'[u]) =>
          Committing(thread[u]) /\ thread'[u].ts = thread[u].ts /\ thread'[u].id = thread[u].id
  BY <1>1 DEF Fades
<1>4. \A u \in Threads : Recorded(thread'[u]) => Recorded(thread[u])
  BY <1>1 DEF Fades
<1>5. ASSUME NEW key \in Keys PROVE KeyOrder(key)'
  <2>1. KeyOrder(key) /\ \A u \in Threads : Publishes(u, key)' => Publishes(u, key)
    BY <1>3 DEF OrderInv, Publishes, OwnsSlot, Shrinks
  <2>2. \A v \in chains'[key].committed : v \in chains[key].committed
    BY DEF Shrinks
  <2>3. \A v, w \in chains'[key].uncommitted : v.txn = w.txn
    BY <2>1 DEF Shrinks, KeyOrder
  <2>4. \A v \in chains'[key].committed :
          v.ts < tsCounter' /\ (1 < v.ts => \E i \in 1..Len(wal') : LoggedAt(wal', v.txn, i))
    BY <1>2, <2>1, <2>2 DEF KeyOrder
  <2>5. \A u \in Threads : Publishes(u, key)' =>
          \A v \in chains'[key].committed : v.ts < thread'[u].ts
    BY <1>3, <2>1, <2>2 DEF KeyOrder, Publishes
  <2>6. \A u \in Threads : Publishes(u, key)' /\ Recorded(thread'[u]) =>
          \E j \in 1..Len(wal') :
              /\ LoggedAt(wal', thread'[u].id, j)
              /\ \A v \in chains'[key].committed : 1 < v.ts => LoggedBefore(wal', v.txn, j)
    <3> SUFFICES ASSUME NEW u \in Threads, Publishes(u, key)', Recorded(thread'[u])
                 PROVE  \E j \in 1..Len(wal') :
                           /\ LoggedAt(wal', thread'[u].id, j)
                           /\ \A v \in chains'[key].committed : 1 < v.ts => LoggedBefore(wal', v.txn, j)
      OBVIOUS
    <3>1. Publishes(u, key) /\ Recorded(thread[u]) /\ thread'[u].id = thread[u].id
      BY <1>3, <1>4, <2>1 DEF Publishes
    <3>2. PICK j \in 1..Len(wal) :
                 /\ LoggedAt(wal, thread[u].id, j)
                 /\ \A v \in chains[key].committed : 1 < v.ts => LoggedBefore(wal, v.txn, j)
      BY <2>1, <3>1 DEF KeyOrder
    <3>3. QED BY <1>2, <2>2, <3>1, <3>2
  <2>7. \A v, w \in chains'[key].committed :
          1 < v.ts /\ v.ts < w.ts =>
              \E j \in 1..Len(wal') : LoggedAt(wal', w.txn, j) /\ LoggedBefore(wal', v.txn, j)
    BY <1>2, <2>1, <2>2 DEF KeyOrder
  <2>8. QED
    BY <2>3, <2>4, <2>5, <2>6, <2>7 DEF KeyOrder
<1> QED BY <1>3, <1>5 DEF OrderInv

\* All but four steps of a thread are of that kind.
LEMMA OtherStepsShrink ==
  ASSUME TypeOK, NEW t \in Threads, ThreadStep(t),
         ~WriteStep(t), ~CommitAllocTs(t), ~CommitPublish(t)
  PROVE  Shrinks /\ tsCounter' = tsCounter
<1>0. chains \in [Keys -> Chains(StoredValues, Nat)]
  BY DEF TypeOK, MemTableTypeOK
<1>1. ASSUME UNCHANGED <<chains, tsCounter>> PROVE Shrinks /\ tsCounter' = tsCounter
  BY <1>1 DEF Shrinks
<1>2. ASSUME AbortStep(t) PROVE Shrinks /\ tsCounter' = tsCounter
  <2>1. PICK id \in TxnIds : Abort(t, id) \/ AbortReadOnlyFast(t, id)
    BY <1>2 DEF AbortStep
  <2>2. /\ chains' = chains \/ chains' = [k \in Keys |-> AbortVersion(chains[k], id)]
        /\ tsCounter' = tsCounter
    BY <2>1, Zenon DEF Abort, AbortReadOnlyFast
  <2>3. QED
    BY <1>0, <2>2 DEF Shrinks, AbortVersion, Chains
<1>3. ASSUME GcSweep(t) PROVE Shrinks /\ tsCounter' = tsCounter
  <2>1. /\ \A k \in Keys : chains'[k] = chains[k] \/ chains'[k] = GcByTs(chains[k], thread[t].min)
        /\ tsCounter' = tsCounter
    BY <1>3 DEF GcSweep, mvccVars
  <2>2. \A c \in Chains(StoredValues, Nat) : \A m :
          /\ GcByTs(c, m).committed \subseteq c.committed
          /\ GcByTs(c, m).uncommitted = c.uncommitted
    BY DEF GcByTs, Newest, Below, Chains
  <2>3. QED
    BY <1>0, <2>1, <2>2 DEF Shrinks
<1>4. QED
  BY <1>1, <1>2, <1>3
  DEF ThreadStep, BeginStep, BeginWithMode, BeginReadOnlyFast, BeginInsert, UpdateMinStep,
      UpdateMinScan, UpdateMinStore, ReadStep, Read, CommitStep, CommitFlush, CommitValidate,
      CommitRevalidate, CommitRefused, CommitTrack, CommitRecord, GroupSync, CommitSync,
      CommitSyncFails, CommitDone, MaintenanceStep, GcLoad, Checkpoint, mvccVars, storageVars

\* A write takes a free slot for a transaction that is in no call.
LEMMA WriteOrder ==
  ASSUME TypeOK, OrderInv, NEW t \in Threads, WriteStep(t)
  PROVE  OrderInv'
<1>0. chains \in [Keys -> Chains(StoredValues, Nat)]
  BY DEF TypeOK, MemTableTypeOK
<1>1. PICK id \in TxnIds, key \in Keys, value \in StoredValues : WriteKey(t, id, key, value)
  BY DEF WriteStep, Write, Delete, StoredValues
<1>2. /\ \A u \in Threads : thread[u].id # id
      /\ UNCHANGED <<wal, tsCounter, thread>>
      /\ chains' = chains \/ chains' = [chains EXCEPT ![key] = AddUncommitted(@, value, id)]
  BY <1>1 DEF WriteKey, MayCall, walVars
<1>3. \A k \in Keys : chains'[k].committed = chains[k].committed
  BY <1>0, <1>2 DEF AddUncommitted, Chains
<1>4. \A k \in Keys : \/ chains'[k] = chains[k]
                      \/ chains'[k].uncommitted = {[value |-> value, txn |-> id, ts |-> 0]}
  BY <1>0, <1>2 DEF AddUncommitted, Chains
<1>5. \A k \in Keys : \A u \in Threads : Publishes(u, k)' => Publishes(u, k)
  BY <1>2, <1>4 DEF Publishes, OwnsSlot
<1>6. ASSUME NEW k \in Keys PROVE KeyOrder(k)'
  <2>1. KeyOrder(k) /\ \A v, w \in chains'[k].uncommitted : v.txn = w.txn
    BY <1>4 DEF OrderInv, KeyOrder
  <2>2. QED
    BY <1>2, <1>3, <1>5, <2>1 DEF KeyOrder
<1> QED BY <1>2, <1>6 DEF OrderInv

\* A new timestamp is above all timestamps in use.
LEMMA AllocTsOrder ==
  ASSUME TypeOK, CallInv, OrderInv, NEW t \in Threads, CommitAllocTs(t)
  PROVE  OrderInv'
<1>0. ThreadTypeOK /\ tsCounter \in Nat /\ chains \in [Keys -> Chains(StoredValues, Nat)]
  BY DEF TypeOK, MvccTypeOK, MemTableTypeOK
<1> DEFINE l == [thread[t] EXCEPT !.at = "track", !.ts = tsCounter]
<1>1. /\ thread'[t] = l /\ \A u \in Threads \ {t} : thread'[u] = thread[u]
      /\ tsCounter' = tsCounter + 1 /\ UNCHANGED <<wal, chains>>
  BY <1>0, OtherThreads DEF CommitAllocTs, walVars
<1>2. l.at = "track" /\ l.ts = tsCounter /\ l.id = thread[t].id
  BY <1>0, LocalsOf DEF Locals
<1> HIDE DEF l
<1>3. \A u \in Threads : thread[u].ts \in Nat
  BY <1>0, LocalsOf
<1>4. ASSUME NEW key \in Keys PROVE KeyOrder(key)'
  <2>1. KeyOrder(key) /\ \A v \in chains[key].committed : v.ts \in Nat
    BY <1>0 DEF OrderInv, Chains
  <2>2. \A u \in Threads \ {t} : Publishes(u, key)' => Publishes(u, key)
    BY <1>1 DEF Publishes
  <2>3. ~Recorded(thread'[t])
    BY <1>1, <1>2 DEF Recorded
  <2>4. \A u \in Threads : Publishes(u, key)' =>
            \A v \in chains'[key].committed : v.ts < thread'[u].ts
    BY <1>1, <1>2, <2>1, <2>2 DEF KeyOrder
  <2>5. \A v \in chains'[key].committed : v.ts < tsCounter'
    BY <1>0, <1>1, <2>1 DEF KeyOrder
  <2>6. \A u \in Threads : Publishes(u, key)' /\ Recorded(thread'[u]) =>
            \E j \in 1..Len(wal') :
               /\ LoggedAt(wal', thread'[u].id, j)
               /\ \A v \in chains'[key].committed : 1 < v.ts => LoggedBefore(wal', v.txn, j)
    BY <1>1, <2>1, <2>2, <2>3 DEF KeyOrder
  <2>7. QED
    BY <1>1, <2>1, <2>4, <2>5, <2>6 DEF KeyOrder
<1>5. \A u \in Threads : Committing(thread'[u]) => thread'[u].ts < tsCounter'
  BY <1>0, <1>1, <1>2, <1>3 DEF OrderInv
<1>6. 1 <= tsCounter'
  BY <1>0, <1>1 DEF OrderInv
<1> QED BY <1>4, <1>5, <1>6 DEF OrderInv

\* A commit record is logged behind those of the versions it will follow.
LEMMA RecordOrder ==
  ASSUME TypeOK, CallInv, OrderInv, NEW t \in Threads, CommitRecord(t)
  PROVE  OrderInv'
<1>0. ThreadTypeOK /\ WalTypeOK /\ wal \in Seq(Records) /\ CallShape(thread[t])
  BY DEF TypeOK, WalTypeOK, CallInv
<1> DEFINE l == [thread[t] EXCEPT !.at = "sync"]
           n == Len(wal) + 1
<1>1. /\ thread'[t] = l /\ \A u \in Threads \ {t} : thread'[u] = thread[u]
      /\ thread[t].at = "commitRecord"
      /\ wal' = Append(wal, TxnCommit(thread[t].id)) /\ UNCHANGED <<chains, tsCounter>>
  BY <1>0, OtherThreads DEF CommitRecord, Append1, Goto, In, mvccVars
<1>2. /\ l.at = "sync" /\ l.ts = thread[t].ts /\ l.id = thread[t].id /\ l.return = thread[t].return
      /\ Committing(thread[t])
  BY <1>0, <1>1, LocalsAfter DEF Committing
<1> HIDE DEF l
<1>3. /\ WalGrows /\ n \in 1..Len(wal') /\ Len(wal) \in Nat
      /\ LoggedAt(wal', thread[t].id, n)
  <2>1. TxnCommit(thread[t].id) \in Records
    BY <1>0, <1>1, LocalsOf DEF TxnLabels, Labels, TxnCommit, Records, ControlRecords
  <2>2. QED
    BY <1>0, <1>1, <2>1 DEF WalGrows, LoggedAt
<1>4. /\ \A id, i : LoggedAt(wal, id, i) => LoggedAt(wal', id, i)
      /\ \A id, j : LoggedBefore(wal, id, j) => LoggedBefore(wal', id, j)
      /\ 1..Len(wal) \subseteq 1..Len(wal')
  BY <1>0, <1>3, CommittedStays DEF WalGrows, WalTypeOK
<1>5. ASSUME NEW key \in Keys PROVE KeyOrder(key)'
  <2>1. KeyOrder(key)
    BY DEF OrderInv
  <2>2. \A u \in Threads : Publishes(u, key)' => Publishes(u, key) /\ thread'[u].ts = thread[u].ts
    BY <1>1, <1>2 DEF Publishes
  <2>3. \A v \in chains[key].committed : 1 < v.ts => LoggedBefore(wal', v.txn, n)
    <3>1. ASSUME NEW v \in chains[key].committed, 1 < v.ts PROVE LoggedBefore(wal', v.txn, n)
      <4>1. PICK i \in 1..Len(wal) : LoggedAt(wal, v.txn, i)
        BY <2>1, <3>1 DEF KeyOrder
      <4>2. QED
        BY <1>3, <1>4, <4>1 DEF LoggedBefore
    <3>2. QED BY <3>1
  <2>4. ASSUME NEW u \in Threads, Publishes(u, key)', Recorded(thread'[u])
        PROVE  \E j \in 1..Len(wal') :
                  /\ LoggedAt(wal', thread'[u].id, j)
                  /\ \A v \in chains'[key].committed : 1 < v.ts => LoggedBefore(wal', v.txn, j)
    <3>1. CASE u = t
      BY <1>1, <1>2, <1>3, <2>3, <3>1
    <3>2. CASE u # t
      <4>1. Publishes(u, key) /\ Recorded(thread[u]) /\ thread'[u] = thread[u]
        BY <1>1, <2>2, <2>4, <3>2
      <4>2. PICK j \in 1..Len(wal) :
                   /\ LoggedAt(wal, thread[u].id, j)
                   /\ \A v \in chains[key].committed : 1 < v.ts => LoggedBefore(wal, v.txn, j)
        BY <2>1, <4>1 DEF KeyOrder
      <4>3. QED BY <1>1, <1>4, <4>1, <4>2
    <3>3. QED BY <3>1, <3>2
  <2>5. \A v \in chains'[key].committed :
          v.ts < tsCounter' /\ (1 < v.ts => \E i \in 1..Len(wal') : LoggedAt(wal', v.txn, i))
    BY <1>1, <1>4, <2>1 DEF KeyOrder
  <2>6. \A v, w \in chains'[key].committed :
          1 < v.ts /\ v.ts < w.ts =>
              \E j \in 1..Len(wal') : LoggedAt(wal', w.txn, j) /\ LoggedBefore(wal', v.txn, j)
    BY <1>1, <1>4, <2>1 DEF KeyOrder
  <2>7. QED
    BY <1>1, <2>1, <2>2, <2>4, <2>5, <2>6 DEF KeyOrder
<1>6. \A u \in Threads : Committing(thread'[u]) => thread'[u].ts < tsCounter'
  BY <1>1, <1>2 DEF OrderInv
<1> QED BY <1>1, <1>5, <1>6 DEF OrderInv

\* What publishing a slot does to a chain.
LEMMA PublishedChain ==
  ASSUME NEW c \in Chains(StoredValues, Nat), NEW id, NEW ts \in Nat, OwnsSlot(c, id),
         \A v, w \in c.uncommitted : v.txn = w.txn
  PROVE  LET d == CommitVersion(c, id, ts)
         IN  /\ d.uncommitted = {}
             /\ c.committed \subseteq d.committed
             /\ \A v \in d.committed : v \in c.committed \/ (v.txn = id /\ v.ts = ts)
<1>1. \A v \in c.uncommitted : v.txn = id /\ v \in [value : StoredValues, txn : Nat, ts : Nat]
  BY DEF OwnsSlot, Chains
<1>2. \A v \in c.uncommitted : [v EXCEPT !.ts = ts].txn = id /\ [v EXCEPT !.ts = ts].ts = ts
  BY <1>1
<1> QED BY <1>2 DEF CommitVersion

\* Publishing adds the newest version of the key, with its record logged last.
LEMMA PublishOrder ==
  ASSUME TypeOK, CallInv, OrderInv, NEW t \in Threads, CommitPublish(t)
  PROVE  OrderInv'
<1>0. ThreadTypeOK /\ WalTypeOK /\ chains \in [Keys -> Chains(StoredValues, Nat)]
  BY DEF TypeOK, MemTableTypeOK
<1> DEFINE id == thread[t].id
           ts == thread[t].ts
<1>1. PICK key \in thread[t].todo :
             /\ chains' = [chains EXCEPT ![key] = CommitVersion(@, id, ts)]
             /\ Become(t, [thread[t] EXCEPT !.todo = @ \ {key}])
  BY DEF CommitPublish
<1> DEFINE l == [thread[t] EXCEPT !.todo = @ \ {key}]
<1>2. /\ l.at = "publish" /\ l.ts = ts /\ l.id = id /\ Fades(t, l)
      /\ Committing(thread[t]) /\ Recorded(thread[t]) /\ key \in Keys /\ ts \in Nat
  BY <1>0, LocalsOf DEF Locals, CommitPublish, In, Fades, Committing, Recorded
<1>3. /\ thread'[t] = l /\ \A u \in Threads \ {t} : thread'[u] = thread[u]
      /\ UNCHANGED <<wal, tsCounter>>
  BY <1>0, <1>1, OtherThreads DEF CommitPublish, walVars, mvccVars
<1> HIDE DEF l
<1>4. \A u \in Threads : Committing(thread'[u]) =>
          Committing(thread[u]) /\ thread'[u].ts = thread[u].ts /\ thread'[u].id = thread[u].id
  BY <1>2, <1>3
<1>5. \A u \in Threads : Recorded(thread'[u]) => Recorded(thread[u])
  BY <1>2, <1>3 DEF Fades
<1>6. ASSUME NEW k \in Keys, chains'[k] = chains[k] PROVE KeyOrder(k)'
  <2>1. KeyOrder(k) /\ \A u \in Threads : Publishes(u, k)' => Publishes(u, k)
    BY <1>4, <1>6 DEF OrderInv, Publishes
  <2>2. QED
    BY <1>3, <1>4, <1>5, <1>6, <2>1 DEF KeyOrder, Publishes
<1>7. CASE ~OwnsSlot(chains[key], id)
  <2>1. chains' = chains
    BY <1>0, <1>1, <1>2, <1>7 DEF CommitVersion
  <2>2. QED
    BY <1>3, <1>4, <1>6, <2>1 DEF OrderInv
<1>8. CASE OwnsSlot(chains[key], id)
  <2>1. KeyOrder(key) /\ Publishes(t, key)
    BY <1>2, <1>8 DEF OrderInv, Publishes
  <2>2. /\ chains'[key].uncommitted = {}
        /\ \A v \in chains'[key].committed :
              v \in chains[key].committed \/ (v.txn = id /\ v.ts = ts)
    BY <1>0, <1>1, <1>2, <1>8, <2>1, PublishedChain DEF KeyOrder
  <2>3. \A v \in chains[key].committed : v.ts < ts /\ v.ts \in Nat
    BY <1>0, <1>2, <2>1 DEF KeyOrder, Chains
  <2>4. PICK j \in 1..Len(wal) :
               /\ LoggedAt(wal, id, j)
               /\ \A v \in chains[key].committed : 1 < v.ts => LoggedBefore(wal, v.txn, j)
    BY <1>2, <2>1 DEF KeyOrder
  <2>5. ts < tsCounter
    BY <1>2 DEF OrderInv
  <2>6. \A v \in chains'[key].committed :
          v.ts < tsCounter' /\ (1 < v.ts => \E i \in 1..Len(wal') : LoggedAt(wal', v.txn, i))
    BY <1>3, <2>1, <2>2, <2>4, <2>5 DEF KeyOrder
  <2>7. ASSUME NEW v \in chains'[key].committed, NEW w \in chains'[key].committed,
               1 < v.ts, v.ts < w.ts
        PROVE  \E i \in 1..Len(wal') : LoggedAt(wal', w.txn, i) /\ LoggedBefore(wal', v.txn, i)
    <3>1. v \in chains[key].committed
      BY <1>2, <2>2, <2>3, <2>7
    <3>2. CASE w \in chains[key].committed
      BY <1>3, <2>1, <2>7, <3>1, <3>2 DEF KeyOrder
    <3>3. CASE w.txn = id /\ w.ts = ts
      BY <1>3, <2>4, <2>7, <3>1, <3>3
    <3>4. QED BY <2>2, <3>2, <3>3
  <2>8. \A u \in Threads : ~Publishes(u, key)'
    BY <2>2 DEF Publishes, OwnsSlot
  <2>9. KeyOrder(key)'
    BY <2>2, <2>6, <2>7, <2>8 DEF KeyOrder
  <2>10. \A k \in Keys \ {key} : chains'[k] = chains[k]
    BY <1>0, <1>1
  <2>11. QED
    BY <1>3, <1>4, <1>6, <2>9, <2>10 DEF OrderInv
<1> QED BY <1>7, <1>8

\* The only versions after a restart are those of recovery.
LEMMA RestartOrder ==
  ASSUME TypeOK, CallInv, OrderInv, RestartStep
  PROVE  OrderInv'
<1>1. CASE Crash \/ Shutdown
  <2>1. /\ tsCounter' = 1 /\ \A t \in Threads : thread'[t] = Idle
        /\ \A key \in Keys : chains'[key] = EmptyChain
    BY <1>1 DEF Crash, Shutdown, Forget, MvccReset
  <2>2. QED
    BY <2>1 DEF OrderInv, KeyOrder, EmptyChain, Publishes, Committing, Idle
<1>2. CASE Open \/ ReplayRecord
  <2>1. UNCHANGED <<wal, thread, chains, tsCounter>>
    BY <1>2 DEF Open, ReplayRecord, storageVars, mvccVars
  <2>2. QED
    BY <2>1 DEF OrderInv, KeyOrder, Publishes
<1>3. CASE FinishRecover
  <2>1. /\ tsCounter = 1 /\ tsCounter' = 2 /\ UNCHANGED thread
        /\ \A t \in Threads : thread[t] = Idle
    BY <1>3 DEF FinishRecover, CallInv, Closed
  <2>2. \A key \in Keys : /\ chains'[key].uncommitted = {}
                          /\ \A v \in chains'[key].committed : v.ts = 1
    BY <1>3, <2>1 DEF FinishRecover, EmptyChain
  <2>3. QED
    BY <2>1, <2>2 DEF OrderInv, KeyOrder, Publishes, Committing, Idle
<1> QED BY <1>1, <1>2, <1>3 DEF RestartStep

\* The order holds in a fresh database.
LEMMA InitOrder == Init => OrderInv
  BY DEF Init, MvccInit, OrderInv, KeyOrder, EmptyChain, Publishes, Committing, Idle

\* No step breaks the order.
LEMMA NextOrder ==
  ASSUME TypeOK, CallInv, OrderInv, [Next]_vars
  PROVE  OrderInv'
<1>1. CASE UNCHANGED vars
  BY <1>1 DEF vars, walVars, mvccVars, storageVars, OrderInv, KeyOrder, Publishes
<1>2. ASSUME NEW t \in Threads, ThreadStep(t) PROVE OrderInv'
  <2>1. CASE WriteStep(t)
    BY <2>1, WriteOrder
  <2>2. CASE CommitAllocTs(t)
    BY <2>2, AllocTsOrder
  <2>3. CASE CommitRecord(t)
    BY <2>3, RecordOrder
  <2>4. CASE CommitPublish(t)
    BY <2>4, PublishOrder
  <2>5. CASE ~WriteStep(t) /\ ~CommitAllocTs(t) /\ ~CommitRecord(t) /\ ~CommitPublish(t)
    <3>1. Become(t, thread'[t]) /\ Fades(t, thread'[t])
      BY <1>2, <2>5, ThreadStepMoves DEF Moves
    <3>2. WalGrows /\ Shrinks /\ tsCounter' = tsCounter
      BY <1>2, <2>5, ThreadStepGrowsWal, OtherStepsShrink
    <3>3. QED BY <3>1, <3>2, KeepOrder
  <2>6. QED BY <2>1, <2>2, <2>3, <2>4, <2>5
<1>3. QED BY <1>1, <1>2, RestartOrder DEF Next

\* For any number of threads, whatever they do between the steps of a commit,
\* the log holds the commits of a key in the order of their timestamps, so
\* that replaying it ends with the version that was newest in memory.
THEOREM LogOrder == Spec => []LogOrderMatchesVersionOrder
<1>1. OrderInv => LogOrderMatchesVersionOrder
  BY DEF OrderInv, KeyOrder, LoggedBefore, LoggedAt, LogOrderMatchesVersionOrder, CommittedAt
<1>2. QED
  BY <1>1, InitOrder, NextOrder, TypeCorrect, InitCallInv, NextCallInv, PTL DEF Spec

-----------------------------------------------------------------------------
(* A slot is accounted for by the buffer, the call or the log.             *)

\* Nothing of a transaction other than d changes in a step of thread t.
StepOf(t, d) ==
    /\ thread[t].id \in {0, d} /\ thread'[t].id \in {0, d}
    /\ \A u \in Threads \ {t} : thread'[u] = thread[u]
    /\ nextTxnId' \in Nat /\ nextTxnId <= nextTxnId' /\ WalGrows
    /\ \A i \in TxnIds \ {d} :
          /\ handles'[i] = handles[i] /\ buffers'[i] = buffers[i]
          /\ txn'[i].writes = txn[i].writes
          /\ i \in activeTxns' <=> i \in activeTxns
    /\ \A key \in Keys : \A v \in chains'[key].uncommitted :
          v \in chains[key].uncommitted \/ v.txn = d

\* The two stages of a call are in the same part of a commit or of begin.
SamePhase(l, m) ==
    /\ Deciding(m) <=> Deciding(l)
    /\ Decided(m) <=> Decided(l)
    /\ m.at = "insert" <=> l.at = "insert"
    /\ m.id \in {0, l.id}
    /\ (InCommit(m) \/ m.at = "insert") => m.id = l.id
    /\ Decided(m) => m.todo = l.todo

\* A step of thread t that is none of begin, write, end of commit and abort.
Quiet(t) ==
    /\ SamePhase(thread[t], thread'[t])
    /\ \A u \in Threads \ {t} : thread'[u] = thread[u]
    /\ UNCHANGED <<handles, buffers, activeTxns, nextTxnId>> /\ WalGrows
    /\ \A i \in TxnIds : txn'[i].writes = txn[i].writes
    /\ \A key \in Keys : chains'[key].uncommitted \subseteq chains[key].uncommitted

\* What is in a log stays in it.
LEMMA DataStays ==
  ASSUME WalTypeOK, WalGrows
  PROVE  \A id, key : DataIn(wal, id, key) => DataIn(wal', id, key)
<1>1. \A i \in 1..Len(wal) : i \in 1..Len(wal') /\ wal'[i] = wal[i]
  BY DEF WalTypeOK, WalGrows
<1> QED BY <1>1 DEF DataIn

\* The slots of the other transactions are accounted for as before.
LEMMA OtherHandles ==
  ASSUME TypeOK, HandleInv, SlotInv, NEW t \in Threads, NEW d \in TxnIds, StepOf(t, d)
  PROVE  /\ \A i \in TxnIds \ {d} : HandleOf(i)'
         /\ \A key \in Keys : \A v \in chains'[key].uncommitted :
               v.txn # d => SlotOf(key, v.txn)'
<1>0. WalTypeOK /\ nextTxnId \in Nat /\ TxnIds \subseteq Nat /\ 0 \notin TxnIds
  BY TxnIdsNat DEF TypeOK, WalTypeOK
<1>1. ASSUME NEW i \in TxnIds, i # d PROVE HandleOf(i)'
  <2>1. HandleOf(i) /\ thread[t].id # i /\ thread'[t].id # i
    BY <1>0, <1>1 DEF HandleInv, StepOf
  <2>2. /\ handles'[i] = handles[i] /\ buffers'[i] = buffers[i]
        /\ i \in activeTxns' <=> i \in activeTxns
    BY <1>1 DEF StepOf
  <2>3. nextTxnId' <= i => nextTxnId <= i
    BY <1>0, <1>1 DEF StepOf, WalTypeOK
  <2>4. \A u \in Threads : thread'[u] = thread[u] \/ (thread[u].id # i /\ thread'[u].id # i)
    BY <2>1 DEF StepOf
  <2>5. QED
    BY <2>1, <2>2, <2>3, <2>4 DEF HandleOf
<1>2. ASSUME NEW key \in Keys, NEW i, i # d, SlotOf(key, i) PROVE SlotOf(key, i)'
  <2>1. i \in TxnIds /\ thread[t].id # i /\ thread'[t].id # i
    BY <1>0, <1>2 DEF StepOf, SlotOf
  <2>2. handles'[i] = handles[i] /\ buffers'[i] = buffers[i] /\ txn'[i].writes = txn[i].writes
    BY <1>2, <2>1 DEF StepOf
  <2>3. i < nextTxnId'
    BY <1>0, <1>2, <2>1 DEF SlotOf, StepOf
  <2>4. DataIn(wal, i, key) => DataIn(wal', i, key)
    BY <1>0, DataStays DEF StepOf
  <2>5. \A u \in Threads : thread'[u] = thread[u] \/ (thread[u].id # i /\ thread'[u].id # i)
    BY <2>1 DEF StepOf
  <2>6. QED
    BY <1>2, <2>1, <2>2, <2>3, <2>4, <2>5 DEF SlotOf
<1>3. ASSUME NEW key \in Keys, NEW v \in chains'[key].uncommitted, v.txn # d
      PROVE  SlotOf(key, v.txn)'
  <2>1. SlotOf(key, v.txn)
    BY <1>3 DEF StepOf, SlotInv
  <2>2. PICK i : i = v.txn
    OBVIOUS
  <2>3. QED BY <1>2, <1>3, <2>1, <2>2
<1> QED BY <1>1, <1>3

\* It remains to account for the slots of the transaction that moved.
LEMMA StepOfKeeps ==
  ASSUME TypeOK, HandleInv, SlotInv, NEW t \in Threads, NEW d \in TxnIds, StepOf(t, d),
         HandleOf(d)',
         \A key \in Keys : \A v \in chains'[key].uncommitted : v.txn = d => SlotOf(key, d)'
  PROVE  HandleInv' /\ SlotInv'
<1>1. HandleInv'
  BY OtherHandles DEF HandleInv
<1>2. ASSUME NEW key \in Keys, NEW v \in chains'[key].uncommitted PROVE SlotOf(key, v.txn)'
  BY OtherHandles
<1> QED BY <1>1, <1>2 DEF SlotInv

\* A quiet step changes no account.
LEMMA QuietKeeps ==
  ASSUME TypeOK, HandleInv, SlotInv, NEW t \in Threads, Quiet(t)
  PROVE  HandleInv' /\ SlotInv'
<1>0. WalTypeOK /\ TxnIds \subseteq Nat /\ 0 \notin TxnIds
  BY TxnIdsNat DEF TypeOK
<1>1. \A u \in Threads : SamePhase(thread[u], thread'[u])
  BY DEF Quiet, SamePhase
<1>2. ASSUME NEW i \in TxnIds PROVE HandleOf(i)'
  <2>1. HandleOf(i) /\ UNCHANGED <<handles, buffers, activeTxns, nextTxnId>>
    BY DEF HandleInv, Quiet
  <2>2. \A u \in Threads : /\ thread[u].id # i => thread'[u].id # i
                           /\ InCommit(thread'[u]) /\ thread'[u].id = i => InCommit(thread[u]) /\ thread[u].id = i
                           /\ thread'[u].at = "insert" /\ thread'[u].id = i
                                 => thread[u].at = "insert" /\ thread[u].id = i
                           /\ (thread[u].at = "insert" \/ Decided(thread[u])) /\ thread[u].id = i
                                 => (thread'[u].at = "insert" \/ Decided(thread'[u])) /\ thread'[u].id = i
    BY <1>0, <1>1 DEF SamePhase, InCommit
  <2>3. QED
    BY <2>1, <2>2 DEF HandleOf
<1>3. ASSUME NEW key \in Keys, NEW i, SlotOf(key, i) PROVE SlotOf(key, i)'
  <2>1. i \in TxnIds /\ i < nextTxnId /\ UNCHANGED <<handles, buffers, nextTxnId>>
        /\ txn'[i].writes = txn[i].writes
    BY <1>3 DEF SlotOf, Quiet
  <2>2. DataIn(wal, i, key) => DataIn(wal', i, key)
    BY <1>0, DataStays DEF Quiet
  <2>3. \A u \in Threads :
          /\ InCommit(thread[u]) /\ thread[u].id = i => InCommit(thread'[u]) /\ thread'[u].id = i
          /\ Deciding(thread'[u]) /\ thread'[u].id = i => Deciding(thread[u]) /\ thread[u].id = i
          /\ Decided(thread'[u]) /\ thread'[u].id = i
                => Decided(thread[u]) /\ thread[u].id = i /\ thread'[u].todo = thread[u].todo
    BY <1>0, <1>1, <2>1 DEF SamePhase, InCommit
  <2>4. QED
    BY <1>3, <2>1, <2>2, <2>3 DEF SlotOf
<1>4. ASSUME NEW key \in Keys, NEW v \in chains'[key].uncommitted PROVE SlotOf(key, v.txn)'
  <2>1. SlotOf(key, v.txn)
    BY <1>4 DEF Quiet, SlotInv
  <2>2. PICK i : i = v.txn
    OBVIOUS
  <2>3. QED BY <1>3, <2>1, <2>2
<1> QED BY <1>2, <1>4 DEF HandleInv, SlotInv

\* The steps that are quiet.
LEMMA QuietSteps ==
  ASSUME TypeOK, CallInv, NEW t \in Threads, ThreadStep(t),
         \/ UpdateMinStep(t) \/ ReadStep(t) \/ MaintenanceStep(t)
         \/ CommitValidate(t) \/ CommitRevalidate(t) \/ CommitAllocTs(t)
         \/ CommitRecord(t) \/ GroupSync(t) \/ CommitSync(t)
  PROVE  Quiet(t)
<1>0. /\ ThreadTypeOK /\ WalGrows /\ CallShape(thread[t])
      /\ txn \in [TxnIds -> Transactions] /\ chains \in [Keys -> Chains(StoredValues, Nat)]
  BY ThreadStepGrowsWal DEF TypeOK, MvccTypeOK, MemTableTypeOK, CallInv
<1>1. ASSUME NEW l, Become(t, l), SamePhase(thread[t], l),
             UNCHANGED <<handles, buffers, activeTxns, nextTxnId, txn, chains>>
      PROVE  Quiet(t)
  BY <1>0, <1>1, OtherThreads DEF Quiet
<1>2. ASSUME UNCHANGED <<thread, handles, buffers, activeTxns, nextTxnId, txn, chains>>
      PROVE  Quiet(t)
  BY <1>0, <1>2 DEF Quiet, SamePhase
<1>3. ASSUME thread[t].return = "idle", thread[t].at \in {"minScan", "minStore", "gcSweep", "idle"}
      PROVE  SamePhase(thread[t], Idle)
  BY <1>3 DEF SamePhase, Idle, InCommit, Deciding, Decided
<1>4. ASSUME UpdateMinScan(t) PROVE Quiet(t)
  <2>1. PICK min : Become(t, [thread[t] EXCEPT !.at = "minStore", !.min = min])
    BY <1>4 DEF UpdateMinScan
  <2> DEFINE l == [thread[t] EXCEPT !.at = "minStore", !.min = min]
  <2>2. /\ l.at = "minStore" /\ l.return = thread[t].return /\ l.id = thread[t].id
        /\ l.todo = thread[t].todo
    BY <1>0, LocalsOf DEF Locals
  <2>3. Become(t, l) BY <2>1
  <2> HIDE DEF l
  <2>4. SamePhase(thread[t], l)
    BY <1>4, <2>2 DEF UpdateMinScan, In, SamePhase, InCommit, Deciding, Decided
  <2>5. QED BY <1>1, <1>4, <2>3, <2>4 DEF UpdateMinScan, walVars, mvccVars
<1>5. ASSUME UpdateMinStore(t) PROVE Quiet(t)
  <2>1. CASE thread[t].return = "idle"
    BY <1>1, <1>3, <1>5, <2>1 DEF UpdateMinStore, In, Return, walVars
  <2>2. CASE thread[t].return = "commitRecord"
    <3> DEFINE l == [thread[t] EXCEPT !.at = thread[t].return, !.min = 0]
    <3>1. /\ l.at = "commitRecord" /\ l.return = thread[t].return /\ l.id = thread[t].id
          /\ l.todo = thread[t].todo
      BY <1>0, <2>2, LocalsOf DEF Locals
    <3>2. Become(t, l) BY <1>5, <2>2 DEF UpdateMinStore
    <3> HIDE DEF l
    <3>3. SamePhase(thread[t], l)
      BY <1>5, <3>1 DEF UpdateMinStore, In, SamePhase, InCommit, Deciding, Decided
    <3>4. QED BY <1>1, <1>5, <3>2, <3>3 DEF UpdateMinStore, walVars
  <2>3. QED BY <1>0, <2>1, <2>2 DEF CallShape
<1>6. ASSUME NEW id \in TxnIds, NEW key \in Keys, Read(t, id, key) PROVE Quiet(t)
  <2>1. \A i \in TxnIds : txn'[i].writes = txn[i].writes
    BY <1>0, <1>6 DEF Read, RecordRead, Transactions
  <2>2. QED
    BY <1>0, <1>6, <2>1 DEF Read, Quiet, SamePhase, walVars, storageVars
<1>7. ASSUME NEW label, Goto(t, label),
             UNCHANGED <<handles, buffers, activeTxns, nextTxnId, txn, chains>>,
             \/ label \in {"revalidate", "allocTs"} /\ thread[t].at \in {"validate", "revalidate"}
             \/ label \in {"sync", "publish"} /\ thread[t].at \in {"commitRecord", "sync"}
      PROVE  Quiet(t)
  <2> DEFINE l == [thread[t] EXCEPT !.at = label]
  <2>1. /\ l.at = label /\ l.return = thread[t].return /\ l.id = thread[t].id
        /\ l.todo = thread[t].todo
    BY <1>0, LocalsAfter
  <2>2. Become(t, l) BY <1>7 DEF Goto
  <2> HIDE DEF l
  <2>3. SamePhase(thread[t], l)
    BY <1>0, <1>7, <2>1 DEF SamePhase, InCommit, Deciding, Decided, CallShape
  <2>4. QED BY <1>1, <1>7, <2>2, <2>3
<1>8. ASSUME CommitAllocTs(t) PROVE Quiet(t)
  <2> DEFINE l == [thread[t] EXCEPT !.at = "track", !.ts = tsCounter]
  <2>1. l.at = "track" /\ l.return = thread[t].return /\ l.id = thread[t].id /\ l.todo = thread[t].todo
    BY <1>0, LocalsOf DEF Locals
  <2>2. Become(t, l) BY <1>8 DEF CommitAllocTs
  <2> HIDE DEF l
  <2>3. SamePhase(thread[t], l)
    BY <1>8, <2>1 DEF CommitAllocTs, In, SamePhase, InCommit, Deciding, Decided
  <2>4. QED BY <1>1, <1>8, <2>2, <2>3 DEF CommitAllocTs, walVars
<1>9. ASSUME GcLoad(t) PROVE Quiet(t)
  <2> DEFINE l == [thread[t] EXCEPT !.at = "gcSweep", !.min = minActiveTs]
  <2>1. l.at = "gcSweep" /\ l.return = thread[t].return /\ l.id = thread[t].id /\ l.todo = thread[t].todo
    BY <1>0, LocalsOf DEF Locals
  <2>2. Become(t, l) BY <1>9 DEF GcLoad
  <2> HIDE DEF l
  <2>3. SamePhase(thread[t], l)
    BY <1>9, <2>1 DEF GcLoad, In, SamePhase, InCommit, Deciding, Decided
  <2>4. QED BY <1>1, <1>9, <2>2, <2>3 DEF GcLoad, walVars, mvccVars
<1>10. ASSUME GcSweep(t) PROVE Quiet(t)
  <2>1. \A key \in Keys : chains'[key].uncommitted \subseteq chains[key].uncommitted
    <3>1. GcSweep(t) => ~WriteStep(t) /\ ~CommitAllocTs(t) /\ ~CommitPublish(t)
      BY DEF GcSweep, WriteStep, Write, Delete, WriteKey, MayCall, CommitAllocTs, CommitPublish, In
    <3>2. QED BY <1>10, <3>1, OtherStepsShrink DEF Shrinks
  <2>2. thread'[t] = Idle /\ \A u \in Threads \ {t} : thread'[u] = thread[u]
    BY <1>0, <1>10, OtherThreads DEF GcSweep, Return
  <2>3. thread[t].return = "idle" /\ thread[t].at = "gcSweep"
    BY <1>0, <1>10 DEF GcSweep, In, CallShape, Decided
  <2>4. QED
    BY <1>0, <1>3, <1>10, <2>1, <2>2, <2>3 DEF GcSweep, Quiet, walVars, mvccVars
<1>11. QED
  BY <1>2, <1>4, <1>5, <1>6, <1>7, <1>8, <1>9, <1>10
  DEF UpdateMinStep, ReadStep, MaintenanceStep, CommitValidate, CommitRevalidate, CommitRecord,
      GroupSync, CommitSync, Checkpoint, In, walVars, mvccVars, storageVars

\* Where a call starts.
LEMMA EnterLocals ==
  ASSUME ThreadTypeOK, NEW t \in Threads, NEW label, NEW id, Enter(t, label, id)
  PROVE  /\ thread'[t].at = label /\ thread'[t].id = id /\ thread'[t].return = "idle"
         /\ \A u \in Threads \ {t} : thread'[u] = thread[u]
<1> DEFINE l == [Idle EXCEPT !.at = label, !.id = id]
<1>1. l.at = label /\ l.id = id /\ l.return = "idle"
  BY LocalsAfter
<1>2. Become(t, l)
  BY DEF Enter
<1> HIDE DEF l
<1> QED BY <1>1, <1>2, OtherThreads

\* How a call goes on to the watermark.
LEMMA MinThenLocals ==
  ASSUME ThreadTypeOK, NEW t \in Threads, NEW label, UpdateMinThen(t, label)
  PROVE  /\ thread'[t].at = "minScan" /\ thread'[t].id = thread[t].id
         /\ thread'[t].return = label /\ thread'[t].todo = thread[t].todo
         /\ \A u \in Threads \ {t} : thread'[u] = thread[u]
<1> DEFINE l == [thread[t] EXCEPT !.at = "minScan", !.return = label]
<1>1. l.at = "minScan" /\ l.return = label /\ l.id = thread[t].id /\ l.todo = thread[t].todo
  BY LocalsAfter
<1>2. Become(t, l)
  BY DEF UpdateMinThen
<1> HIDE DEF l
<1> QED BY <1>1, <1>2, OtherThreads

\* How a call goes on to its next step.
LEMMA GotoLocals ==
  ASSUME ThreadTypeOK, NEW t \in Threads, NEW label, Goto(t, label)
  PROVE  /\ thread'[t].at = label /\ thread'[t].id = thread[t].id
         /\ thread'[t].return = thread[t].return /\ thread'[t].todo = thread[t].todo
         /\ \A u \in Threads \ {t} : thread'[u] = thread[u]
<1> DEFINE l == [thread[t] EXCEPT !.at = label]
<1>1. l.at = label /\ l.return = thread[t].return /\ l.id = thread[t].id /\ l.todo = thread[t].todo
  BY LocalsAfter
<1>2. Become(t, l)
  BY DEF Goto
<1> HIDE DEF l
<1> QED BY <1>1, <1>2, OtherThreads

\* begin gives the handle of an id that has never been used: it has no slot.
LEMMA BeginKeeps ==
  ASSUME TypeOK, CallInv, HandleInv, SlotInv, NEW t \in Threads, BeginStep(t), ThreadStep(t)
  PROVE  HandleInv' /\ SlotInv'
<1>0. /\ ThreadTypeOK /\ WalGrows /\ nextTxnId \in Nat /\ CallShape(thread[t])
      /\ handles \in [TxnIds -> Handles] /\ txn \in [TxnIds -> Transactions]
  BY ThreadStepGrowsWal DEF TypeOK, WalTypeOK, MvccTypeOK, ClientTypeOK, CallInv
<1>1. ASSUME NEW d \in TxnIds, NEW mode, NEW h \in {"open", "fast"},
             MayCall(t, d), AllocTxnId(d), Enter(t, "insert", d),
             txn' = [txn EXCEPT ![d] = NewTransaction(mode, tsCounter)],
             handles' = [handles EXCEPT ![d] = h],
             UNCHANGED <<activeTxns, chains, buffers, status>>
      PROVE  HandleInv' /\ SlotInv'
  <2>1. /\ thread'[t].at = "insert" /\ thread'[t].id = d /\ thread'[t].return = "idle"
        /\ thread[t].id = 0 /\ \A u \in Threads \ {t} : thread'[u] = thread[u]
    <3>1. thread[t] = Idle
      BY <1>0, <1>1 DEF MayCall, CallShape
    <3>2. QED BY <1>0, <1>1, <3>1, EnterLocals DEF Idle
  <2>2. StepOf(t, d)
    BY <1>0, <1>1, <2>1 DEF StepOf, AllocTxnId
  <2>3. HandleOf(d) /\ handles[d] = "free" /\ \A u \in Threads : thread[u].id # d
    BY <1>0, <1>1 DEF HandleInv, HandleOf, AllocTxnId
  <2>4. buffers[d] = << >>
    BY <2>3 DEF HandleOf
  <2>5. HandleOf(d)'
    <3>1. nextTxnId' = d + 1 /\ d \in Nat /\ handles'[d] = h /\ buffers'[d] = << >>
      BY <1>0, <1>1, <2>4 DEF AllocTxnId
    <3>2. \A u \in Threads : thread'[u].id = d => thread'[u].at = "insert" /\ thread'[u].return = "idle" /\ u = t
      BY <2>1, <2>3
    <3>3. QED
      BY <2>1, <3>1, <3>2 DEF HandleOf, InCommit, Deciding, Decided
  <2>6. \A key \in Keys : \A v \in chains'[key].uncommitted : v.txn # d
    <3>1. ASSUME NEW key \in Keys, NEW v \in chains[key].uncommitted PROVE v.txn < nextTxnId /\ v.txn \in TxnIds
      BY DEF SlotInv, SlotOf
    <3>2. QED BY <1>0, <1>1, <3>1 DEF AllocTxnId
  <2>7. QED
    BY <2>2, <2>5, <2>6, StepOfKeeps
<1>2. ASSUME NEW mode, BeginWithMode(t, mode) PROVE HandleInv' /\ SlotInv'
  <2>1. PICK d \in TxnIds : BeginWithMode(t, mode)!(d)
    BY <1>2 DEF BeginWithMode
  <2>2. QED BY <1>1, <2>1
<1>3. ASSUME BeginReadOnlyFast(t) PROVE HandleInv' /\ SlotInv'
  <2>1. PICK d \in TxnIds : BeginReadOnlyFast(t)!(d)
    BY <1>3 DEF BeginReadOnlyFast
  <2>2. QED BY <1>1, <2>1
<1>4. ASSUME BeginInsert(t) PROVE HandleInv' /\ SlotInv'
  <2>1. PICK d \in TxnIds : d = thread[t].id
    BY <1>0, <1>4, LocalsOf DEF BeginInsert, In, TxnLabels, Labels
  <2>2. /\ thread'[t].at = "minScan" /\ thread'[t].id = d /\ thread'[t].return = "idle"
        /\ \A u \in Threads \ {t} : thread'[u] = thread[u]
        /\ thread[t].at = "insert" /\ thread[t].return = "idle"
    BY <1>0, <1>4, <2>1, MinThenLocals DEF BeginInsert, In, CallShape, Decided
  <2>3. /\ UNCHANGED <<handles, buffers, nextTxnId, txn, chains, wal>>
        /\ activeTxns' = activeTxns \cup {d}
    BY <1>4, <2>1 DEF BeginInsert, walVars
  <2>4. StepOf(t, d)
    BY <1>0, <2>1, <2>2, <2>3 DEF StepOf
  <2>5. HandleOf(d) /\ \A u \in Threads : thread[u].id = d => u = t
    BY <2>1, TxnIdsNat DEF HandleInv, CallInv
  <2>6. \A u \in Threads : thread'[u].id = d => u = t /\ ~InCommit(thread'[u]) /\ thread'[u].at # "insert"
    BY <2>2, <2>5 DEF InCommit, Deciding, Decided
  <2>7. HandleOf(d)'
    BY <2>1, <2>3, <2>5, <2>6 DEF HandleOf
  <2>8. ASSUME NEW key \in Keys, NEW v \in chains'[key].uncommitted, v.txn = d PROVE SlotOf(key, d)'
    <3>1. SlotOf(key, d)
      BY <2>3, <2>8 DEF SlotInv
    <3>2. \A u \in Threads : thread[u].id = d => ~InCommit(thread[u])
      BY <2>2, <2>5 DEF InCommit, Deciding, Decided
    <3>3. QED
      BY <2>3, <2>6, <3>1, <3>2 DEF SlotOf, InCommit
  <2>9. QED
    BY <2>4, <2>7, <2>8, StepOfKeeps
<1> QED BY <1>2, <1>3, <1>4 DEF BeginStep

\* A write is in the buffer and in the write set before it is in the slot.
LEMMA WriteKeeps ==
  ASSUME TypeOK, CallInv, HandleInv, SlotInv, NEW t \in Threads, WriteStep(t), ThreadStep(t)
  PROVE  HandleInv' /\ SlotInv'
<1>0. /\ ThreadTypeOK /\ WalGrows /\ nextTxnId \in Nat /\ CallShape(thread[t])
      /\ handles \in [TxnIds -> Handles] /\ txn \in [TxnIds -> Transactions]
      /\ buffers \in [TxnIds -> Seq(DataRecords)] /\ chains \in [Keys -> Chains(StoredValues, Nat)]
  BY ThreadStepGrowsWal DEF TypeOK, WalTypeOK, MvccTypeOK, MemTableTypeOK, ClientTypeOK, CallInv
<1>1. PICK d \in TxnIds, key \in Keys, value \in StoredValues : WriteKey(t, d, key, value)
  BY DEF WriteStep, Write, Delete, StoredValues
<1>2. /\ \A u \in Threads : thread[u].id # d
      /\ handles[d] = "open" /\ thread[t] = Idle
      /\ UNCHANGED <<nextTxnId, activeTxns, wal, thread>>
      /\ buffers' = [buffers EXCEPT ![d] = Append(@, Data(d, key, value))]
      /\ handles' = handles \/ handles' = [handles EXCEPT ![d] = "failed"]
      /\ chains' = chains \/ chains' = [chains EXCEPT ![key] = AddUncommitted(@, value, d)]
  BY <1>0, <1>1 DEF WriteKey, MayCall, CallShape, walVars
<1>3. HandleOf(d) /\ d \in activeTxns
  BY <1>2 DEF HandleInv, HandleOf
<1>4. txn' = [txn EXCEPT ![d] = RecordWrite(@, key)]
  BY <1>1, <1>3 DEF WriteKey
<1>5. /\ Data(d, key, value) \in DataRecords
      /\ Data(d, key, value).txn = d /\ Data(d, key, value).key = key /\ Data(d, key, value).type = "Data"
  BY DEF Data, DataRecords, WalValue, WalValues, StoredValues
<1>6. \A k \in Keys : \A v \in chains'[k].uncommitted :
          v \in chains[k].uncommitted \/ (v.txn = d /\ k = key)
  BY <1>0, <1>2 DEF AddUncommitted, Chains
<1>7. StepOf(t, d)
  BY <1>0, <1>2, <1>4, <1>6 DEF StepOf, Idle
<1> DEFINE b == buffers[d]
           c == Append(b, Data(d, key, value))
<1>8. /\ c \in Seq(DataRecords) /\ Len(c) = Len(b) + 1 /\ Len(b) \in Nat
      /\ c[Len(b) + 1] = Data(d, key, value)
      /\ \A i \in 1..Len(b) : c[i] = b[i]
      /\ buffers'[d] = c
  BY <1>0, <1>2, <1>5
<1>9. \A i \in 1..Len(c) : c[i].txn = d
  BY <1>3, <1>5, <1>8 DEF HandleOf
<1>10. /\ DataIn(c, d, key)
       /\ \A k : DataIn(b, d, k) => DataIn(c, d, k)
  BY <1>5, <1>8 DEF DataIn
<1>11. /\ key \in txn'[d].writes
       /\ \A k \in txn[d].writes : k \in txn'[d].writes
  BY <1>0, <1>4 DEF RecordWrite, Transactions
<1>12. handles'[d] \in {"open", "failed"} /\ (nextTxnId <= d => FALSE)
  BY <1>0, <1>2, <1>3 DEF HandleOf
<1> HIDE DEF b, c
<1>13. HandleOf(d)'
  BY <1>2, <1>3, <1>8, <1>9, <1>12 DEF HandleOf
<1>14. ASSUME NEW k \in Keys, NEW v \in chains'[k].uncommitted, v.txn = d PROVE SlotOf(k, d)'
  <2>1. DataIn(c, d, k) /\ k \in txn'[d].writes
    <3>1. CASE v \in chains[k].uncommitted
      <4>1. DataIn(b, d, k) /\ k \in txn[d].writes
        BY <1>2, <1>14, <3>1 DEF SlotInv, SlotOf, b
      <4>2. QED BY <1>10, <1>11, <4>1
    <3>2. CASE k = key
      BY <1>10, <1>11, <3>2
    <3>3. QED BY <1>6, <3>1, <3>2
  <2>2. d < nextTxnId'
    BY <1>0, <1>2, <1>12, TxnIdsNat
  <2>3. QED
    BY <1>2, <1>8, <1>12, <2>1, <2>2 DEF SlotOf
<1> QED BY <1>7, <1>13, <1>14, StepOfKeeps

\* A commit moves the account of its slots from the buffer to the log, then
\* from the write set to the keys it still has to publish.
LEMMA CommitKeeps ==
  ASSUME TypeOK, CallInv, HandleInv, SlotInv, NEW t \in Threads, ThreadStep(t), CommitStep(t)
  PROVE  HandleInv' /\ SlotInv'
<1>0. /\ ThreadTypeOK /\ WalTypeOK /\ WalGrows /\ nextTxnId \in Nat /\ CallShape(thread[t])
      /\ handles \in [TxnIds -> Handles] /\ txn \in [TxnIds -> Transactions]
      /\ buffers \in [TxnIds -> Seq(DataRecords)] /\ chains \in [Keys -> Chains(StoredValues, Nat)]
      /\ TxnIds \subseteq Nat /\ 0 \notin TxnIds
  BY ThreadStepGrowsWal, TxnIdsNat
  DEF TypeOK, WalTypeOK, MvccTypeOK, MemTableTypeOK, ClientTypeOK, CallInv
<1>a. ASSUME thread[t].at \in {"revalidate", "track", "sync", "publish"}
      PROVE  \E d \in TxnIds : d = thread[t].id
  BY <1>0, <1>a, LocalsOf DEF TxnLabels, Labels
<1>b. ASSUME NEW d \in TxnIds, thread[t].id = d
      PROVE  HandleOf(d) /\ \A u \in Threads : thread[u].id = d => u = t
  BY <1>0, <1>b DEF HandleInv, CallInv
<1>c. \A i, key : DataIn(wal, i, key) => DataIn(wal', i, key)
  BY <1>0, DataStays
<1>1. ASSUME NEW d \in TxnIds, CommitFlush(t, d) PROVE HandleInv' /\ SlotInv'
  <2>1. /\ thread'[t].at = "validate" /\ thread'[t].id = d /\ thread'[t].return = "idle"
        /\ \A u \in Threads \ {t} : thread'[u] = thread[u]
        /\ thread[t] = Idle /\ \A u \in Threads : thread[u].id # d
    BY <1>0, <1>1, EnterLocals DEF CommitFlush, MayCall, CallShape
  <2>2. /\ UNCHANGED <<handles, nextTxnId, txn, chains, activeTxns>> /\ handles[d] = "open"
        /\ buffers' = [buffers EXCEPT ![d] = << >>] /\ wal' = wal \o buffers[d]
    BY <1>1 DEF CommitFlush, mvccVars
  <2>3. StepOf(t, d)
    BY <1>0, <2>1, <2>2 DEF StepOf, Idle
  <2>4. HandleOf(d) /\ d \in activeTxns
    BY <2>1, <2>2 DEF HandleInv, HandleOf
  <2>5. HandleOf(d)'
    <3>1. buffers'[d] = << >>
      BY <1>0, <2>2
    <3>2. QED BY <1>0, <2>1, <2>2, <2>4, <3>1 DEF HandleOf
  <2>6. ASSUME NEW key \in Keys, NEW v \in chains'[key].uncommitted, v.txn = d PROVE SlotOf(key, d)'
    <3>1. SlotOf(key, d) /\ DataIn(buffers[d], d, key) /\ key \in txn[d].writes
      BY <2>1, <2>2, <2>6 DEF SlotInv, SlotOf
    <3>2. DataIn(wal', d, key)
      <4>1. wal \in Seq(Records) /\ buffers[d] \in Seq(Records)
        BY <1>0 DEF WalTypeOK, Records
      <4>2. PICK i \in 1..Len(buffers[d]) : buffers[d][i].type = "Data" /\ buffers[d][i].txn = d /\ buffers[d][i].key = key
        BY <3>1 DEF DataIn
      <4>3. Len(wal) + i \in 1..Len(wal') /\ wal'[Len(wal) + i] = buffers[d][i]
        BY <2>2, <4>1
      <4>4. QED BY <4>2, <4>3 DEF DataIn
    <3>3. InCommit(thread'[t]) /\ \A u \in Threads : thread'[u].id = d => u = t /\ ~Decided(thread'[u])
      BY <2>1 DEF InCommit, Deciding, Decided
    <3>4. QED
      BY <2>1, <2>2, <3>1, <3>2, <3>3 DEF SlotOf
  <2>7. QED BY <2>3, <2>5, <2>6, StepOfKeeps
<1>2. ASSUME CommitRefused(t) PROVE HandleInv' /\ SlotInv'
  <2>1. PICK d \in TxnIds : d = thread[t].id
    BY <1>a, <1>2 DEF CommitRefused, In
  <2>2. /\ thread'[t].at = "minScan" /\ thread'[t].id = d /\ thread'[t].return = "idle"
        /\ \A u \in Threads \ {t} : thread'[u] = thread[u]
        /\ thread[t].at = "revalidate"
    BY <1>0, <1>2, <2>1, MinThenLocals DEF CommitRefused, In
  <2>3. /\ UNCHANGED <<nextTxnId, chains, buffers>>
        /\ handles' = [handles EXCEPT ![d] = "dead"] /\ activeTxns' = activeTxns \ {d}
        /\ txn' = [txn EXCEPT ![d] = NoTransaction]
    BY <1>2, <2>1 DEF CommitRefused, walVars
  <2>4. StepOf(t, d)
    BY <1>0, <2>1, <2>2, <2>3 DEF StepOf
  <2>5. /\ HandleOf(d) /\ InCommit(thread[t]) /\ handles[d] = "open" /\ buffers[d] = << >>
        /\ \A u \in Threads : thread[u].id = d => u = t
    BY <1>b, <2>1, <2>2 DEF HandleOf, InCommit, Deciding
  <2>6. /\ \A u \in Threads : thread'[u].id = d => u = t /\ ~InCommit(thread'[u]) /\ thread'[u].at # "insert"
        /\ handles'[d] = "dead"
    BY <1>0, <2>2, <2>3, <2>5 DEF InCommit, Deciding, Decided
  <2>7. HandleOf(d)'
    BY <1>0, <2>3, <2>5, <2>6 DEF HandleOf
  <2>8. ASSUME NEW key \in Keys, NEW v \in chains'[key].uncommitted, v.txn = d PROVE SlotOf(key, d)'
    <3>1. SlotOf(key, d) /\ DataIn(wal, d, key)
      BY <2>1, <2>2, <2>3, <2>8 DEF SlotInv, SlotOf, Deciding
    <3>2. QED
      BY <1>c, <2>3, <2>6, <3>1 DEF SlotOf, InCommit
  <2>9. QED BY <2>4, <2>7, <2>8, StepOfKeeps
<1>3. ASSUME CommitTrack(t) PROVE HandleInv' /\ SlotInv'
  <2>1. PICK d \in TxnIds : d = thread[t].id
    BY <1>a, <1>3 DEF CommitTrack, In
  <2> DEFINE l == [thread[t] EXCEPT !.at = "minScan", !.return = "commitRecord", !.todo = txn[d].writes]
  <2>2. /\ l.at = "minScan" /\ l.return = "commitRecord" /\ l.id = d /\ l.todo = txn[d].writes
        /\ Become(t, l) /\ thread[t].at = "track"
    BY <1>0, <1>3, <2>1, LocalsOf DEF CommitTrack, In, Locals
  <2> HIDE DEF l
  <2>3. thread'[t] = l /\ \A u \in Threads \ {t} : thread'[u] = thread[u]
    BY <1>0, <2>2, OtherThreads
  <2>4. /\ UNCHANGED <<nextTxnId, chains, buffers, handles>> /\ activeTxns' = activeTxns \ {d}
        /\ txn' = [txn EXCEPT ![d] = NoTransaction]
    BY <1>3, <2>1 DEF CommitTrack, walVars
  <2>5. StepOf(t, d)
    BY <1>0, <2>1, <2>2, <2>3, <2>4 DEF StepOf
  <2>6. /\ HandleOf(d) /\ InCommit(thread[t]) /\ handles[d] = "open" /\ buffers[d] = << >>
        /\ \A u \in Threads : thread[u].id = d => u = t
    BY <1>b, <2>1, <2>2 DEF HandleOf, InCommit, Deciding
  <2>7. /\ \A u \in Threads : thread'[u].id = d => u = t /\ ~Deciding(thread'[u]) /\ thread'[u].at # "insert"
        /\ Decided(thread'[t]) /\ InCommit(thread'[t]) /\ thread'[t].id = d
    BY <2>2, <2>3, <2>6 DEF InCommit, Deciding, Decided
  <2>8. HandleOf(d)'
    BY <2>1, <2>4, <2>6, <2>7 DEF HandleOf
  <2>9. ASSUME NEW key \in Keys, NEW v \in chains'[key].uncommitted, v.txn = d PROVE SlotOf(key, d)'
    <3>1. SlotOf(key, d) /\ DataIn(wal, d, key) /\ key \in txn[d].writes
      BY <2>1, <2>2, <2>4, <2>9 DEF SlotInv, SlotOf, Deciding
    <3>2. QED
      BY <1>c, <2>2, <2>3, <2>4, <2>6, <2>7, <3>1 DEF SlotOf
  <2>10. QED BY <2>5, <2>8, <2>9, StepOfKeeps
<1>4. ASSUME CommitPublish(t) PROVE HandleInv' /\ SlotInv'
  <2>1. PICK d \in TxnIds : d = thread[t].id
    BY <1>a, <1>4 DEF CommitPublish, In
  <2>2. PICK key \in thread[t].todo :
             /\ chains' = [chains EXCEPT ![key] = CommitVersion(@, d, thread[t].ts)]
             /\ Become(t, [thread[t] EXCEPT !.todo = @ \ {key}])
    BY <1>4, <2>1 DEF CommitPublish
  <2> DEFINE l == [thread[t] EXCEPT !.todo = @ \ {key}]
  <2>3. /\ l.at = "publish" /\ l.return = thread[t].return /\ l.id = d /\ l.todo = thread[t].todo \ {key}
        /\ Become(t, l) /\ thread[t].at = "publish" /\ key \in Keys
    BY <1>0, <1>4, <2>1, <2>2, LocalsOf DEF CommitPublish, In, Locals
  <2> HIDE DEF l
  <2>4. thread'[t] = l /\ \A u \in Threads \ {t} : thread'[u] = thread[u]
    BY <1>0, <2>3, OtherThreads
  <2>5. UNCHANGED <<nextTxnId, buffers, handles, activeTxns, txn>>
    BY <1>4 DEF CommitPublish, walVars, mvccVars
  <2>6. /\ \A k \in Keys : chains'[k].uncommitted \subseteq chains[k].uncommitted
        /\ \A v \in chains'[key].uncommitted : v.txn # d
    BY <1>0, <2>2, <2>3 DEF CommitVersion, OwnsSlot
  <2>7. StepOf(t, d)
    BY <1>0, <2>1, <2>3, <2>4, <2>5, <2>6 DEF StepOf
  <2>8. /\ HandleOf(d) /\ Decided(thread[t]) /\ InCommit(thread[t])
        /\ \A u \in Threads : thread[u].id = d => u = t
    BY <1>0, <1>b, <2>1, <2>3 DEF CallShape, InCommit
  <2>9. /\ \A u \in Threads : thread'[u].id = d => u = t /\ ~Deciding(thread'[u]) /\ thread'[u].at # "insert"
        /\ Decided(thread'[t]) /\ InCommit(thread'[t]) /\ thread'[t].id = d
    BY <2>3, <2>4, <2>8 DEF InCommit, Deciding, Decided
  <2>10. HandleOf(d)'
    BY <2>1, <2>5, <2>8, <2>9 DEF HandleOf
  <2>11. ASSUME NEW k \in Keys, NEW v \in chains'[k].uncommitted, v.txn = d PROVE SlotOf(k, d)'
    <3>1. SlotOf(k, d) /\ DataIn(wal, d, k) /\ k \in thread[t].todo /\ k # key
      BY <2>1, <2>6, <2>8, <2>11 DEF SlotInv, SlotOf
    <3>2. QED
      BY <1>c, <2>1, <2>3, <2>4, <2>5, <2>8, <2>9, <3>1 DEF SlotOf
  <2>12. QED BY <2>7, <2>10, <2>11, StepOfKeeps
<1>5. ASSUME NEW h \in {"free", "dead"}, NEW d \in TxnIds, d = thread[t].id,
             In(t, "sync") \/ In(t, "publish"), Return(t),
             handles' = [handles EXCEPT ![d] = h],
             UNCHANGED <<nextTxnId, activeTxns, txn, chains, buffers>>
      PROVE  HandleInv' /\ SlotInv'
  <2>1. /\ thread'[t] = Idle /\ \A u \in Threads \ {t} : thread'[u] = thread[u]
        /\ Decided(thread[t]) /\ InCommit(thread[t])
    BY <1>0, <1>5, OtherThreads DEF Return, In, CallShape, InCommit
  <2>2. StepOf(t, d)
    BY <1>0, <1>5, <2>1 DEF StepOf, Idle
  <2>3. /\ HandleOf(d) /\ handles[d] = "open" /\ buffers[d] = << >> /\ handles'[d] = h
        /\ \A u \in Threads : thread[u].id = d => u = t
    BY <1>0, <1>b, <1>5, <2>1 DEF HandleOf
  <2>4. \A u \in Threads : thread'[u].id # d
    BY <1>0, <2>1, <2>3 DEF Idle
  <2>5. HandleOf(d)'
    <3>1. ~(nextTxnId <= d)
      BY <1>5, <2>3 DEF HandleOf
    <3>2. QED BY <1>5, <2>3, <2>4, <3>1 DEF HandleOf
  <2>6. ASSUME NEW k \in Keys, NEW v \in chains'[k].uncommitted, v.txn = d PROVE SlotOf(k, d)'
    <3>1. SlotOf(k, d) /\ DataIn(wal, d, k)
      BY <1>5, <2>1, <2>6 DEF SlotInv, SlotOf
    <3>2. QED
      BY <1>c, <1>5, <2>3, <2>4, <3>1 DEF SlotOf
  <2>7. QED BY <2>2, <2>5, <2>6, StepOfKeeps
<1>6. ASSUME CommitSyncFails(t) \/ CommitDone(t) PROVE HandleInv' /\ SlotInv'
  <2>1. PICK d \in TxnIds : d = thread[t].id
    BY <1>a, <1>6 DEF CommitSyncFails, CommitDone, In
  <2>2. QED
    BY <1>5, <1>6, <2>1 DEF CommitSyncFails, CommitDone, walVars, mvccVars
<1>7. QED
  BY <1>1, <1>2, <1>3, <1>4, <1>6, QuietSteps, QuietKeeps DEF CommitStep

\* abort clears the slots of a transaction that has a buffer; without one it
\* had no slot, or its data is in the log.
LEMMA AbortKeeps ==
  ASSUME TypeOK, CallInv, HandleInv, SlotInv, NEW t \in Threads, ThreadStep(t), AbortStep(t)
  PROVE  HandleInv' /\ SlotInv'
<1>0. /\ ThreadTypeOK /\ WalTypeOK /\ WalGrows /\ nextTxnId \in Nat /\ CallShape(thread[t])
      /\ handles \in [TxnIds -> Handles] /\ txn \in [TxnIds -> Transactions]
      /\ buffers \in [TxnIds -> Seq(DataRecords)] /\ chains \in [Keys -> Chains(StoredValues, Nat)]
      /\ TxnIds \subseteq Nat /\ 0 \notin TxnIds
  BY ThreadStepGrowsWal, TxnIdsNat
  DEF TypeOK, WalTypeOK, MvccTypeOK, MemTableTypeOK, ClientTypeOK, CallInv
<1>1. PICK d \in TxnIds : Abort(t, d) \/ AbortReadOnlyFast(t, d)
  BY DEF AbortStep
<1>2. /\ UNCHANGED nextTxnId /\ handles' = [handles EXCEPT ![d] = "free"]
      /\ activeTxns' = activeTxns \ {d} /\ txn' = [txn EXCEPT ![d] = NoTransaction]
      /\ MayCall(t, d) /\ UpdateMinThen(t, "idle")
      /\ buffers' = [buffers EXCEPT ![d] = << >>] \/ (buffers' = buffers /\ handles[d] = "fast")
  BY <1>1, Zenon DEF Abort, AbortReadOnlyFast, walVars
<1>3. /\ chains' = chains \/ chains' = [k \in Keys |-> AbortVersion(chains[k], d)]
      /\ handles[d] # "fast" /\ buffers[d] # << >> => chains' = [k \in Keys |-> AbortVersion(chains[k], d)]
  BY <1>1, Zenon DEF Abort, AbortReadOnlyFast
<1>4. /\ thread[t] = Idle /\ \A u \in Threads : thread[u].id # d
      /\ thread'[t].at = "minScan" /\ thread'[t].id = 0 /\ thread'[t].return = "idle"
      /\ \A u \in Threads \ {t} : thread'[u] = thread[u]
  <2>1. thread[t] = Idle /\ thread[t].id = 0
    BY <1>0, <1>2 DEF MayCall, CallShape, Idle
  <2>2. QED BY <1>0, <1>2, <2>1, MinThenLocals DEF MayCall
<1>5. /\ \A k \in Keys : chains'[k].uncommitted \subseteq chains[k].uncommitted
      /\ handles[d] # "fast" /\ buffers[d] # << >> =>
            \A k \in Keys : \A v \in chains'[k].uncommitted : v.txn # d
  BY <1>0, <1>3 DEF AbortVersion, Chains
<1>6. StepOf(t, d)
  BY <1>0, <1>2, <1>4, <1>5 DEF StepOf, Idle
<1>7. HandleOf(d) /\ handles'[d] = "free" /\ \A u \in Threads : thread'[u].id # d
  BY <1>0, <1>2, <1>4 DEF HandleInv
<1>8. buffers'[d] = << >>
  BY <1>0, <1>2, <1>7 DEF HandleOf
<1>9. HandleOf(d)'
  BY <1>2, <1>7, <1>8 DEF HandleOf
<1>10. ASSUME NEW k \in Keys, NEW v \in chains'[k].uncommitted, v.txn = d PROVE SlotOf(k, d)'
  <2>1. SlotOf(k, d) /\ handles[d] # "fast" /\ buffers[d] = << >>
    BY <1>5, <1>10 DEF SlotInv, SlotOf
  <2>2. handles[d] = "dead"
    <3>1. ~DataIn(buffers[d], d, k)
      BY <2>1 DEF DataIn
    <3>2. handles[d] \in {"open", "failed", "dead", "fast"}
      BY <1>1, SMT DEF Abort, AbortReadOnlyFast
    <3>3. QED BY <1>4, <2>1, <3>1, <3>2 DEF SlotOf
  <2>3. DataIn(wal', d, k)
    BY <1>0, <2>1, <2>2, DataStays DEF SlotOf
  <2>4. QED BY <1>2, <1>7, <2>1, <2>3 DEF SlotOf
<1> QED BY <1>6, <1>9, <1>10, StepOfKeeps

\* The accounts of handles and slots are invariant.
LEMMA NextAccounts ==
  ASSUME TypeOK, CallInv, HandleInv, SlotInv, [Next]_vars
  PROVE  HandleInv' /\ SlotInv'
<1>1. CASE UNCHANGED vars
  BY <1>1 DEF vars, walVars, mvccVars, storageVars, HandleInv, HandleOf, SlotInv, SlotOf
<1>2. ASSUME NEW t \in Threads, ThreadStep(t) PROVE HandleInv' /\ SlotInv'
  BY <1>2, BeginKeeps, WriteKeeps, CommitKeeps, AbortKeeps, QuietSteps, QuietKeeps DEF ThreadStep
<1>3. ASSUME RestartStep PROVE HandleInv' /\ SlotInv'
  <2>1. /\ \A t \in Threads : thread'[t] = Idle
        /\ \A id \in TxnIds : handles'[id] = "free" /\ buffers'[id] = << >>
        /\ \A key \in Keys : chains'[key].uncommitted = {}
    <3>1. CASE Crash \/ Shutdown
      BY <3>1 DEF Crash, Shutdown, Forget, EmptyChain
    <3>2. CASE Open \/ ReplayRecord \/ FinishRecover
      <4>1. Closed /\ UNCHANGED <<thread, handles, buffers>>
        BY <3>2 DEF Open, ReplayRecord, FinishRecover, storageVars, CallInv
      <4>2. \A key \in Keys : chains'[key].uncommitted = {}
        BY <3>2, <4>1 DEF Open, ReplayRecord, FinishRecover, storageVars, Closed, EmptyChain
      <4>3. QED BY <4>1, <4>2 DEF Closed
    <3>3. QED BY <1>3, <3>1, <3>2 DEF RestartStep
  <2>2. QED
    BY <2>1, TxnIdsNat DEF HandleInv, HandleOf, SlotInv, Idle, InCommit, Deciding, Decided
<1> QED BY <1>1, <1>2, <1>3 DEF Next

-----------------------------------------------------------------------------
(* What outlives its handle.                                               *)

\* The records a step of thread t adds.
Adds(t) ==
    \A i \in (1..Len(wal')) \ (1..Len(wal)) :
        /\ wal'[i].type # "Torn"
        /\ wal'[i].type \in {"Begin", "Commit", "Abort", "Data"} => wal'[i].txn < nextTxnId'
        /\ wal'[i].type = "Commit" => CommitRecord(t) /\ wal'[i].txn = thread[t].id
        /\ wal'[i].type = "Abort" =>
              /\ AbortStep(t) /\ handles'[wal'[i].txn] = "free"
              /\ \A key \in Keys : \A v \in chains'[key].uncommitted : v.txn # wal'[i].txn

\* Every record is of the transaction of the call, and no record is torn.
LEMMA ThreadStepAdds ==
  ASSUME TypeOK, CallInv, HandleInv, NEW t \in Threads, ThreadStep(t)
  PROVE  Adds(t)
<1>0. /\ ThreadTypeOK /\ wal \in Seq(Records) /\ nextTxnId \in Nat
      /\ handles \in [TxnIds -> Handles]
      /\ buffers \in [TxnIds -> Seq(DataRecords)] /\ chains \in [Keys -> Chains(StoredValues, Nat)]
      /\ TxnIds \subseteq Nat
  BY TxnIdsNat DEF TypeOK, WalTypeOK, MvccTypeOK, MemTableTypeOK, ClientTypeOK
<1>1. ASSUME UNCHANGED wal PROVE Adds(t)
  BY <1>1 DEF Adds
<1>2. ASSUME NEW rec, wal' = Append(wal, rec)
      PROVE  \A i \in (1..Len(wal')) \ (1..Len(wal)) : wal'[i] = rec
  <2>1. Len(wal) \in Nat
    BY <1>0
  <2>2. Len(wal') = Len(wal) + 1 /\ wal'[Len(wal) + 1] = rec
    BY <1>0, <1>2
  <2>3. QED BY <2>1, <2>2
<1>3. ASSUME NEW mode, BeginWithMode(t, mode) PROVE Adds(t)
  <2>1. PICK id \in TxnIds : wal' = Append(wal, TxnBegin(id)) /\ id = nextTxnId /\ nextTxnId' = nextTxnId + 1
    BY <1>3 DEF BeginWithMode, Append1, AllocTxnId
  <2>2. QED BY <1>0, <1>2, <2>1 DEF Adds, TxnBegin
<1>4. ASSUME NEW id \in TxnIds, CommitFlush(t, id) PROVE Adds(t)
  <2>1. wal' = wal \o buffers[id] /\ UNCHANGED nextTxnId /\ id < nextTxnId
    BY <1>0, <1>4 DEF CommitFlush, HandleInv, HandleOf
  <2>2. /\ Len(wal') = Len(wal) + Len(buffers[id]) /\ Len(wal) \in Nat /\ Len(buffers[id]) \in Nat
        /\ \A i \in 1..Len(buffers[id]) : wal'[Len(wal) + i] = buffers[id][i]
    <3>1. buffers[id] \in Seq(Records)
      BY <1>0 DEF Records
    <3>2. QED BY <1>0, <2>1, <3>1
  <2>3. \A i \in 1..Len(buffers[id]) : buffers[id][i].type = "Data" /\ buffers[id][i].txn = id
    <3>1. \A i \in 1..Len(buffers[id]) : buffers[id][i] \in DataRecords
      BY <1>0
    <3>2. \A i \in 1..Len(buffers[id]) : buffers[id][i].txn = id
      BY DEF HandleInv, HandleOf
    <3>3. QED BY <3>1, <3>2 DEF DataRecords
  <2>4. ASSUME NEW i \in (1..Len(wal')) \ (1..Len(wal)) PROVE wal'[i].type = "Data" /\ wal'[i].txn = id
    <3>1. i - Len(wal) \in 1..Len(buffers[id]) /\ Len(wal) + (i - Len(wal)) = i
      BY <2>2
    <3>2. QED BY <2>2, <2>3, <3>1
  <2>5. QED BY <2>1, <2>4 DEF Adds
<1>5. ASSUME CommitRecord(t) PROVE Adds(t)
  <2>1. PICK d \in TxnIds : d = thread[t].id
    BY <1>0, <1>5, LocalsOf DEF CommitRecord, In, TxnLabels, Labels
  <2>2. /\ wal' = Append(wal, TxnCommit(d)) /\ UNCHANGED nextTxnId
        /\ TxnCommit(d).type = "Commit" /\ TxnCommit(d).txn = d
    BY <1>5, <2>1 DEF CommitRecord, Append1, TxnCommit
  <2>3. d < nextTxnId
    BY <1>0, <2>1 DEF HandleInv, HandleOf
  <2>4. QED BY <1>2, <1>5, <2>1, <2>2, <2>3 DEF Adds
<1>6. ASSUME AbortStep(t), wal' # wal PROVE Adds(t)
  <2>1. PICK id \in TxnIds : Abort(t, id) \/ AbortReadOnlyFast(t, id)
    BY <1>6 DEF AbortStep
  <2>2. Abort(t, id) /\ buffers[id] # << >>
    BY <1>6, <2>1, Zenon DEF Abort, AbortReadOnlyFast, walVars
  <2>3. /\ wal' = Append(wal, TxnAbort(id)) /\ UNCHANGED nextTxnId
        /\ chains' = [k \in Keys |-> AbortVersion(chains[k], id)]
        /\ handles' = [handles EXCEPT ![id] = "free"]
    BY <2>2, Zenon DEF Abort, Append1
  <2>4. TxnAbort(id).type = "Abort" /\ TxnAbort(id).txn = id
    BY DEF TxnAbort
  <2>5. /\ \A key \in Keys : \A v \in chains'[key].uncommitted : v.txn # id
        /\ handles'[id] = "free"
    BY <1>0, <2>3 DEF AbortVersion, Chains
  <2>6. id < nextTxnId
    BY <1>0, <2>2 DEF HandleInv, HandleOf
  <2>7. QED BY <1>2, <1>6, <2>3, <2>4, <2>5, <2>6 DEF Adds
<1>7. ASSUME Checkpoint(t) PROVE Adds(t)
  BY <1>2, <1>7 DEF Checkpoint, AppendSync, CheckpointRecord, Adds
<1>8. QED
  BY <1>1, <1>3, <1>4, <1>5, <1>6, <1>7
  DEF ThreadStep, BeginStep, BeginReadOnlyFast, BeginInsert, UpdateMinStep, UpdateMinScan,
      UpdateMinStore, ReadStep, Read, WriteStep, Write, Delete, WriteKey, CommitStep,
      CommitValidate, CommitRevalidate, CommitRefused, CommitAllocTs, CommitTrack, GroupSync,
      CommitSync, CommitSyncFails, CommitPublish, CommitDone, MaintenanceStep, GcLoad, GcSweep,
      walVars

\* Ids are given once: what the log holds is below the next id.
LEMMA NextFresh ==
  ASSUME TypeOK, CallInv, HandleInv, FreshInv, [Next]_vars
  PROVE  FreshInv'
<1>0. wal \in Seq(Records) /\ nextTxnId \in Nat /\ TxnIds \subseteq Nat
  BY TxnIdsNat DEF TypeOK, WalTypeOK
<1>1. ASSUME UNCHANGED <<wal, nextTxnId, status>> PROVE FreshInv'
  BY <1>1 DEF FreshInv, Intact
<1>2. ASSUME NEW t \in Threads, ThreadStep(t) PROVE FreshInv'
  <2>1. WalGrows /\ Adds(t) /\ Moves(t, thread'[t])
    BY <1>2, ThreadStepGrowsWal, ThreadStepAdds, ThreadStepMoves
  <2>2. nextTxnId' \in Nat /\ nextTxnId <= nextTxnId' /\ status = "open"
    <3>1. nextTxnId' = nextTxnId \/ nextTxnId' = nextTxnId + 1
      BY <1>2 DEF ThreadStep, BeginStep, BeginWithMode, BeginReadOnlyFast, AllocTxnId, BeginInsert,
        UpdateMinStep, UpdateMinScan, UpdateMinStore, ReadStep, Read, WriteStep, Write, Delete, WriteKey,
        CommitStep, CommitFlush, CommitValidate, CommitRevalidate, CommitRefused, CommitAllocTs,
        CommitTrack, CommitRecord, GroupSync, CommitSync, CommitSyncFails, CommitPublish, CommitDone,
        AbortStep, Abort, AbortReadOnlyFast, MaintenanceStep, GcLoad, GcSweep, Checkpoint, walVars
    <3>2. QED BY <1>0, <2>1, <3>1 DEF Moves
  <2>3. \A i \in 1..Len(wal) : i \in 1..Len(wal') /\ wal'[i] = wal[i]
    BY <1>0, <2>1 DEF WalGrows
  <2>4. ASSUME Intact', NEW id \in TxnIds, nextTxnId' <= id PROVE ~HasRecord(wal', id)
    <3>1. ~HasRecord(wal, id)
      <4>1. Intact
        BY <2>3, <2>4 DEF Intact
      <4>2. nextTxnId <= id
        BY <1>0, <2>2, <2>4
      <4>3. QED BY <2>2, <4>1, <4>2 DEF FreshInv
    <3>2. ASSUME NEW i \in 1..Len(wal'), wal'[i].type \in {"Begin", "Commit", "Abort", "Data"}
          PROVE  wal'[i].txn # id
      <4>1. CASE i \in 1..Len(wal)
        BY <2>3, <3>1, <3>2, <4>1 DEF HasRecord
      <4>2. CASE i \notin 1..Len(wal)
        <5>1. wal'[i].txn < nextTxnId'
          BY <2>1, <3>2, <4>2 DEF Adds
        <5>2. QED BY <1>0, <2>2, <2>4, <5>1
      <4>3. QED BY <4>1, <4>2
    <3>3. QED BY <3>2 DEF HasRecord
  <2>5. QED BY <2>4 DEF FreshInv
<1>3. ASSUME Open PROVE FreshInv'
  <2>1. UNCHANGED wal /\ nextTxnId' \in Nat /\ \A id \in IdsSeen : id < nextTxnId'
    <3>1. PICK n \in IdsSeen \cup {0} : (\A id \in IdsSeen : id <= n) /\ nextTxnId' = n + 1
      BY <1>3 DEF Open, RecoverState
    <3>2. IdsSeen \subseteq Nat
      <4>1. \A rec \in Records : rec.type \notin {"Checkpoint", "Torn"} => rec.txn \in TxnIds
        BY DEF Records, ControlRecords, DataRecords, OtherRecords
      <4>2. \A j \in ReadableRecords : wal[j] \in Records
        BY <1>0 DEF ReadableRecords
      <4>3. QED BY <1>0, <4>1, <4>2 DEF IdsSeen
    <3>3. QED BY <1>3, <3>1, <3>2 DEF Open
  <2>2. ASSUME Intact, NEW id \in TxnIds, HasRecord(wal, id) PROVE id \in IdsSeen
    <3>1. PICK i \in 1..Len(wal) : wal[i].type \in {"Begin", "Commit", "Abort", "Data"} /\ wal[i].txn = id
      BY <2>2 DEF HasRecord
    <3>2. i \in ReadableRecords
      BY <1>0, <2>2 DEF ReadableRecords, Readable, Intact
    <3>3. QED BY <3>1, <3>2 DEF IdsSeen
  <2>3. QED
    BY <1>0, <2>1, <2>2 DEF FreshInv, Intact
<1>4. ASSUME FinishRecover PROVE FreshInv'
  <2>1. UNCHANGED wal /\ nextTxnId' = nextTxnId + 1 /\ status = "recovering"
    BY <1>4 DEF FinishRecover
  <2>2. QED BY <1>0, <2>1 DEF FreshInv, Intact
<1>5. ASSUME Crash \/ Shutdown PROVE FreshInv'
  BY <1>5 DEF Crash, Shutdown, Forget, FreshInv
<1> QED BY <1>1, <1>2, <1>3, <1>4, <1>5
        DEF Next, RestartStep, ReplayRecord, storageVars, vars, walVars

\* An end in the log stays, and only two steps add one.
LEMMA EndsAdded ==
  ASSUME TypeOK, NEW t \in Threads, WalGrows, Adds(t)
  PROVE  \A id : EndedIn(wal', id) =>
            \/ EndedIn(wal, id)
            \/ CommitRecord(t) /\ id = thread[t].id
            \/ AbortStep(t) /\ handles'[id] = "free"
                 /\ \A key \in Keys : \A v \in chains'[key].uncommitted : v.txn # id
<1> SUFFICES ASSUME NEW id, EndedIn(wal', id), ~EndedIn(wal, id)
             PROVE  \/ CommitRecord(t) /\ id = thread[t].id
                    \/ AbortStep(t) /\ handles'[id] = "free"
                         /\ \A key \in Keys : \A v \in chains'[key].uncommitted : v.txn # id
  OBVIOUS
<1>1. PICK i \in 1..Len(wal') : wal'[i] \in {TxnCommit(id), TxnAbort(id)}
  BY DEF EndedIn
<1>2. i \notin 1..Len(wal)
  BY <1>1 DEF EndedIn, WalGrows
<1>3. wal'[i].type \in {"Commit", "Abort"} /\ wal'[i].txn = id
  BY <1>1 DEF TxnCommit, TxnAbort
<1> QED BY <1>2, <1>3 DEF Adds

\* Handles are taken by begin and given up by commit and abort.
LEMMA HandleMoves ==
  ASSUME TypeOK, CallInv, HandleInv, NEW t \in Threads, ThreadStep(t)
  PROVE  /\ \A id \in TxnIds : handles[id] = "free" /\ handles'[id] # "free" => id = nextTxnId
         /\ \A id \in TxnIds : handles[id] # "free" /\ handles'[id] = "free" =>
               \/ CommitDone(t) /\ id = thread[t].id
               \/ Abort(t, id) \/ AbortReadOnlyFast(t, id)
<1>0. handles \in [TxnIds -> Handles]
  BY DEF TypeOK, ClientTypeOK
<1> DEFINE Moved ==
      /\ \A id \in TxnIds : handles[id] = "free" /\ handles'[id] # "free" => id = nextTxnId
      /\ \A id \in TxnIds : handles[id] # "free" /\ handles'[id] = "free" =>
            \/ CommitDone(t) /\ id = thread[t].id
            \/ Abort(t, id) \/ AbortReadOnlyFast(t, id)
<1>1. ASSUME UNCHANGED handles PROVE Moved
  BY <1>1
<1>2. ASSUME NEW d \in TxnIds, NEW h, handles' = [handles EXCEPT ![d] = h], handles[d] # "free", h # "free"
      PROVE  Moved
  BY <1>0, <1>2
<1>3. ASSUME BeginStep(t) PROVE Moved
  <2>1. UNCHANGED handles \/ \E d \in TxnIds : /\ d = nextTxnId
                                              /\ \/ handles' = [handles EXCEPT ![d] = "open"]
                                                 \/ handles' = [handles EXCEPT ![d] = "fast"]
    BY <1>3 DEF BeginStep, BeginWithMode, BeginReadOnlyFast, BeginInsert, AllocTxnId
  <2>2. QED BY <1>0, <1>1, <2>1
<1>4. ASSUME WriteStep(t) PROVE Moved
  <2>1. PICK d \in TxnIds : /\ handles[d] = "open"
                            /\ UNCHANGED handles \/ handles' = [handles EXCEPT ![d] = "failed"]
    BY <1>4 DEF WriteStep, Write, Delete, WriteKey
  <2>2. QED BY <1>1, <1>2, <2>1
<1>5. ASSUME CommitRefused(t) \/ CommitSyncFails(t) PROVE Moved
  <2>1. handles' = [handles EXCEPT ![thread[t].id] = "dead"]
    BY <1>5 DEF CommitRefused, CommitSyncFails
  <2>2. thread[t].id \in TxnIds
    BY <1>5, LocalsOf DEF CommitRefused, CommitSyncFails, In, TxnLabels, Labels, TypeOK
  <2>3. handles[thread[t].id] # "free"
    BY <1>5, <2>2 DEF HandleInv, HandleOf, CommitRefused, CommitSyncFails, In, InCommit, Deciding, Decided, CallInv, CallShape
  <2>4. QED BY <1>0, <2>1, <2>2, <2>3
<1>6. ASSUME CommitDone(t) PROVE Moved
  BY <1>0, <1>6 DEF CommitDone
<1>7. ASSUME AbortStep(t) PROVE Moved
  <2>1. PICK d \in TxnIds : Abort(t, d) \/ AbortReadOnlyFast(t, d)
    BY <1>7 DEF AbortStep
  <2>2. handles' = [handles EXCEPT ![d] = "free"]
    BY <2>1, Zenon DEF Abort, AbortReadOnlyFast
  <2>3. QED BY <1>0, <2>1, <2>2
<1>8. QED
  BY <1>1, <1>3, <1>4, <1>5, <1>6, <1>7
  DEF ThreadStep, UpdateMinStep, UpdateMinScan, UpdateMinStore, ReadStep, Read, CommitStep,
      CommitFlush, CommitValidate, CommitRevalidate, CommitAllocTs, CommitTrack, CommitRecord,
      GroupSync, CommitSync, CommitPublish, MaintenanceStep, GcLoad, GcSweep, Checkpoint, storageVars

\* Only three kinds of step change a slot.
LEMMA SlotsUnchanged ==
  ASSUME TypeOK, NEW t \in Threads, ThreadStep(t),
         ~WriteStep(t), ~CommitPublish(t), ~AbortStep(t)
  PROVE  \A key \in Keys : chains'[key].uncommitted = chains[key].uncommitted
<1>0. chains \in [Keys -> Chains(StoredValues, Nat)]
  BY DEF TypeOK, MemTableTypeOK
<1>1. ASSUME GcSweep(t) PROVE \A key \in Keys : chains'[key].uncommitted = chains[key].uncommitted
  <2>1. \A k \in Keys : chains'[k] = chains[k] \/ chains'[k] = GcByTs(chains[k], thread[t].min)
    BY <1>1 DEF GcSweep
  <2>2. \A c \in Chains(StoredValues, Nat) : \A m : GcByTs(c, m).uncommitted = c.uncommitted
    BY DEF GcByTs, Chains
  <2>3. QED
    BY <1>0, <2>1, <2>2
<1>2. QED
  BY <1>1
  DEF ThreadStep, BeginStep, BeginWithMode, BeginReadOnlyFast, BeginInsert, UpdateMinStep,
      UpdateMinScan, UpdateMinStore, ReadStep, Read, CommitStep, CommitFlush, CommitValidate,
      CommitRevalidate, CommitRefused, CommitAllocTs, CommitTrack, CommitRecord, GroupSync, CommitSync,
      CommitSyncFails, CommitDone, MaintenanceStep, GcLoad, Checkpoint, mvccVars, storageVars

\* A write takes the slot unless another transaction holds it.
LEMMA WriteSlots ==
  ASSUME TypeOK, NEW t \in Threads, NEW d \in TxnIds, NEW key \in Keys, NEW value \in StoredValues,
         WriteKey(t, d, key, value)
  PROVE  /\ \A k \in Keys \ {key} : chains'[k] = chains[k]
         /\ chains'[key].committed = chains[key].committed
         /\ \/ chains' = chains /\ (AbortsOnError => handles'[d] = "failed")
            \/ /\ chains'[key].uncommitted = {[value |-> value, txn |-> d, ts |-> 0]}
               /\ \A v \in chains[key].uncommitted : v.txn = d
<1>0. chains \in [Keys -> Chains(StoredValues, Nat)] /\ handles \in [TxnIds -> Handles]
  BY DEF TypeOK, MemTableTypeOK, ClientTypeOK
<1>1. \/ chains' = chains /\ (AbortsOnError => handles' = [handles EXCEPT ![d] = "failed"])
      \/ /\ ~HasWriteConflict(chains[key], d)
         /\ chains' = [chains EXCEPT ![key] = AddUncommitted(@, value, d)]
  BY DEF WriteKey
<1>2. CASE chains' = chains /\ (AbortsOnError => handles' = [handles EXCEPT ![d] = "failed"])
  BY <1>0, <1>2
<1>3. CASE /\ ~HasWriteConflict(chains[key], d)
           /\ chains' = [chains EXCEPT ![key] = AddUncommitted(@, value, d)]
  BY <1>0, <1>3 DEF AddUncommitted, HasWriteConflict, Chains
<1> QED BY <1>1, <1>2, <1>3

\* Garbage collection keeps the versions that no other is newer than.
LEMMA GcKeepsMaximal ==
  ASSUME NEW c \in Chains(StoredValues, Nat), NEW m \in Nat
  PROVE  /\ GcByTs(c, m).committed \subseteq c.committed
         /\ \A v \in c.committed : (\A w \in c.committed : w.ts <= v.ts) => v \in GcByTs(c, m).committed
<1>1. GcByTs(c, m).committed = {v \in c.committed : v.ts >= m} \cup Newest(Below(c.committed, m))
  BY DEF GcByTs, Chains
<1>2. ASSUME NEW v \in c.committed, \A w \in c.committed : w.ts <= v.ts, ~(v.ts >= m)
      PROVE  v \in Newest(Below(c.committed, m))
  <2>1. v.ts \in Nat
    BY DEF Chains
  <2>2. v.ts < m
    BY <1>2, <2>1
  <2>3. QED BY <1>2, <2>2 DEF Newest, Below
<1>3. QED BY <1>1, <1>2 DEF Newest, Below

\* No step but publication adds a version, and none loses the newest.
LEMMA MaximalKept ==
  ASSUME TypeOK, NEW t \in Threads, ThreadStep(t), ~CommitPublish(t), NEW key \in Keys
  PROVE  /\ chains'[key].committed \subseteq chains[key].committed
         /\ \A v \in chains[key].committed :
               (\A w \in chains[key].committed : w.ts <= v.ts) => v \in chains'[key].committed
<1>0. chains \in [Keys -> Chains(StoredValues, Nat)] /\ thread[t].min \in Nat
  BY DEF TypeOK, MemTableTypeOK, ThreadTypeOK, Locals
<1>1. CASE WriteStep(t)
  <2>1. PICK d \in TxnIds, k \in Keys, value \in StoredValues : WriteKey(t, d, k, value)
    BY <1>1 DEF WriteStep, Write, Delete, StoredValues
  <2>2. chains'[key].committed = chains[key].committed
    BY <2>1, WriteSlots
  <2>3. QED BY <2>2
<1>2. CASE AbortStep(t)
  <2>1. PICK d \in TxnIds : Abort(t, d) \/ AbortReadOnlyFast(t, d)
    BY <1>2 DEF AbortStep
  <2>2. chains' = chains \/ chains' = [k \in Keys |-> AbortVersion(chains[k], d)]
    BY <2>1, Zenon DEF Abort, AbortReadOnlyFast
  <2>3. \A c \in Chains(StoredValues, Nat) : AbortVersion(c, d).committed = c.committed
    BY DEF AbortVersion, Chains
  <2>4. chains'[key].committed = chains[key].committed
    BY <1>0, <2>2, <2>3
  <2>5. QED BY <2>4
<1>3. CASE GcSweep(t)
  <2>1. chains'[key] = chains[key] \/ chains'[key] = GcByTs(chains[key], thread[t].min)
    BY <1>3 DEF GcSweep
  <2>2. QED BY <1>0, <2>1, GcKeepsMaximal
<1>4. CASE ~WriteStep(t) /\ ~AbortStep(t) /\ ~GcSweep(t)
  <2>1. chains' = chains
    BY <1>4
    DEF ThreadStep, BeginStep, BeginWithMode, BeginReadOnlyFast, BeginInsert, UpdateMinStep,
        UpdateMinScan, UpdateMinStore, ReadStep, Read, CommitStep, CommitFlush, CommitValidate,
        CommitRevalidate, CommitRefused, CommitAllocTs, CommitTrack, CommitRecord, GroupSync, CommitSync,
        CommitSyncFails, CommitDone, MaintenanceStep, GcLoad, Checkpoint, mvccVars, storageVars
  <2>2. QED BY <2>1
<1> QED BY <1>1, <1>2, <1>3, <1>4

\* No fsync fails and no crash leaves a partly written record.
IntactStorage == "ioError" \notin Workload /\ TornCrashes = {}

\* A thread past its commit record stays so until commit returns.
LEMMA RecordedStays ==
  ASSUME TypeOK, CallInv, NEW t \in Threads, ThreadStep(t), Recorded(thread[t])
  PROVE  \/ Recorded(thread'[t]) /\ thread'[t].id = thread[t].id
         \/ CommitDone(t) \/ CommitSyncFails(t)
<1>0. ThreadTypeOK
  BY DEF TypeOK
<1>1. thread[t].at \in {"sync", "publish"}
  BY DEF Recorded
<1>2. GroupSync(t) \/ CommitSync(t) \/ CommitPublish(t) \/ CommitDone(t) \/ CommitSyncFails(t)
  BY <1>1 DEF ThreadStep, BeginStep, BeginWithMode, BeginReadOnlyFast, BeginInsert,
     MayCall, In, UpdateMinStep, UpdateMinScan, UpdateMinStore, ReadStep, Read, WriteStep, Write,
     Delete, WriteKey, CommitStep, CommitFlush, CommitValidate, CommitRevalidate, CommitRefused,
     CommitAllocTs, CommitTrack, CommitRecord, AbortStep, Abort,
     AbortReadOnlyFast, MaintenanceStep, GcLoad, GcSweep, Checkpoint
<1>3. CASE GroupSync(t)
  BY <1>3 DEF GroupSync, storageVars
<1>4. CASE CommitSync(t)
  BY <1>0, <1>4, GotoLocals DEF CommitSync, Recorded
<1>5. CASE CommitPublish(t)
  <2>1. PICK key : Become(t, [thread[t] EXCEPT !.todo = @ \ {key}])
    BY <1>5 DEF CommitPublish
  <2> DEFINE l == [thread[t] EXCEPT !.todo = @ \ {key}]
  <2>2. l.at = thread[t].at /\ l.id = thread[t].id /\ thread'[t] = l
    BY <1>0, <2>1, OtherThreads, LocalsOf DEF Locals
  <2>3. QED BY <1>1, <2>2 DEF Recorded
<1> QED BY <1>2, <1>3, <1>4, <1>5

\* With no torn record and no failed fsync, a transaction whose handle is in
\* use has not ended, and one that left a slot behind never will.
LEMMA NextEnded ==
  ASSUME IntactStorage, TypeOK, CallInv, HandleInv, SlotInv, FreshInv, EndedInv, [Next]_vars
  PROVE  EndedInv'
<1>0. /\ wal \in Seq(Records) /\ handles \in [TxnIds -> Handles] /\ nextTxnId \in Nat
      /\ chains \in [Keys -> Chains(StoredValues, Nat)]
      /\ TxnIds \subseteq Nat /\ ThreadTypeOK
  BY TxnIdsNat DEF TypeOK, WalTypeOK, ClientTypeOK, MemTableTypeOK
<1>1. CASE UNCHANGED vars
  BY <1>1 DEF vars, walVars, mvccVars, storageVars, EndedInv, Intact
<1>2. ASSUME NEW t \in Threads, ThreadStep(t) PROVE EndedInv'
  <2>1. WalGrows /\ Adds(t) /\ Moves(t, thread'[t])
    BY <1>2, ThreadStepGrowsWal, ThreadStepAdds, ThreadStepMoves
  <2>2. /\ \A u \in Threads \ {t} : thread'[u] = thread[u]
        /\ status = "open" /\ Intact
    BY <1>0, <2>1, OtherThreads DEF Moves, EndedInv
  <2>3. Intact'
    <3>1. ASSUME NEW i \in 1..Len(wal') PROVE wal'[i].type # "Torn"
      BY <2>1, <2>2 DEF Intact, WalGrows, Adds
    <3>2. QED BY <3>1 DEF Intact
  <2>4. \A id : EndedIn(wal', id) =>
            \/ EndedIn(wal, id)
            \/ CommitRecord(t) /\ id = thread[t].id
            \/ AbortStep(t) /\ handles'[id] = "free"
                 /\ \A key \in Keys : \A v \in chains'[key].uncommitted : v.txn # id
    BY <2>1, EndsAdded
  <2>5. CommitRecord(t) => /\ Recorded(thread'[t]) /\ thread'[t].id = thread[t].id
                           /\ thread[t].id \in TxnIds /\ handles[thread[t].id] = "open"
    <3> SUFFICES ASSUME CommitRecord(t)
                 PROVE  /\ Recorded(thread'[t]) /\ thread'[t].id = thread[t].id
                        /\ thread[t].id \in TxnIds /\ handles[thread[t].id] = "open"
      OBVIOUS
    <3>1. Recorded(thread'[t]) /\ thread'[t].id = thread[t].id
      BY <1>0, GotoLocals DEF CommitRecord, Recorded
    <3>2. thread[t].id \in TxnIds
      BY <1>0, LocalsOf DEF CommitRecord, In, TxnLabels, Labels
    <3>3. InCommit(thread[t])
      BY DEF CommitRecord, In, CallInv, CallShape, InCommit
    <3>4. QED BY <3>1, <3>2, <3>3 DEF HandleInv, HandleOf
  <2>6. ASSUME NEW id \in TxnIds, handles'[id] # "free",
               ~(\E u \in Threads : Recorded(thread'[u]) /\ thread'[u].id = id)
        PROVE  ~EndedIn(wal', id)
    <3>1. ~EndedIn(wal, id)
      <4>1. CASE handles[id] = "free"
        <5>1. ~HasRecord(wal, id)
          BY <1>0, <1>2, <2>2, <2>6, <4>1, HandleMoves DEF FreshInv
        <5>2. QED BY <5>1 DEF HasRecord, EndedIn, TxnCommit, TxnAbort
      <4>2. CASE handles[id] # "free"
        <5>1. ASSUME NEW u \in Threads, Recorded(thread[u]), thread[u].id = id PROVE FALSE
          <6>1. u = t
            BY <2>2, <2>6, <5>1
          <6>2. CommitDone(t)
            BY <1>2, <2>6, <5>1, <6>1, RecordedStays DEF IntactStorage, CommitSyncFails
          <6>3. handles'[id] = "free"
            BY <1>0, <5>1, <6>1, <6>2 DEF CommitDone
          <6>4. QED BY <2>6, <6>3
        <5>2. QED BY <4>2, <5>1 DEF EndedInv
      <4>3. QED BY <4>1, <4>2
    <3>2. QED BY <2>4, <2>5, <2>6, <3>1
  <2>7. ASSUME NEW key \in Keys, NEW v \in chains'[key].uncommitted, handles'[v.txn] = "free"
        PROVE  ~EndedIn(wal', v.txn)
    <3>0. SlotOf(key, v.txn)' /\ v.txn \in TxnIds
      BY <1>2, <2>7, NextAccounts DEF SlotInv, SlotOf, Next
    <3>1. v \in chains[key].uncommitted
      <4>1. CASE WriteStep(t)
        <5>1. PICK d \in TxnIds, k \in Keys, value \in StoredValues : WriteKey(t, d, k, value)
          BY <4>1 DEF WriteStep, Write, Delete, StoredValues
        <5>2. /\ chains' = chains \/ chains' = [chains EXCEPT ![k] = AddUncommitted(@, value, d)]
              /\ handles[d] = "open"
              /\ handles' = handles \/ handles' = [handles EXCEPT ![d] = "failed"]
          BY <5>1 DEF WriteKey
        <5>3. v \in chains[key].uncommitted \/ v.txn = d
          BY <1>0, <2>7, <5>2 DEF AddUncommitted, Chains
        <5>4. handles'[d] # "free"
          BY <1>0, <5>2
        <5>5. QED BY <2>7, <5>3, <5>4
      <4>2. CASE CommitAllocTs(t)
        BY <2>7, <4>2 DEF CommitAllocTs
      <4>3. CASE CommitPublish(t)
        <5>1. PICK k \in thread[t].todo : chains' = [chains EXCEPT ![k] = CommitVersion(@, thread[t].id, thread[t].ts)]
          BY <4>3 DEF CommitPublish
        <5>2. QED BY <1>0, <2>7, <5>1 DEF CommitVersion
      <4>4. CASE ~WriteStep(t) /\ ~CommitAllocTs(t) /\ ~CommitPublish(t)
        BY <1>2, <2>7, <4>4, OtherStepsShrink DEF Shrinks
      <4>5. QED BY <4>1, <4>2, <4>3, <4>4
    <3>2. SlotOf(key, v.txn)
      BY <3>1 DEF SlotInv
    <3>3. CASE handles[v.txn] = "free"
      <4>1. ~EndedIn(wal, v.txn)
        BY <3>1, <3>3 DEF EndedInv
      <4>2. QED BY <2>4, <2>5, <2>7, <3>3, <4>1
    <3>4. CASE handles[v.txn] # "free"
      <4>1. \/ CommitDone(t) /\ v.txn = thread[t].id
            \/ Abort(t, v.txn) \/ AbortReadOnlyFast(t, v.txn)
        BY <1>2, <2>7, <3>0, <3>4, HandleMoves
      <4>2. ~(CommitDone(t) /\ v.txn = thread[t].id)
        <5>1. ASSUME CommitDone(t), v.txn = thread[t].id PROVE FALSE
          <6>1. Decided(thread[t]) /\ thread[t].todo = {}
            BY <5>1 DEF CommitDone, In, CallInv, CallShape
          <6>2. QED BY <3>2, <5>1, <6>1 DEF SlotOf
        <5>2. QED BY <5>1
      <4>3. ~AbortReadOnlyFast(t, v.txn)
        BY <3>2 DEF AbortReadOnlyFast, SlotOf
      <4>4. /\ \A u \in Threads : thread[u].id # v.txn
        BY <4>1, <4>2, <4>3 DEF Abort, MayCall
      <4>5. ~EndedIn(wal, v.txn)
        BY <3>0, <3>4, <4>4 DEF EndedInv
      <4>6. QED
        BY <2>4, <2>7, <4>4, <4>5
    <3>5. QED BY <3>3, <3>4
  <2>8. QED BY <2>3, <2>6, <2>7 DEF EndedInv
<1>3. ASSUME RestartStep PROVE EndedInv'
  <2>1. /\ \A id \in TxnIds : handles'[id] = "free"
        /\ \A key \in Keys : chains'[key].uncommitted = {}
    <3>1. CASE Crash \/ Shutdown
      BY <3>1 DEF Crash, Shutdown, Forget, EmptyChain
    <3>2. CASE Open \/ ReplayRecord \/ FinishRecover
      <4>1. Closed /\ UNCHANGED handles
        BY <3>2 DEF Open, ReplayRecord, FinishRecover, storageVars, CallInv
      <4>2. \A key \in Keys : chains'[key].uncommitted = {}
        BY <3>2, <4>1 DEF Open, ReplayRecord, FinishRecover, storageVars, Closed, EmptyChain
      <4>3. QED BY <4>1, <4>2 DEF Closed
    <3>3. QED BY <1>3, <3>1, <3>2 DEF RestartStep
  <2>2. Intact'
    <3>1. Intact
      BY DEF EndedInv
    <3>2. CASE Crash
      <4>1. PICK n \in synced..Len(wal) : wal' = SubSeq(wal, 1, n)
        BY <3>2 DEF Crash, LoseTail, IntactStorage
      <4>2. n \in 0..Len(wal)
        BY <1>0 DEF TypeOK, WalTypeOK
      <4>3. Len(wal') = n /\ \A i \in 1..n : wal'[i] = wal[i]
        BY <1>0, <4>1, <4>2
      <4>4. QED BY <1>0, <3>1, <4>2, <4>3 DEF Intact
    <3>3. CASE UNCHANGED wal
      BY <3>1, <3>3 DEF Intact
    <3>4. QED
      BY <1>3, <3>2, <3>3 DEF RestartStep, Shutdown, Open, ReplayRecord, FinishRecover
  <2>3. QED BY <2>1, <2>2 DEF EndedInv
<1> QED BY <1>1, <1>2, <1>3 DEF Next

\* A fresh database has nothing to account for.
LEMMA InitAccounts == Init => HandleInv /\ SlotInv /\ FreshInv /\ EndedInv
<1> SUFFICES ASSUME Init PROVE HandleInv /\ SlotInv /\ FreshInv /\ EndedInv
  OBVIOUS
<1>1. HandleInv /\ SlotInv
  BY TxnIdsNat DEF Init, EmptyChain, HandleInv, HandleOf, SlotInv, Idle, InCommit, Deciding, Decided
<1>2. FreshInv /\ EndedInv
  BY DEF Init, EmptyChain, FreshInv, EndedInv, Intact
<1>3. QED BY <1>1, <1>2

\* abort() does leave versions behind (AbortLeavesNothing, DurableStorage).
\* Those it leaves belong to a commit that validation refused after its data
\* was logged and its buffer was gone: no commit that succeeded and no abort()
\* that found the write buffer leaves one.
OrphansOnlyAfterRefusal ==
    \A key \in Keys : \A v \in chains[key].uncommitted :
        handles[v.txn] = "free" => ~EndedIn(wal, v.txn) /\ DataIn(wal, v.txn, key)

\* With no torn record and no failed fsync, for any number of threads: a slot
\* whose client gave up its handle is the remains of a commit that validation
\* refused.  Its data is in the log, and no commit or abort record ever ends it.
THEOREM OrphansRefused ==
  ASSUME IntactStorage
  PROVE  Spec => []OrphansOnlyAfterRefusal
<1> DEFINE Inv == HandleInv /\ SlotInv /\ FreshInv /\ EndedInv
<1>1. Init => Inv
  BY InitAccounts
<1>2. TypeOK /\ CallInv /\ Inv /\ [Next]_vars => Inv'
  BY NextAccounts, NextFresh, NextEnded
<1>3. SlotInv /\ EndedInv => OrphansOnlyAfterRefusal
  BY DEF SlotInv, SlotOf, EndedInv, OrphansOnlyAfterRefusal
<1>4. QED
  BY <1>1, <1>2, <1>3, TypeCorrect, InitCallInv, NextCallInv, PTL DEF Spec

=============================================================================
