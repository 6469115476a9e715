----------------------------- MODULE GroupCommit -----------------------------
(***************************************************************************)
(* EventDrivenGroupCommit of sochdb-storage/src/group_commit.rs with the   *)
(* flush function durable_storage.rs gives it: callers of commit() queue   *)
(* their transaction and wait; whoever flushes takes a batch off the queue *)
(* under the queue's mutex, writes its commit records and fsyncs without   *)
(* it, then wakes the callers of the batch.                                *)
(*                                                                         *)
(* Several threads can be in flush_batch at once: a caller that finds the  *)
(* queue long enough, a caller whose wait timed out, the owner running     *)
(* flush_loop and anyone calling flush_group_commit.                       *)
(***************************************************************************)
EXTENDS Naturals, Sequences

CONSTANTS
    TxnIds,     \* transactions; each has one thread, in submit_and_wait
    Owners,     \* threads that run flush_loop between start and stop
    Helpers,    \* threads that call flush_group_commit
    MaxBatch,   \* bound: optimal_batch_size returns 1..MaxBatch
    MaxStarts,  \* bound: calls of start
    MaxHelps    \* bound: calls of flush_group_commit

ASSUME GroupCommitAssumption ==
    /\ MaxBatch \in Nat \ {0} /\ MaxStarts \in Nat /\ MaxHelps \in Nat
    /\ TxnIds \cap Owners = {} /\ TxnIds \cap Helpers = {} /\ Owners \cap Helpers = {}

Threads == TxnIds \cup Owners \cup Helpers

VARIABLES
    pending,  \* the queue
    result,   \* CommitResult in the notifier of each transaction
    running,  \* the running flag
    thread,   \* the local variables of each thread
    wal,      \* the commit records handed to the WAL writer, as ids
    synced,   \* how many of them an fsync has covered
    up,       \* FALSE after a crash
    starts, helps

vars == <<pending, result, running, thread, wal, synced, up, starts, helps>>

Results == {"none", "Pending", "Success", "Error"}

Labels == {"idle", "submitted", "check", "waiting", "loop", "loopDecide",
           "drain", "append", "notify", "returned"}

\* toLog: what flush_fn has still to append; batch: whom to notify, with ok.
Locals == [at : Labels, return : Labels, shouldFlush : BOOLEAN,
           batch : Seq(TxnIds), toLog : Seq(TxnIds), ok : BOOLEAN]

Idle == [at |-> "idle", return |-> "idle", shouldFlush |-> FALSE,
         batch |-> << >>, toLog |-> << >>, ok |-> TRUE]

In(t, label)      == up /\ thread[t].at = label
Become(t, locals) == thread' = [thread EXCEPT ![t] = locals]
Goto(t, label)    == Become(t, [thread[t] EXCEPT !.at = label])

\* Call flush_batch, then go to the given label.
FlushThen(t, label) == Become(t, [Idle EXCEPT !.at = "drain", !.return = label])
Return(t)           == Become(t, [Idle EXCEPT !.at = thread[t].return])

Init ==
    /\ pending = << >> /\ running = FALSE
    /\ result = [id \in TxnIds |-> "none"]
    /\ thread = [t \in Threads |-> Idle]
    /\ wal = << >> /\ synced = 0 /\ up = TRUE
    /\ starts = 0 /\ helps = 0

-----------------------------------------------------------------------------
(* submit_and_wait.  The caller's transaction was validated once, so no id *)
(* is submitted twice.                                                     *)

\* The batch size, from moving averages of the arrival rate and the fsync
\* latency, can be any within its clamp.
Submit(id) ==
    /\ In(id, "idle")
    /\ pending' = Append(pending, id)
    /\ result' = [result EXCEPT ![id] = "Pending"]
    /\ \E batchSize \in 1..MaxBatch :
           Become(id, [Idle EXCEPT !.at = "submitted",
                                   !.shouldFlush = Len(pending') >= batchSize])
    /\ UNCHANGED <<running, wal, synced, up, starts, helps>>

\* running is read after the queue's mutex was released.
FlushInline(id) ==
    /\ In(id, "submitted")
    /\ IF thread[id].shouldFlush /\ ~running THEN FlushThen(id, "check")
       ELSE Become(id, [Idle EXCEPT !.at = "check"])
    /\ UNCHANGED <<pending, result, running, wal, synced, up, starts, helps>>

\* The loop condition, under the notifier's mutex.
CheckResult(id) ==
    /\ In(id, "check")
    /\ Goto(id, IF result[id] = "Pending" THEN "waiting" ELSE "returned")
    /\ UNCHANGED <<pending, result, running, wal, synced, up, starts, helps>>

Wake(id) ==
    /\ In(id, "waiting") /\ result[id] # "Pending"
    /\ Goto(id, "check")
    /\ UNCHANGED <<pending, result, running, wal, synced, up, starts, helps>>

\* Mutant: the loop waits again after a timeout.
TimeoutWaits(id) ==
    /\ In(id, "waiting")
    /\ ~running
    /\ Goto(id, "check")
    /\ UNCHANGED <<pending, result, running, wal, synced, up, starts, helps>>

\* wait_timeout timed out, which can also happen as the answer arrives.
\* While a flush loop is running the caller just waits again.
TimeoutFlush(id) ==
    /\ In(id, "waiting")
    /\ ~running
    /\ FlushThen(id, "check")
    /\ UNCHANGED <<pending, result, running, wal, synced, up, starts, helps>>

-----------------------------------------------------------------------------
(* flush_batch                                                             *)

DrainEmpty(t) ==
    /\ In(t, "drain") /\ pending = << >>
    /\ Return(t)
    /\ UNCHANGED <<pending, result, running, wal, synced, up, starts, helps>>

SmallerOf(m, n) == IF m < n THEN m ELSE n

\* Mutant: the last transaction of the batch stays in the queue.
DrainOneShort(t) ==
    /\ In(t, "drain") /\ pending # << >>
    /\ \E batchSize \in 1..MaxBatch :
           LET n == SmallerOf(batchSize, Len(pending))
               batch == SubSeq(pending, 1, n)
           IN  /\ pending' = SubSeq(pending, n, Len(pending))
               /\ Become(t, [thread[t] EXCEPT !.at = "append", !.batch = batch,
                                              !.toLog = batch, !.ok = TRUE])
    /\ UNCHANGED <<result, running, wal, synced, up, starts, helps>>

DrainBatch(t) ==
    /\ In(t, "drain") /\ pending # << >>
    /\ \E batchSize \in 1..MaxBatch :
           LET n == SmallerOf(batchSize, Len(pending))
               batch == SubSeq(pending, 1, n)
           IN  /\ pending' = SubSeq(pending, n + 1, Len(pending))
               /\ Become(t, [thread[t] EXCEPT !.at = "append", !.batch = batch,
                                              !.toLog = batch, !.ok = TRUE])
    /\ UNCHANGED <<result, running, wal, synced, up, starts, helps>>

\* flush_fn: append_no_flush once per transaction of the batch; the WAL's
\* mutex is free in between.
AppendCommit(t) ==
    /\ In(t, "append") /\ thread[t].toLog # << >>
    /\ wal' = Append(wal, Head(thread[t].toLog))
    /\ Become(t, [thread[t] EXCEPT !.toLog = Tail(@)])
    /\ UNCHANGED <<pending, result, running, synced, up, starts, helps>>

\* Mutant: the batch is flushed to the file and not fsynced.
FlushFile(t) ==
    /\ In(t, "append") /\ thread[t].toLog = << >>
    /\ Goto(t, "notify")
    /\ UNCHANGED <<pending, result, running, wal, synced, up, starts, helps>>

\* wal.flush and wal.sync: everything any thread has appended is durable.
SyncBatch(t) ==
    /\ In(t, "append") /\ thread[t].toLog = << >>
    /\ synced' = Len(wal)
    /\ Goto(t, "notify")
    /\ UNCHANGED <<pending, result, running, wal, up, starts, helps>>

\* An append, the flush or the fsync failed: the records appended so far stay.
FlushFails(t) ==
    /\ In(t, "append")
    /\ Become(t, [thread[t] EXCEPT !.at = "notify", !.ok = FALSE, !.toLog = << >>])
    /\ UNCHANGED <<pending, result, running, wal, synced, up, starts, helps>>

NotifyOne(t) ==
    /\ In(t, "notify") /\ thread[t].batch # << >>
    /\ result' = [result EXCEPT ![Head(thread[t].batch)] =
                                    IF thread[t].ok THEN "Success" ELSE "Error"]
    /\ Become(t, [thread[t] EXCEPT !.batch = Tail(@)])
    /\ UNCHANGED <<pending, running, wal, synced, up, starts, helps>>

FlushReturn(t) ==
    /\ In(t, "notify") /\ thread[t].batch = << >>
    /\ Return(t)
    /\ UNCHANGED <<pending, result, running, wal, synced, up, starts, helps>>

-----------------------------------------------------------------------------
(* start, flush_loop, stop, flush_group_commit                             *)

\* start only sets the flag: "flush_loop should be called from the owner",
\* which the owners here do.
Start(o) ==
    /\ In(o, "idle") /\ ~running
    /\ starts < MaxStarts /\ starts' = starts + 1
    /\ running' = TRUE
    /\ Goto(o, "loop")
    /\ UNCHANGED <<pending, result, wal, synced, up, helps>>

LoopHead(o) ==
    /\ In(o, "loop")
    /\ Goto(o, IF running THEN "loopDecide" ELSE "idle")
    /\ UNCHANGED <<pending, result, running, wal, synced, up, starts, helps>>

\* With a full batch at once, with a shorter one after waiting for more, the
\* loop flushes; with none it waits and goes round.
LoopDecide(o) ==
    /\ In(o, "loopDecide")
    /\ IF pending = << >> THEN Goto(o, "loop") ELSE FlushThen(o, "loop")
    /\ UNCHANGED <<pending, result, running, wal, synced, up, starts, helps>>

Stop ==
    /\ up /\ running /\ running' = FALSE
    /\ UNCHANGED <<pending, result, thread, wal, synced, up, starts, helps>>

FlushGroupCommit(h) ==
    /\ In(h, "idle")
    /\ helps < MaxHelps /\ helps' = helps + 1
    /\ FlushThen(h, "idle")
    /\ UNCHANGED <<pending, result, running, wal, synced, up, starts>>

-----------------------------------------------------------------------------
\* The machine stops: callers that were told nothing never will be.
Crash ==
    /\ up /\ up' = FALSE
    /\ \E n \in synced..Len(wal) : wal' = SubSeq(wal, 1, n)
    /\ pending' = << >> /\ running' = FALSE
    /\ thread' = [t \in Threads |-> Idle]
    /\ UNCHANGED <<result, synced, starts, helps>>

FlushStep(t) ==
    \/ DrainEmpty(t) \/ DrainBatch(t) \/ AppendCommit(t) \/ SyncBatch(t)
    \/ FlushFails(t) \/ NotifyOne(t) \/ FlushReturn(t)

CallerStep(id) ==
    FlushInline(id) \/ CheckResult(id) \/ Wake(id) \/ TimeoutFlush(id) \/ FlushStep(id)

OwnerStep(o) == LoopHead(o) \/ LoopDecide(o) \/ FlushStep(o)

Next ==
    \/ \E id \in TxnIds : Submit(id) \/ CallerStep(id)
    \/ \E o \in Owners : Start(o) \/ OwnerStep(o)
    \/ \E h \in Helpers : FlushGroupCommit(h) \/ FlushStep(h)
    \/ Stop \/ Crash

\* Threads that are in a call are scheduled and waits time out.  Nobody has
\* to start, to stop, to call flush_group_commit or to submit anything.
Fairness ==
    /\ \A id \in TxnIds : WF_vars(CallerStep(id))
    /\ \A o \in Owners : WF_vars(OwnerStep(o))
    /\ \A h \in Helpers : WF_vars(FlushStep(h))

Spec == Init /\ [][Next]_vars

FairSpec == Spec /\ Fairness

-----------------------------------------------------------------------------
(* Properties                                                              *)

TypeOK ==
    /\ pending \in Seq(TxnIds)
    /\ result \in [TxnIds -> Results]
    /\ running \in BOOLEAN /\ up \in BOOLEAN
    /\ thread \in [Threads -> Locals]
    /\ wal \in Seq(TxnIds)
    /\ synced \in 0..Len(wal)
    /\ starts \in Nat /\ helps \in Nat

Durable(id) == \E i \in 1..synced : wal[i] = id

\* A caller that was told Ok has its commit record in the fsynced part of the
\* log, where no crash can take it, although another thread flushed its batch
\* and yet others append and fsync in between.
SuccessIsDurable == \A id \in TxnIds : result[id] = "Success" => Durable(id)

Members(s)  == {s[i] : i \in 1..Len(s)}
Distinct(s) == \A i, j \in 1..Len(s) : s[i] = s[j] => i = j

\* A transaction is in the queue once or in the batch of one thread once.
OneFlusher ==
    /\ Distinct(pending)
    /\ \A t \in Threads :
          /\ Distinct(thread[t].batch) /\ Distinct(thread[t].toLog)
          /\ Members(thread[t].toLog) \subseteq Members(thread[t].batch)
          /\ Members(thread[t].batch) \cap Members(pending) = {}
    /\ \A t, u \in Threads : t # u => Members(thread[t].batch) \cap Members(thread[u].batch) = {}

\* While it is there its caller has no answer, and until it is appended it has
\* no commit record.
Unanswered ==
    /\ \A id \in Members(pending) : result[id] = "Pending" /\ id \notin Members(wal)
    /\ \A t \in Threads :
          /\ \A id \in Members(thread[t].batch) : result[id] = "Pending"
          /\ \A id \in Members(thread[t].toLog) : id \notin Members(wal)
    /\ \A id \in TxnIds :
          /\ result[id] = "none" => id \notin Members(wal)
          /\ up /\ thread[id].at = "idle" => result[id] = "none"
          /\ thread[id].at \in {"drain", "append", "notify"} => thread[id].return = "check"

\* A batch is appended before the fsync, and durable when it is answered.
BatchDurable ==
    \A t \in Threads :
        /\ thread[t].at = "append" =>
              Members(thread[t].batch) \subseteq Members(thread[t].toLog) \cup Members(wal)
        /\ thread[t].at = "notify" =>
              /\ thread[t].toLog = << >>
              /\ thread[t].ok => \A id \in Members(thread[t].batch) : Durable(id)

\* Why the buffer implements CommitLog.
FlushInv == SuccessIsDurable /\ OneFlusher /\ Unanswered /\ BatchDurable

\* Every submit_and_wait returns, whoever flushes and however start and stop
\* race with its timeouts, unless the machine goes down.
EveryCallerReturns ==
    \A id \in TxnIds : (thread[id].at = "submitted") ~> (thread[id].at = "returned" \/ ~up)

\* The buffer is an implementation of CommitLog: in particular two flushers
\* never log or answer the same transaction.
Log == INSTANCE CommitLog WITH log <- wal, answer <- result
ImplementsCommitLog == Log!Spec
=============================================================================
