----------------------------- MODULE WriterLock ------------------------------
(***************************************************************************)
(* The cross-process writer lock of sochdb-storage/src/mvcc_concurrent.rs, *)
(* as Database::open_concurrent, put and commit use it: a word in a memory *)
(* mapped file that holds the pid of the process that may write.           *)
(*                                                                         *)
(* The word names a process, not a thread, and the file is created and     *)
(* initialised by whoever finds it missing, without a lock.                *)
(***************************************************************************)
EXTENDS Naturals

CONSTANTS
    Pids,        \* processes; a pid is used again after a crash
    ThreadIds,   \* the threads of each process
    Free,        \* 0 in the lock word
    FilesFound,  \* what the first open may find: is the metadata file there?
    MaxRestarts  \* bound: crashes and closes

ASSUME WriterLockAssumption ==
    /\ Free \notin Pids /\ MaxRestarts \in Nat
    /\ FilesFound \subseteq {"absent", "ready"}

Threads == Pids \X ThreadIds
PidOf(t) == t[1]

VARIABLES
    file,         \* .mvcc_metadata: "absent", "blank" (sized, zero) or "ready"
    writerLock,   \* header.writer_lock
    process,      \* how far each process is in open()
    isNew,        \* the local variable of open()
    thread,       \* the call each thread is in
    late,         \* has the deadline of the thread's acquire_writer passed?
    restarts

vars == <<file, writerLock, process, isNew, thread, late, restarts>>

Stages == {"closed", "statted", "mapped", "open"}
Labels == {"idle", "load", "cas", "retry", "writing", "dropLoad", "dropStore"}

\* The thread has a WriterGuard.
Guarded(t) == thread[t] \in {"writing", "dropLoad", "dropStore"}

\* late is a variable of acquire_writer's loop: it is gone when the loop ends.
Goto(t, label) ==
    /\ thread' = [thread EXCEPT ![t] = label]
    /\ late' = [late EXCEPT ![t] = @ /\ label \in {"load", "cas", "retry"}]

Init ==
    /\ file \in FilesFound
    /\ writerLock = Free
    /\ process = [p \in Pids |-> "closed"]
    /\ isNew = [p \in Pids |-> FALSE]
    /\ thread = [t \in Threads |-> "idle"]
    /\ late = [t \in Threads |-> FALSE]
    /\ restarts = 0

-----------------------------------------------------------------------------
(* ConcurrentMvcc::open                                                    *)

\* let is_new = !metadata_path.exists()
OpenStat(p) ==
    /\ process[p] = "closed"
    /\ process' = [process EXCEPT ![p] = "statted"]
    /\ isNew' = [isNew EXCEPT ![p] = (file = "absent")]
    /\ UNCHANGED <<file, writerLock, thread, late, restarts>>

\* Open or create, set the size, map.
OpenMap(p) ==
    /\ process[p] = "statted"
    /\ process' = [process EXCEPT ![p] = "mapped"]
    /\ file' = IF file = "absent" THEN "blank" ELSE file
    /\ UNCHANGED <<writerLock, isNew, thread, late, restarts>>

\* A fresh header, its lock word free.
OpenInitialise(p) ==
    /\ process[p] = "mapped" /\ isNew[p]
    /\ process' = [process EXCEPT ![p] = "open"]
    /\ isNew' = [isNew EXCEPT ![p] = FALSE]
    /\ file' = "ready" /\ writerLock' = Free
    /\ UNCHANGED <<thread, late, restarts>>

\* header.validate(): a file nobody has initialised yet is Corruption.
OpenValidate(p) ==
    /\ process[p] = "mapped" /\ ~isNew[p]
    /\ process' = [process EXCEPT ![p] = IF file = "ready" THEN "open" ELSE "closed"]
    /\ UNCHANGED <<file, writerLock, isNew, thread, late, restarts>>

-----------------------------------------------------------------------------
(* acquire_writer, of put, put_batch and commit                            *)

Acquire(t) ==
    /\ process[PidOf(t)] = "open" /\ thread[t] = "idle"
    /\ Goto(t, "load")
    /\ UNCHANGED <<file, writerLock, process, isNew, restarts>>

\* try_acquire_writer's load: free, ours (this process has a guard already, or
\* had one when it crashed), or somebody else's.
TryLoad(t) ==
    /\ thread[t] = "load"
    /\ Goto(t, CASE writerLock = Free -> "cas"
                 [] writerLock = PidOf(t) -> "writing"
                 [] OTHER -> "retry")
    /\ UNCHANGED <<file, writerLock, process, isNew, restarts>>

TryCas(t) ==
    /\ thread[t] = "cas"
    /\ IF writerLock = Free THEN writerLock' = PidOf(t) /\ Goto(t, "writing")
       ELSE Goto(t, "retry") /\ UNCHANGED writerLock
    /\ UNCHANGED <<file, process, isNew, restarts>>

\* The five seconds have passed.
Deadline(t) ==
    /\ thread[t] \in {"load", "cas", "retry"} /\ ~late[t]
    /\ late' = [late EXCEPT ![t] = TRUE]
    /\ UNCHANGED <<file, writerLock, process, isNew, thread, restarts>>

\* Mutant: the loop sleeps and tries again whatever the time.
RetryForever(t) ==
    /\ thread[t] = "retry"
    /\ Goto(t, "load")
    /\ UNCHANGED <<file, writerLock, process, isNew, restarts>>

\* Return the error after the deadline, sleep and try again before it.
Retry(t) ==
    /\ thread[t] = "retry"
    /\ Goto(t, IF late[t] THEN "idle" ELSE "load")
    /\ UNCHANGED <<file, writerLock, process, isNew, restarts>>

\* The storage call is over, with Ok or Err: the guard is dropped.
DropGuard(t) ==
    /\ thread[t] = "writing"
    /\ Goto(t, "dropLoad")
    /\ UNCHANGED <<file, writerLock, process, isNew, restarts>>

\* release_writer, a load and a store.
ReleaseLoad(t) ==
    /\ thread[t] = "dropLoad"
    /\ Goto(t, IF writerLock = PidOf(t) THEN "dropStore" ELSE "idle")
    /\ UNCHANGED <<file, writerLock, process, isNew, restarts>>

ReleaseStore(t) ==
    /\ thread[t] = "dropStore"
    /\ writerLock' = Free
    /\ Goto(t, "idle")
    /\ UNCHANGED <<file, process, isNew, restarts>>

-----------------------------------------------------------------------------
\* The lock word keeps the pid of the dead process: nothing clears it.
Crash(p) ==
    /\ process[p] # "closed"
    /\ restarts < MaxRestarts /\ restarts' = restarts + 1
    /\ process' = [process EXCEPT ![p] = "closed"]
    /\ isNew' = [isNew EXCEPT ![p] = FALSE]
    /\ thread' = [t \in Threads |-> IF PidOf(t) = p THEN "idle" ELSE thread[t]]
    /\ late' = [t \in Threads |-> PidOf(t) # p /\ late[t]]
    /\ UNCHANGED <<file, writerLock>>

\* Drop of ConcurrentMvcc: the last handle is gone, so no call is running.
Close(p) ==
    /\ process[p] = "open"
    /\ \A t \in Threads : PidOf(t) = p => thread[t] = "idle"
    /\ restarts < MaxRestarts /\ restarts' = restarts + 1
    /\ process' = [process EXCEPT ![p] = "closed"]
    /\ writerLock' = IF writerLock = p THEN Free ELSE writerLock
    /\ UNCHANGED <<file, isNew, thread, late>>

CallStep(t) == TryLoad(t) \/ TryCas(t) \/ Retry(t) \/ DropGuard(t) \/ ReleaseLoad(t) \/ ReleaseStore(t)

Next ==
    \/ \E p \in Pids : \/ OpenStat(p) \/ OpenMap(p) \/ OpenInitialise(p) \/ OpenValidate(p)
                       \/ Crash(p) \/ Close(p)
    \/ \E t \in Threads : Acquire(t) \/ CallStep(t) \/ Deadline(t)

\* A thread in a call is scheduled, storage calls end, and time passes.
Fairness == \A t \in Threads : WF_vars(CallStep(t)) /\ WF_vars(Deadline(t))

Spec == Init /\ [][Next]_vars

FairSpec == Spec /\ Fairness

-----------------------------------------------------------------------------
(* Properties                                                              *)

TypeOK ==
    /\ file \in {"absent", "blank", "ready"}
    /\ writerLock \in Pids \cup {Free}
    /\ process \in [Pids -> Stages]
    /\ isNew \in [Pids -> BOOLEAN]
    /\ thread \in [Threads -> Labels]
    /\ late \in [Threads -> BOOLEAN]
    /\ restarts \in Nat

\* "By construction there is at most one writer at a time"
\* (mvcc_concurrent.rs:62): no two threads, of one process or of two, are
\* inside put, put_batch or commit at once.
OneWriter ==
    \A t, u \in Threads : thread[t] = "writing" /\ thread[u] = "writing" => t = u

\* acquire_writer returns, with the lock or with an error, also when the
\* process that holds the lock is dead and will never release it.
EveryAcquireReturns ==
    \A t \in Threads : (thread[t] = "load") ~> (thread[t] \in {"writing", "idle"})
=============================================================================
