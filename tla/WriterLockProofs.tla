-------------------------- MODULE WriterLockProofs ---------------------------
(***************************************************************************)
(* When the writer lock does keep writers apart: for any number of         *)
(* processes and restarts, if every process writes from one thread and the *)
(* metadata file exists before the first of them opens it.  Neither        *)
(* hypothesis can be dropped: see the run two_writers for the first, and   *)
(* two processes that both create the file for the second.                 *)
(***************************************************************************)
EXTENDS WriterLock, TLAPS

\* No process has two threads, and none has to create the file.
OneThreadEach == \A a, b \in ThreadIds : a = b
FileExists    == "absent" \notin FilesFound

\* Nobody initialises the header, so nobody but its holder takes a pid out of
\* the lock word: a guard's process is named there.
LockInv ==
    /\ file = "ready" /\ \A p \in Pids : ~isNew[p]
    /\ \A t \in Threads : Guarded(t) => writerLock = PidOf(t)

IInv == TypeOK /\ LockInv

LEMMA PidOfThread == \A t \in Threads : PidOf(t) \in Pids /\ PidOf(t) # Free
  BY WriterLockAssumption DEF Threads, PidOf

LEMMA InitInv == ASSUME FileExists PROVE Init => IInv
  <1>1. Init => TypeOK
    <2> SUFFICES ASSUME Init PROVE TypeOK
      OBVIOUS
    <2>1. process \in [Pids -> Stages] /\ thread \in [Threads -> Labels]
      BY DEF Init, Stages, Labels
    <2>2. file = "ready"
      BY WriterLockAssumption DEF Init, FileExists
    <2> QED BY <2>1, <2>2 DEF Init, TypeOK
  <1>2. Init => LockInv
    BY WriterLockAssumption DEF Init, FileExists, LockInv, Guarded
  <1> QED BY <1>1, <1>2 DEF IInv

\* A call step keeps the locals typed.
LEMMA GotoType ==
    ASSUME TypeOK, NEW t \in Threads, NEW label \in Labels, Goto(t, label)
    PROVE  thread' \in [Threads -> Labels] /\ late' \in [Threads -> BOOLEAN]
  BY DEF TypeOK, Goto

LEMMA TypeStep == TypeOK /\ [Next]_vars => TypeOK'
  <1> SUFFICES ASSUME TypeOK, [Next]_vars PROVE TypeOK'
    OBVIOUS
  <1> USE WriterLockAssumption, PidOfThread
  <1>0. {"idle", "load", "cas", "retry", "writing", "dropLoad", "dropStore"} = Labels
    BY DEF Labels
  <1>1. ASSUME NEW p \in Pids,
               OpenStat(p) \/ OpenMap(p) \/ OpenInitialise(p) \/ OpenValidate(p)
        PROVE  TypeOK'
    <2>1. CASE OpenStat(p)
      <3>1. isNew' \in [Pids -> BOOLEAN]
        BY <2>1, Zenon DEF TypeOK, OpenStat
      <3> QED BY <2>1, <3>1 DEF TypeOK, OpenStat, Stages
    <2>2. CASE OpenMap(p)
      BY <2>2 DEF TypeOK, OpenMap, Stages
    <2>3. CASE OpenInitialise(p)
      BY <2>3 DEF TypeOK, OpenInitialise, Stages
    <2>4. CASE OpenValidate(p)
      BY <2>4 DEF TypeOK, OpenValidate, Stages
    <2> QED BY <1>1, <2>1, <2>2, <2>3, <2>4
  <1>2. ASSUME NEW p \in Pids, Crash(p) PROVE TypeOK'
    BY <1>2, <1>0 DEF TypeOK, Crash, Stages
  <1>3. ASSUME NEW p \in Pids, Close(p) PROVE TypeOK'
    BY <1>3 DEF TypeOK, Close, Stages
  <1>4. ASSUME NEW t \in Threads, Acquire(t) PROVE TypeOK'
    BY <1>0, <1>4, GotoType DEF TypeOK, Acquire
  <1>5. ASSUME NEW t \in Threads, TryLoad(t) PROVE TypeOK'
    BY <1>0, <1>5, GotoType DEF TypeOK, TryLoad
  <1>6. ASSUME NEW t \in Threads, TryCas(t) PROVE TypeOK'
    BY <1>0, <1>6, GotoType DEF TypeOK, TryCas
  <1>7. ASSUME NEW t \in Threads, Retry(t) PROVE TypeOK'
    BY <1>0, <1>7, GotoType DEF TypeOK, Retry
  <1>8. ASSUME NEW t \in Threads, DropGuard(t) \/ ReleaseLoad(t) \/ ReleaseStore(t) PROVE TypeOK'
    BY <1>0, <1>8, GotoType DEF TypeOK, DropGuard, ReleaseLoad, ReleaseStore
  <1>9. ASSUME NEW t \in Threads, Deadline(t) PROVE TypeOK'
    BY <1>9 DEF TypeOK, Deadline
  <1>10. CASE UNCHANGED vars
    BY <1>10 DEF TypeOK, vars
  <1> QED
    BY <1>1, <1>2, <1>3, <1>4, <1>5, <1>6, <1>7, <1>8, <1>9, <1>10 DEF Next, CallStep

-----------------------------------------------------------------------------
LEMMA SameThread ==
    ASSUME OneThreadEach, NEW t \in Threads, NEW u \in Threads, PidOf(t) = PidOf(u)
    PROVE  t = u
  BY DEF OneThreadEach, Threads, PidOf

LEMMA GotoThread ==
    ASSUME TypeOK, NEW t \in Threads, NEW label \in Labels, Goto(t, label)
    PROVE  thread'[t] = label /\ \A u \in Threads \ {t} : thread'[u] = thread[u]
  BY DEF TypeOK, Goto

\* open changes neither the lock word nor a guard when the file is there.
LEMMA OpenSteps ==
    ASSUME IInv, NEW p \in Pids,
           OpenStat(p) \/ OpenMap(p) \/ OpenInitialise(p) \/ OpenValidate(p)
    PROVE  LockInv'
  <1>1. CASE OpenInitialise(p)
    BY <1>1 DEF IInv, LockInv, OpenInitialise
  <1>2. CASE OpenStat(p)
    <2>1. \A q \in Pids : ~isNew'[q]
      BY <1>2 DEF IInv, TypeOK, LockInv, OpenStat
    <2> QED BY <1>2, <2>1 DEF IInv, LockInv, OpenStat, Guarded
  <1>3. CASE OpenMap(p) \/ OpenValidate(p)
    BY <1>3 DEF IInv, LockInv, OpenMap, OpenValidate, Guarded
  <1> QED BY <1>1, <1>2, <1>3

\* A step of thread t that leaves the lock word alone, and takes a guard only
\* when its process is named there.
LEMMA WordStays ==
    ASSUME IInv, NEW t \in Threads, UNCHANGED <<file, isNew, writerLock>>,
           \A u \in Threads \ {t} : thread'[u] = thread[u],
           Guarded(t)' => Guarded(t) \/ writerLock = PidOf(t)
    PROVE  LockInv'
  BY DEF IInv, LockInv, Guarded

LEMMA CallSteps ==
    ASSUME IInv, OneThreadEach, NEW t \in Threads, Acquire(t) \/ CallStep(t) \/ Deadline(t)
    PROVE  LockInv'
  <1> USE DEF IInv
  <1>0. {"idle", "load", "cas", "retry", "writing", "dropLoad", "dropStore"} = Labels
    BY DEF Labels
  <1>1. CASE Acquire(t)
    BY <1>0, <1>1, GotoThread, WordStays DEF Acquire, Guarded
  <1>2. CASE TryLoad(t)
    <2> DEFINE label == CASE writerLock = Free -> "cas"
                          [] writerLock = PidOf(t) -> "writing"
                          [] OTHER -> "retry"
    <2>1. label \in Labels /\ (label = "writing" => writerLock = PidOf(t))
          /\ label \in {"cas", "writing", "retry"}
      BY <1>0
    <2>2. Goto(t, label)
      BY <1>2 DEF TryLoad
    <2> HIDE DEF label
    <2>3. thread'[t] = label /\ \A u \in Threads \ {t} : thread'[u] = thread[u]
      BY <2>1, <2>2, GotoThread
    <2> QED BY <1>2, <2>1, <2>3, WordStays DEF TryLoad, Guarded
  <1>3. CASE TryCas(t)
    <2>1. CASE writerLock = Free
      <3>1. \A u \in Threads : ~Guarded(u)
        BY <2>1, PidOfThread DEF LockInv
      <3>2. thread'[t] = "writing" /\ \A u \in Threads \ {t} : thread'[u] = thread[u]
        BY <1>0, <1>3, <2>1, GotoThread DEF TryCas
      <3> QED BY <1>3, <2>1, <3>1, <3>2 DEF TryCas, LockInv, Guarded
    <2>2. CASE writerLock # Free
      BY <1>0, <1>3, <2>2, GotoThread, WordStays DEF TryCas, Guarded
    <2> QED BY <2>1, <2>2
  <1>4. CASE Retry(t)
    BY <1>0, <1>4, GotoThread, WordStays DEF Retry, Guarded
  <1>5. CASE DropGuard(t)
    BY <1>0, <1>5, GotoThread, WordStays DEF DropGuard, Guarded
  <1>6. CASE ReleaseLoad(t)
    BY <1>0, <1>6, GotoThread, WordStays DEF ReleaseLoad, Guarded
  <1>7. CASE ReleaseStore(t)
    <2>1. writerLock = PidOf(t)
      BY <1>7 DEF ReleaseStore, LockInv, Guarded
    <2>2. \A u \in Threads \ {t} : ~Guarded(u)
      BY <2>1, SameThread DEF LockInv
    <2>3. thread'[t] = "idle" /\ \A u \in Threads \ {t} : thread'[u] = thread[u]
      BY <1>0, <1>7, GotoThread DEF ReleaseStore
    <2> QED BY <1>7, <2>2, <2>3 DEF ReleaseStore, LockInv, Guarded
  <1>8. CASE Deadline(t)
    BY <1>8 DEF Deadline, LockInv, Guarded
  <1> QED BY <1>1, <1>2, <1>3, <1>4, <1>5, <1>6, <1>7, <1>8 DEF CallStep

\* A process that ends has no guard any more; the word keeps the pid of a
\* crashed one.
LEMMA EndSteps ==
    ASSUME IInv, NEW p \in Pids, Crash(p) \/ Close(p)
    PROVE  LockInv'
  <1>1. CASE Crash(p)
    <2>1. \A q \in Pids : ~isNew'[q]
      BY <1>1 DEF IInv, TypeOK, LockInv, Crash
    <2>2. \A t \in Threads : Guarded(t)' => Guarded(t)
      BY <1>1 DEF Crash, Guarded
    <2> QED BY <1>1, <2>1, <2>2 DEF IInv, LockInv, Crash
  <1>2. CASE Close(p)
    <2>1. \A t \in Threads : Guarded(t) => PidOf(t) # p
      BY <1>2 DEF Close, Guarded
    <2> QED BY <1>2, <2>1 DEF IInv, LockInv, Close, Guarded
  <1> QED BY <1>1, <1>2

\* At most one writer at a time (mvcc_concurrent.rs:62), across crashes, reused
\* pids, lost races for the lock and timeouts, when every process writes from
\* one thread and the metadata file exists beforehand.
THEOREM MutualExclusion ==
    ASSUME OneThreadEach, FileExists
    PROVE  Spec => []OneWriter
  <1>1. Init => IInv
    BY InitInv
  <1>2. IInv /\ [Next]_vars => IInv'
    <2> SUFFICES ASSUME IInv, [Next]_vars PROVE IInv'
      OBVIOUS
    <2>1. TypeOK'
      BY TypeStep DEF IInv
    <2>2. LockInv'
      <3>1. CASE UNCHANGED vars
        BY <3>1 DEF vars, IInv, LockInv, Guarded
      <3>2. CASE Next
        BY <3>2, OpenSteps, CallSteps, EndSteps DEF Next
      <3> QED BY <3>1, <3>2
    <2> QED BY <2>1, <2>2 DEF IInv
  <1>3. IInv => OneWriter
    BY SameThread DEF IInv, LockInv, OneWriter, Guarded
  <1> QED BY <1>1, <1>2, <1>3, PTL DEF Spec
=============================================================================
