-------------------------- MODULE GroupCommitProofs --------------------------
(***************************************************************************)
(* The group commit buffer implements CommitLog, and what it reports as    *)
(* committed is durable, for any number of callers, owners and helpers.    *)
(***************************************************************************)
EXTENDS GroupCommit, TLAPS

-----------------------------------------------------------------------------
(* Sequences                                                               *)

LEMMA MembersEmpty == Members(<< >>) = {} /\ Distinct(<< >>)
  BY DEF Members, Distinct

LEMMA MembersAppend ==
    ASSUME NEW S, NEW s \in Seq(S), NEW x \in S
    PROVE  Members(Append(s, x)) = Members(s) \cup {x}
  <1>1. /\ Len(Append(s, x)) = Len(s) + 1 /\ Len(s) \in Nat
        /\ \A i \in 1..Len(s) : Append(s, x)[i] = s[i]
        /\ Append(s, x)[Len(s) + 1] = x
    OBVIOUS
  <1> QED BY <1>1 DEF Members

LEMMA DistinctAppend ==
    ASSUME NEW S, NEW s \in Seq(S), NEW x \in S, Distinct(s), x \notin Members(s)
    PROVE  Distinct(Append(s, x))
  <1>1. /\ Len(Append(s, x)) = Len(s) + 1 /\ Len(s) \in Nat
        /\ \A i \in 1..Len(s) : Append(s, x)[i] = s[i]
        /\ Append(s, x)[Len(s) + 1] = x
    OBVIOUS
  <1> QED BY <1>1 DEF Members, Distinct

LEMMA MembersTail ==
    ASSUME NEW S, NEW s \in Seq(S), s # << >>
    PROVE  /\ Head(s) \in S /\ Tail(s) \in Seq(S)
           /\ Members(s) = Members(Tail(s)) \cup {Head(s)}
           /\ Distinct(s) => Distinct(Tail(s)) /\ Head(s) \notin Members(Tail(s))
  <1>1. /\ Len(s) \in Nat /\ Len(s) > 0 /\ Head(s) = s[1] /\ Tail(s) \in Seq(S)
        /\ Len(Tail(s)) = Len(s) - 1 /\ \A i \in 1..Len(Tail(s)) : Tail(s)[i] = s[i + 1]
    OBVIOUS
  <1>2. \A i \in 1..Len(s) : i = 1 \/ (i - 1 \in 1..Len(Tail(s)) /\ s[i] = Tail(s)[i - 1])
    BY <1>1
  <1>3. Members(s) = Members(Tail(s)) \cup {Head(s)}
    <2>1. ASSUME NEW x \in Members(s) PROVE x \in Members(Tail(s)) \cup {Head(s)}
      <3>1. PICK i \in 1..Len(s) : x = s[i]
        BY <2>1 DEF Members
      <3>2. CASE i = 1
        BY <1>1, <3>1, <3>2
      <3>3. CASE i - 1 \in 1..Len(Tail(s)) /\ s[i] = Tail(s)[i - 1]
        BY <3>1, <3>3 DEF Members
      <3> QED BY <1>2, <3>2, <3>3
    <2>2. ASSUME NEW x \in Members(Tail(s)) PROVE x \in Members(s)
      <3>1. PICK i \in 1..Len(Tail(s)) : x = Tail(s)[i]
        BY <2>2 DEF Members
      <3>2. i + 1 \in 1..Len(s) /\ x = s[i + 1]
        BY <1>1, <3>1
      <3> QED BY <3>2 DEF Members
    <2>3. Head(s) \in Members(s)
      BY <1>1 DEF Members
    <2> QED BY <2>1, <2>2, <2>3
  <1>4. Distinct(s) => Distinct(Tail(s)) /\ Head(s) \notin Members(Tail(s))
    BY <1>1 DEF Members, Distinct
  <1> QED BY <1>1, <1>3, <1>4

\* The two parts of a queue a batch is taken from.
LEMMA MembersSplit ==
    ASSUME NEW S, NEW s \in Seq(S), NEW n \in 0..Len(s)
    PROVE  LET front == SubSeq(s, 1, n) rest == SubSeq(s, n + 1, Len(s))
           IN  /\ front \in Seq(S) /\ rest \in Seq(S)
               /\ Members(front) \subseteq Members(s) /\ Members(rest) \subseteq Members(s)
               /\ Distinct(s) => /\ Distinct(front) /\ Distinct(rest)
                                 /\ Members(front) \cap Members(rest) = {}
  <1> DEFINE front == SubSeq(s, 1, n) rest == SubSeq(s, n + 1, Len(s))
  <1>1. /\ Len(s) \in Nat /\ n \in Nat /\ n <= Len(s)
        /\ front \in Seq(S) /\ Len(front) = n /\ \A i \in 1..n : front[i] = s[i]
    OBVIOUS
  <1>2. /\ rest \in Seq(S) /\ Len(rest) = Len(s) - n
        /\ \A i \in 1..(Len(s) - n) : rest[i] = s[n + i]
    OBVIOUS
  <1> HIDE DEF front, rest
  <1>3. \A i \in 1..Len(front) : i \in 1..Len(s) /\ front[i] = s[i] /\ i <= n
    BY <1>1
  <1>4. \A i \in 1..Len(rest) : n + i \in 1..Len(s) /\ rest[i] = s[n + i] /\ n + i > n
    BY <1>1, <1>2
  <1>5. Members(front) \subseteq Members(s) /\ Members(rest) \subseteq Members(s)
    BY <1>3, <1>4 DEF Members
  <1>6. ASSUME Distinct(s) PROVE Distinct(front) /\ Distinct(rest)
    <2>1. ASSUME NEW i \in 1..Len(front), NEW j \in 1..Len(front), front[i] = front[j] PROVE i = j
      <3>1. i \in 1..Len(s) /\ j \in 1..Len(s) /\ s[i] = s[j]
        BY <1>3, <2>1
      <3> QED BY <1>6, <3>1 DEF Distinct
    <2>2. ASSUME NEW i \in 1..Len(rest), NEW j \in 1..Len(rest), rest[i] = rest[j] PROVE i = j
      <3>1. n + i \in 1..Len(s) /\ n + j \in 1..Len(s) /\ s[n + i] = s[n + j]
        BY <1>4, <2>2
      <3>2. n + i = n + j
        BY <1>6, <3>1 DEF Distinct
      <3> QED BY <1>1, <1>2, <3>2
    <2> QED BY <2>1, <2>2 DEF Distinct
  <1>7. ASSUME Distinct(s), NEW x \in Members(front), x \in Members(rest) PROVE FALSE
    <2>1. PICK i \in 1..Len(front) : x = front[i]
      BY DEF Members
    <2>2. PICK j \in 1..Len(rest) : x = rest[j]
      BY <1>7 DEF Members
    <2>3. i \in 1..Len(s) /\ n + j \in 1..Len(s) /\ s[i] = s[n + j] /\ i <= n /\ n + j > n
      BY <1>3, <1>4, <2>1, <2>2
    <2>4. i = n + j
      BY <1>7, <2>3 DEF Distinct
    <2> QED BY <1>1, <2>3, <2>4
  <1> QED BY <1>1, <1>2, <1>5, <1>6, <1>7 DEF front, rest

-----------------------------------------------------------------------------
(* Types                                                                   *)

LEMMA IdleType == Idle \in Locals
  BY MembersEmpty DEF Idle, Locals, Labels

LEMMA BecomeType ==
    ASSUME TypeOK, NEW t \in Threads, NEW locals \in Locals, Become(t, locals)
    PROVE  /\ thread' \in [Threads -> Locals]
           /\ thread'[t] = locals /\ \A u \in Threads \ {t} : thread'[u] = thread[u]
  BY DEF TypeOK, Become

\* The record a step gives its thread, and the types of its fields.
LEMMA GotoType ==
    ASSUME TypeOK, NEW t \in Threads, NEW label \in Labels, Goto(t, label)
    PROVE  /\ thread' \in [Threads -> Locals]
           /\ thread'[t] = [thread[t] EXCEPT !.at = label]
           /\ \A u \in Threads \ {t} : thread'[u] = thread[u]
  <1>1. [thread[t] EXCEPT !.at = label] \in Locals
    BY DEF TypeOK, Locals
  <1> QED BY <1>1, BecomeType DEF Goto

LEMMA FlushThenType ==
    ASSUME TypeOK, NEW t \in Threads, NEW label \in Labels, FlushThen(t, label)
    PROVE  /\ thread' \in [Threads -> Locals]
           /\ thread'[t] = [Idle EXCEPT !.at = "drain", !.return = label]
           /\ \A u \in Threads \ {t} : thread'[u] = thread[u]
  <1>1. "drain" \in Labels
    BY DEF Labels
  <1>2. [Idle EXCEPT !.at = "drain", !.return = label] \in Locals
    BY <1>1, IdleType DEF Locals
  <1> QED BY <1>2, BecomeType DEF FlushThen

LEMMA ReturnType ==
    ASSUME TypeOK, NEW t \in Threads, Return(t)
    PROVE  /\ thread' \in [Threads -> Locals]
           /\ thread'[t] = [Idle EXCEPT !.at = thread[t].return]
           /\ \A u \in Threads \ {t} : thread'[u] = thread[u]
  <1>1. [Idle EXCEPT !.at = thread[t].return] \in Locals
    BY IdleType DEF TypeOK, Locals
  <1> QED BY <1>1, BecomeType DEF Return

LEMMA LabelSet == {"idle", "submitted", "check", "waiting", "loop", "loopDecide",
                   "drain", "append", "notify", "returned"} = Labels
  BY DEF Labels

LEMMA ThreadSets == TxnIds \subseteq Threads /\ Owners \subseteq Threads /\ Helpers \subseteq Threads
  BY DEF Threads

LEMMA BatchFacts ==
    ASSUME NEW n \in 1..MaxBatch, pending \in Seq(TxnIds), pending # << >>
    PROVE  SmallerOf(n, Len(pending)) \in 1..Len(pending)
  <1>1. Len(pending) \in Nat /\ Len(pending) > 0
    OBVIOUS
  <1> QED BY <1>1, GroupCommitAssumption DEF SmallerOf

\* What DrainBatch does, with the batch named.
LEMMA DrainFacts ==
    ASSUME TypeOK, NEW t \in Threads, DrainBatch(t)
    PROVE  \E n \in 1..Len(pending) :
              LET batch == SubSeq(pending, 1, n)
                  locals == [thread[t] EXCEPT !.at = "append", !.batch = batch,
                                              !.toLog = batch, !.ok = TRUE]
              IN  /\ pending' = SubSeq(pending, n + 1, Len(pending))
                  /\ locals \in Locals /\ Become(t, locals)
  <1>1. PICK size \in 1..MaxBatch :
           LET n == SmallerOf(size, Len(pending))
               batch == SubSeq(pending, 1, n)
           IN  /\ pending' = SubSeq(pending, n + 1, Len(pending))
               /\ Become(t, [thread[t] EXCEPT !.at = "append", !.batch = batch,
                                              !.toLog = batch, !.ok = TRUE])
    BY DEF DrainBatch
  <1> DEFINE n == SmallerOf(size, Len(pending))
             batch == SubSeq(pending, 1, n)
  <1>2. n \in 1..Len(pending)
    BY BatchFacts DEF TypeOK, DrainBatch
  <1>3. batch \in Seq(TxnIds)
    BY <1>2, MembersSplit DEF TypeOK
  <1> HIDE DEF n, batch
  <1>4. [thread[t] EXCEPT !.at = "append", !.batch = batch, !.toLog = batch, !.ok = TRUE] \in Locals
    BY <1>3, LabelSet DEF TypeOK, Locals
  <1> USE DEF n, batch
  <1> WITNESS n \in 1..Len(pending)
  <1> QED BY <1>1, <1>4

LEMMA TypeFlush == ASSUME TypeOK, NEW t \in Threads, FlushStep(t) PROVE TypeOK'
  <1>0. thread[t] \in Locals /\ thread[t].batch \in Seq(TxnIds) /\ thread[t].toLog \in Seq(TxnIds)
    BY DEF TypeOK, Locals
  <1>1. CASE DrainEmpty(t) \/ FlushReturn(t)
    BY <1>1, ReturnType DEF TypeOK, DrainEmpty, FlushReturn
  <1>2. CASE DrainBatch(t)
    <2>1. PICK n \in 1..Len(pending) :
              LET batch == SubSeq(pending, 1, n)
                  locals == [thread[t] EXCEPT !.at = "append", !.batch = batch,
                                              !.toLog = batch, !.ok = TRUE]
              IN  /\ pending' = SubSeq(pending, n + 1, Len(pending))
                  /\ locals \in Locals /\ Become(t, locals)
      BY <1>2, DrainFacts
    <2>2. thread' \in [Threads -> Locals]
      BY <2>1, BecomeType
    <2>3. pending' \in Seq(TxnIds)
      BY <2>1, MembersSplit DEF TypeOK
    <2> QED BY <1>2, <2>2, <2>3 DEF TypeOK, DrainBatch
  <1>3. CASE AppendCommit(t)
    <2>1. [thread[t] EXCEPT !.toLog = Tail(@)] \in Locals /\ Head(thread[t].toLog) \in TxnIds
      BY <1>0, <1>3, MembersTail DEF Locals, AppendCommit
    <2>2. thread' \in [Threads -> Locals]
      BY <1>3, <2>1, BecomeType DEF AppendCommit
    <2>3. wal' \in Seq(TxnIds) /\ synced \in 0..Len(wal')
      BY <1>3, <2>1 DEF TypeOK, AppendCommit
    <2> QED BY <1>3, <2>2, <2>3 DEF TypeOK, AppendCommit
  <1>4. CASE SyncBatch(t)
    <2>1. Len(wal) \in 0..Len(wal)
      BY DEF TypeOK
    <2> QED BY <1>4, <2>1, GotoType, LabelSet DEF TypeOK, SyncBatch
  <1>5. CASE FlushFails(t)
    <2>0. << >> \in Seq(TxnIds) /\ FALSE \in BOOLEAN
      OBVIOUS
    <2>1. [thread[t] EXCEPT !.at = "notify", !.ok = FALSE, !.toLog = << >>] \in Locals
      BY <1>0, <2>0, LabelSet DEF Locals
    <2> QED BY <1>5, <2>1, BecomeType DEF TypeOK, FlushFails
  <1>6. CASE NotifyOne(t)
    <2>1. [thread[t] EXCEPT !.batch = Tail(@)] \in Locals /\ Head(thread[t].batch) \in TxnIds
      BY <1>0, <1>6, MembersTail DEF Locals, NotifyOne
    <2>2. thread' \in [Threads -> Locals]
      BY <1>6, <2>1, BecomeType DEF NotifyOne
    <2>3. result' \in [TxnIds -> Results]
      BY <1>6, <2>1 DEF TypeOK, NotifyOne, Results
    <2> QED BY <1>6, <2>2, <2>3 DEF TypeOK, NotifyOne
  <1> QED BY <1>1, <1>2, <1>3, <1>4, <1>5, <1>6 DEF FlushStep

LEMMA TypeStep == TypeOK /\ [Next]_vars => TypeOK'
  <1> SUFFICES ASSUME TypeOK, [Next]_vars PROVE TypeOK'
    OBVIOUS
  <1> USE LabelSet, ThreadSets
  <1>1. ASSUME NEW id \in TxnIds, Submit(id) PROVE TypeOK'
    <2>1. PICK size \in 1..MaxBatch :
             Become(id, [Idle EXCEPT !.at = "submitted", !.shouldFlush = Len(pending') >= size])
      BY <1>1 DEF Submit
    <2> DEFINE full == Len(pending') >= size
    <2>2. full \in BOOLEAN
      OBVIOUS
    <2> HIDE DEF full
    <2>3. thread' \in [Threads -> Locals]
      <3>1. [Idle EXCEPT !.at = "submitted", !.shouldFlush = full] \in Locals
        BY <2>2, IdleType DEF Locals
      <3> QED BY <2>1, <3>1, BecomeType DEF full
    <2>4. pending' \in Seq(TxnIds) /\ result' \in [TxnIds -> Results]
      BY <1>1 DEF TypeOK, Submit, Results
    <2> QED BY <1>1, <2>3, <2>4 DEF TypeOK, Submit
  <1>2. ASSUME NEW id \in TxnIds, FlushInline(id) PROVE TypeOK'
    <2>1. [Idle EXCEPT !.at = "check"] \in Locals
      BY IdleType DEF Locals
    <2>2. thread' \in [Threads -> Locals]
      BY <1>2, <2>1, BecomeType, FlushThenType DEF FlushInline
    <2> QED BY <1>2, <2>2 DEF TypeOK, FlushInline
  <1>3. ASSUME NEW id \in TxnIds, CheckResult(id) \/ Wake(id) PROVE TypeOK'
    BY <1>3, GotoType DEF TypeOK, CheckResult, Wake
  <1>4. ASSUME NEW id \in TxnIds, TimeoutFlush(id) PROVE TypeOK'
    BY <1>4, FlushThenType DEF TypeOK, TimeoutFlush
  <1>5. ASSUME NEW o \in Owners, Start(o) \/ LoopHead(o) PROVE TypeOK'
    <2>1. thread' \in [Threads -> Locals]
      BY <1>5, GotoType DEF Start, LoopHead
    <2>2. starts' \in Nat
      BY <1>5 DEF TypeOK, Start, LoopHead
    <2>3. running' \in BOOLEAN /\ UNCHANGED <<pending, result, wal, synced, up, helps>>
      BY <1>5 DEF TypeOK, Start, LoopHead
    <2> QED BY <2>1, <2>2, <2>3 DEF TypeOK
  <1>6. ASSUME NEW o \in Owners, LoopDecide(o) PROVE TypeOK'
    BY <1>6, GotoType, FlushThenType DEF TypeOK, LoopDecide
  <1>7. ASSUME NEW h \in Helpers, FlushGroupCommit(h) PROVE TypeOK'
    <2>1. thread' \in [Threads -> Locals]
      BY <1>7, FlushThenType DEF FlushGroupCommit
    <2>2. helps' \in Nat /\ UNCHANGED <<pending, result, running, wal, synced, up, starts>>
      BY <1>7 DEF TypeOK, FlushGroupCommit
    <2> QED BY <2>1, <2>2 DEF TypeOK
  <1>8. CASE Stop
    BY <1>8 DEF TypeOK, Stop
  <1>9. CASE Crash
    <2>1. PICK n \in synced..Len(wal) : wal' = SubSeq(wal, 1, n)
      BY <1>9 DEF Crash
    <2>2. wal' \in Seq(TxnIds) /\ Len(wal') = n
      BY <2>1 DEF TypeOK
    <2>3. thread' \in [Threads -> Locals]
      BY <1>9, IdleType DEF Crash
    <2>4. synced' \in 0..Len(wal') /\ pending' \in Seq(TxnIds)
      BY <1>9, <2>2 DEF TypeOK, Crash
    <2> QED BY <1>9, <2>2, <2>3, <2>4 DEF TypeOK, Crash
  <1>10. CASE UNCHANGED vars
    BY <1>10 DEF TypeOK, vars
  <1> QED
    BY <1>1, <1>2, <1>3, <1>4, <1>5, <1>6, <1>7, <1>8, <1>9, <1>10, TypeFlush
       DEF Next, CallerStep, OwnerStep

-----------------------------------------------------------------------------
(* FlushInv                                                                *)

IInv == TypeOK /\ FlushInv

Others(t) == \A u \in Threads \ {t} : thread'[u] = thread[u]

\* Durability depends on the log and the fsync only.
LEMMA DurableSame == ASSUME UNCHANGED <<wal, synced>> PROVE \A id \in TxnIds : Durable(id)' <=> Durable(id)
  BY DEF Durable

LEMMA MembersType ==
    ASSUME TypeOK
    PROVE  /\ Members(pending) \subseteq TxnIds /\ Members(wal) \subseteq TxnIds
           /\ \A t \in Threads : /\ thread[t].batch \in Seq(TxnIds) /\ thread[t].toLog \in Seq(TxnIds)
                                 /\ Members(thread[t].batch) \subseteq TxnIds
                                 /\ Members(thread[t].toLog) \subseteq TxnIds
  <1>1. \A s \in Seq(TxnIds) : Members(s) \subseteq TxnIds
    BY DEF Members
  <1> QED BY <1>1 DEF TypeOK, Locals

\* A step of thread t that touches neither queue, log nor answers.
LEMMA QuietStep ==
    ASSUME IInv, NEW t \in Threads, Others(t), UNCHANGED <<pending, result, wal, synced, up>>,
           \/ thread'[t].batch = << >> /\ thread'[t].toLog = << >>
           \/ /\ thread'[t].batch = thread[t].batch /\ thread'[t].toLog = thread[t].toLog
              /\ thread'[t].at \notin {"append", "notify"},
           t \in TxnIds => thread'[t].at # "idle",
           t \in TxnIds /\ thread'[t].at \in {"drain", "append", "notify"} =>
               thread'[t].return = "check"
    PROVE  FlushInv'
  <1> USE DEF IInv, FlushInv
  <1>0. /\ Members(thread'[t].batch) \subseteq Members(thread[t].batch)
        /\ Members(thread'[t].toLog) \subseteq Members(thread[t].toLog)
        /\ Members(thread'[t].toLog) \subseteq Members(thread'[t].batch)
        /\ Distinct(thread'[t].batch) /\ Distinct(thread'[t].toLog)
    BY MembersEmpty DEF OneFlusher
  <1>1. SuccessIsDurable'
    BY DurableSame DEF SuccessIsDurable
  <1>2. OneFlusher'
    <2>1. \A u \in Threads :
             /\ Members(thread'[u].batch) \subseteq Members(thread[u].batch)
             /\ Distinct(thread'[u].batch) /\ Distinct(thread'[u].toLog)
             /\ Members(thread'[u].toLog) \subseteq Members(thread'[u].batch)
      BY <1>0 DEF OneFlusher, Others
    <2> QED BY <2>1 DEF OneFlusher
  <1>3. Unanswered'
    <2>1. \A u \in Threads :
             /\ Members(thread'[u].batch) \subseteq Members(thread[u].batch)
             /\ Members(thread'[u].toLog) \subseteq Members(thread[u].toLog)
      BY <1>0 DEF Others
    <2>2. ASSUME NEW id \in TxnIds
          PROVE  /\ result'[id] = "none" => id \notin Members(wal')
                 /\ up' /\ thread'[id].at = "idle" => result'[id] = "none"
                 /\ thread'[id].at \in {"drain", "append", "notify"} => thread'[id].return = "check"
      BY ThreadSets DEF Unanswered, Others
    <2> QED BY <2>1, <2>2 DEF Unanswered
  <1>4. BatchDurable'
    <2>1. ASSUME NEW u \in Threads
          PROVE  /\ thread'[u].at = "append" =>
                       Members(thread'[u].batch) \subseteq Members(thread'[u].toLog) \cup Members(wal')
                 /\ thread'[u].at = "notify" =>
                       /\ thread'[u].toLog = << >>
                       /\ thread'[u].ok => \A id \in Members(thread'[u].batch) : Durable(id)'
      <3>1. CASE u = t
        BY <3>1, MembersEmpty
      <3>2. CASE u # t
        <4>1. thread'[u] = thread[u] /\ Members(thread[u].batch) \subseteq TxnIds
          BY <3>2, MembersType DEF Others
        <4> QED BY <4>1, DurableSame DEF BatchDurable
      <3> QED BY <3>1, <3>2
    <2> QED BY <2>1 DEF BatchDurable
  <1> QED BY <1>1, <1>2, <1>3, <1>4

\* The steps of that kind.
LEMMA IdleFields ==
    ASSUME NEW label
    PROVE  LET a == [Idle EXCEPT !.at = label] d == [Idle EXCEPT !.at = "drain", !.return = label]
           IN  /\ a.at = label /\ a.batch = << >> /\ a.toLog = << >>
               /\ d.at = "drain" /\ d.return = label /\ d.batch = << >> /\ d.toLog = << >>
  BY DEF Idle

LEMMA GotoFields ==
    ASSUME NEW l \in Locals, NEW label
    PROVE  LET g == [l EXCEPT !.at = label]
           IN  g.at = label /\ g.batch = l.batch /\ g.toLog = l.toLog /\ g.return = l.return /\ g.ok = l.ok
  BY DEF Locals

LEMMA QuietGoto ==
    ASSUME IInv, NEW t \in Threads, NEW label \in Labels \ {"drain", "append", "notify"},
           Goto(t, label), UNCHANGED <<pending, result, wal, synced, up>>,
           t \in TxnIds => label # "idle"
    PROVE  FlushInv'
  <1>1. Others(t) /\ thread'[t] = [thread[t] EXCEPT !.at = label] /\ thread[t] \in Locals
    BY GotoType DEF IInv, Others, TypeOK
  <1>2. /\ thread'[t].at = label /\ thread'[t].batch = thread[t].batch
        /\ thread'[t].toLog = thread[t].toLog
    BY <1>1, GotoFields
  <1> QED BY <1>1, <1>2, QuietStep

LEMMA QuietFlushThen ==
    ASSUME IInv, NEW t \in Threads, NEW label \in Labels, FlushThen(t, label),
           UNCHANGED <<pending, result, wal, synced, up>>, t \in TxnIds => label = "check"
    PROVE  FlushInv'
  <1>1. Others(t) /\ thread'[t] = [Idle EXCEPT !.at = "drain", !.return = label]
    BY FlushThenType DEF IInv, Others
  <1>2. /\ thread'[t].at = "drain" /\ thread'[t].return = label /\ thread'[t].batch = << >>
        /\ thread'[t].toLog = << >>
    BY <1>1, IdleFields
  <1> QED BY <1>1, <1>2, QuietStep

LEMMA QuietReturn ==
    ASSUME IInv, NEW t \in Threads, Return(t), thread[t].at \in {"drain", "notify"},
           UNCHANGED <<pending, result, wal, synced, up>>
    PROVE  FlushInv'
  <1>1. Others(t) /\ thread'[t] = [Idle EXCEPT !.at = thread[t].return]
    BY ReturnType DEF IInv, Others
  <1>2. /\ thread'[t].at = thread[t].return /\ thread'[t].batch = << >> /\ thread'[t].toLog = << >>
    BY <1>1, IdleFields
  <1>3. t \in TxnIds => thread'[t].at = "check"
    BY <1>2 DEF IInv, FlushInv, Unanswered
  <1> QED BY <1>1, <1>2, <1>3, QuietStep

\* A new transaction is in no queue, batch or log.
LEMMA SubmitStep == ASSUME IInv, NEW id \in TxnIds, Submit(id) PROVE FlushInv'
  <1> USE DEF IInv, FlushInv
  <1>0. /\ id \in Threads /\ up /\ thread[id].at = "idle" /\ result[id] = "none"
        /\ pending \in Seq(TxnIds) /\ UNCHANGED <<wal, synced, up>>
        /\ pending' = Append(pending, id) /\ result' = [result EXCEPT ![id] = "Pending"]
        /\ result'[id] = "Pending" /\ \A x \in TxnIds \ {id} : result'[x] = result[x]
    BY ThreadSets DEF Submit, In, Unanswered, TypeOK
  <1>1. /\ id \notin Members(wal) /\ id \notin Members(pending)
        /\ \A u \in Threads : id \notin Members(thread[u].batch) /\ id \notin Members(thread[u].toLog)
    BY <1>0 DEF Unanswered, OneFlusher
  <1>2. PICK size \in 1..MaxBatch :
           Become(id, [Idle EXCEPT !.at = "submitted", !.shouldFlush = Len(pending') >= size])
    BY DEF Submit
  <1>3. /\ thread'[id] = [Idle EXCEPT !.at = "submitted", !.shouldFlush = Len(pending') >= size]
        /\ Others(id)
    BY <1>0, <1>2 DEF Become, TypeOK, Others
  <1>4. thread'[id].at = "submitted" /\ thread'[id].batch = << >> /\ thread'[id].toLog = << >>
    BY <1>3 DEF Idle
  <1>5. Members(pending') = Members(pending) \cup {id} /\ Distinct(pending')
    BY <1>0, <1>1, MembersAppend, DistinctAppend DEF OneFlusher
  <1>6. \A u \in Threads :
           \/ thread'[u] = thread[u]
           \/ u = id /\ Members(thread'[u].batch) = {} /\ Members(thread'[u].toLog) = {}
              /\ Distinct(thread'[u].batch) /\ Distinct(thread'[u].toLog)
              /\ thread'[u].at = "submitted"
    BY <1>3, <1>4, MembersEmpty DEF Others
  <1>7. SuccessIsDurable'
    BY <1>0, DurableSame DEF SuccessIsDurable
  <1>8. OneFlusher'
    <2>1. ASSUME NEW u \in Threads
          PROVE  /\ Members(thread'[u].batch) \subseteq Members(thread[u].batch)
                 /\ Distinct(thread'[u].batch) /\ Distinct(thread'[u].toLog)
                 /\ Members(thread'[u].toLog) \subseteq Members(thread'[u].batch)
      BY <1>6 DEF OneFlusher
    <2>2. \A u \in Threads : Members(thread'[u].batch) \cap Members(pending') = {}
      BY <1>1, <1>5, <2>1 DEF OneFlusher
    <2>3. \A u, v \in Threads : u # v =>
             Members(thread'[u].batch) \cap Members(thread'[v].batch) = {}
      BY <2>1 DEF OneFlusher
    <2> QED BY <1>5, <2>1, <2>2, <2>3 DEF OneFlusher
  <1>9. Unanswered'
    <2>1. \A x \in Members(pending') : result'[x] = "Pending" /\ x \notin Members(wal')
      BY <1>0, <1>1, <1>5, MembersType DEF Unanswered
    <2>2. \A u \in Threads :
             /\ \A x \in Members(thread'[u].batch) : result'[x] = "Pending"
             /\ \A x \in Members(thread'[u].toLog) : x \notin Members(wal')
      <3> SUFFICES ASSUME NEW u \in Threads
                   PROVE  /\ \A x \in Members(thread'[u].batch) : result'[x] = "Pending"
                          /\ \A x \in Members(thread'[u].toLog) : x \notin Members(wal')
        OBVIOUS
      <3>1. CASE thread'[u] = thread[u]
        BY <1>0, <1>1, <3>1, MembersType DEF Unanswered
      <3>2. CASE Members(thread'[u].batch) = {} /\ Members(thread'[u].toLog) = {}
        BY <3>2
      <3> QED BY <1>6, <3>1, <3>2
    <2>3. ASSUME NEW x \in TxnIds
          PROVE  /\ result'[x] = "none" => x \notin Members(wal')
                 /\ up' /\ thread'[x].at = "idle" => result'[x] = "none"
                 /\ thread'[x].at \in {"drain", "append", "notify"} => thread'[x].return = "check"
      <3>1. CASE x = id
        BY <1>0, <1>4, <3>1
      <3>2. CASE x # id
        BY <1>0, <1>3, <3>2, ThreadSets DEF Unanswered, Others
      <3> QED BY <3>1, <3>2
    <2> QED BY <2>1, <2>2, <2>3 DEF Unanswered
  <1>10. BatchDurable'
    <2>1. \A u \in Threads : thread'[u].at \in {"append", "notify"} => thread'[u] = thread[u]
      BY <1>6
    <2> QED BY <1>0, <2>1, DurableSame, MembersType DEF BatchDurable
  <1> QED BY <1>7, <1>8, <1>9, <1>10

\* A batch moves from the queue to one thread.
LEMMA DrainStep == ASSUME IInv, NEW t \in Threads, DrainBatch(t) PROVE FlushInv'
  <1> USE DEF IInv, FlushInv
  <1>1. PICK n \in 1..Len(pending) :
            LET batch == SubSeq(pending, 1, n)
                locals == [thread[t] EXCEPT !.at = "append", !.batch = batch,
                                            !.toLog = batch, !.ok = TRUE]
            IN  /\ pending' = SubSeq(pending, n + 1, Len(pending))
                /\ locals \in Locals /\ Become(t, locals)
    BY DrainFacts
  <1> DEFINE batch == SubSeq(pending, 1, n)
  <1>2. /\ Members(batch) \subseteq Members(pending) /\ Members(pending') \subseteq Members(pending)
        /\ Distinct(batch) /\ Distinct(pending') /\ Members(batch) \cap Members(pending') = {}
    <2>1. n \in 0..Len(pending) /\ pending \in Seq(TxnIds)
      BY DEF TypeOK
    <2> QED BY <1>1, <2>1, MembersSplit DEF OneFlusher
  <1>3. /\ Others(t)
        /\ thread'[t] = [thread[t] EXCEPT !.at = "append", !.batch = batch, !.toLog = batch, !.ok = TRUE]
    BY <1>1, BecomeType DEF Others
  <1> HIDE DEF batch
  <1>4. /\ thread'[t].at = "append" /\ thread'[t].batch = batch /\ thread'[t].toLog = batch
        /\ thread'[t].return = thread[t].return /\ thread[t].at = "drain"
    BY <1>3 DEF DrainBatch, In, TypeOK, Locals
  <1>5. UNCHANGED <<result, wal, synced, up>>
    BY DEF DrainBatch
  <1>6. SuccessIsDurable'
    BY <1>5, DurableSame DEF SuccessIsDurable
  <1>7. OneFlusher'
    <2>1. \A u \in Threads : u # t => /\ Members(thread'[u].batch) \cap Members(pending) = {}
                                      /\ thread'[u] = thread[u]
      BY <1>3 DEF OneFlusher, Others
    <2>2. ASSUME NEW u \in Threads
          PROVE  /\ Distinct(thread'[u].batch) /\ Distinct(thread'[u].toLog)
                 /\ Members(thread'[u].toLog) \subseteq Members(thread'[u].batch)
                 /\ Members(thread'[u].batch) \cap Members(pending') = {}
      <3>1. CASE u = t
        BY <1>2, <1>4, <3>1
      <3>2. CASE u # t
        BY <1>2, <2>1, <3>2 DEF OneFlusher
      <3> QED BY <3>1, <3>2
    <2>3. ASSUME NEW u \in Threads, NEW v \in Threads, u # v
          PROVE  Members(thread'[u].batch) \cap Members(thread'[v].batch) = {}
      <3>1. CASE u = t
        BY <1>2, <1>4, <2>1, <2>3, <3>1
      <3>2. CASE v = t
        BY <1>2, <1>4, <2>1, <2>3, <3>2
      <3>3. CASE u # t /\ v # t
        BY <2>1, <2>3, <3>3 DEF OneFlusher
      <3> QED BY <3>1, <3>2, <3>3
    <2> QED BY <1>2, <2>2, <2>3 DEF OneFlusher
  <1>8. Unanswered'
    <2>1. \A u \in Threads :
             /\ \A x \in Members(thread'[u].batch) : result'[x] = "Pending"
             /\ \A x \in Members(thread'[u].toLog) : x \notin Members(wal')
      <3> SUFFICES ASSUME NEW u \in Threads
                   PROVE  /\ \A x \in Members(thread'[u].batch) : result'[x] = "Pending"
                          /\ \A x \in Members(thread'[u].toLog) : x \notin Members(wal')
        OBVIOUS
      <3>1. CASE u = t
        BY <1>2, <1>4, <1>5, <3>1 DEF Unanswered
      <3>2. CASE u # t
        BY <1>3, <1>5, <3>2 DEF Unanswered, Others
      <3> QED BY <3>1, <3>2
    <2>2. ASSUME NEW x \in TxnIds
          PROVE  /\ result'[x] = "none" => x \notin Members(wal')
                 /\ up' /\ thread'[x].at = "idle" => result'[x] = "none"
                 /\ thread'[x].at \in {"drain", "append", "notify"} => thread'[x].return = "check"
      <3>1. CASE x = t
        BY <1>4, <1>5, <3>1 DEF Unanswered
      <3>2. CASE x # t
        BY <1>3, <1>5, <3>2, ThreadSets DEF Unanswered, Others
      <3> QED BY <3>1, <3>2
    <2> QED BY <1>2, <1>5, <2>1, <2>2 DEF Unanswered
  <1>9. BatchDurable'
    <2>1. \A u \in Threads : u # t => thread'[u] = thread[u]
      BY <1>3 DEF Others
    <2> QED BY <1>4, <1>5, <2>1, DurableSame, MembersType DEF BatchDurable
  <1> QED BY <1>6, <1>7, <1>8, <1>9

\* A commit record reaches the log, the first for its transaction.
LEMMA AppendStep == ASSUME IInv, NEW t \in Threads, AppendCommit(t) PROVE FlushInv'
  <1> USE DEF IInv, FlushInv
  <1> DEFINE x == Head(thread[t].toLog) rest == Tail(thread[t].toLog)
  <1>1. thread[t] \in Locals /\ thread[t].toLog \in Seq(TxnIds) /\ thread[t].toLog # << >>
    BY MembersType DEF AppendCommit, TypeOK
  <1>2. /\ x \in TxnIds /\ rest \in Seq(TxnIds)
        /\ Members(thread[t].toLog) = Members(rest) \cup {x}
        /\ Distinct(rest) /\ x \notin Members(rest)
    BY <1>1, MembersTail DEF OneFlusher
  <1>3. Others(t) /\ thread'[t] = [thread[t] EXCEPT !.toLog = rest]
    BY <1>1 DEF AppendCommit, Become, Others, TypeOK
  <1>4. wal' = Append(wal, x) /\ UNCHANGED <<pending, result, synced, up>>
    BY DEF AppendCommit
  <1> HIDE DEF x, rest
  <1>5. /\ thread'[t].toLog = rest /\ thread'[t].batch = thread[t].batch
        /\ thread'[t].at = "append" /\ thread[t].at = "append"
        /\ thread'[t].return = thread[t].return
    BY <1>1, <1>3 DEF Locals, AppendCommit, In
  <1>6. Members(wal') = Members(wal) \cup {x} /\ \A y \in TxnIds : Durable(y) => Durable(y)'
    <2>1. wal \in Seq(TxnIds) /\ synced \in 0..Len(wal)
      BY DEF TypeOK
    <2>2. \A i \in 1..synced : wal'[i] = wal[i]
      BY <1>2, <1>4, <2>1
    <2> QED BY <1>2, <1>4, <2>1, <2>2, MembersAppend DEF Durable
  <1>7. x \in Members(thread[t].batch) /\ x \notin Members(pending) /\ result[x] = "Pending"
    BY <1>2 DEF OneFlusher, Unanswered
  <1>8. SuccessIsDurable'
    BY <1>4, <1>6 DEF SuccessIsDurable
  <1>9. OneFlusher'
    <2>1. \A u \in Threads : /\ thread'[u].batch = thread[u].batch /\ Distinct(thread'[u].toLog)
                             /\ Members(thread'[u].toLog) \subseteq Members(thread[u].toLog)
      BY <1>2, <1>3, <1>5 DEF OneFlusher, Others
    <2> QED BY <1>4, <2>1 DEF OneFlusher
  <1>10. Unanswered'
    <2>1. \A y \in Members(pending') : result'[y] = "Pending" /\ y \notin Members(wal')
      BY <1>4, <1>6, <1>7 DEF Unanswered
    <2>2. ASSUME NEW u \in Threads
          PROVE  /\ \A y \in Members(thread'[u].batch) : result'[y] = "Pending"
                 /\ \A y \in Members(thread'[u].toLog) : y \notin Members(wal')
      <3>1. CASE u = t
        BY <1>2, <1>4, <1>5, <1>6, <3>1 DEF Unanswered
      <3>2. CASE u # t
        <4>1. thread'[u] = thread[u] /\ x \notin Members(thread[u].toLog)
          BY <1>3, <1>7, <3>2 DEF Others, OneFlusher
        <4> QED BY <1>4, <1>6, <4>1 DEF Unanswered
      <3> QED BY <3>1, <3>2
    <2>3. ASSUME NEW y \in TxnIds
          PROVE  /\ result'[y] = "none" => y \notin Members(wal')
                 /\ up' /\ thread'[y].at = "idle" => result'[y] = "none"
                 /\ thread'[y].at \in {"drain", "append", "notify"} => thread'[y].return = "check"
      <3>1. result'[y] = "none" => y \notin Members(wal')
        BY <1>4, <1>6, <1>7 DEF Unanswered
      <3>2. CASE y = t
        BY <1>5, <3>1, <3>2 DEF Unanswered
      <3>3. CASE y # t
        BY <1>3, <1>4, <3>1, <3>3, ThreadSets DEF Unanswered, Others
      <3> QED BY <3>2, <3>3
    <2> QED BY <2>1, <2>2, <2>3 DEF Unanswered
  <1>11. BatchDurable'
    <2>1. ASSUME NEW u \in Threads
          PROVE  /\ thread'[u].at = "append" =>
                       Members(thread'[u].batch) \subseteq Members(thread'[u].toLog) \cup Members(wal')
                 /\ thread'[u].at = "notify" =>
                       /\ thread'[u].toLog = << >>
                       /\ thread'[u].ok => \A id \in Members(thread'[u].batch) : Durable(id)'
      <3>1. CASE u = t
        BY <1>2, <1>5, <1>6, <3>1 DEF BatchDurable
      <3>2. CASE u # t
        <4>1. thread'[u] = thread[u] /\ Members(thread[u].batch) \subseteq TxnIds
          BY <1>3, <3>2, MembersType DEF Others
        <4> QED BY <1>6, <4>1 DEF BatchDurable
      <3> QED BY <3>1, <3>2
    <2> QED BY <2>1 DEF BatchDurable
  <1> QED BY <1>8, <1>9, <1>10, <1>11

\* The step of a flusher that takes nothing from a queue and adds nothing to
\* the log: every batch is a part of what it was.
LEMMA ShrinkStep ==
    ASSUME IInv, NEW t \in Threads, Others(t), UNCHANGED <<pending, wal, up>>,
           thread[t].at \in {"append", "notify"}, thread'[t].at = "notify",
           thread'[t].return = thread[t].return, thread'[t].toLog = << >>,
           Distinct(thread'[t].batch), Members(thread'[t].batch) \subseteq Members(thread[t].batch),
           \A id \in TxnIds : Durable(id) => Durable(id)',
           thread'[t].ok => \A id \in Members(thread'[t].batch) : Durable(id)',
           \A id \in TxnIds :
              \/ result'[id] = result[id]
              \/ /\ id \in Members(thread[t].batch) /\ id \notin Members(thread'[t].batch)
                 /\ result'[id] # "none"
                 /\ result'[id] = "Success" => Durable(id)'
    PROVE  FlushInv'
  <1> USE DEF IInv, FlushInv
  <1>0. \A u \in Threads : u # t => thread'[u] = thread[u]
    BY DEF Others
  <1>1. SuccessIsDurable'
    BY DEF SuccessIsDurable
  <1>2. OneFlusher'
    <2>1. ASSUME NEW u \in Threads
          PROVE  /\ Members(thread'[u].batch) \subseteq Members(thread[u].batch)
                 /\ Distinct(thread'[u].batch) /\ Distinct(thread'[u].toLog)
                 /\ Members(thread'[u].toLog) \subseteq Members(thread'[u].batch)
      <3>1. CASE u = t
        BY <3>1, MembersEmpty
      <3>2. CASE u # t
        BY <1>0, <3>2 DEF OneFlusher
      <3> QED BY <3>1, <3>2
    <2> QED BY <2>1 DEF OneFlusher
  <1>3. ASSUME NEW u \in Threads, NEW x \in Members(thread'[u].batch) PROVE result'[x] = "Pending"
    <2>1. x \in Members(thread[u].batch) /\ x \in TxnIds /\ result[x] = "Pending"
      BY <1>0, <1>3, MembersType DEF Unanswered
    <2>2. result'[x] = result[x]
      <3>1. CASE u = t
        BY <1>3, <2>1, <3>1
      <3>2. CASE u # t
        BY <2>1, <3>2 DEF OneFlusher
      <3> QED BY <3>1, <3>2
    <2> QED BY <2>1, <2>2
  <1>4. Unanswered'
    <2>1. \A x \in Members(pending') : result'[x] = "Pending" /\ x \notin Members(wal')
      BY MembersType DEF Unanswered, OneFlusher
    <2>2. \A u \in Threads : \A x \in Members(thread'[u].toLog) : x \notin Members(wal')
      <3> SUFFICES ASSUME NEW u \in Threads
                   PROVE  \A x \in Members(thread'[u].toLog) : x \notin Members(wal')
        OBVIOUS
      <3>1. CASE u = t
        BY <3>1, MembersEmpty
      <3>2. CASE u # t
        BY <1>0, <3>2 DEF Unanswered
      <3> QED BY <3>1, <3>2
    <2>3. ASSUME NEW y \in TxnIds
          PROVE  /\ result'[y] = "none" => y \notin Members(wal')
                 /\ up' /\ thread'[y].at = "idle" => result'[y] = "none"
                 /\ thread'[y].at \in {"drain", "append", "notify"} => thread'[y].return = "check"
      <3>1. result'[y] = "none" => y \notin Members(wal')
        BY DEF Unanswered
      <3>2. CASE y = t
        BY <3>1, <3>2 DEF Unanswered
      <3>3. CASE y # t
        <4>1. thread'[y] = thread[y] /\ (result[y] = "none" => result'[y] = "none")
          BY <1>0, <3>3, ThreadSets DEF Unanswered
        <4> QED BY <3>1, <4>1 DEF Unanswered
      <3> QED BY <3>2, <3>3
    <2> QED BY <1>3, <2>1, <2>2, <2>3 DEF Unanswered
  <1>5. BatchDurable'
    <2>1. ASSUME NEW u \in Threads
          PROVE  /\ thread'[u].at = "append" =>
                       Members(thread'[u].batch) \subseteq Members(thread'[u].toLog) \cup Members(wal')
                 /\ thread'[u].at = "notify" =>
                       /\ thread'[u].toLog = << >>
                       /\ thread'[u].ok => \A id \in Members(thread'[u].batch) : Durable(id)'
      <3>1. CASE u = t
        BY <3>1
      <3>2. CASE u # t
        BY <1>0, <3>2, MembersType DEF BatchDurable
      <3> QED BY <3>1, <3>2
    <2> QED BY <2>1 DEF BatchDurable
  <1> QED BY <1>1, <1>2, <1>4, <1>5

\* The fsync covers the whole log, so the whole batch.
LEMMA SyncStep == ASSUME IInv, NEW t \in Threads, SyncBatch(t) PROVE FlushInv'
  <1> USE DEF IInv, FlushInv
  <1>1. /\ thread[t] \in Locals /\ Others(t) /\ thread'[t] = [thread[t] EXCEPT !.at = "notify"]
        /\ thread[t].at = "append" /\ thread[t].toLog = << >>
        /\ wal' = wal /\ synced' = Len(wal) /\ UNCHANGED <<pending, result, up>>
    BY GotoType, LabelSet DEF SyncBatch, In, Others, TypeOK
  <1>2. /\ thread'[t].at = "notify" /\ thread'[t].batch = thread[t].batch
        /\ thread'[t].toLog = << >> /\ thread'[t].return = thread[t].return
    BY <1>1, GotoFields
  <1>3. \A id \in TxnIds : (Durable(id) => Durable(id)') /\ (id \in Members(wal) => Durable(id)')
    <2>1. synced \in 0..Len(wal) /\ Len(wal) \in Nat
      BY DEF TypeOK
    <2> QED BY <1>1, <2>1 DEF Durable, Members
  <1>4. Members(thread[t].batch) \subseteq Members(wal) /\ Members(wal) \subseteq TxnIds
    BY <1>1, MembersEmpty, MembersType DEF BatchDurable
  <1>5. Distinct(thread'[t].batch)
    BY <1>2 DEF OneFlusher
  <1> QED BY <1>1, <1>2, <1>3, <1>4, <1>5, ShrinkStep

LEMMA FailStep == ASSUME IInv, NEW t \in Threads, FlushFails(t) PROVE FlushInv'
  <1> USE DEF IInv, FlushInv
  <1>1. /\ thread[t] \in Locals /\ Others(t) /\ thread[t].at = "append"
        /\ thread'[t] = [thread[t] EXCEPT !.at = "notify", !.ok = FALSE, !.toLog = << >>]
        /\ UNCHANGED <<pending, result, wal, synced, up>>
    BY DEF FlushFails, Become, In, Others, TypeOK
  <1>2. /\ thread'[t].at = "notify" /\ thread'[t].batch = thread[t].batch /\ ~thread'[t].ok
        /\ thread'[t].toLog = << >> /\ thread'[t].return = thread[t].return
    BY <1>1 DEF Locals
  <1>3. Distinct(thread'[t].batch)
    BY <1>2 DEF OneFlusher
  <1> QED BY <1>1, <1>2, <1>3, DurableSame, ShrinkStep

LEMMA NotifyFacts ==
    ASSUME IInv, NEW t \in Threads, NotifyOne(t)
    PROVE  LET x == Head(thread[t].batch)
           IN  /\ x \in TxnIds /\ x \in Members(thread[t].batch)
               /\ thread'[t].batch = Tail(thread[t].batch) /\ Others(t)
               /\ Members(thread'[t].batch) \subseteq Members(thread[t].batch)
               /\ Distinct(thread'[t].batch) /\ x \notin Members(thread'[t].batch)
               /\ thread'[t].ok = thread[t].ok /\ thread'[t].toLog = thread[t].toLog
               /\ thread'[t].at = "notify" /\ thread[t].at = "notify"
               /\ thread'[t].return = thread[t].return
               /\ thread[t].ok => Durable(x)
               /\ result' = [result EXCEPT ![x] = IF thread[t].ok THEN "Success" ELSE "Error"]
               /\ result[x] = "Pending"
  <1> USE DEF IInv, FlushInv
  <1> DEFINE x == Head(thread[t].batch) rest == Tail(thread[t].batch)
  <1>1. thread[t] \in Locals /\ thread[t].batch \in Seq(TxnIds) /\ thread[t].batch # << >>
    BY MembersType DEF NotifyOne, TypeOK
  <1>2. /\ x \in TxnIds /\ Members(thread[t].batch) = Members(rest) \cup {x}
        /\ Distinct(rest) /\ x \notin Members(rest)
    BY <1>1, MembersTail DEF OneFlusher
  <1>3. /\ Others(t) /\ thread'[t] = [thread[t] EXCEPT !.batch = rest] /\ thread[t].at = "notify"
        /\ result' = [result EXCEPT ![x] = IF thread[t].ok THEN "Success" ELSE "Error"]
    BY <1>1 DEF NotifyOne, In, Become, Others, TypeOK
  <1> HIDE DEF x, rest
  <1>4. /\ thread'[t].batch = rest /\ thread'[t].ok = thread[t].ok
        /\ thread'[t].toLog = thread[t].toLog /\ thread'[t].at = "notify"
        /\ thread'[t].return = thread[t].return
    BY <1>1, <1>3 DEF Locals
  <1>5. (thread[t].ok => Durable(x)) /\ result[x] = "Pending"
    BY <1>2, <1>3 DEF BatchDurable, Unanswered
  <1> QED BY <1>2, <1>3, <1>4, <1>5 DEF x, rest

LEMMA NotifyStep == ASSUME IInv, NEW t \in Threads, NotifyOne(t) PROVE FlushInv'
  <1> USE DEF IInv, FlushInv
  <1> DEFINE x == Head(thread[t].batch)
  <1>1. UNCHANGED <<pending, wal, synced, up>>
    BY DEF NotifyOne
  <1>2. thread'[t].toLog = << >>
    BY NotifyFacts DEF BatchDurable
  <1>3. thread'[t].ok => \A id \in Members(thread'[t].batch) : Durable(id)'
    BY <1>1, NotifyFacts, DurableSame, MembersType DEF BatchDurable
  <1>4. \A id \in TxnIds :
           \/ result'[id] = result[id]
           \/ /\ id = x /\ result'[id] # "none"
              /\ result'[id] = "Success" => Durable(id)'
    BY <1>1, NotifyFacts, DurableSame DEF TypeOK
  <1> QED BY <1>1, <1>2, <1>3, <1>4, NotifyFacts, DurableSame, ShrinkStep

\* A crash keeps what was fsynced.
LEMMA CrashStep == ASSUME IInv, Crash PROVE FlushInv'
  <1> USE DEF IInv, FlushInv
  <1>1. PICK n \in synced..Len(wal) : wal' = SubSeq(wal, 1, n)
    BY DEF Crash
  <1>2. /\ wal \in Seq(TxnIds) /\ n \in 0..Len(wal) /\ synced \in 0..n
        /\ Len(wal') = n /\ \A i \in 1..n : wal'[i] = wal[i]
    BY <1>1 DEF TypeOK
  <1>3. \A id \in TxnIds : Durable(id) => Durable(id)'
    BY <1>2 DEF Crash, Durable
  <1>4. Members(wal') \subseteq Members(wal)
    BY <1>1, <1>2, MembersSplit
  <1>5. /\ pending' = << >> /\ ~up' /\ result' = result
        /\ \A t \in Threads : /\ thread'[t].batch = << >> /\ thread'[t].toLog = << >>
                              /\ thread'[t].at = "idle"
    BY DEF Crash, Idle
  <1>6. SuccessIsDurable'
    BY <1>3, <1>5 DEF SuccessIsDurable
  <1>7. OneFlusher'
    BY <1>5, MembersEmpty DEF OneFlusher
  <1>8. Unanswered'
    BY <1>4, <1>5, MembersEmpty, ThreadSets DEF Unanswered
  <1>9. BatchDurable'
    BY <1>5 DEF BatchDurable
  <1> QED BY <1>6, <1>7, <1>8, <1>9

-----------------------------------------------------------------------------
LEMMA InitInv == Init => IInv
  <1> SUFFICES ASSUME Init PROVE IInv
    OBVIOUS
  <1>1. TypeOK
    <2>1. thread \in [Threads -> Locals] /\ result \in [TxnIds -> Results]
      BY IdleType DEF Init, Results
    <2>2. pending \in Seq(TxnIds) /\ wal \in Seq(TxnIds) /\ synced \in 0..Len(wal)
      BY DEF Init
    <2>3. running \in BOOLEAN /\ up \in BOOLEAN /\ starts \in Nat /\ helps \in Nat
      BY DEF Init
    <2> QED BY <2>1, <2>2, <2>3 DEF TypeOK
  <1>2. /\ pending = << >> /\ wal = << >> /\ \A id \in TxnIds : result[id] = "none"
        /\ \A t \in Threads : /\ thread[t].batch = << >> /\ thread[t].toLog = << >>
                              /\ thread[t].at = "idle"
    BY DEF Init, Idle
  <1>3. SuccessIsDurable
    BY <1>2 DEF SuccessIsDurable
  <1>4. OneFlusher
    BY <1>2, MembersEmpty DEF OneFlusher
  <1>5. Unanswered
    BY <1>2, MembersEmpty, ThreadSets DEF Unanswered
  <1>6. BatchDurable
    BY <1>2 DEF BatchDurable
  <1> QED BY <1>1, <1>3, <1>4, <1>5, <1>6 DEF IInv, FlushInv

LEMMA FlushSteps == ASSUME IInv, NEW t \in Threads, FlushStep(t) PROVE FlushInv'
  <1>1. CASE DrainEmpty(t) \/ FlushReturn(t)
    BY <1>1, QuietReturn DEF DrainEmpty, FlushReturn, In
  <1> QED BY <1>1, DrainStep, AppendStep, SyncStep, FailStep, NotifyStep DEF FlushStep

LEMMA CallerSteps == ASSUME IInv, NEW id \in TxnIds, CallerStep(id) PROVE FlushInv'
  <1> USE ThreadSets, LabelSet
  <1>1. CASE FlushInline(id)
    <2>1. CASE FlushThen(id, "check")
      BY <1>1, <2>1, QuietFlushThen DEF FlushInline
    <2>2. CASE Become(id, [Idle EXCEPT !.at = "check"])
      <3>1. [Idle EXCEPT !.at = "check"] \in Locals
        BY IdleType DEF Locals
      <3>2. Others(id) /\ thread'[id] = [Idle EXCEPT !.at = "check"]
        BY <2>2, <3>1, BecomeType DEF IInv, Others
      <3>3. thread'[id].at = "check" /\ thread'[id].batch = << >> /\ thread'[id].toLog = << >>
        BY <3>2, IdleFields
      <3> QED BY <1>1, <3>2, <3>3, QuietStep DEF FlushInline
    <2> QED BY <1>1, <2>1, <2>2 DEF FlushInline
  <1>2. CASE CheckResult(id)
    BY <1>2, QuietGoto DEF CheckResult
  <1>3. CASE Wake(id)
    BY <1>3, QuietGoto DEF Wake
  <1>4. CASE TimeoutFlush(id)
    BY <1>4, QuietFlushThen DEF TimeoutFlush
  <1> QED BY <1>1, <1>2, <1>3, <1>4, FlushSteps DEF CallerStep

LEMMA OwnerSteps ==
    ASSUME IInv, NEW o \in Owners, Start(o) \/ OwnerStep(o)
    PROVE  FlushInv'
  <1> USE ThreadSets, LabelSet
  <1>0. o \notin TxnIds /\ o \in Threads
    BY GroupCommitAssumption
  <1>1. CASE Start(o)
    BY <1>0, <1>1, QuietGoto DEF Start
  <1>2. CASE LoopHead(o)
    BY <1>0, <1>2, QuietGoto DEF LoopHead
  <1>3. CASE LoopDecide(o)
    BY <1>0, <1>3, QuietGoto, QuietFlushThen DEF LoopDecide
  <1> QED BY <1>0, <1>1, <1>2, <1>3, FlushSteps DEF OwnerStep

LEMMA Inductive == IInv /\ [Next]_vars => IInv'
  <1> SUFFICES ASSUME IInv, [Next]_vars PROVE FlushInv'
    BY TypeStep DEF IInv
  <1>1. ASSUME NEW h \in Helpers, FlushGroupCommit(h) PROVE FlushInv'
    <2>1. h \notin TxnIds /\ h \in Threads
      BY GroupCommitAssumption, ThreadSets
    <2> QED BY <1>1, <2>1, QuietFlushThen, LabelSet DEF FlushGroupCommit
  <1>2. CASE Stop \/ UNCHANGED vars
    <2>1. UNCHANGED <<pending, result, thread, wal, synced, up>>
      BY <1>2 DEF Stop, vars
    <2> QED
      BY <2>1 DEF IInv, FlushInv, SuccessIsDurable, OneFlusher, Unanswered, BatchDurable, Durable
  <1> QED
    BY <1>1, <1>2, SubmitStep, CallerSteps, OwnerSteps, FlushSteps, CrashStep, ThreadSets DEF Next

-----------------------------------------------------------------------------
\* submit_and_wait returns Ok only for a commit whose record an fsync has
\* covered, however many threads flush at once.
THEOREM SuccessDurable == Spec => []SuccessIsDurable
  <1>1. IInv => SuccessIsDurable
    BY DEF IInv, FlushInv
  <1> QED BY InitInv, Inductive, <1>1, PTL DEF Spec

\* Every step is a step of CommitLog or changes nothing that it shows.
LEMMA StepSimulation == IInv /\ [Next]_vars => [Log!Next]_(Log!commitLogVars)
  <1> SUFFICES ASSUME IInv, [Next]_vars PROVE Log!Next \/ UNCHANGED <<wal, synced, result>>
    BY DEF Log!commitLogVars
  <1> USE DEF IInv, FlushInv
  <1>1. ASSUME NEW id \in TxnIds, Submit(id) PROVE Log!Submit(id)
    BY <1>1, ThreadSets DEF Submit, In, Unanswered, Log!Submit
  <1>2. ASSUME NEW t \in Threads, AppendCommit(t) PROVE \E id \in TxnIds : Log!Record(id)
    <2> DEFINE x == Head(thread[t].toLog)
    <2>1. x \in TxnIds /\ x \in Members(thread[t].toLog)
      BY <1>2, MembersType, MembersTail DEF AppendCommit
    <2>2. result[x] = "Pending" /\ x \notin Members(wal)
      BY <2>1 DEF Unanswered, OneFlusher
    <2>3. Log!Record(x)
      BY <1>2, <2>2 DEF AppendCommit, Log!Record, Log!Recorded, Members
    <2> QED BY <2>1, <2>3
  <1>3. ASSUME NEW t \in Threads, SyncBatch(t) PROVE Log!Sync
    BY <1>3 DEF SyncBatch, Log!Sync
  <1>4. ASSUME NEW t \in Threads, NotifyOne(t) PROVE \E id \in TxnIds : Log!Answer(id)
    <2> DEFINE x == Head(thread[t].batch)
    <2>1. Log!Answer(x)
      BY <1>4, NotifyFacts DEF NotifyOne, Log!Answer, Log!Durable, Durable
    <2> QED BY <1>4, <2>1, NotifyFacts
  <1>5. CASE Crash
    BY <1>5 DEF Crash, Log!Crash, Log!Next
  <1>6. ASSUME NEW t \in Threads, FlushStep(t)
        PROVE  Log!Next \/ UNCHANGED <<wal, synced, result>>
    BY <1>2, <1>3, <1>4, <1>6
       DEF FlushStep, DrainEmpty, DrainBatch, FlushFails, FlushReturn, Log!Next
  <1>7. ASSUME NEW id \in TxnIds, CallerStep(id)
        PROVE  Log!Next \/ UNCHANGED <<wal, synced, result>>
    BY <1>6, <1>7, ThreadSets DEF CallerStep, FlushInline, CheckResult, Wake, TimeoutFlush
  <1>8. ASSUME NEW o \in Owners, Start(o) \/ OwnerStep(o)
        PROVE  Log!Next \/ UNCHANGED <<wal, synced, result>>
    BY <1>6, <1>8, ThreadSets DEF OwnerStep, Start, LoopHead, LoopDecide
  <1>9. CASE Stop \/ UNCHANGED vars
    BY <1>9 DEF Stop, vars
  <1> QED
    BY <1>1, <1>5, <1>6, <1>7, <1>8, <1>9, ThreadSets DEF Next, FlushGroupCommit, Log!Next

\* The group commit buffer implements the log durable_storage.rs relies on:
\* one record and one answer per transaction, and Ok only for durable ones.
THEOREM Refinement == Spec => ImplementsCommitLog
  <1>1. Init => Log!Init
    BY DEF Init, Log!Init
  <1> QED
    BY <1>1, InitInv, Inductive, StepSimulation, PTL DEF Spec, ImplementsCommitLog, Log!Spec
=============================================================================
