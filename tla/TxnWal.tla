------------------------------- MODULE TxnWal -------------------------------
(***************************************************************************)
(* The write-ahead log of txn_wal.rs: an append-only file of records that  *)
(* one mutex serialises, buffered in user space until sync().              *)
(*                                                                         *)
(* wal is everything handed to the writer since the file was created;      *)
(* wal[1..synced] is what an fsync has covered.  How much of the rest      *)
(* reached the disk is unknown until a crash chooses it: an append is      *)
(* buffered, spilled by BufWriter or written back by the kernel at any     *)
(* time, always in order.                                                  *)
(***************************************************************************)
EXTENDS StorageTypes, Sequences

VARIABLES
    wal,        \* sequence of records
    synced,     \* length of the prefix covered by an fsync
    nextTxnId,  \* next_txn_id (lower 32 bits; the upper ones are the PID)
    replay      \* the local state of replay_for_recovery's loop

walVars == <<wal, synced, nextTxnId, replay>>

ControlRecords == [type : {"Begin", "Commit", "Abort"}, txn : TxnIds]
DataRecords    == [type : {"Data"}, txn : TxnIds, key : Keys, value : WalValues]
OtherRecords   == [type : {"Checkpoint", "Torn"}]
Records        == ControlRecords \cup DataRecords \cup OtherRecords

TxnBegin(id)  == [type |-> "Begin", txn |-> id]
TxnCommit(id) == [type |-> "Commit", txn |-> id]
TxnAbort(id)  == [type |-> "Abort", txn |-> id]
Data(id, key, value) ==
    [type |-> "Data", txn |-> id, key |-> key, value |-> WalValue(value)]
CheckpointRecord == [type |-> "Checkpoint"]
TornRecord       == [type |-> "Torn"]

-----------------------------------------------------------------------------
(* Reading.  Every reader of a plaintext WAL stops at the first record it  *)
(* cannot parse (CRC or framing error) or that is cut short (EOF).         *)

Readable(i) == \A j \in 1..i : wal[j].type # "Torn"

ReadableRecords == {i \in 1..Len(wal) : Readable(i)}

IdsSeen ==
    {wal[i].txn : i \in {j \in ReadableRecords : wal[j].type \notin {"Checkpoint", "Torn"}}}

NothingPending == [id \in TxnIds |-> [k \in Keys |-> NoWrite]]

ReplayStart == [pos |-> 0, pending |-> NothingPending,
                result |-> [k \in Keys |-> NoWrite]]

\* Mutant: the write replayed first wins.
KeepFirst(old, new) == [k \in Keys |-> IF old[k] = NoWrite THEN new[k] ELSE old[k]]

\* Later writes win: the memtable's uncommitted slot is overwritten in place.
Overwrite(old, new) == [k \in Keys |-> IF new[k] = NoWrite THEN old[k] ELSE new[k]]

\* Mutant: a data record is applied without waiting for its commit record.
ReplayUncommitted(r, record) ==
    [pos     |-> r.pos + 1,
     pending |-> r.pending,
     result  |-> IF record.type = "Data"
                 THEN [r.result EXCEPT ![record.key] = record.value] ELSE r.result]

\* One iteration of the replay loop.  pending maps a transaction to its
\* writes so far; an absent entry and an empty one give the same result.
ReplayOne(r, record) ==
    [pos     |-> r.pos + 1,
     pending |-> CASE record.type \in {"Begin", "Commit", "Abort"} ->
                        [r.pending EXCEPT ![record.txn] = [k \in Keys |-> NoWrite]]
                   [] record.type = "Data" ->
                        [r.pending EXCEPT ![record.txn][record.key] = record.value]
                   [] OTHER -> r.pending,
     result  |-> IF record.type = "Commit"
                 THEN Overwrite(r.result, r.pending[record.txn]) ELSE r.result]

-----------------------------------------------------------------------------
(* Writing.  Action fragments: each says what becomes of wal and synced.   *)

Append1(record) == wal' = Append(wal, record) /\ UNCHANGED synced

\* append_no_flush or append, then sync(), which flushes the BufWriter and
\* fsyncs: everything appended so far is durable.
AppendSync(record) == wal' = Append(wal, record) /\ synced' = Len(wal) + 1

AllocTxnId(id) == id = nextTxnId /\ nextTxnId' = nextTxnId + 1

-----------------------------------------------------------------------------
(* Crash and open.                                                         *)

\* A crash keeps a prefix that includes what was fsynced; the next record
\* may be left partly written (mayTear).  O_APPEND puts later records behind it: new()
\* does not truncate the file to the readable prefix.
LoseTail(mayTear) ==
    \E n \in synced..Len(wal) :
        \/ wal' = SubSeq(wal, 1, n)
        \/ /\ mayTear /\ n < Len(wal)
           /\ wal' = Append(SubSeq(wal, 1, n), TornRecord)

\* recover_state: continue after the largest id seen in the readable prefix.
\* (Reopening under the same PID, as in a container; another PID gives ids
\* disjoint from every id in the file.)
RecoverState ==
    \E n \in IdsSeen \cup {0} :
        /\ \A id \in IdsSeen : id <= n
        /\ nextTxnId' = n + 1

-----------------------------------------------------------------------------
(* What the log says, independently of the loop that replays it: the data  *)
(* record at i takes effect through the commit record at j when j is the   *)
(* first control record of its transaction behind it.  Of the effective    *)
(* records of a key, the last one of the transaction that committed last   *)
(* is the key's value.                                                     *)

TakesEffect(log, i, j) ==
    /\ log[i].type = "Data" /\ log[j] = TxnCommit(log[i].txn)
    /\ i < j
    /\ \A m \in (i + 1)..(j - 1) : log[m].type \in {"Begin", "Commit", "Abort"} =>
                                 log[m].txn # log[i].txn

Effects(log, key) ==
    {e \in (1..Len(log)) \X (1..Len(log)) :
        TakesEffect(log, e[1], e[2]) /\ log[e[1]].key = key}

LoggedValue(log, key) ==
    LET effects == Effects(log, key)
        last == CHOOSE e \in effects :
                   \A f \in effects : f[2] < e[2] \/ (f[2] = e[2] /\ f[1] <= e[1])
    IN  IF effects = {} THEN NoWrite ELSE log[last[1]].value

WalTypeOK ==
    /\ wal \in Seq(Records)
    /\ synced \in 0..Len(wal)
    /\ nextTxnId \in Nat
    /\ replay \in [pos : Nat,
                   pending : [TxnIds -> [Keys -> WalValues \cup {NoWrite}]],
                   result : [Keys -> WalValues \cup {NoWrite}]]
=============================================================================
