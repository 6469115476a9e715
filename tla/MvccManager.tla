---------------------------- MODULE MvccManager -----------------------------
(***************************************************************************)
(* MvccManager of durable_storage.rs: timestamps, the table of active      *)
(* transactions, the window of recent commits and SSI validation.          *)
(*                                                                         *)
(* Each operator below is the effect of one atomic access (a DashMap       *)
(* operation or an atomic load/store).  DurableStorage sequences them: the *)
(* methods of the code are not atomic.                                     *)
(***************************************************************************)
EXTENDS StorageTypes, FiniteSets

CONSTANTS
    ReadSetCap,       \* reads tracked per transaction (10000 in the code)
    MaxRecentCommits  \* max_recent_commits (1000 in the code)

ASSUME MvccAssumption == ReadSetCap \in Nat /\ MaxRecentCommits \in Nat

VARIABLES
    tsCounter,     \* ts_counter
    minActiveTs,   \* min_active_ts, the GC watermark
    activeTxns,    \* ids present in active_txns
    txn,           \* the MvccTransaction of each id in use
    recentCommits  \* recent_commits

mvccVars == <<tsCounter, minActiveTs, activeTxns, txn, recentCommits>>

Modes == {"ReadOnly", "WriteOnly", "ReadWrite"}

Transactions == [mode : Modes, snapshot : Nat, reads : SUBSET Keys, writes : SUBSET Keys]

NewTransaction(mode, snapshot) ==
    [mode |-> mode, snapshot |-> snapshot, reads |-> {}, writes |-> {}]

NoTransaction == NewTransaction("ReadOnly", 0)

CommitEntries == [txn : TxnIds, ts : Nat, reads : SUBSET Keys, writes : SUBSET Keys]

-----------------------------------------------------------------------------
RecordRead(t, key) ==
    IF t.mode = "ReadWrite" /\ Cardinality(t.reads) < ReadSetCap
    THEN [t EXCEPT !.reads = @ \cup {key}]
    ELSE t

RecordWrite(t, key) == [t EXCEPT !.writes = @ \cup {key}]

\* Mutant: the window skips a commit at exactly the snapshot timestamp.
ConcurrentStrictly(t, commits) == {c \in commits : c.ts > t.snapshot}

\* The commits whose writes the transaction's snapshot does not see.
ConcurrentWith(t, commits) == {c \in commits : c.ts >= t.snapshot}

\* Fast path 3 of validate_ssi.
SingleKey(t) == Cardinality(t.writes) = 1 /\ Cardinality(t.reads) <= 1

\* validate_ssi.  Its Bloom filters have no false negatives, so its fourth
\* fast path only returns true when the full check below would.
ValidateSsi(t, commits) ==
    \/ t.writes = {}
    \/ commits = {}
    \/ SingleKey(t)
    \/ LET concurrent  == ConcurrentWith(t, commits)
           inConflict  == \E c \in concurrent : c.writes \cap t.reads # {}
           outConflict == \E c \in concurrent : c.reads \cap t.writes # {}
       IN  ~(inConflict /\ outConflict)

\* The branch taken by commit(): only ReadWrite transactions are validated.
MayCommit(t) == t.mode # "ReadWrite" \/ ValidateSsi(t, recentCommits)

\* track_commit_owned, with its lazy pruning by the GC watermark.
TrackCommit(id, t, commitTs) ==
    LET entry   == [txn |-> id, ts |-> commitTs, reads |-> t.reads, writes |-> t.writes]
        tracked == {c \in recentCommits : c.txn # id} \cup {entry}
    IN  IF t.mode # "ReadWrite" \/ t.reads = {} \/ t.writes = {}
        THEN recentCommits
        ELSE IF Cardinality(tracked) > 2 * MaxRecentCommits
             THEN {c \in tracked : c.ts >= minActiveTs}
             ELSE tracked

\* Mutant: the watermark is the counter even when transactions are active.
CounterAsWatermark == {tsCounter}

\* What update_min_active_ts computes before it stores: the smallest active
\* snapshot, or the counter when there is none (a singleton).
LowestSnapshot ==
    LET snapshots == {txn[id].snapshot : id \in activeTxns}
    IN  IF activeTxns = {} THEN {tsCounter}
        ELSE {s \in snapshots : \A r \in snapshots : s <= r}

MvccInit ==
    /\ tsCounter = 1
    /\ minActiveTs = 0
    /\ activeTxns = {}
    /\ txn = [id \in TxnIds |-> NoTransaction]
    /\ recentCommits = {}

\* A fresh MvccManager, as made by every open.
MvccReset ==
    /\ tsCounter' = 1
    /\ minActiveTs' = 0
    /\ activeTxns' = {}
    /\ txn' = [id \in TxnIds |-> NoTransaction]
    /\ recentCommits' = {}

MvccTypeOK ==
    /\ tsCounter \in Nat
    /\ minActiveTs \in Nat
    /\ activeTxns \subseteq TxnIds
    /\ txn \in [TxnIds -> Transactions]
    /\ recentCommits \subseteq CommitEntries
=============================================================================
