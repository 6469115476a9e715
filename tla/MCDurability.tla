---------------------------- MODULE MCDurability ----------------------------
(***************************************************************************)
(* DurableStorage with the history durability is defined on: the writes of *)
(* every transaction in the order of their commit records, and which of    *)
(* them the client was told had committed.  The history variable is        *)
(* computed from the steps of DurableStorage and constrains none of them.  *)
(***************************************************************************)
EXTENDS MCStorage, FiniteSetsExt

VARIABLE history  \* sequence of [id, writes, acked]

durabilityVars == <<vars, history>>

\* What the transaction publishes: the versions whose slots it holds.
WritesOf(id) ==
    [k \in Keys |-> IF OwnsSlot(chains[k], id)
                    THEN (CHOOSE v \in chains[k].uncommitted : TRUE).value
                    ELSE NoWrite]

Logging  == {t \in Threads : thread[t].at = "commitRecord" /\ thread'[t].at = "sync"}
Acking   == {t \in Threads : thread[t].at = "publish" /\ thread'[t].at = "idle"
                             /\ status' = "open"}
Recovered == status = "recovering" /\ status' = "open"

\* The commit records recovery reads, one per entry of the history it keeps.
Surviving == Cardinality({i \in ReadableRecords : wal[i].type = "Commit"})

Acked(h, ids) ==
    [i \in DOMAIN h |->
        IF h[i].id \in ids /\ \A j \in i+1 .. Len(h) : h[j].id # h[i].id
        THEN [h[i] EXCEPT !.acked = TRUE] ELSE h[i]]

DurabilityInit == Init /\ history = << >>

DurabilityNext ==
    /\ Next
    /\ history' =
         CASE Logging # {} ->
                Append(history, LET id == thread[CHOOSE t \in Logging : TRUE].id
                                IN  [id |-> id, writes |-> WritesOf(id), acked |-> FALSE])
           [] Acking # {} -> Acked(history, {thread[t].id : t \in Acking})
           [] Recovered   -> SubSeq(history, 1, Surviving)
           [] OTHER       -> history

DurabilitySpec == DurabilityInit /\ [][DurabilityNext]_durabilityVars

-----------------------------------------------------------------------------
\* The last write of the key in the first n transactions of the history.
ValueAfter(n, key) ==
    LET writers == {i \in 1..n : history[i].writes[key] # NoWrite}
    IN  IF writers = {} THEN NoWrite ELSE history[Max(writers)].writes[key]

\* What the memtable holds after the step, to a client that reads it.
Restored(key) ==
    IF chains'[key].committed = {} THEN NoWrite
    ELSE (CHOOSE v \in chains'[key].committed : TRUE).value

\* Recovery rebuilds the state after a prefix of the committed transactions,
\* all of each or nothing of it, with no trace of transactions that were
\* refused, aborted or cut off by the crash.  A deleted key comes back as the
\* empty value, which is what delete() logged.
RecoveryRestoresCommittedPrefix ==
    [][Recovered => \A key \in Keys :
          Restored(key) = WalValue(ValueAfter(Surviving, key))]_durabilityVars

\* A transaction whose commit() returned Ok with sync mode FULL or group
\* commit is in the prefix that recovery restores: "guaranteed to survive
\* process crash, OS crash, and power failure" (txn_wal.rs:1151).
AckedCommitsSurvive ==
    [][Recovered => \A i \in DOMAIN history : history[i].acked => i <= Surviving]_durabilityVars
=============================================================================
