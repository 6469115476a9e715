---------------------------- MODULE MCRefinement -----------------------------
(***************************************************************************)
(* DurableStorage, called by one thread, implements SnapshotStore.  The    *)
(* mapping reads past states off the history of MCDurability and the       *)
(* current one off the memtable.                                           *)
(***************************************************************************)
EXTENDS MCDurability

\* The value of the only element.
ValueOf(versions) ==
    IF versions = {} THEN NoWrite ELSE (CHOOSE v \in versions : TRUE).value

\* What a client that reads it gets: a tombstone is no value, the empty value
\* is one.
Present(value) == IF value = Tombstone THEN NoWrite ELSE value

\* The transactions whose commit record is logged and not all published.
Publishing == {thread[t].id : t \in {u \in Threads : thread[u].at \in {"sync", "publish"}}}

\* What a transaction that began now would read when the commit in progress
\* has finished.
MemoryState ==
    [k \in Keys |-> IF \E id \in Publishing : OwnsSlot(chains[k], id)
                    THEN Present(ValueOf(chains[k].uncommitted))
                    ELSE Present(ValueOf(Newest(chains[k].committed)))]

\* The state after the first n commits of the history.
CommittedState(n) == [k \in Keys |-> Present(ValueAfter(n, k))]

DurableCommits == Cardinality({i \in 1..synced : wal[i].type = "Commit"})

MappedStates ==
    LET durable == DurableCommits
        last    == (IF status = "open" THEN Len(history) ELSE Surviving) - durable + 1
    IN  [i \in 1..last |->
            IF status = "open" /\ i = last THEN MemoryState
            ELSE CommittedState(durable + i - 1)]

MappedSnaps ==
    [id \in TxnIds |->
        IF txn[id] = NoTransaction THEN << >>
        ELSE << [k \in Keys |-> Present(ValueOf(Visible(chains[k], txn[id].snapshot)))] >>]

\* The slots of a transaction that was refused or whose record is logged are
\* not pending writes.
MappedPending ==
    [id \in TxnIds |->
        [k \in Keys |-> IF /\ OwnsSlot(chains[k], id) /\ handles[id] \in {"open", "failed"}
                           /\ id \notin Publishing
                        THEN ValueOf(chains[k].uncommitted) ELSE NoWrite]]

Store == INSTANCE SnapshotStore
            WITH Values <- WalValues, Deleted <- Tombstone, states <- MappedStates,
                 snaps <- MappedSnaps, pending <- MappedPending

\* Seen from outside, the engine is the simple store: commits are atomic,
\* snapshots fixed, refused and aborted transactions leave nothing, a crash at
\* any step of a call or of recovery falls back to a state after a commit, at
\* least the last one that was fsynced.  It holds as long as nothing is
\* deleted: recover() writes Some(_) for every key it finds in the log
\* (durable_storage.rs:2973), so a deleted key is back after a restart, with
\* the empty value.
ImplementsSnapshotStore == Store!Spec
=============================================================================
