---------------------------- MODULE VersionChain ----------------------------
(***************************************************************************)
(* The per-key version chain of the memtable: BinarySearchChain of         *)
(* sochdb-core (version_chain.rs) under the VersionChain wrapper of        *)
(* durable_storage.rs.                                                     *)
(*                                                                         *)
(* A version is [value, txn, ts].  The code keeps the committed versions   *)
(* in a vector sorted by descending commit_ts and finds them by binary     *)
(* search; commit timestamps are unique, so the vector is modelled as a    *)
(* set and "the first element below the snapshot" as the maximum of the    *)
(* elements below it.  The uncommitted slot holds at most one version      *)
(* (Option<Version>): it is a set that is empty or a singleton.            *)
(***************************************************************************)
EXTENDS Naturals

Chains(Value, Txn) ==
    LET Version == [value : Value, txn : Txn, ts : Nat]
    IN  [committed : SUBSET Version, uncommitted : SUBSET Version]

EmptyChain == [committed |-> {}, uncommitted |-> {}]

OwnsSlot(chain, txn) == \E v \in chain.uncommitted : v.txn = txn

HasWriteConflict(chain, txn) == \E v \in chain.uncommitted : v.txn # txn

\* Mutant: a second write of the same transaction does not replace the first.
AddUncommittedOnce(chain, value, txn) ==
    IF OwnsSlot(chain, txn) THEN chain
    ELSE [chain EXCEPT !.uncommitted = {[value |-> value, txn |-> txn, ts |-> 0]}]

\* Both arms of add_uncommitted leave the slot with the new value: an own
\* version is overwritten in place, anything else is replaced.
AddUncommitted(chain, value, txn) ==
    [chain EXCEPT !.uncommitted = {[value |-> value, txn |-> txn, ts |-> 0]}]

CommitVersion(chain, txn, commitTs) ==
    IF OwnsSlot(chain, txn)
    THEN [committed   |-> chain.committed \cup
                             {[v EXCEPT !.ts = commitTs] : v \in chain.uncommitted},
          uncommitted |-> {}]
    ELSE chain

AbortVersion(chain, txn) ==
    [chain EXCEPT !.uncommitted = {v \in @ : v.txn # txn}]

Newest(versions) == {v \in versions : \A w \in versions : w.ts <= v.ts}

Below(versions, bound) == {v \in versions : v.ts < bound}

\* What a snapshot sees of the committed versions: visibility is strict
\* (commit_ts < snapshot_ts).  The result has no element or one.
Visible(chain, snapshotTs) == Newest(Below(chain.committed, snapshotTs))

\* read_at: the reader's own uncommitted version wins over its snapshot.
ReadAt(chain, snapshotTs, txn) ==
    IF OwnsSlot(chain, txn) THEN chain.uncommitted ELSE Visible(chain, snapshotTs)

\* Mutant: no anchor is kept below the watermark.
GcWithoutAnchor(chain, minActiveTs) ==
    [chain EXCEPT !.committed = {v \in @ : v.ts >= minActiveTs}]

\* Mutant: the boundary of the module comment at durable_storage.rs:95-97,
\* which keeps "commit_ts > min_active_ts" and an anchor at or below it.
GcInclusive(chain, minActiveTs) ==
    [chain EXCEPT !.committed = {v \in @ : v.ts > minActiveTs}
                                   \cup Newest(Below(@, minActiveTs + 1))]

\* gc_by_ts keeps everything at or above the watermark, and one anchor: the
\* newest version strictly below it.  (The early return for chains of one
\* version is this formula too: that version is kept by one of the terms.)
GcByTs(chain, minActiveTs) ==
    [chain EXCEPT !.committed = {v \in @ : v.ts >= minActiveTs}
                                   \cup Newest(Below(@, minActiveTs))]
=============================================================================
