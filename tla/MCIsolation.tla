----------------------------- MODULE MCIsolation ----------------------------
(***************************************************************************)
(* DurableStorage with the history an isolation level is defined on: which *)
(* keys each transaction read from its snapshot, and what committed.  The  *)
(* history variables are computed from the steps of DurableStorage and     *)
(* constrain none of them.                                                 *)
(***************************************************************************)
EXTENDS MCStorage, Relation

VARIABLES
    observed,  \* keys each active transaction read from its snapshot
    history    \* the transactions that were given a commit timestamp since
               \* the database was opened

isolationVars == <<vars, observed, history>>

\* Keys whose first read was not of the transaction's own write.
NewlyObserved(id) ==
    {k \in txn'[id].reads \ txn[id].reads : ~OwnsSlot(chains[k], id)}

\* The transactions that leave active_txns with a commit timestamp.
NewlyCommitted ==
    {[id |-> thread[t].id, ts |-> thread[t].ts, snapshot |-> txn[thread[t].id].snapshot,
      reads |-> observed[thread[t].id], writes |-> txn[thread[t].id].writes,
      tracked |-> txn[thread[t].id]] :
        t \in {u \in Threads : thread[u].at = "track" /\ thread'[u].at = "minScan"}}

IsolationInit ==
    /\ Init
    /\ observed = [id \in TxnIds |-> {}]
    /\ history = {}

IsolationNext ==
    /\ Next
    /\ observed' = [id \in TxnIds |-> IF handles'[id] = "free" THEN {}
                                      ELSE observed[id] \cup NewlyObserved(id)]
    /\ history' = IF status' = "down" THEN {} ELSE history \cup NewlyCommitted

IsolationSpec == IsolationInit /\ [][IsolationNext]_isolationVars

-----------------------------------------------------------------------------
(* Dependencies between committed transactions (one thread: a transaction  *)
(* sees exactly the commits with a timestamp below its snapshot).          *)

WriteWrite(a, b) == a.writes \cap b.writes # {} /\ a.ts < b.ts
WriteRead(a, b)  == a.writes \cap b.reads # {} /\ a.ts < b.snapshot
ReadWrite(a, b)  == a.reads \cap b.writes # {} /\ b.ts >= a.snapshot

DependsOn == [p \in history \X history |->
                 p[1] # p[2] /\ (WriteWrite(p[1], p[2]) \/ WriteRead(p[1], p[2])
                                                        \/ ReadWrite(p[1], p[2]))]

\* The committed transactions have an equivalent serial order: their
\* dependency graph has no cycle.  The isolation contract says that
\* validate_ssi "never admits a non-serializable one" (durable_storage.rs:82).
Serializable == IsIrreflexive(TransitiveClosure(DependsOn, history), history)

\* Two concurrent ReadWrite transactions that each read a key the other wrote
\* never both commit (write skew, lost update), unless the later one is
\* excused by the single-key fast path of validate_ssi.  Pruning the window of
\* recent commits must not lose a commit some active transaction needs.
FullValidationStopsWriteSkew ==
    \A a, b \in history :
        /\ a.ts < b.ts
        /\ a.tracked.mode = "ReadWrite" /\ b.tracked.mode = "ReadWrite"
        /\ ReadWrite(a, b) /\ ReadWrite(b, a)
        => SingleKey(b.tracked)

\* Between calls, a new snapshot sees of every key exactly the write of the
\* last transaction that committed one, whatever was refused, aborted or
\* garbage-collected meanwhile.
LastCommitIsVisible ==
    (\A t \in Threads : thread[t].at = "idle") =>
        \A key \in Keys :
            LET writers == {h \in history : key \in h.writes}
                seen    == Visible(chains[key], tsCounter)
            IN  /\ writers = {} => \A v \in seen : v.ts = 1
                /\ writers # {} => \E v \in seen, h \in writers :
                      /\ v.txn = h.id /\ v.ts = h.ts
                      /\ \A g \in writers : g.ts <= h.ts
=============================================================================
