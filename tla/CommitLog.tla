------------------------------ MODULE CommitLog ------------------------------
(***************************************************************************)
(* What durable_storage.rs relies on when it makes a validated commit      *)
(* durable, whichever way it does so (its own append and fsync, or the     *)
(* group commit buffer): one commit record per transaction, and a caller   *)
(* is told "Success" only when an fsync has covered its record.  "Error"   *)
(* promises nothing: the record may be durable all the same.               *)
(***************************************************************************)
EXTENDS Naturals, Sequences

CONSTANT TxnIds

VARIABLES
    log,     \* the commit records, as the ids they are for
    synced,  \* length of the prefix an fsync has covered
    answer   \* what the caller of each transaction has been told

commitLogVars == <<log, synced, answer>>

Answers == {"none", "Pending", "Success", "Error"}

Recorded(id) == \E i \in 1..Len(log) : log[i] = id
Durable(id)  == \E i \in 1..synced : log[i] = id

Init == log = << >> /\ synced = 0 /\ answer = [id \in TxnIds |-> "none"]

Submit(id) ==
    /\ answer[id] = "none"
    /\ answer' = [answer EXCEPT ![id] = "Pending"]
    /\ UNCHANGED <<log, synced>>

Record(id) ==
    /\ answer[id] = "Pending" /\ ~Recorded(id)
    /\ log' = Append(log, id)
    /\ UNCHANGED <<synced, answer>>

Sync == synced' = Len(log) /\ UNCHANGED <<log, answer>>

Answer(id) ==
    /\ answer[id] = "Pending"
    /\ \/ Durable(id) /\ answer' = [answer EXCEPT ![id] = "Success"]
       \/ answer' = [answer EXCEPT ![id] = "Error"]
    /\ UNCHANGED <<log, synced>>

\* A crash may lose any part of what no fsync has covered.
Crash ==
    /\ \E n \in synced..Len(log) : log' = SubSeq(log, 1, n)
    /\ UNCHANGED <<synced, answer>>

Next == (\E id \in TxnIds : Submit(id) \/ Record(id) \/ Answer(id)) \/ Sync \/ Crash

Spec == Init /\ [][Next]_commitLogVars
=============================================================================
