---------------------------- MODULE SnapshotStore ----------------------------
(***************************************************************************)
(* What the storage engine promises its clients, without WAL, timestamps,  *)
(* version chains or recovery: a sequence of store states, one per commit  *)
(* since the last one known to be on disk.  A transaction reads the state  *)
(* that was current when it began, its writes take effect in one step, and *)
(* a crash falls back to one of the states, never to a mixture.            *)
(*                                                                         *)
(* A key that was deleted is absent, like one that was never written, and  *)
(* not a key with an empty value.                                          *)
(***************************************************************************)
EXTENDS Sequences, Naturals

CONSTANTS
    Keys, Values, TxnIds,
    Deleted,  \* a pending deletion
    NoWrite   \* in a state: no such key; pending: nothing written

VARIABLES
    states,   \* oldest: surely durable; last: current
    snaps,    \* the state each running transaction reads
    pending   \* the writes of each transaction that has not committed

storeVars == <<states, snaps, pending>>

States  == [Keys -> Values \cup {NoWrite}]
Nothing == [k \in Keys |-> NoWrite]

Current == states[Len(states)]

Apply(state, writes) ==
    [k \in Keys |-> CASE writes[k] = NoWrite -> state[k]
                      [] writes[k] = Deleted -> NoWrite
                      [] OTHER -> writes[k]]

Init ==
    /\ states = << Nothing >>
    /\ snaps = [id \in TxnIds |-> << >>]
    /\ pending = [id \in TxnIds |-> Nothing]

Begin(id) ==
    /\ snaps[id] = << >> /\ snaps' = [snaps EXCEPT ![id] = << Current >>]
    /\ UNCHANGED <<states, pending>>

Write(id) ==
    /\ snaps[id] # << >>
    /\ \E key \in Keys, value \in Values \cup {Deleted} :
          pending' = [pending EXCEPT ![id][key] = value]
    /\ UNCHANGED <<states, snaps>>

\* The transaction reads no more; its writes are final.
Freeze(id) ==
    /\ snaps[id] # << >> /\ snaps' = [snaps EXCEPT ![id] = << >>]
    /\ UNCHANGED <<states, pending>>

Commit(id) ==
    /\ snaps[id] = << >>
    /\ states' = Append(states, Apply(Current, pending[id]))
    /\ pending' = [pending EXCEPT ![id] = Nothing]
    /\ UNCHANGED snaps

\* Aborted by the client, or refused: no trace.
End(id) ==
    /\ snaps[id] # << >> /\ snaps' = [snaps EXCEPT ![id] = << >>]
    /\ pending' = [pending EXCEPT ![id] = Nothing]
    /\ UNCHANGED states

Sync == states' = << Current >> /\ UNCHANGED <<snaps, pending>>

Forget == snaps' = [id \in TxnIds |-> << >>] /\ pending' = [id \in TxnIds |-> Nothing]

Crash == (\E n \in 1..Len(states) : states' = SubSeq(states, 1, n)) /\ Forget

Shutdown == states' = << Current >> /\ Forget

Next ==
    \/ Sync \/ Shutdown \/ Crash
    \/ \E id \in TxnIds : Begin(id) \/ Write(id) \/ Freeze(id) \/ Commit(id) \/ End(id)

Spec == Init /\ [][Next]_storeVars
=============================================================================
