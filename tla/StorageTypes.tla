---------------------------- MODULE StorageTypes ----------------------------
(***************************************************************************)
(* Constants and value sets shared by the modules of the storage engine.   *)
(***************************************************************************)
EXTENDS Integers

CONSTANTS
    Keys,        \* user keys
    Values,      \* byte strings a client may store
    EmptyValue,  \* the empty byte string, which may be one of them
    Tombstone,   \* the memtable's None: the key is deleted
    NoWrite,     \* "no write seen": not a value of the program
    MaxTxnId     \* bound: transaction ids 1..MaxTxnId are given to clients

ASSUME ValuesAssumption ==
    /\ Tombstone \notin Values \cup {EmptyValue}
    /\ NoWrite \notin Values \cup {EmptyValue, Tombstone}

ASSUME MaxTxnIdAssumption == MaxTxnId \in Nat

TxnIds == 1..MaxTxnId

\* What a client can store in the memtable, and what a WAL record can hold:
\* the WAL has no tombstone, only byte strings.
StoredValues == Values \cup {EmptyValue, Tombstone}
WalValues    == Values \cup {EmptyValue}

\* delete() logs a tombstone as the empty value.
WalValue(value) == IF value = Tombstone THEN EmptyValue ELSE value
=============================================================================
