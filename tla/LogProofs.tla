------------------------------ MODULE LogProofs ------------------------------
(***************************************************************************)
(* What the log says and what recovery makes of it.  The replay loop       *)
(* computes LoggedValue, for logs of any length and however the records of *)
(* concurrent transactions interleave in them; the memtable agrees with    *)
(* the log; recovery restores a prefix of the committed transactions, and  *)
(* the acknowledged ones are in it.                                        *)
(***************************************************************************)
EXTENDS SlotProofs, MCDurability, FiniteSetTheorems

-----------------------------------------------------------------------------
(* The value of a key in the first n records of a log, as a relation.      *)

\* The data record at i is a write of the key that takes effect at j.
Effective(log, n, key, i, j) ==
    i \in 1..n /\ j \in 1..n /\ TakesEffect(log, i, j) /\ log[i].key = key

\* x is the value of the last write of the key to take effect.
Logged(log, n, key, x) ==
    \/ x = NoWrite /\ \A i, j \in 1..n : ~Effective(log, n, key, i, j)
    \/ \E i, j \in 1..n :
          /\ Effective(log, n, key, i, j) /\ x = log[i].value
          /\ \A f, g \in 1..n : Effective(log, n, key, f, g) => g < j \/ (g = j /\ f <= i)

Control == {"Begin", "Commit", "Abort"}

\* The data record at i is a write of the key by a transaction that has not
\* begun anew or ended since.
Waiting(log, n, id, key, i) ==
    /\ i \in 1..n
    /\ log[i].type = "Data" /\ log[i].txn = id /\ log[i].key = key
    /\ \A m \in (i + 1)..n : log[m].type \in Control => log[m].txn # id

\* x is the value of the last such write.
Pending(log, n, id, key, x) ==
    \/ x = NoWrite /\ \A i \in 1..n : ~Waiting(log, n, id, key, i)
    \/ \E i \in 1..n : /\ Waiting(log, n, id, key, i) /\ x = log[i].value
                       /\ \A f \in 1..n : Waiting(log, n, id, key, f) => f <= i

\* LoggedValue is the value so characterised.
LEMMA LoggedUnique ==
  ASSUME NEW log \in Seq(Records), NEW key, NEW x, Logged(log, Len(log), key, x)
  PROVE  LoggedValue(log, key) = x
<1> DEFINE n == Len(log)
           effects == Effects(log, key)
           Last(e) == \A f \in effects : f[2] < e[2] \/ (f[2] = e[2] /\ f[1] <= e[1])
<1>0. n \in Nat
  OBVIOUS
<1>1. \A e \in effects : e[1] \in 1..n /\ e[2] \in 1..n /\ Effective(log, n, key, e[1], e[2])
  BY DEF Effects, Effective
<1>2. \A i, j \in 1..n : Effective(log, n, key, i, j) => <<i, j>> \in effects
  BY DEF Effects, Effective
<1>3. CASE x = NoWrite /\ \A i, j \in 1..n : ~Effective(log, n, key, i, j)
  <2>1. effects = {}
    BY <1>1, <1>3
  <2>2. QED BY <1>3, <2>1 DEF LoggedValue
<1>4. ASSUME NEW i \in 1..n, NEW j \in 1..n, Effective(log, n, key, i, j), x = log[i].value,
             \A f, g \in 1..n : Effective(log, n, key, f, g) => g < j \/ (g = j /\ f <= i)
      PROVE  LoggedValue(log, key) = x
  <2>1. <<i, j>> \in effects
    BY <1>2, <1>4
  <2>2. Last(<<i, j>>)
    BY <1>1, <1>4
  <2>3. \A e \in effects : Last(e) => e[1] = i
    <3>1. ASSUME NEW e \in effects, Last(e) PROVE e[1] = i
      <4>1. e[1] \in Nat /\ e[2] \in Nat /\ i \in Nat /\ j \in Nat
        BY <1>0, <1>1
      <4>2. j < e[2] \/ (j = e[2] /\ i <= e[1])
        BY <2>1, <3>1
      <4>3. e[2] < j \/ (e[2] = j /\ e[1] <= i)
        BY <2>2
      <4>4. QED BY <4>1, <4>2, <4>3
    <3>2. QED BY <3>1
  <2>4. PICK last : last = CHOOSE e \in effects : Last(e)
    OBVIOUS
  <2>5. last \in effects /\ Last(last)
    BY <2>1, <2>2, <2>4, Zenon
  <2>6. last[1] = i
    BY <2>3, <2>5
  <2>7. LoggedValue(log, key) = log[last[1]].value
    BY <2>1, <2>4 DEF LoggedValue
  <2>8. QED BY <1>4, <2>6, <2>7
<1> QED BY <1>3, <1>4 DEF Logged

\* Only the first n records matter.
LEMMA SamePrefix ==
  ASSUME NEW n \in Nat, NEW log, NEW new, \A i \in 1..n : new[i] = log[i]
  PROVE  /\ \A key, x : Logged(log, n, key, x) => Logged(new, n, key, x)
         /\ \A id, key, x : Pending(log, n, id, key, x) => Pending(new, n, id, key, x)
<1>1. \A i, j \in 1..n : \A m \in (i + 1)..(j - 1) : m \in 1..n
  OBVIOUS
<1>2. \A i, j \in 1..n : TakesEffect(new, i, j) <=> TakesEffect(log, i, j)
  BY <1>1 DEF TakesEffect
<1>3. \A key : \A i, j \in 1..n : Effective(new, n, key, i, j) <=> Effective(log, n, key, i, j)
  BY <1>2 DEF Effective
<1>4. \A i \in 1..n : \A m \in (i + 1)..n : m \in 1..n
  OBVIOUS
<1>5. \A id, key : \A i \in 1..n : Waiting(new, n, id, key, i) <=> Waiting(log, n, id, key, i)
  BY <1>4 DEF Waiting
<1>6. ASSUME NEW key, NEW x, Logged(log, n, key, x) PROVE Logged(new, n, key, x)
  BY <1>3, <1>6 DEF Logged
<1>7. ASSUME NEW id, NEW key, NEW x, Pending(log, n, id, key, x) PROVE Pending(new, n, id, key, x)
  BY <1>5, <1>7 DEF Pending
<1> QED BY <1>6, <1>7
-----------------------------------------------------------------------------
(* One more record.                                                        *)

\* Which writes wait after the record at n + 1.
LEMMA NextWaiting ==
  ASSUME NEW n \in Nat, NEW log, NEW id, NEW key
  PROVE  /\ \A i \in 1..n : Waiting(log, n + 1, id, key, i) <=>
               Waiting(log, n, id, key, i) /\ ~(log[n + 1].type \in Control /\ log[n + 1].txn = id)
         /\ Waiting(log, n + 1, id, key, n + 1) <=>
               log[n + 1].type = "Data" /\ log[n + 1].txn = id /\ log[n + 1].key = key
<1>1. \A i \in 1..n : (i + 1)..(n + 1) = ((i + 1)..n) \cup {n + 1}
  OBVIOUS
<1>2. 1..(n + 1) = (1..n) \cup {n + 1}
  OBVIOUS
<1>3. ASSUME NEW i \in 1..n
      PROVE  Waiting(log, n + 1, id, key, i) <=>
               Waiting(log, n, id, key, i) /\ ~(log[n + 1].type \in Control /\ log[n + 1].txn = id)
  BY <1>1, <1>2 DEF Waiting
<1>4. (n + 1 + 1)..(n + 1) = {} /\ n + 1 \in 1..(n + 1)
  OBVIOUS
<1> QED BY <1>3, <1>4 DEF Waiting

\* Which writes have taken effect after the record at n + 1.
LEMMA NextEffective ==
  ASSUME NEW n \in Nat, NEW log, NEW key
  PROVE  /\ \A i, j \in 1..n : Effective(log, n + 1, key, i, j) <=> Effective(log, n, key, i, j)
         /\ \A j \in 1..(n + 1) : ~Effective(log, n + 1, key, n + 1, j)
         /\ \A i \in 1..n : Effective(log, n + 1, key, i, n + 1) <=>
               \E id : log[n + 1] = TxnCommit(id) /\ Waiting(log, n, id, key, i)
<1>1. 1..(n + 1) = (1..n) \cup {n + 1}
  OBVIOUS
<1>2. ASSUME NEW j \in 1..(n + 1) PROVE ~Effective(log, n + 1, key, n + 1, j)
  <2>1. ~(n + 1 < j)
    OBVIOUS
  <2>2. QED BY <2>1 DEF Effective, TakesEffect
<1>3. ASSUME NEW i \in 1..n
      PROVE  Effective(log, n + 1, key, i, n + 1) <=>
               \E id : log[n + 1] = TxnCommit(id) /\ Waiting(log, n, id, key, i)
  <2>1. i < n + 1 /\ (i + 1)..((n + 1) - 1) = (i + 1)..n /\ n + 1 \in 1..(n + 1) /\ i \in 1..(n + 1)
    OBVIOUS
  <2>2. \A id : TxnCommit(id).txn = id
    BY DEF TxnCommit
  <2>3. Effective(log, n + 1, key, i, n + 1) <=>
          log[n + 1] = TxnCommit(log[i].txn) /\ Waiting(log, n, log[i].txn, key, i)
    BY <2>1 DEF Effective, TakesEffect, Waiting, Control
  <2>4. \A id : Waiting(log, n, id, key, i) => log[i].txn = id
    BY DEF Waiting
  <2>5. QED BY <2>3, <2>4
<1>4. ASSUME NEW i \in 1..n, NEW j \in 1..n
      PROVE  Effective(log, n + 1, key, i, j) <=> Effective(log, n, key, i, j)
  BY <1>1 DEF Effective
<1> QED BY <1>2, <1>3, <1>4

\* A record that is no commit changes no value.
LEMMA LoggedKept ==
  ASSUME NEW n \in Nat, NEW log, NEW key, NEW x, Logged(log, n, key, x),
         \A id : log[n + 1] # TxnCommit(id)
  PROVE  Logged(log, n + 1, key, x)
<1>1. 1..(n + 1) = (1..n) \cup {n + 1}
  OBVIOUS
<1>2. ASSUME NEW i \in 1..(n + 1), NEW j \in 1..(n + 1), Effective(log, n + 1, key, i, j)
      PROVE  i \in 1..n /\ j \in 1..n /\ Effective(log, n, key, i, j)
  <2>0. /\ \A g \in 1..(n + 1) : ~Effective(log, n + 1, key, n + 1, g)
        /\ \A f \in 1..n : ~Effective(log, n + 1, key, f, n + 1)
    <3>1. \A g \in 1..(n + 1) : ~Effective(log, n + 1, key, n + 1, g)
      BY NextEffective, Zenon
    <3>2. \A f \in 1..n : Effective(log, n + 1, key, f, n + 1) =>
              \E id : log[n + 1] = TxnCommit(id) /\ Waiting(log, n, id, key, f)
      BY NextEffective, Zenon
    <3>3. QED BY <3>1, <3>2, Zenon
  <2>1. i \in 1..n
    <3>1. i # n + 1
      BY <1>2, <2>0, Zenon
    <3>2. QED BY <3>1
  <2>2. j \in 1..n
    <3>1. j # n + 1
      BY <1>2, <2>0, <2>1, Zenon
    <3>2. QED BY <3>1
  <2>3. QED BY <1>2, <2>1, <2>2, NextEffective, Zenon
<1>3. \A i, j \in 1..n : Effective(log, n, key, i, j) => Effective(log, n + 1, key, i, j)
  BY NextEffective
<1>4. CASE x = NoWrite /\ \A i, j \in 1..n : ~Effective(log, n, key, i, j)
  BY <1>2, <1>4 DEF Logged
<1>5. ASSUME NEW i \in 1..n, NEW j \in 1..n, Effective(log, n, key, i, j), x = log[i].value,
             \A f, g \in 1..n : Effective(log, n, key, f, g) => g < j \/ (g = j /\ f <= i)
      PROVE  Logged(log, n + 1, key, x)
  <2>1. i \in 1..(n + 1) /\ j \in 1..(n + 1)
    BY <1>1
  <2>2. QED
    BY <1>2, <1>3, <1>5, <2>1 DEF Logged
<1> QED BY <1>4, <1>5 DEF Logged

\* A commit record puts the writes that wait for it into effect.
LEMMA LoggedCommit ==
  ASSUME NEW n \in Nat, NEW log, NEW key, NEW id, NEW x, NEW y,
         Logged(log, n, key, x), Pending(log, n, id, key, y), log[n + 1] = TxnCommit(id),
         \A i \in 1..n : log[i].type = "Data" => log[i].value # NoWrite
  PROVE  Logged(log, n + 1, key, IF y = NoWrite THEN x ELSE y)
<1>1. 1..(n + 1) = (1..n) \cup {n + 1} /\ n + 1 \in 1..(n + 1)
  OBVIOUS
<1>2. \A i \in 1..n : Effective(log, n + 1, key, i, n + 1) <=> Waiting(log, n, id, key, i)
  <2>1. \A d : TxnCommit(id) = TxnCommit(d) => d = id
    BY DEF TxnCommit
  <2>2. ASSUME NEW i \in 1..n PROVE Effective(log, n + 1, key, i, n + 1) <=> Waiting(log, n, id, key, i)
    <3>1. Effective(log, n + 1, key, i, n + 1) <=>
              \E d : log[n + 1] = TxnCommit(d) /\ Waiting(log, n, d, key, i)
      BY NextEffective, Zenon
    <3>2. QED BY <2>1, <3>1, Zenon
  <2>3. QED BY <2>2
<1>3. CASE y = NoWrite /\ \A i \in 1..n : ~Waiting(log, n, id, key, i)
  <2>1. \A i, j \in 1..(n + 1) : Effective(log, n + 1, key, i, j) =>
            i \in 1..n /\ j \in 1..n /\ Effective(log, n, key, i, j)
    BY <1>1, <1>2, <1>3, NextEffective
  <2>2. \A i, j \in 1..n : Effective(log, n, key, i, j) => Effective(log, n + 1, key, i, j)
    BY NextEffective
  <2>3. CASE x = NoWrite /\ \A i, j \in 1..n : ~Effective(log, n, key, i, j)
    BY <1>3, <2>1, <2>3 DEF Logged
  <2>4. ASSUME NEW i \in 1..n, NEW j \in 1..n, Effective(log, n, key, i, j), x = log[i].value,
               \A f, g \in 1..n : Effective(log, n, key, f, g) => g < j \/ (g = j /\ f <= i)
        PROVE  Logged(log, n + 1, key, x)
    <3>1. i \in 1..(n + 1) /\ j \in 1..(n + 1)
      BY <1>1
    <3>2. QED
      BY <2>1, <2>2, <2>4, <3>1 DEF Logged
  <2>5. QED BY <1>3, <2>3, <2>4 DEF Logged
<1>4. ASSUME NEW i \in 1..n, Waiting(log, n, id, key, i), y = log[i].value,
             \A f \in 1..n : Waiting(log, n, id, key, f) => f <= i
      PROVE  Logged(log, n + 1, key, IF y = NoWrite THEN x ELSE y)
  <2>1. y # NoWrite
    BY <1>4 DEF Waiting
  <2>2. Effective(log, n + 1, key, i, n + 1) /\ i \in 1..(n + 1)
    BY <1>1, <1>2, <1>4
  <2>3. ASSUME NEW f \in 1..(n + 1), NEW g \in 1..(n + 1), Effective(log, n + 1, key, f, g)
        PROVE  g < n + 1 \/ (g = n + 1 /\ f <= i)
    <3>1. CASE g = n + 1
      <4>1. f \in 1..n
        BY <1>1, <2>3, NextEffective
      <4>2. QED BY <1>2, <1>4, <2>3, <3>1, <4>1
    <3>2. QED BY <3>1
  <2>4. QED
    BY <1>1, <1>4, <2>1, <2>2, <2>3 DEF Logged
<1> QED BY <1>3, <1>4 DEF Pending

\* A control record of the transaction forgets what waits, a write replaces
\* it, anything else leaves it.
LEMMA NextPending ==
  ASSUME NEW n \in Nat, NEW log, NEW key, NEW id, NEW x, Pending(log, n, id, key, x)
  PROVE  LET rec == log[n + 1]
         IN  /\ rec.type \in Control /\ rec.txn = id => Pending(log, n + 1, id, key, NoWrite)
             /\ rec.type = "Data" /\ rec.txn = id /\ rec.key = key =>
                   Pending(log, n + 1, id, key, rec.value)
             /\ (rec.type \in Control => rec.txn # id) /\ (rec.type = "Data" => rec.txn # id \/ rec.key # key)
                   => Pending(log, n + 1, id, key, x)
<1> DEFINE rec == log[n + 1]
<1>1. 1..(n + 1) = (1..n) \cup {n + 1} /\ n + 1 \in 1..(n + 1) /\ \A i \in 1..n : i <= n + 1
  OBVIOUS
<1>2. ASSUME rec.type \in Control, rec.txn = id PROVE Pending(log, n + 1, id, key, NoWrite)
  <2>1. \A i \in 1..(n + 1) : ~Waiting(log, n + 1, id, key, i)
    <3>1. ~Waiting(log, n + 1, id, key, n + 1)
      BY <1>2, NextWaiting DEF Control
    <3>2. \A i \in 1..n : ~Waiting(log, n + 1, id, key, i)
      BY <1>2, NextWaiting
    <3>3. QED BY <1>1, <3>1, <3>2
  <2>2. QED BY <2>1 DEF Pending
<1>3. ASSUME rec.type = "Data", rec.txn = id, rec.key = key PROVE Pending(log, n + 1, id, key, rec.value)
  <2>1. Waiting(log, n + 1, id, key, n + 1) /\ \A f \in 1..(n + 1) : f <= n + 1
    BY <1>1, <1>3, NextWaiting
  <2>2. QED BY <1>1, <2>1 DEF Pending
<1>4. ASSUME rec.type \in Control => rec.txn # id, rec.type = "Data" => rec.txn # id \/ rec.key # key
      PROVE  Pending(log, n + 1, id, key, x)
  <2>1. \A i \in 1..n : Waiting(log, n + 1, id, key, i) <=> Waiting(log, n, id, key, i)
    BY <1>4, NextWaiting
  <2>2. ~Waiting(log, n + 1, id, key, n + 1)
    BY <1>4, NextWaiting
  <2>3. CASE x = NoWrite /\ \A i \in 1..n : ~Waiting(log, n, id, key, i)
    BY <1>1, <2>1, <2>2, <2>3 DEF Pending
  <2>4. ASSUME NEW i \in 1..n, Waiting(log, n, id, key, i), x = log[i].value,
               \A f \in 1..n : Waiting(log, n, id, key, f) => f <= i
        PROVE  Pending(log, n + 1, id, key, x)
    <3>1. i \in 1..(n + 1)
      BY <1>1
    <3>2. \A f \in 1..(n + 1) : Waiting(log, n + 1, id, key, f) => f <= i
      BY <1>1, <2>1, <2>2, <2>4
    <3>3. QED BY <2>1, <2>4, <3>1, <3>2 DEF Pending
  <2>5. QED BY <2>3, <2>4 DEF Pending
<1> QED BY <1>2, <1>3, <1>4

-----------------------------------------------------------------------------
(* The replay loop.                                                        *)

\* What the loop has computed after replay.pos records.
ReplayInv ==
    /\ status = "down" => replay = ReplayStart
    /\ status = "recovering" =>
          /\ replay.pos \in 0..Len(wal) /\ Readable(replay.pos)
          /\ \A key \in Keys : Logged(wal, replay.pos, key, replay.result[key])
          /\ \A id \in TxnIds, key \in Keys :
                Pending(wal, replay.pos, id, key, replay.pending[id][key])

\* What a record of the log can be.
LEMMA RecordCases ==
  ASSUME NEW rec \in Records
  PROVE  /\ rec.type = "Data" =>
               /\ rec.txn \in TxnIds /\ rec.key \in Keys /\ rec.value \in WalValues
               /\ rec.value # NoWrite
         /\ rec.type \in Control => rec.txn \in TxnIds
         /\ rec.type = "Commit" => rec = TxnCommit(rec.txn)
         /\ rec.type # "Commit" => \A id : rec # TxnCommit(id)
<1>0. NoWrite \notin WalValues
  BY ValuesAssumption DEF WalValues
<1>1. CASE rec \in ControlRecords
  BY <1>1 DEF ControlRecords, TxnCommit
<1>2. CASE rec \in DataRecords
  BY <1>0, <1>2 DEF DataRecords, Control, TxnCommit
<1>3. CASE rec \in OtherRecords
  BY <1>3 DEF OtherRecords, Control, TxnCommit
<1> QED BY <1>1, <1>2, <1>3 DEF Records

\* One iteration of the loop accounts for one more record.
LEMMA ReplayOneInv ==
  ASSUME WalTypeOK, NEW n \in Nat, n = replay.pos, n + 1 \in 1..Len(wal),
         \A key \in Keys : Logged(wal, n, key, replay.result[key]),
         \A id \in TxnIds, key \in Keys : Pending(wal, n, id, key, replay.pending[id][key])
  PROVE  LET r == ReplayOne(replay, wal[n + 1])
         IN  /\ r.pos = n + 1
             /\ \A key \in Keys : Logged(wal, n + 1, key, r.result[key])
             /\ \A id \in TxnIds, key \in Keys : Pending(wal, n + 1, id, key, r.pending[id][key])
<1> DEFINE rec == wal[n + 1]
           r == ReplayOne(replay, rec)
<1>0. /\ wal \in Seq(Records) /\ rec \in Records
      /\ replay.pending \in [TxnIds -> [Keys -> WalValues \cup {NoWrite}]]
      /\ replay.result \in [Keys -> WalValues \cup {NoWrite}]
      /\ \A i \in 1..n : wal[i].type = "Data" => wal[i].value # NoWrite
  <2>1. wal \in Seq(Records) /\ rec \in Records /\ \A i \in 1..n : wal[i] \in Records
    BY DEF WalTypeOK
  <2>2. \A i \in 1..n : wal[i].type = "Data" => wal[i].value # NoWrite
    BY <2>1, RecordCases
  <2>3. QED BY <2>1, <2>2 DEF WalTypeOK
<1>1. r.pos = n + 1
  BY DEF ReplayOne
<1>2. ASSUME NEW key \in Keys PROVE Logged(wal, n + 1, key, r.result[key])
  <2>1. CASE rec.type = "Commit"
    <3>1. rec.txn \in TxnIds /\ rec = TxnCommit(rec.txn)
      BY <1>0, <2>1, RecordCases DEF Control
    <3>2. PICK id \in TxnIds : id = rec.txn /\ wal[n + 1] = TxnCommit(id)
      BY <3>1
    <3>3. r.result[key] = IF replay.pending[id][key] = NoWrite THEN replay.result[key]
                          ELSE replay.pending[id][key]
      BY <1>0, <2>1, <3>2 DEF ReplayOne, Overwrite
    <3>4. PICK x, y : x = replay.result[key] /\ y = replay.pending[id][key]
      OBVIOUS
    <3>5. Logged(wal, n, key, x) /\ Pending(wal, n, id, key, y)
      BY <3>4
    <3>6. \A i \in 1..n : wal[i].type = "Data" => wal[i].value # NoWrite
      BY <1>0
    <3>7. Logged(wal, n + 1, key, IF y = NoWrite THEN x ELSE y)
      BY <3>2, <3>5, <3>6, LoggedCommit
    <3>8. QED
      BY <3>3, <3>4, <3>7
  <2>2. CASE rec.type # "Commit"
    <3>1. r.result[key] = replay.result[key]
      BY <2>2 DEF ReplayOne
    <3>2. \A id : wal[n + 1] # TxnCommit(id)
      BY <1>0, <2>2, RecordCases
    <3>3. QED BY <3>1, <3>2, LoggedKept
  <2>3. QED BY <2>1, <2>2
<1>3. ASSUME NEW id \in TxnIds, NEW key \in Keys
      PROVE  Pending(wal, n + 1, id, key, r.pending[id][key])
  <2>1. CASE rec.type \in Control
    <3>1. rec.txn \in TxnIds
      BY <1>0, <2>1, RecordCases
    <3>2. r.pending = [replay.pending EXCEPT ![rec.txn] = [k \in Keys |-> NoWrite]]
      BY <2>1 DEF ReplayOne, Control
    <3>3. r.pending[id][key] = IF id = rec.txn THEN NoWrite ELSE replay.pending[id][key]
      BY <1>0, <3>1, <3>2
    <3>4. rec.type # "Data"
      BY <2>1 DEF Control
    <3>5. CASE id = rec.txn
      BY <2>1, <3>3, <3>5, NextPending
    <3>6. CASE id # rec.txn
      BY <3>3, <3>4, <3>6, NextPending
    <3>7. QED BY <3>5, <3>6
  <2>2. CASE rec.type = "Data"
    <3>1. rec.txn \in TxnIds /\ rec.key \in Keys
      BY <1>0, <2>2, RecordCases
    <3>2. r.pending = [replay.pending EXCEPT ![rec.txn][rec.key] = rec.value]
      BY <2>2 DEF ReplayOne
    <3>3. r.pending[id][key] = IF id = rec.txn /\ key = rec.key THEN rec.value ELSE replay.pending[id][key]
      BY <1>0, <3>1, <3>2
    <3>4. rec.type \notin Control
      BY <2>2 DEF Control
    <3>5. CASE id = rec.txn /\ key = rec.key
      BY <2>2, <3>3, <3>5, NextPending
    <3>6. CASE ~(id = rec.txn /\ key = rec.key)
      BY <3>3, <3>4, <3>6, NextPending
    <3>7. QED BY <3>5, <3>6
  <2>3. CASE rec.type \notin Control /\ rec.type # "Data"
    <3>1. r.pending = replay.pending
      BY <2>3 DEF ReplayOne, Control
    <3>2. QED BY <2>3, <3>1, NextPending
  <2>4. QED BY <2>1, <2>2, <2>3
<1> QED BY <1>1, <1>2, <1>3

\* The loop invariant holds throughout.
LEMMA NextReplay ==
  ASSUME TypeOK, CallInv, ReplayInv, [Next]_vars
  PROVE  ReplayInv'
<1>0. WalTypeOK /\ replay.pos \in Nat
  BY DEF TypeOK, WalTypeOK
<1>1. CASE UNCHANGED vars
  BY <1>1 DEF vars, walVars, storageVars, ReplayInv, Readable
<1>2. ASSUME NEW t \in Threads, ThreadStep(t) PROVE ReplayInv'
  <2>1. status' = "open"
    BY <1>2, ThreadStepMoves DEF Moves
  <2>2. QED BY <2>1 DEF ReplayInv
<1>3. ASSUME Crash \/ Shutdown PROVE ReplayInv'
  BY <1>3 DEF Crash, Shutdown, Forget, ReplayInv
<1>4. ASSUME Open PROVE ReplayInv'
  <2>1. UNCHANGED <<wal, replay>> /\ status = "down" /\ status' = "recovering" /\ replay = ReplayStart
    BY <1>4 DEF Open, ReplayInv
  <2>2. /\ replay.pos = 0
        /\ \A key \in Keys : replay.result[key] = NoWrite
        /\ \A id \in TxnIds, key \in Keys : replay.pending[id][key] = NoWrite
    BY <2>1 DEF ReplayStart, NothingPending
  <2>3. /\ \A key \in Keys : Logged(wal, 0, key, NoWrite)
        /\ \A id \in TxnIds, key \in Keys : Pending(wal, 0, id, key, NoWrite)
    BY DEF Logged, Pending
  <2>4. 0 \in 0..Len(wal) /\ Readable(0)
    BY <1>0 DEF WalTypeOK, Readable
  <2>5. QED BY <2>1, <2>2, <2>3, <2>4 DEF ReplayInv, Readable
<1>5. ASSUME ReplayRecord PROVE ReplayInv'
  <2>1. /\ status = "recovering" /\ UNCHANGED <<wal, status>>
        /\ replay.pos + 1 \in 1..Len(wal) /\ Readable(replay.pos + 1)
        /\ replay' = ReplayOne(replay, wal[replay.pos + 1])
    BY <1>5 DEF ReplayRecord, ReadableRecords, storageVars
  <2>2. PICK n \in Nat : n = replay.pos
    BY <1>0
  <2>3. /\ replay'.pos = n + 1
        /\ \A key \in Keys : Logged(wal, n + 1, key, replay'.result[key])
        /\ \A id \in TxnIds, key \in Keys : Pending(wal, n + 1, id, key, replay'.pending[id][key])
    BY <1>0, <2>1, <2>2, ReplayOneInv DEF ReplayInv
  <2>4. n + 1 \in 0..Len(wal) /\ Readable(n + 1)
    BY <2>1, <2>2
  <2>5. QED BY <2>1, <2>2, <2>3, <2>4 DEF ReplayInv, Readable
<1>6. ASSUME FinishRecover PROVE ReplayInv'
  BY <1>6 DEF FinishRecover, ReplayInv
<1> QED BY <1>1, <1>2, <1>3, <1>4, <1>5, <1>6 DEF Next, RestartStep

\* When the replay loop of recovery ends, for a log of any length in which
\* the records of any number of transactions interleave, it has computed for
\* every key what the log says: the last write of the transaction that
\* committed last, and nothing of transactions without a commit record.
THEOREM ReplayCorrect == Spec => []ReplayComputesLoggedValues
<1>1. Init => ReplayInv
  BY DEF Init, ReplayInv
<1>2. TypeOK /\ ReplayInv => ReplayComputesLoggedValues
  <2> SUFFICES ASSUME TypeOK, ReplayInv, status = "recovering", NEW key \in Keys
               PROVE  replay.result[key] = LoggedValue(SubSeq(wal, 1, replay.pos), key)
    BY DEF ReplayComputesLoggedValues
  <2> DEFINE n == replay.pos
             log == SubSeq(wal, 1, n)
  <2>1. wal \in Seq(Records) /\ n \in 0..Len(wal)
    BY DEF TypeOK, WalTypeOK, ReplayInv
  <2>2. log \in Seq(Records) /\ Len(log) = n /\ n \in Nat /\ \A i \in 1..n : log[i] = wal[i]
    BY <2>1
  <2>3. Logged(wal, n, key, replay.result[key])
    BY DEF ReplayInv
  <2> HIDE DEF n, log
  <2>4. Logged(log, n, key, replay.result[key])
    BY <2>2, <2>3, SamePrefix
  <2>5. LoggedValue(log, key) = replay.result[key]
    BY <2>2, <2>4, LoggedUnique
  <2>6. QED BY <2>5 DEF n, log
<1>3. QED
  BY <1>1, <1>2, TypeCorrect, InitCallInv, NextCallInv, NextReplay, PTL DEF Spec

-----------------------------------------------------------------------------
(* The memtable and the log.                                               *)

\* The log holds a data record of transaction id.
HasData(log, id) == \E i \in 1..Len(log) : log[i].type = "Data" /\ log[i].txn = id

\* x is what recovery would restore from the newest of the versions.
NewestIs(versions, x) ==
    \/ versions = {} /\ x = NoWrite
    \/ \E v \in versions : x = WalValue(v.value) /\ \A w \in versions : w = v \/ w.ts < v.ts

\* x is the last value of the key in a buffer.
LastIn(buffer, key, x) ==
    \E i \in 1..Len(buffer) :
        /\ buffer[i].key = key /\ buffer[i].value = x
        /\ \A j \in 1..Len(buffer) : buffer[j].key = key => j <= i

\* Thread t is to publish the key and its commit record is in the log.
Publishing(key) == \E t \in Threads : Recorded(thread[t]) /\ OwnsSlot(chains[key], thread[t].id)

\* What the log says of the key is the newest version or, between the commit
\* record of its owner and publication, the slot.
KeyLive(key) ==
    /\ \A t \in Threads : \A v \in chains[key].uncommitted :
          Recorded(thread[t]) /\ v.txn = thread[t].id => Logged(wal, Len(wal), key, WalValue(v.value))
    /\ \E x \in WalValues \cup {NoWrite} :
          NewestIs(chains[key].committed, x) /\ (~Publishing(key) => Logged(wal, Len(wal), key, x))

\* The commit record of transaction id would put into effect the slots it
\* holds and nothing else.
ReadyToRecord(id) ==
    \A key \in Keys :
        /\ \A v \in chains[key].uncommitted :
              v.txn = id => Pending(wal, Len(wal), id, key, WalValue(v.value))
        /\ ~OwnsSlot(chains[key], id) => Pending(wal, Len(wal), id, key, NoWrite)

\* Flushing the buffer would log the slots transaction id holds and nothing else.
ReadyToFlush(id) ==
    \A key \in Keys :
        /\ \A v \in chains[key].uncommitted : v.txn = id => LastIn(buffers[id], key, WalValue(v.value))
        /\ ~OwnsSlot(chains[key], id) => \A i \in 1..Len(buffers[id]) : buffers[id][i].key # key

InCommitOf(id) == \E t \in Threads : InCommit(thread[t]) /\ thread[t].id = id

BeforeRecordOf(id) ==
    \E t \in Threads : InCommit(thread[t]) /\ ~Recorded(thread[t]) /\ thread[t].id = id

ReadyOf(id) ==
    /\ ~InCommitOf(id) =>
          /\ handles[id] \in {"open", "failed", "fast"} => ~HasData(wal, id)
          /\ handles[id] = "open" => ReadyToFlush(id)
    /\ BeforeRecordOf(id) => ReadyToRecord(id)

OneSlot == \A key \in Keys : \A v, w \in chains[key].uncommitted : v = w

\* As long as the whole log can be read, what is in it of a transaction is
\* what the transaction has in memory.
ReadyInv == Intact => \A id \in TxnIds : ReadyOf(id)

LiveInv ==
    /\ OneSlot /\ ReadyInv
    /\ status = "open" => \A key \in Keys : KeyLive(key)

\* A log that grows without a commit record keeps its values.
LEMMA GrowLogged ==
  ASSUME NEW n \in Nat, NEW m \in Nat, n <= m, NEW log, NEW new,
         \A i \in 1..n : new[i] = log[i],
         \A j \in (n + 1)..m : \A id : new[j] # TxnCommit(id),
         NEW key, NEW x, Logged(log, n, key, x)
  PROVE  Logged(new, m, key, x)
<1>0. 1..n \subseteq 1..m
  OBVIOUS
<1>1. ASSUME NEW i \in 1..m, NEW j \in 1..m, Effective(new, m, key, i, j)
      PROVE  i \in 1..n /\ j \in 1..n /\ Effective(new, n, key, i, j)
  <2>1. i < j /\ new[j] = TxnCommit(new[i].txn)
    BY <1>1 DEF Effective, TakesEffect
  <2>2. ~(j \in (n + 1)..m)
    BY <2>1
  <2>3. j \in 1..n
    BY <2>2
  <2>4. i \in 1..n
    BY <2>1, <2>3
  <2>5. QED BY <1>1, <2>3, <2>4 DEF Effective
<1>2. \A i, j \in 1..n : Effective(new, n, key, i, j) => Effective(new, m, key, i, j)
  BY <1>0 DEF Effective
<1>3. Logged(new, n, key, x)
  BY SamePrefix
<1>4. CASE x = NoWrite /\ \A i, j \in 1..n : ~Effective(new, n, key, i, j)
  BY <1>1, <1>4 DEF Logged
<1>5. ASSUME NEW i \in 1..n, NEW j \in 1..n, Effective(new, n, key, i, j), x = new[i].value,
             \A f, g \in 1..n : Effective(new, n, key, f, g) => g < j \/ (g = j /\ f <= i)
      PROVE  Logged(new, m, key, x)
  <2>1. i \in 1..m /\ j \in 1..m
    BY <1>0
  <2>2. QED
    BY <1>1, <1>2, <1>5, <2>1 DEF Logged
<1> QED BY <1>3, <1>4, <1>5 DEF Logged

\* A log that grows without a record of a transaction keeps what waits for
\* its commit.
LEMMA GrowPending ==
  ASSUME NEW n \in Nat, NEW m \in Nat, n <= m, NEW log, NEW new, NEW id,
         \A i \in 1..n : new[i] = log[i],
         \A j \in (n + 1)..m : new[j].type \in Control \cup {"Data"} => new[j].txn # id,
         NEW key, NEW x, Pending(log, n, id, key, x)
  PROVE  Pending(new, m, id, key, x)
<1>0. 1..n \subseteq 1..m
  OBVIOUS
<1>1. ASSUME NEW i \in 1..m, Waiting(new, m, id, key, i) PROVE i \in 1..n /\ Waiting(new, n, id, key, i)
  <2>1. i \notin (n + 1)..m
    BY <1>1 DEF Waiting
  <2>2. i \in 1..n /\ (i + 1)..n \subseteq (i + 1)..m
    BY <2>1
  <2>3. QED BY <1>1, <2>2 DEF Waiting
<1>2. ASSUME NEW i \in 1..n, Waiting(new, n, id, key, i) PROVE Waiting(new, m, id, key, i)
  <2>1. \A k \in (i + 1)..m : k \in (i + 1)..n \/ k \in (n + 1)..m
    OBVIOUS
  <2>2. QED BY <1>0, <1>2, <2>1 DEF Waiting
<1>3. Pending(new, n, id, key, x)
  BY SamePrefix
<1>4. CASE x = NoWrite /\ \A i \in 1..n : ~Waiting(new, n, id, key, i)
  BY <1>1, <1>4 DEF Pending
<1>5. ASSUME NEW i \in 1..n, Waiting(new, n, id, key, i), x = new[i].value,
             \A f \in 1..n : Waiting(new, n, id, key, f) => f <= i
      PROVE  Pending(new, m, id, key, x)
  <2>1. i \in 1..m
    BY <1>0
  <2>2. QED BY <1>1, <1>2, <1>5, <2>1 DEF Pending
<1> QED BY <1>3, <1>4, <1>5 DEF Pending

\* What waits after a buffer was flushed is the last value of each key in it.
LEMMA FlushPending ==
  ASSUME NEW log \in Seq(Records), NEW buffer \in Seq(DataRecords), NEW id, NEW key,
         ~HasData(log, id), \A i \in 1..Len(buffer) : buffer[i].txn = id
  PROVE  /\ \A x : LastIn(buffer, key, x) => Pending(log \o buffer, Len(log \o buffer), id, key, x)
         /\ (\A i \in 1..Len(buffer) : buffer[i].key # key) =>
               Pending(log \o buffer, Len(log \o buffer), id, key, NoWrite)
<1> DEFINE n == Len(log)
           m == Len(buffer)
           new == log \o buffer
<1>0. log \in Seq(Records) /\ buffer \in Seq(Records)
  BY DEF Records
<1>1. n \in Nat /\ m \in Nat /\ Len(new) = n + m
  BY <1>0
<1>2. /\ \A i \in 1..n : new[i] = log[i]
      /\ \A i \in 1..m : new[n + i] = buffer[i] /\ buffer[i].type = "Data"
  <2>1. \A i \in 1..n : new[i] = log[i]
    BY <1>0
  <2>2. \A i \in 1..m : new[n + i] = buffer[i]
    BY <1>0
  <2>3. \A i \in 1..m : buffer[i] \in DataRecords
    OBVIOUS
  <2>4. QED BY <2>1, <2>2, <2>3 DEF DataRecords
<1> HIDE DEF n, m, new
<1>3. \A i \in 1..n : ~Waiting(new, n + m, id, key, i)
  BY <1>2 DEF Waiting, HasData, n
<1>4. \A j \in (n + 1)..(n + m) : j - n \in 1..m /\ new[j] = buffer[j - n] /\ new[j].type = "Data"
  <2>1. ASSUME NEW j \in (n + 1)..(n + m) PROVE j - n \in 1..m /\ new[j] = buffer[j - n] /\ new[j].type = "Data"
    <3>1. j - n \in 1..m /\ n + (j - n) = j
      BY <1>1
    <3>2. QED BY <1>2, <3>1
  <2>2. QED BY <2>1
<1>5. ASSUME NEW i \in 1..m
      PROVE  n + i \in 1..(n + m) /\ (Waiting(new, n + m, id, key, n + i) <=> buffer[i].key = key)
  <2>1. n + i \in 1..(n + m) /\ \A k \in (n + i + 1)..(n + m) : k \in (n + 1)..(n + m)
    BY <1>1
  <2>2. \A k \in (n + i + 1)..(n + m) : new[k].type \notin Control
    BY <1>4, <2>1 DEF Control
  <2>3. buffer[i].txn = id
    BY DEF m
  <2>4. QED BY <1>2, <2>1, <2>2, <2>3 DEF Waiting
<1>6. \A f \in 1..(n + m) : f \in 1..n \/ \E i \in 1..m : f = n + i
  <2>1. \A f \in 1..(n + m) : f \in 1..n \/ (f - n \in 1..m /\ f = n + (f - n))
    BY <1>1
  <2>2. QED BY <2>1
<1>7. ASSUME NEW x, LastIn(buffer, key, x) PROVE Pending(new, n + m, id, key, x)
  <2>1. PICK i \in 1..m : /\ buffer[i].key = key /\ buffer[i].value = x
                          /\ \A j \in 1..m : buffer[j].key = key => j <= i
    BY <1>7 DEF LastIn, m
  <2>2. Waiting(new, n + m, id, key, n + i) /\ n + i \in 1..(n + m) /\ x = new[n + i].value
    BY <1>2, <1>5, <2>1
  <2>3. ASSUME NEW f \in 1..(n + m), Waiting(new, n + m, id, key, f) PROVE f <= n + i
    <3>1. PICK j \in 1..m : f = n + j
      BY <1>3, <1>6, <2>3
    <3>2. j <= i
      BY <1>5, <2>1, <2>3, <3>1
    <3>3. QED BY <1>1, <3>1, <3>2
  <2>4. QED BY <2>2, <2>3 DEF Pending
<1>8. ASSUME \A i \in 1..m : buffer[i].key # key PROVE Pending(new, n + m, id, key, NoWrite)
  <2>1. \A f \in 1..(n + m) : ~Waiting(new, n + m, id, key, f)
    BY <1>3, <1>5, <1>6, <1>8
  <2>2. QED BY <2>1 DEF Pending
<1> QED BY <1>1, <1>7, <1>8 DEF m, new

-----------------------------------------------------------------------------
(* Steps of other transactions.                                            *)

\* A step of thread t is about transaction id.
Touched(t, id) ==
    \/ id \in {thread[t].id, thread'[t].id}
    \/ handles'[id] # handles[id] \/ buffers'[id] # buffers[id]

\* A call only writes records of its own transaction.
LEMMA RecordsOwned ==
  ASSUME TypeOK, CallInv, HandleInv, NEW t \in Threads, ThreadStep(t),
         NEW i \in (1..Len(wal')) \ (1..Len(wal)), wal'[i].type \in Control \cup {"Data"}
  PROVE  Touched(t, wal'[i].txn)
<1>0. /\ ThreadTypeOK /\ wal \in Seq(Records) /\ handles \in [TxnIds -> Handles]
      /\ buffers \in [TxnIds -> Seq(DataRecords)]
  BY DEF TypeOK, WalTypeOK, ClientTypeOK
<1>1. wal' # wal
  OBVIOUS
<1>2. ASSUME NEW rec, wal' = Append(wal, rec) PROVE wal'[i] = rec
  <2>1. Len(wal) \in Nat /\ Len(wal') = Len(wal) + 1 /\ wal'[Len(wal) + 1] = rec
    BY <1>0, <1>2
  <2>2. QED BY <2>1
<1>3. ASSUME NEW mode, BeginWithMode(t, mode) PROVE Touched(t, wal'[i].txn)
  <2>1. PICK id \in TxnIds : wal' = Append(wal, TxnBegin(id)) /\ Enter(t, "insert", id)
    BY <1>3 DEF BeginWithMode, Append1
  <2>2. wal'[i].txn = id /\ thread'[t].id = id
    BY <1>0, <1>2, <2>1, EnterLocals DEF TxnBegin
  <2>3. QED BY <2>2 DEF Touched
<1>4. ASSUME NEW id \in TxnIds, CommitFlush(t, id) PROVE Touched(t, wal'[i].txn)
  <2>1. wal' = wal \o buffers[id] /\ thread'[t].id = id
    BY <1>0, <1>4, EnterLocals DEF CommitFlush
  <2>2. buffers[id] \in Seq(Records)
    BY <1>0 DEF Records
  <2>3. i - Len(wal) \in 1..Len(buffers[id]) /\ wal'[i] = buffers[id][i - Len(wal)]
    BY <1>0, <2>1, <2>2
  <2>4. wal'[i].txn = id
    BY <2>3 DEF HandleInv, HandleOf
  <2>5. QED BY <2>1, <2>4 DEF Touched
<1>5. ASSUME CommitRecord(t) PROVE Touched(t, wal'[i].txn)
  BY <1>2, <1>5 DEF CommitRecord, Append1, TxnCommit, Touched
<1>6. ASSUME AbortStep(t) PROVE Touched(t, wal'[i].txn)
  <2>1. PICK id \in TxnIds : Abort(t, id) \/ AbortReadOnlyFast(t, id)
    BY <1>6 DEF AbortStep
  <2>2. Abort(t, id) /\ wal' = Append(wal, TxnAbort(id)) /\ handles' = [handles EXCEPT ![id] = "free"]
    BY <1>1, <2>1, Zenon DEF Abort, AbortReadOnlyFast, Append1, walVars
  <2>3. handles[id] \in {"failed", "dead", "open"}
    BY <2>2, SMT DEF Abort
  <2>4. wal'[i].txn = id /\ handles'[id] # handles[id]
    BY <1>0, <1>2, <2>2, <2>3 DEF TxnAbort
  <2>5. QED BY <2>4 DEF Touched
<1>7. ASSUME Checkpoint(t) PROVE FALSE
  BY <1>2, <1>7 DEF Checkpoint, AppendSync, CheckpointRecord, Control
<1>8. QED
  BY <1>1, <1>3, <1>4, <1>5, <1>6, <1>7
  DEF ThreadStep, BeginStep, BeginReadOnlyFast, BeginInsert, UpdateMinStep, UpdateMinScan,
      UpdateMinStore, ReadStep, Read, WriteStep, Write, Delete, WriteKey, CommitStep,
      CommitValidate, CommitRevalidate, CommitRefused, CommitAllocTs, CommitTrack, GroupSync,
      CommitSync, CommitSyncFails, CommitPublish, CommitDone, MaintenanceStep, GcLoad, GcSweep,
      walVars

\* A step leaves the slots of every transaction it is not about.
LEMMA SlotsOwned ==
  ASSUME TypeOK, OneSlot, NEW t \in Threads, ThreadStep(t), NEW key \in Keys, NEW v, ~Touched(t, v.txn)
  PROVE  v \in chains'[key].uncommitted <=> v \in chains[key].uncommitted
<1>0. /\ chains \in [Keys -> Chains(StoredValues, Nat)] /\ handles \in [TxnIds -> Handles]
      /\ buffers \in [TxnIds -> Seq(DataRecords)]
  BY DEF TypeOK, MemTableTypeOK, ClientTypeOK
<1>1. CASE WriteStep(t)
  <2>1. PICK d \in TxnIds, k \in Keys, value \in StoredValues : WriteKey(t, d, k, value)
    BY <1>1 DEF WriteStep, Write, Delete, StoredValues
  <2>2. buffers'[d] # buffers[d]
    <3>1. buffers'[d] = Append(buffers[d], Data(d, k, value)) /\ buffers[d] \in Seq(DataRecords)
      BY <1>0, <2>1 DEF WriteKey
    <3>2. Len(Append(buffers[d], Data(d, k, value))) = Len(buffers[d]) + 1 /\ Len(buffers[d]) \in Nat
      BY <3>1
    <3>3. QED BY <3>1, <3>2
  <2>3. v.txn # d
    BY <2>2 DEF Touched
  <2>4. QED BY <2>1, <2>3, WriteSlots
<1>2. CASE CommitPublish(t)
  <2>1. PICK k \in thread[t].todo : chains' = [chains EXCEPT ![k] = CommitVersion(@, thread[t].id, thread[t].ts)]
    BY <1>2 DEF CommitPublish
  <2>2. v.txn # thread[t].id
    BY DEF Touched
  <2>3. QED BY <1>0, <2>1, <2>2 DEF CommitVersion, OwnsSlot, OneSlot
<1>3. CASE AbortStep(t)
  <2>1. PICK id \in TxnIds : Abort(t, id) \/ AbortReadOnlyFast(t, id)
    BY <1>3 DEF AbortStep
  <2>2. /\ chains' = chains \/ chains' = [k \in Keys |-> AbortVersion(chains[k], id)]
        /\ handles' = [handles EXCEPT ![id] = "free"]
    BY <2>1, Zenon DEF Abort, AbortReadOnlyFast
  <2>3. handles[id] # "free"
    BY <2>1, SMT DEF Abort, AbortReadOnlyFast
  <2>4. v.txn # id
    BY <1>0, <2>2, <2>3 DEF Touched
  <2>5. QED BY <1>0, <2>2, <2>4 DEF AbortVersion, Chains
<1>4. CASE ~WriteStep(t) /\ ~CommitPublish(t) /\ ~AbortStep(t)
  BY <1>4, SlotsUnchanged
<1> QED BY <1>1, <1>2, <1>3, <1>4

\* The slot of a key holds one version at most.
LEMMA NextOneSlot ==
  ASSUME TypeOK, CallInv, OneSlot, [Next]_vars
  PROVE  OneSlot'
<1>1. CASE UNCHANGED vars
  BY <1>1 DEF vars, storageVars, OneSlot
<1>2. ASSUME NEW t \in Threads, ThreadStep(t) PROVE OneSlot'
  <2>1. CASE WriteStep(t)
    <3>1. PICK d \in TxnIds, k \in Keys, value \in StoredValues : WriteKey(t, d, k, value)
      BY <2>1 DEF WriteStep, Write, Delete, StoredValues
    <3>2. QED BY <3>1, WriteSlots DEF OneSlot
  <2>2. CASE CommitPublish(t)
    <3>1. chains \in [Keys -> Chains(StoredValues, Nat)]
      BY DEF TypeOK, MemTableTypeOK
    <3>2. PICK k \in thread[t].todo : chains' = [chains EXCEPT ![k] = CommitVersion(@, thread[t].id, thread[t].ts)]
      BY <2>2 DEF CommitPublish
    <3>3. QED BY <3>1, <3>2 DEF CommitVersion, OneSlot
  <2>3. CASE ~WriteStep(t) /\ ~CommitPublish(t)
    <3>1. \A key \in Keys : chains'[key].uncommitted \subseteq chains[key].uncommitted
      <4>1. CASE CommitAllocTs(t)
        BY <4>1 DEF CommitAllocTs
      <4>2. CASE ~CommitAllocTs(t)
        BY <1>2, <2>3, <4>2, OtherStepsShrink DEF Shrinks
      <4>3. QED BY <4>1, <4>2
    <3>2. QED BY <3>1 DEF OneSlot
  <2>4. QED BY <2>1, <2>2, <2>3
<1>3. ASSUME RestartStep PROVE OneSlot'
  <2>1. CASE Crash \/ Shutdown
    BY <2>1 DEF Crash, Shutdown, Forget, OneSlot, EmptyChain
  <2>2. CASE Open \/ ReplayRecord
    BY <2>2 DEF Open, ReplayRecord, storageVars, OneSlot
  <2>3. CASE FinishRecover
    <3>1. \A k \in Keys : chains'[k].uncommitted = {}
      BY <2>3 DEF FinishRecover, EmptyChain
    <3>2. QED BY <3>1 DEF OneSlot
  <2>4. QED BY <1>3, <2>1, <2>2, <2>3 DEF RestartStep
<1> QED BY <1>1, <1>2, <1>3 DEF Next

\* A transaction stays ready when its slots, its buffer and its records stay.
LEMMA ReadyKept ==
  ASSUME TypeOK, WalGrows, NEW id \in TxnIds, ReadyOf(id),
         \A i \in (1..Len(wal')) \ (1..Len(wal)) : wal'[i].type \in Control \cup {"Data"} => wal'[i].txn # id,
         \A key \in Keys : \A v : v.txn = id => (v \in chains'[key].uncommitted <=> v \in chains[key].uncommitted),
         handles'[id] = handles[id], buffers'[id] = buffers[id],
         InCommitOf(id) => InCommitOf(id)', BeforeRecordOf(id)' => BeforeRecordOf(id)
  PROVE  ReadyOf(id)'
<1>0. wal \in Seq(Records) /\ wal' \in Seq(Records) /\ Len(wal) \in Nat /\ Len(wal') \in Nat
  BY DEF TypeOK, WalTypeOK, WalGrows
<1>1. HasData(wal', id) => HasData(wal, id)
  BY DEF HasData, WalGrows
<1>2. \A key \in Keys : OwnsSlot(chains'[key], id) <=> OwnsSlot(chains[key], id)
  BY DEF OwnsSlot
<1>3. ReadyToFlush(id) => ReadyToFlush(id)'
  BY <1>2 DEF ReadyToFlush
<1>4. \A key \in Keys : \A x : Pending(wal, Len(wal), id, key, x) => Pending(wal', Len(wal'), id, key, x)
  <2>1. ASSUME NEW key \in Keys, NEW x, Pending(wal, Len(wal), id, key, x)
        PROVE  Pending(wal', Len(wal'), id, key, x)
    <3>1. \A j \in (Len(wal) + 1)..Len(wal') : j \in (1..Len(wal')) \ (1..Len(wal))
      BY <1>0
    <3>2. QED BY <1>0, <2>1, <3>1, GrowPending DEF WalGrows
  <2>2. QED BY <2>1
<1>5. ReadyToRecord(id) => ReadyToRecord(id)'
  BY <1>2, <1>4 DEF ReadyToRecord
<1> QED BY <1>1, <1>3, <1>5 DEF ReadyOf

\* Transactions a step is not about stay ready.
LEMMA ReadyFrame ==
  ASSUME TypeOK, CallInv, HandleInv, OneSlot, NEW t \in Threads, ThreadStep(t),
         NEW id \in TxnIds, ReadyOf(id), ~Touched(t, id)
  PROVE  ReadyOf(id)'
<1>1. thread'[t].id # id /\ thread[t].id # id /\ handles'[id] = handles[id] /\ buffers'[id] = buffers[id]
  BY DEF Touched
<1>2. \A u \in Threads \ {t} : thread'[u] = thread[u]
  BY ThreadStepMoves, OtherThreads DEF Moves, TypeOK
<1>3. (InCommitOf(id) => InCommitOf(id)') /\ (BeforeRecordOf(id)' => BeforeRecordOf(id))
  BY <1>1, <1>2 DEF InCommitOf, BeforeRecordOf
<1>4. \A i \in (1..Len(wal')) \ (1..Len(wal)) : wal'[i].type \in Control \cup {"Data"} => wal'[i].txn # id
  BY RecordsOwned
<1>5. \A key \in Keys : \A v : v.txn = id => (v \in chains'[key].uncommitted <=> v \in chains[key].uncommitted)
  BY SlotsOwned
<1>6. QED BY <1>1, <1>3, <1>4, <1>5, ReadyKept, ThreadStepGrowsWal

-----------------------------------------------------------------------------
(* The transaction a step is about.                                        *)

\* A new transaction has no record, no write and no slot.
LEMMA BeginReady ==
  ASSUME TypeOK, CallInv, HandleInv, SlotInv, FreshInv, Intact, OneSlot, NEW t \in Threads, ThreadStep(t),
         (\E mode \in ClientModes : BeginWithMode(t, mode)) \/ BeginReadOnlyFast(t),
         NEW id \in TxnIds, ReadyOf(id)
  PROVE  ReadyOf(id)'
<1>0. /\ ThreadTypeOK /\ handles \in [TxnIds -> Handles] /\ wal \in Seq(Records)
      /\ nextTxnId \in Nat /\ TxnIds \subseteq Nat
  BY MaxTxnIdAssumption DEF TypeOK, ClientTypeOK, WalTypeOK, TxnIds
<1>1. PICK d \in TxnIds :
         /\ MayCall(t, d) /\ d = nextTxnId /\ Enter(t, "insert", d)
         /\ handles' = [handles EXCEPT ![d] = "open"] \/ handles' = [handles EXCEPT ![d] = "fast"]
         /\ wal' = wal \/ wal' = Append(wal, TxnBegin(d))
         /\ UNCHANGED <<chains, buffers>>
  BY DEF BeginWithMode, BeginReadOnlyFast, AllocTxnId, Append1
<1>2. thread[t] = Idle /\ thread[t].id # id /\ status = "open"
  BY <1>0, <1>1 DEF MayCall, CallInv, CallShape, Idle, TxnIds
<1>3. /\ thread'[t].id = d /\ thread'[t].at = "insert" /\ thread'[t].return = "idle"
      /\ \A u \in Threads \ {t} : thread'[u] = thread[u]
  BY <1>0, <1>1, EnterLocals
<1>4. CASE id # d
  <2>1. ~Touched(t, id)
    BY <1>0, <1>1, <1>2, <1>3, <1>4 DEF Touched
  <2>2. QED BY <2>1, ReadyFrame
<1>5. CASE id = d
  <2>1. nextTxnId <= d
    BY <1>0, <1>1
  <2>2. handles[d] = "free" /\ buffers[d] = << >> /\ \A u \in Threads : thread[u].id # d
    BY <2>1 DEF HandleInv, HandleOf
  <2>3. ~HasRecord(wal, d)
    BY <1>2, <2>1 DEF FreshInv
  <2>4. ~HasData(wal', d)
    <3>1. ~HasData(wal, d)
      BY <2>3 DEF HasRecord, HasData
    <3>2. CASE wal' = Append(wal, TxnBegin(d))
      <4>1. /\ Len(wal) \in Nat /\ Len(wal') = Len(wal) + 1 /\ wal'[Len(wal) + 1].type = "Begin"
            /\ \A i \in 1..Len(wal) : wal'[i] = wal[i]
        BY <1>0, <3>2 DEF TxnBegin
      <4>2. QED BY <3>1, <4>1 DEF HasData
    <3>3. QED BY <1>1, <3>1, <3>2
  <2>5. ReadyToFlush(d)'
    <3>1. \A key \in Keys : \A v \in chains[key].uncommitted : v.txn # d
      <4>1. ASSUME NEW key \in Keys, NEW v \in chains[key].uncommitted, v.txn = d PROVE FALSE
        <5>1. d < nextTxnId
          BY <4>1 DEF SlotInv, SlotOf
        <5>2. QED BY <1>0, <2>1, <5>1
      <4>2. QED BY <4>1
    <3>2. buffers'[d] = << >>
      BY <1>1, <2>2
    <3>3. QED BY <1>1, <3>1, <3>2 DEF ReadyToFlush
  <2>6. ~BeforeRecordOf(d)'
    BY <1>3, <2>2 DEF BeforeRecordOf, InCommit, Deciding, Decided
  <2>7. QED BY <1>5, <2>4, <2>5, <2>6 DEF ReadyOf
<1> QED BY <1>4, <1>5

\* A write that succeeds is the last of its key in the buffer and in the
\* slot; after one that fails the client does not commit.
LEMMA WriteReady ==
  ASSUME TypeOK, CallInv, HandleInv, OneSlot, AbortsOnError = TRUE, NEW t \in Threads, ThreadStep(t),
         WriteStep(t), NEW id \in TxnIds, ReadyOf(id)
  PROVE  ReadyOf(id)'
<1>0. /\ ThreadTypeOK /\ handles \in [TxnIds -> Handles] /\ buffers \in [TxnIds -> Seq(DataRecords)]
  BY DEF TypeOK, ClientTypeOK
<1>1. PICK d \in TxnIds, k \in Keys, value \in StoredValues : WriteKey(t, d, k, value)
  BY DEF WriteStep, Write, Delete, StoredValues
<1>2. /\ MayCall(t, d) /\ handles[d] = "open" /\ UNCHANGED <<wal, thread>>
      /\ buffers' = [buffers EXCEPT ![d] = Append(@, Data(d, k, value))]
      /\ \A i \in TxnIds \ {d} : handles'[i] = handles[i]
  BY <1>0, <1>1 DEF WriteKey, walVars
<1>3. \A u \in Threads : thread[u].id # d
  BY <1>2 DEF MayCall
<1>4. CASE id # d
  <2>1. ~Touched(t, id)
    <3>1. thread[t].id = 0 /\ thread'[t].id = 0 /\ 0 # id
      BY <1>2 DEF MayCall, CallInv, CallShape, Idle, TxnIds
    <3>2. QED BY <1>0, <1>2, <1>4, <3>1 DEF Touched
  <2>2. QED BY <2>1, ReadyFrame
<1>5. CASE id = d
  <2>1. ~InCommitOf(d) /\ ~BeforeRecordOf(d)'
    BY <1>2, <1>3 DEF InCommitOf, BeforeRecordOf
  <2>2. ~HasData(wal', d) /\ ReadyToFlush(d)
    BY <1>2, <1>5, <2>1 DEF ReadyOf
  <2>3. ASSUME handles'[d] = "open" PROVE ReadyToFlush(d)'
    <3>1. /\ \A q \in Keys \ {k} : chains'[q] = chains[q]
          /\ chains'[k].uncommitted = {[value |-> value, txn |-> d, ts |-> 0]}
      BY <1>1, <2>3, WriteSlots
    <3>2. PICK b \in Seq(DataRecords) : b = buffers[d]
      BY <1>0
    <3>3. PICK c \in Seq(DataRecords) : c = buffers'[d] /\ c = Append(b, Data(d, k, value))
      <4>1. Data(d, k, value) \in DataRecords
        BY DEF Data, DataRecords, WalValue, WalValues, StoredValues
      <4>2. buffers'[d] = Append(b, Data(d, k, value))
        BY <1>0, <1>2, <3>2
      <4>3. Append(b, Data(d, k, value)) \in Seq(DataRecords)
        BY <4>1
      <4>4. QED BY <4>2, <4>3, Zenon
    <3>4. /\ Len(b) \in Nat /\ Len(c) = Len(b) + 1
          /\ \A i \in 1..Len(b) : c[i] = b[i]
          /\ c[Len(b) + 1] = Data(d, k, value)
      BY <3>3
    <3>5. c[Len(b) + 1].key = k /\ c[Len(b) + 1].value = WalValue(value)
      BY <3>4 DEF Data
    <3>6. LastIn(c, k, WalValue(value))
      BY <3>4, <3>5 DEF LastIn
    <3>7. ASSUME NEW key \in Keys \ {k}
          PROVE  /\ \A x : LastIn(b, key, x) => LastIn(c, key, x)
                 /\ (\A i \in 1..Len(b) : b[i].key # key) => (\A i \in 1..Len(c) : c[i].key # key)
      BY <3>4, <3>5 DEF LastIn
    <3>8. ASSUME NEW key \in Keys
          PROVE  /\ \A v \in chains'[key].uncommitted : v.txn = d => LastIn(c, key, WalValue(v.value))
                 /\ ~OwnsSlot(chains'[key], d) => \A i \in 1..Len(c) : c[i].key # key
      <4>1. CASE key = k
        <5>1. PICK new : new = [value |-> value, txn |-> d, ts |-> 0]
          OBVIOUS
        <5>2. chains'[k].uncommitted = {new} /\ new.value = value /\ new.txn = d
          BY <3>1, <5>1
        <5>3. QED BY <3>6, <4>1, <5>2, Zenon DEF OwnsSlot
      <4>2. CASE key # k
        BY <2>2, <3>1, <3>2, <3>7, <4>2 DEF ReadyToFlush
      <4>3. QED BY <4>1, <4>2
    <3>9. QED BY <3>3, <3>8 DEF ReadyToFlush
  <2>4. QED BY <1>5, <2>1, <2>2, <2>3 DEF ReadyOf
<1> QED BY <1>4, <1>5

\* The flush puts the slots of the transaction, and nothing else of it, into
\* the log.
LEMMA FlushReady ==
  ASSUME TypeOK, CallInv, HandleInv, OneSlot, NEW t \in Threads, ThreadStep(t),
         NEW d \in TxnIds, CommitFlush(t, d), NEW id \in TxnIds, ReadyOf(id)
  PROVE  ReadyOf(id)'
<1>0. /\ ThreadTypeOK /\ handles \in [TxnIds -> Handles] /\ buffers \in [TxnIds -> Seq(DataRecords)]
      /\ wal \in Seq(Records)
  BY DEF TypeOK, ClientTypeOK, WalTypeOK
<1>1. /\ MayCall(t, d) /\ handles[d] = "open" /\ UNCHANGED <<handles, chains>>
      /\ wal' = wal \o buffers[d] /\ buffers' = [buffers EXCEPT ![d] = << >>]
      /\ Enter(t, "validate", d)
  BY DEF CommitFlush
<1>2. /\ thread'[t].id = d /\ thread'[t].at = "validate"
      /\ \A u \in Threads \ {t} : thread'[u] = thread[u]
  BY <1>0, <1>1, EnterLocals
<1>3. CASE id # d
  <2>1. ~Touched(t, id)
    <3>1. thread[t].id = 0 /\ 0 # id
      BY <1>1 DEF MayCall, CallInv, CallShape, Idle, TxnIds
    <3>2. QED BY <1>0, <1>1, <1>2, <1>3, <3>1 DEF Touched
  <2>2. QED BY <2>1, ReadyFrame
<1>4. CASE id = d
  <2>1. ~InCommitOf(d)
    BY <1>1 DEF InCommitOf, MayCall
  <2>2. ~HasData(wal, d) /\ ReadyToFlush(d)
    BY <1>1, <1>4, <2>1 DEF ReadyOf
  <2>3. \A i \in 1..Len(buffers[d]) : buffers[d][i].txn = d
    BY DEF HandleInv, HandleOf
  <2>4. ASSUME NEW key \in Keys
        PROVE  /\ \A x : LastIn(buffers[d], key, x) => Pending(wal', Len(wal'), d, key, x)
               /\ (\A i \in 1..Len(buffers[d]) : buffers[d][i].key # key) =>
                     Pending(wal', Len(wal'), d, key, NoWrite)
    BY <1>0, <1>1, <2>2, <2>3, FlushPending
  <2>5. ReadyToRecord(d)'
    BY <1>1, <2>2, <2>4 DEF ReadyToFlush, ReadyToRecord
  <2>6. InCommitOf(d)'
    BY <1>2 DEF InCommitOf, InCommit, Deciding
  <2>7. QED BY <1>4, <2>5, <2>6 DEF ReadyOf
<1> QED BY <1>3, <1>4

\* Nothing is left to say of a transaction whose commit record is logged or
\* whose handle was given up.
LEMMA SettledReady ==
  ASSUME NEW id \in TxnIds, (InCommitOf(id) \/ handles[id] \in {"free", "dead"})', ~BeforeRecordOf(id)'
  PROVE  ReadyOf(id)'
  BY DEF ReadyOf

\* The steps between them change nothing a transaction's readiness rests on.
LEMMA StillReady ==
  ASSUME TypeOK, CallInv, HandleInv, NEW t \in Threads, ThreadStep(t),
         \/ UpdateMinStep(t) \/ ReadStep(t) \/ MaintenanceStep(t) \/ BeginInsert(t)
         \/ CommitValidate(t) \/ CommitRevalidate(t) \/ CommitAllocTs(t)
         \/ CommitTrack(t) \/ GroupSync(t) \/ CommitSync(t),
         NEW id \in TxnIds, ReadyOf(id)
  PROVE  ReadyOf(id)'
<1>0. ThreadTypeOK /\ wal \in Seq(Records) /\ Len(wal) \in Nat
  BY DEF TypeOK, WalTypeOK
<1>1. UNCHANGED <<handles, buffers>> /\ (wal' = wal \/ wal' = Append(wal, CheckpointRecord))
  BY DEF UpdateMinStep, UpdateMinScan, UpdateMinStore, ReadStep, Read, MaintenanceStep, GcLoad,
         GcSweep, Checkpoint, AppendSync, BeginInsert, CommitValidate, CommitRevalidate,
         CommitAllocTs, CommitTrack, GroupSync, CommitSync, walVars, storageVars
<1>2. \A i \in (1..Len(wal')) \ (1..Len(wal)) : wal'[i].type \in Control \cup {"Data"} => wal'[i].txn # id
  <2>1. CASE wal' = Append(wal, CheckpointRecord)
    <3>1. Len(wal') = Len(wal) + 1 /\ wal'[Len(wal) + 1].type = "Checkpoint"
      BY <1>0, <2>1 DEF CheckpointRecord
    <3>2. QED BY <1>0, <3>1 DEF Control
  <2>2. QED BY <1>1, <2>1
<1>3. ~WriteStep(t) /\ ~CommitPublish(t) /\ ~AbortStep(t)
  <2>1. ~WriteStep(t)
    <3>1. ASSUME WriteStep(t) PROVE FALSE
      <4>1. PICK d \in TxnIds, k \in Keys, value \in StoredValues : WriteKey(t, d, k, value)
        BY <3>1 DEF WriteStep, Write, Delete, StoredValues
      <4>2. buffers'[d] = Append(buffers[d], Data(d, k, value)) /\ buffers[d] \in Seq(DataRecords)
        BY <4>1 DEF WriteKey, TypeOK, ClientTypeOK
      <4>3. Len(Append(buffers[d], Data(d, k, value))) = Len(buffers[d]) + 1 /\ Len(buffers[d]) \in Nat
        BY <4>2
      <4>4. QED BY <1>1, <4>2, <4>3
    <3>2. QED BY <3>1
  <2>2. ~AbortStep(t)
    <3>1. ASSUME AbortStep(t) PROVE FALSE
      <4>1. PICK d \in TxnIds : Abort(t, d) \/ AbortReadOnlyFast(t, d)
        BY <3>1 DEF AbortStep
      <4>2. handles' = [handles EXCEPT ![d] = "free"]
        BY <4>1, Zenon DEF Abort, AbortReadOnlyFast
      <4>3. handles[d] # "free"
        BY <4>1, SMT DEF Abort, AbortReadOnlyFast
      <4>4. QED BY <1>1, <4>2, <4>3 DEF TypeOK, ClientTypeOK
    <3>2. QED BY <3>1
  <2>3. ~CommitPublish(t)
    <3>1. ASSUME CommitPublish(t) PROVE FALSE
      <4>1. thread[t].at = "publish" /\ \E key \in thread[t].todo : Become(t, [thread[t] EXCEPT !.todo = @ \ {key}])
        BY <3>1 DEF CommitPublish, In
      <4>2. PICK key \in thread[t].todo : Become(t, [thread[t] EXCEPT !.todo = @ \ {key}])
        BY <4>1
      <4>3. thread'[t].todo # thread[t].todo
        BY <1>0, <4>2, OtherThreads, LocalsOf DEF Locals
      <4>4. ReadStep(t) \/ MaintenanceStep(t)
        BY <4>1 DEF UpdateMinStep, UpdateMinScan, UpdateMinStore, BeginInsert, CommitValidate,
                    CommitRevalidate, CommitAllocTs, CommitTrack, GroupSync, CommitSync, In
      <4>5. QED
        BY <4>1, <4>3, <4>4 DEF ReadStep, Read, MayCall, MaintenanceStep, GcLoad, GcSweep, Checkpoint, In
    <3>2. QED BY <3>1
  <2>4. QED BY <2>1, <2>2, <2>3
<1>4. \A key \in Keys : chains'[key].uncommitted = chains[key].uncommitted
  BY <1>3, SlotsUnchanged
<1>5. \A u \in Threads \ {t} : thread'[u] = thread[u]
  BY <1>0, ThreadStepMoves, OtherThreads DEF Moves
<1>6. /\ InCommit(thread[t]) => InCommit(thread'[t]) /\ thread'[t].id = thread[t].id
      /\ InCommit(thread'[t]) /\ ~Recorded(thread'[t]) =>
            InCommit(thread[t]) /\ ~Recorded(thread[t]) /\ thread'[t].id = thread[t].id
  <2>1. CASE BeginInsert(t)
    <3>1. thread[t].at = "insert" /\ UpdateMinThen(t, "idle")
      BY <2>1 DEF BeginInsert, In
    <3>2. thread'[t].at = "minScan" /\ thread'[t].return = "idle"
      BY <1>0, <3>1, MinThenLocals
    <3>3. QED BY <3>1, <3>2 DEF CallInv, CallShape, InCommit, Deciding, Decided
  <2>2. CASE CommitTrack(t)
    <3>1. PICK new : /\ new = [thread[t] EXCEPT !.at = "minScan", !.return = "commitRecord",
                                                !.todo = txn[thread[t].id].writes]
                     /\ Become(t, new)
      BY <2>2 DEF CommitTrack
    <3>2. thread'[t].at = "minScan" /\ thread'[t].return = "commitRecord" /\ thread'[t].id = thread[t].id
      <4>1. thread'[t] = new
        BY <1>0, <3>1, OtherThreads
      <4>2. new.at = "minScan" /\ new.return = "commitRecord" /\ new.id = thread[t].id
        BY <1>0, <3>1, LocalsOf DEF Locals
      <4>3. QED BY <4>1, <4>2
    <3>3. thread[t].at = "track"
      BY <2>2 DEF CommitTrack, In
    <3>4. QED BY <3>2, <3>3 DEF InCommit, Deciding, Decided, Recorded
  <2>3. CASE ~BeginInsert(t) /\ ~CommitTrack(t)
    <3>1. SamePhase(thread[t], thread'[t])
      BY <2>3, QuietSteps DEF Quiet
    <3>2. Recorded(thread[t]) => Recorded(thread'[t])
      <4>1. ASSUME CommitDone(t) \/ CommitSyncFails(t), Recorded(thread[t]) PROVE FALSE
        <5>1. thread'[t] = Idle
          BY <1>0, <4>1, OtherThreads DEF CommitDone, CommitSyncFails, Return
        <5>2. Decided(thread[t])
          BY <4>1 DEF CallInv, CallShape, Recorded
        <5>3. QED BY <3>1, <5>1, <5>2 DEF SamePhase, Decided, Idle
      <4>2. QED BY <4>1, RecordedStays
    <3>3. QED BY <3>1, <3>2 DEF SamePhase, InCommit
  <2>4. QED BY <2>1, <2>2, <2>3
<1>7. (InCommitOf(id) => InCommitOf(id)') /\ (BeforeRecordOf(id)' => BeforeRecordOf(id))
  BY <1>5, <1>6 DEF InCommitOf, BeforeRecordOf
<1>8. QED
  BY <1>1, <1>2, <1>4, <1>7, ReadyKept, ThreadStepGrowsWal

\* The end of a transaction.
LEMMA EndReady ==
  ASSUME TypeOK, CallInv, HandleInv, OneSlot, NEW t \in Threads, ThreadStep(t),
         \/ CommitRefused(t) \/ CommitRecord(t) \/ CommitPublish(t) \/ CommitDone(t) \/ CommitSyncFails(t)
         \/ AbortStep(t),
         NEW id \in TxnIds, ReadyOf(id)
  PROVE  ReadyOf(id)'
<1>0. ThreadTypeOK /\ handles \in [TxnIds -> Handles] /\ buffers \in [TxnIds -> Seq(DataRecords)]
  BY DEF TypeOK, ClientTypeOK
<1>1. \A u \in Threads \ {t} : thread'[u] = thread[u]
  BY <1>0, ThreadStepMoves, OtherThreads DEF Moves
<1>2. CASE AbortStep(t)
  <2>1. PICK d \in TxnIds : Abort(t, d) \/ AbortReadOnlyFast(t, d)
    BY <1>2 DEF AbortStep
  <2>2. /\ MayCall(t, d) /\ UpdateMinThen(t, "idle") /\ handles' = [handles EXCEPT ![d] = "free"]
        /\ \A i \in TxnIds \ {d} : buffers'[i] = buffers[i]
    BY <1>0, <2>1 DEF Abort, AbortReadOnlyFast
  <2>3. thread[t].id = 0 /\ thread'[t].id = 0 /\ 0 \notin TxnIds
    BY <1>0, <2>2, MinThenLocals DEF MayCall, CallInv, CallShape, Idle, TxnIds
  <2>4. CASE id = d
    <3>1. \A u \in Threads : thread'[u].id # d
      BY <1>1, <2>2, <2>3 DEF MayCall
    <3>2. ~BeforeRecordOf(id)' /\ handles'[id] = "free"
      BY <1>0, <2>2, <2>4, <3>1 DEF BeforeRecordOf
    <3>3. QED BY <3>2, SettledReady
  <2>5. CASE id # d
    <3>1. ~Touched(t, id)
      BY <1>0, <2>2, <2>3, <2>5 DEF Touched
    <3>2. QED BY <3>1, ReadyFrame
  <2>6. QED BY <2>4, <2>5
<1>3. CASE ~AbortStep(t)
  <2>1. /\ thread[t].at \in TxnLabels /\ buffers' = buffers
        /\ handles' = handles \/ (CommitRefused(t) /\ handles' = [handles EXCEPT ![thread[t].id] = "dead"])
                              \/ (CommitDone(t) /\ handles' = [handles EXCEPT ![thread[t].id] = "free"])
                              \/ (CommitSyncFails(t) /\ handles' = [handles EXCEPT ![thread[t].id] = "dead"])
    BY <1>3 DEF CommitRefused, CommitRecord, CommitPublish, CommitDone, CommitSyncFails, In, TxnLabels, Labels
  <2>2. PICK d \in TxnIds : d = thread[t].id
    BY <1>0, <2>1 DEF ThreadTypeOK, HasTxn
  <2>3. /\ thread'[t].id \in {0, d} /\ (InCommit(thread'[t]) => Recorded(thread'[t]) /\ thread'[t].id = d)
        /\ InCommit(thread'[t]) \/ CommitRefused(t) \/ CommitDone(t) \/ CommitSyncFails(t)
    <3>1. CASE CommitRefused(t)
      BY <1>0, <2>2, <3>1, MinThenLocals DEF CommitRefused, InCommit, Deciding, Decided
    <3>2. CASE CommitRecord(t)
      <4>1. thread[t].at = "commitRecord" /\ Goto(t, "sync")
        BY <3>2 DEF CommitRecord, In
      <4>2. thread'[t].at = "sync" /\ thread'[t].return = thread[t].return /\ thread'[t].id = thread[t].id
        BY <1>0, <4>1, GotoLocals
      <4>3. QED BY <2>2, <4>1, <4>2 DEF CallInv, CallShape, InCommit, Decided, Recorded
    <3>3. CASE CommitPublish(t)
      <4>1. PICK key \in thread[t].todo : Become(t, [thread[t] EXCEPT !.todo = @ \ {key}])
        BY <3>3 DEF CommitPublish
      <4>2. /\ thread'[t].at = thread[t].at /\ thread'[t].return = thread[t].return
            /\ thread'[t].id = thread[t].id
        BY <1>0, <4>1, LocalsOf, OtherThreads DEF Locals
      <4>3. thread[t].at = "publish"
        BY <3>3 DEF CommitPublish, In
      <4>4. QED BY <2>2, <4>2, <4>3 DEF CallInv, CallShape, InCommit, Decided, Recorded
    <3>4. CASE CommitDone(t) \/ CommitSyncFails(t)
      <4>1. thread'[t] = Idle
        BY <1>0, <3>4, OtherThreads DEF CommitDone, CommitSyncFails, Return
      <4>2. QED BY <3>4, <4>1 DEF Idle, InCommit, Deciding, Decided
    <3>5. QED BY <1>3, <3>1, <3>2, <3>3, <3>4
  <2>4. CASE id = d
    <3>1. \A u \in Threads \ {t} : thread'[u].id # d
      <4>1. d # 0
        BY DEF TxnIds
      <4>2. QED BY <1>1, <2>2, <4>1 DEF CallInv
    <3>2. ~BeforeRecordOf(id)'
      BY <2>3, <2>4, <3>1 DEF BeforeRecordOf
    <3>3. InCommitOf(id)' \/ handles'[id] \in {"free", "dead"}
      <4>1. CASE InCommit(thread'[t])
        BY <2>3, <2>4, <4>1 DEF InCommitOf
      <4>2. CASE CommitRefused(t)
        BY <1>0, <2>2, <2>4, <4>2 DEF CommitRefused
      <4>3. CASE CommitDone(t) \/ CommitSyncFails(t)
        BY <1>0, <2>2, <2>4, <4>3 DEF CommitDone, CommitSyncFails
      <4>4. QED BY <2>3, <4>1, <4>2, <4>3
    <3>4. QED BY <3>2, <3>3, SettledReady
  <2>5. CASE id # d
    <3>1. ~Touched(t, id)
      <4>1. 0 \notin TxnIds
        BY DEF TxnIds
      <4>2. QED BY <1>0, <2>1, <2>2, <2>3, <2>5, <4>1 DEF Touched
    <3>2. QED BY <3>1, ReadyFrame
  <2>6. QED BY <2>4, <2>5
<1> QED BY <1>2, <1>3

\* Every transaction stays ready.
LEMMA NextReady ==
  ASSUME TypeOK, CallInv, HandleInv, SlotInv, FreshInv, AbortsOnError = TRUE, OneSlot, ReadyInv, [Next]_vars
  PROVE  ReadyInv'
<1> SUFFICES ASSUME Intact', NEW id \in TxnIds PROVE ReadyOf(id)'
  BY DEF ReadyInv
<1>1. CASE UNCHANGED vars
  <2>1. ReadyOf(id)
    BY <1>1 DEF vars, walVars, Intact, ReadyInv
  <2>2. QED
    BY <1>1, <2>1
    DEF vars, walVars, storageVars, ReadyOf, InCommitOf, BeforeRecordOf, ReadyToFlush, ReadyToRecord
<1>2. ASSUME NEW t \in Threads, ThreadStep(t) PROVE ReadyOf(id)'
  <2>0. Intact /\ ReadyOf(id)
    BY <1>2, ThreadStepGrowsWal DEF WalGrows, Intact, ReadyInv, TypeOK, WalTypeOK
  <2>1. CASE (\E mode \in ClientModes : BeginWithMode(t, mode)) \/ BeginReadOnlyFast(t)
    BY <1>2, <2>0, <2>1, BeginReady
  <2>2. CASE WriteStep(t)
    BY <1>2, <2>0, <2>2, WriteReady
  <2>3. ASSUME NEW d \in TxnIds, CommitFlush(t, d) PROVE ReadyOf(id)'
    BY <1>2, <2>0, <2>3, FlushReady
  <2>4. CASE CommitRefused(t) \/ CommitRecord(t) \/ CommitPublish(t) \/ CommitDone(t) \/ AbortStep(t)
    BY <1>2, <2>0, <2>4, EndReady
  <2>5. CASE \/ UpdateMinStep(t) \/ ReadStep(t) \/ MaintenanceStep(t) \/ BeginInsert(t)
             \/ CommitValidate(t) \/ CommitRevalidate(t) \/ CommitAllocTs(t)
             \/ CommitTrack(t) \/ GroupSync(t) \/ CommitSync(t)
    BY <1>2, <2>0, <2>5, StillReady
  <2>6. CASE CommitSyncFails(t)
    BY <1>2, <2>0, <2>6, EndReady
  <2>7. QED
    BY <1>2, <2>1, <2>2, <2>3, <2>4, <2>5, <2>6, Zenon DEF ThreadStep, BeginStep, CommitStep
<1>3. ASSUME RestartStep PROVE ReadyOf(id)'
  <2>1. /\ thread' = [t \in Threads |-> Idle] \/ (status # "open" /\ thread' = thread)
        /\ handles' = [i \in TxnIds |-> "free"] \/ (status # "open" /\ handles' = handles)
    BY <1>3 DEF RestartStep, Crash, Shutdown, Forget, Open, ReplayRecord, FinishRecover, storageVars
  <2>2. (\A u \in Threads : thread'[u] = Idle) /\ handles'[id] = "free"
    BY <2>1 DEF CallInv, Closed
  <2>3. ~BeforeRecordOf(id)'
    BY <2>2 DEF BeforeRecordOf, InCommit, Deciding, Decided, Idle
  <2>4. QED BY <2>2, <2>3, SettledReady
<1> QED BY <1>1, <1>2, <1>3 DEF Next

-----------------------------------------------------------------------------
(* Keys.                                                                   *)

\* Which calls are past their commit record, before and after a step.
LEMMA RecordedThreads ==
  ASSUME TypeOK, CallInv, NEW t \in Threads, ThreadStep(t), ~CommitRecord(t), NEW u \in Threads
  PROVE  /\ Recorded(thread'[u]) => Recorded(thread[u]) /\ thread[u].id = thread'[u].id
         /\ Recorded(thread[u]) =>
               \/ Recorded(thread'[u]) /\ thread'[u].id = thread[u].id
               \/ u = t /\ (CommitDone(t) \/ CommitSyncFails(t))
<1>0. ThreadTypeOK
  BY DEF TypeOK
<1>1. \A w \in Threads \ {t} : thread'[w] = thread[w]
  BY <1>0, ThreadStepMoves, OtherThreads DEF Moves
<1>2. Recorded(thread'[t]) => Recorded(thread[t]) /\ thread[t].id = thread'[t].id
  <2>1. CASE Fades(t, thread'[t])
    BY <2>1 DEF Fades, Recorded, Committing
  <2>2. CASE CommitAllocTs(t)
    <3>1. PICK new : new = [thread[t] EXCEPT !.at = "track", !.ts = tsCounter] /\ Become(t, new)
      BY <2>2 DEF CommitAllocTs
    <3>2. thread'[t] = new
      BY <1>0, <3>1, OtherThreads
    <3>3. new.at = "track"
      BY <1>0, <3>1, LocalsOf DEF Locals
    <3>4. QED BY <3>2, <3>3 DEF Recorded
  <2>3. QED BY <2>1, <2>2, ThreadStepMoves
<1>3. QED BY <1>1, <1>2, RecordedStays

\* The slot of a transaction that is in a call changes by publication only.
LEMMA SlotsInUse ==
  ASSUME TypeOK, OneSlot, NEW t \in Threads, ThreadStep(t), ~CommitPublish(t), NEW key \in Keys,
         NEW v, NEW u \in Threads, thread[u].id = v.txn
  PROVE  v \in chains'[key].uncommitted <=> v \in chains[key].uncommitted
<1>0. chains \in [Keys -> Chains(StoredValues, Nat)]
  BY DEF TypeOK, MemTableTypeOK
<1>1. CASE WriteStep(t)
  <2>1. PICK d \in TxnIds, k \in Keys, value \in StoredValues : WriteKey(t, d, k, value)
    BY <1>1 DEF WriteStep, Write, Delete, StoredValues
  <2>2. v.txn # d
    BY <2>1 DEF WriteKey, MayCall
  <2>3. QED BY <2>1, <2>2, WriteSlots
<1>2. CASE AbortStep(t)
  <2>1. PICK d \in TxnIds : Abort(t, d) \/ AbortReadOnlyFast(t, d)
    BY <1>2 DEF AbortStep
  <2>2. /\ chains' = chains \/ chains' = [k \in Keys |-> AbortVersion(chains[k], d)]
        /\ MayCall(t, d)
    BY <2>1, Zenon DEF Abort, AbortReadOnlyFast
  <2>3. v.txn # d
    BY <2>2 DEF MayCall
  <2>4. QED BY <1>0, <2>2, <2>3 DEF AbortVersion, Chains
<1>3. CASE ~WriteStep(t) /\ ~AbortStep(t)
  BY <1>3, SlotsUnchanged
<1> QED BY <1>1, <1>2, <1>3

\* The newest version changes by publication only.
LEMMA CommittedKept ==
  ASSUME TypeOK, NEW t \in Threads, ThreadStep(t), ~CommitPublish(t), NEW key \in Keys,
         NEW x, NewestIs(chains[key].committed, x)
  PROVE  NewestIs(chains'[key].committed, x)
<1>1. \A v \in chains[key].committed : v.ts \in Nat
  BY DEF TypeOK, MemTableTypeOK, Chains
<1>2. CASE chains[key].committed = {} /\ x = NoWrite
  <2>1. chains'[key].committed = {}
    BY <1>2, MaximalKept
  <2>2. QED BY <1>2, <2>1 DEF NewestIs
<1>3. ASSUME NEW v \in chains[key].committed, x = WalValue(v.value),
             \A w \in chains[key].committed : w = v \/ w.ts < v.ts
      PROVE  NewestIs(chains'[key].committed, x)
  <2>1. \A w \in chains[key].committed : w.ts <= v.ts
    BY <1>1, <1>3
  <2>2. v \in chains'[key].committed /\ chains'[key].committed \subseteq chains[key].committed
    BY <2>1, MaximalKept
  <2>3. QED BY <1>3, <2>2 DEF NewestIs
<1> QED BY <1>2, <1>3 DEF NewestIs

\* A key stays live when the log, its newest version and its slot stay.
LEMMA LiveKept ==
  ASSUME TypeOK, WalGrows, NEW key \in Keys, KeyLive(key),
         \A i \in (1..Len(wal')) \ (1..Len(wal)) : wal'[i].type # "Commit",
         \A u \in Threads : \A v \in chains'[key].uncommitted :
            Recorded(thread'[u]) /\ v.txn = thread'[u].id =>
               Recorded(thread[u]) /\ thread[u].id = thread'[u].id /\ v \in chains[key].uncommitted,
         \A x : NewestIs(chains[key].committed, x) => NewestIs(chains'[key].committed, x),
         Publishing(key) => Publishing(key)'
  PROVE  KeyLive(key)'
<1>0. wal \in Seq(Records) /\ wal' \in Seq(Records) /\ Len(wal) \in Nat /\ Len(wal') \in Nat
  BY DEF TypeOK, WalTypeOK, WalGrows
<1>1. ASSUME NEW x, Logged(wal, Len(wal), key, x) PROVE Logged(wal', Len(wal'), key, x)
  <2>1. \A j \in (Len(wal) + 1)..Len(wal') : wal'[j] \in Records /\ wal'[j].type # "Commit"
    BY <1>0
  <2>2. \A j \in (Len(wal) + 1)..Len(wal') : \A id : wal'[j] # TxnCommit(id)
    BY <2>1, RecordCases
  <2>3. QED BY <1>0, <1>1, <2>2, GrowLogged DEF WalGrows
<1>2. ASSUME NEW u \in Threads, NEW v \in chains'[key].uncommitted, Recorded(thread'[u]), v.txn = thread'[u].id
      PROVE  Logged(wal', Len(wal'), key, WalValue(v.value))
  <2>1. Recorded(thread[u]) /\ thread[u].id = v.txn /\ v \in chains[key].uncommitted
    BY <1>2
  <2>2. Logged(wal, Len(wal), key, WalValue(v.value))
    BY <2>1 DEF KeyLive
  <2>3. QED BY <1>1, <2>2
<1>3. PICK x \in WalValues \cup {NoWrite} :
        NewestIs(chains[key].committed, x) /\ (~Publishing(key) => Logged(wal, Len(wal), key, x))
  BY DEF KeyLive
<1>4. NewestIs(chains'[key].committed, x) /\ (~Publishing(key)' => Logged(wal', Len(wal'), key, x))
  BY <1>1, <1>3
<1>5. QED BY <1>2, <1>4 DEF KeyLive

\* Calls that neither log a commit record nor publish keep every key live.
LEMMA OtherStepsLive ==
  ASSUME TypeOK, CallInv, HandleInv, SlotInv, OneSlot, IntactStorage, NEW t \in Threads, ThreadStep(t),
         ~CommitRecord(t), ~CommitPublish(t), NEW key \in Keys, KeyLive(key)
  PROVE  KeyLive(key)'
<1>1. \A i \in (1..Len(wal')) \ (1..Len(wal)) : wal'[i].type # "Commit"
  BY ThreadStepAdds DEF Adds
<1>2. ASSUME NEW u \in Threads, NEW v \in chains'[key].uncommitted, Recorded(thread'[u]), v.txn = thread'[u].id
      PROVE  Recorded(thread[u]) /\ thread[u].id = thread'[u].id /\ v \in chains[key].uncommitted
  <2>1. Recorded(thread[u]) /\ thread[u].id = thread'[u].id
    BY <1>2, RecordedThreads
  <2>2. QED BY <1>2, <2>1, SlotsInUse
<1>3. \A x : NewestIs(chains[key].committed, x) => NewestIs(chains'[key].committed, x)
  BY CommittedKept
<1>4. ASSUME Publishing(key) PROVE Publishing(key)'
  <2>1. PICK u \in Threads : Recorded(thread[u]) /\ OwnsSlot(chains[key], thread[u].id)
    BY <1>4 DEF Publishing
  <2>2. PICK v \in chains[key].uncommitted : v.txn = thread[u].id
    BY <2>1 DEF OwnsSlot
  <2>3. ~(u = t /\ CommitDone(t))
    <3>1. ASSUME u = t, CommitDone(t) PROVE FALSE
      <4>1. thread[t].at = "publish" /\ thread[t].todo = {}
        BY <3>1 DEF CommitDone, In
      <4>2. Decided(thread[t])
        BY <4>1 DEF CallInv, CallShape
      <4>3. key \in thread[t].todo
        BY <2>2, <3>1, <4>2 DEF SlotInv, SlotOf
      <4>4. QED BY <4>1, <4>3
    <3>2. QED BY <3>1
  <2>4. Recorded(thread'[u]) /\ thread'[u].id = thread[u].id
    BY <2>1, <2>3, RecordedThreads DEF IntactStorage, CommitSyncFails
  <2>5. v \in chains'[key].uncommitted
    BY <2>2, SlotsInUse
  <2>6. QED BY <2>2, <2>4, <2>5 DEF Publishing, OwnsSlot
<1>5. QED
  BY <1>1, <1>2, <1>3, <1>4, LiveKept, ThreadStepGrowsWal

\* The commit record puts the slots of its transaction into effect.
LEMMA RecordLive ==
  ASSUME TypeOK, CallInv, OneSlot, \A id \in TxnIds : ReadyOf(id), NEW t \in Threads, CommitRecord(t),
         NEW key \in Keys, KeyLive(key)
  PROVE  KeyLive(key)'
<1>0. /\ ThreadTypeOK /\ wal \in Seq(Records) /\ chains \in [Keys -> Chains(StoredValues, Nat)]
  BY DEF TypeOK, WalTypeOK, MemTableTypeOK
<1>1. /\ thread[t].at = "commitRecord" /\ UNCHANGED chains /\ Goto(t, "sync")
      /\ wal' = Append(wal, TxnCommit(thread[t].id))
  BY DEF CommitRecord, In, Append1
<1>2. PICK d \in TxnIds : d = thread[t].id /\ d # 0
  BY <1>0, <1>1 DEF ThreadTypeOK, HasTxn, TxnLabels, Labels, TxnIds
<1>3. /\ thread'[t].at = "sync" /\ thread'[t].id = d
      /\ \A u \in Threads \ {t} : thread'[u] = thread[u] /\ thread[u].id # d
  <2>1. /\ thread'[t].at = "sync" /\ thread'[t].id = d
        /\ \A u \in Threads \ {t} : thread'[u] = thread[u]
    BY <1>0, <1>1, <1>2, GotoLocals
  <2>2. QED BY <1>2, <2>1 DEF CallInv
<1>4. ~Recorded(thread[t]) /\ Recorded(thread'[t])
  BY <1>1, <1>3 DEF Recorded
<1>5. ReadyToRecord(d)
  <2>1. BeforeRecordOf(d)
    BY <1>1, <1>2, <1>4 DEF BeforeRecordOf, InCommit, CallInv, CallShape
  <2>2. QED BY <2>1 DEF ReadyOf
<1>6. PICK n \in Nat : n = Len(wal) /\ Len(wal') = n + 1 /\ wal'[n + 1] = TxnCommit(d)
                       /\ \A i \in 1..n : wal'[i] = wal[i] /\ wal[i] \in Records
  BY <1>0, <1>1, <1>2
<1>7. \A i \in 1..n : wal'[i].type = "Data" => wal'[i].value # NoWrite
  BY <1>6, RecordCases
<1>8. ASSUME NEW x, NEW y, Logged(wal, n, key, x), Pending(wal, n, d, key, y)
      PROVE  Logged(wal', n + 1, key, IF y = NoWrite THEN x ELSE y)
  <2>1. Logged(wal', n, key, x) /\ Pending(wal', n, d, key, y)
    BY <1>6, <1>8, SamePrefix
  <2>2. QED BY <1>6, <1>7, <2>1, LoggedCommit
<1>9. PICK x \in WalValues \cup {NoWrite} :
        NewestIs(chains[key].committed, x) /\ (~Publishing(key) => Logged(wal, n, key, x))
  BY <1>6 DEF KeyLive
<1>10. CASE OwnsSlot(chains[key], d)
  <2>1. PICK v \in chains[key].uncommitted : v.txn = d
    BY <1>10 DEF OwnsSlot
  <2>2. \A w \in chains[key].uncommitted : w = v
    BY <2>1 DEF OneSlot
  <2>3. ~Publishing(key)
    BY <1>2, <1>3, <1>4, <2>1, <2>2 DEF Publishing, OwnsSlot
  <2>4. Pending(wal, n, d, key, WalValue(v.value))
    BY <1>5, <1>6, <2>1 DEF ReadyToRecord
  <2>5. WalValue(v.value) # NoWrite
    <3>1. v.value \in StoredValues
      BY <1>0 DEF Chains
    <3>2. QED BY <3>1, ValuesAssumption DEF StoredValues, WalValue
  <2>6. Logged(wal', n + 1, key, WalValue(v.value))
    BY <1>8, <1>9, <2>3, <2>4, <2>5
  <2>7. Publishing(key)'
    BY <1>1, <1>3, <1>4, <1>10 DEF Publishing
  <2>8. QED BY <1>1, <1>6, <1>9, <2>2, <2>6, <2>7 DEF KeyLive
<1>11. CASE ~OwnsSlot(chains[key], d)
  <2>1. Pending(wal, n, d, key, NoWrite)
    BY <1>5, <1>6, <1>11 DEF ReadyToRecord
  <2>2. \A z : Logged(wal, n, key, z) => Logged(wal', n + 1, key, z)
    BY <1>8, <2>1
  <2>3. Publishing(key) => Publishing(key)'
    BY <1>1, <1>3, <1>4 DEF Publishing
  <2>4. ASSUME NEW u \in Threads, NEW v \in chains'[key].uncommitted, Recorded(thread'[u]), v.txn = thread'[u].id
        PROVE  Logged(wal', n + 1, key, WalValue(v.value))
    <3>1. u # t
      BY <1>1, <1>3, <1>11, <2>4 DEF OwnsSlot
    <3>2. Logged(wal, n, key, WalValue(v.value))
      BY <1>1, <1>3, <1>6, <2>4, <3>1 DEF KeyLive
    <3>3. QED BY <2>2, <3>2
  <2>5. NewestIs(chains'[key].committed, x) /\ (~Publishing(key)' => Logged(wal', Len(wal'), key, x))
    BY <1>1, <1>6, <1>9, <2>2, <2>3
  <2>6. QED BY <1>6, <2>4, <2>5 DEF KeyLive
<1> QED BY <1>10, <1>11

\* Publication makes the slot the newest version.
LEMMA PublishLive ==
  ASSUME TypeOK, CallInv, OrderInv, OneSlot, NEW t \in Threads, CommitPublish(t), NEW key \in Keys, KeyLive(key)
  PROVE  KeyLive(key)'
<1>0. /\ ThreadTypeOK /\ wal \in Seq(Records) /\ chains \in [Keys -> Chains(StoredValues, Nat)]
  BY DEF TypeOK, WalTypeOK, MemTableTypeOK
<1>1. PICK k \in thread[t].todo :
        /\ chains' = [chains EXCEPT ![k] = CommitVersion(@, thread[t].id, thread[t].ts)]
        /\ Become(t, [thread[t] EXCEPT !.todo = @ \ {k}])
        /\ UNCHANGED wal /\ thread[t].at = "publish"
  BY DEF CommitPublish, In, walVars
<1>2. /\ thread'[t].at = thread[t].at /\ thread'[t].id = thread[t].id
      /\ \A u \in Threads \ {t} : thread'[u] = thread[u]
  BY <1>0, <1>1, LocalsOf, OtherThreads DEF Locals
<1>3. \A u \in Threads : (Recorded(thread'[u]) <=> Recorded(thread[u])) /\ thread'[u].id = thread[u].id
  BY <1>2 DEF Recorded
<1>4. CASE chains'[key] = chains[key]
  BY <1>1, <1>3, <1>4 DEF KeyLive, Publishing
<1>5. CASE key = k /\ OwnsSlot(chains[key], thread[t].id)
  <2>1. PICK v \in chains[key].uncommitted : v.txn = thread[t].id
    BY <1>5 DEF OwnsSlot
  <2>2. chains[key].uncommitted = {v}
    BY <2>1 DEF OneSlot
  <2>3. PICK c \in Chains(StoredValues, Nat) : c = chains[key]
    BY <1>0
  <2>4. PICK new : new = [v EXCEPT !.ts = thread[t].ts]
    OBVIOUS
  <2>5. chains'[key] = [committed |-> c.committed \cup {new}, uncommitted |-> {}]
    <3>1. chains'[key] = CommitVersion(c, thread[t].id, thread[t].ts)
      BY <1>0, <1>1, <1>5, <2>3
    <3>2. QED BY <1>5, <2>2, <2>3, <2>4, <3>1 DEF CommitVersion
  <2>6. new.ts = thread[t].ts /\ new.value = v.value /\ v.value \in StoredValues
    <3>1. v \in [value : StoredValues, txn : Nat, ts : Nat]
      BY <2>2, <2>3 DEF Chains
    <3>2. QED BY <2>4, <3>1
  <2>7. \A w \in c.committed : w.ts < thread[t].ts
    <3>1. Publishes(t, key)
      BY <1>1, <1>5 DEF Publishes, Committing
    <3>2. QED BY <2>3, <3>1 DEF OrderInv, KeyOrder
  <2>8. Logged(wal, Len(wal), key, WalValue(v.value))
    <3>1. Recorded(thread[t])
      BY <1>1 DEF Recorded
    <3>2. QED BY <2>1, <3>1 DEF KeyLive
  <2>9. NewestIs(chains'[key].committed, WalValue(v.value))
    <3>1. chains'[key].committed = c.committed \cup {new}
      BY <2>5
    <3>2. QED BY <2>6, <2>7, <3>1 DEF NewestIs
  <2>10. WalValue(v.value) \in WalValues /\ chains'[key].uncommitted = {}
    BY <2>5, <2>6 DEF WalValue, WalValues, StoredValues
  <2>11. QED BY <1>1, <2>8, <2>9, <2>10 DEF KeyLive
<1>6. chains'[key] = chains[key] \/ (key = k /\ OwnsSlot(chains[key], thread[t].id))
  BY <1>0, <1>1 DEF CommitVersion
<1> QED BY <1>4, <1>5, <1>6

\* Recovery opens the database with what the log says.
LEMMA RecoverLive ==
  ASSUME TypeOK, CallInv, ReplayInv, Intact, FinishRecover, NEW key \in Keys
  PROVE  KeyLive(key)'
<1>1. /\ status = "recovering" /\ replay.pos + 1 \notin ReadableRecords
      /\ UNCHANGED <<wal, thread>>
      /\ chains'[key] = IF replay.result[key] = NoWrite THEN EmptyChain
                        ELSE [committed |-> {[value |-> replay.result[key], txn |-> nextTxnId, ts |-> tsCounter]},
                              uncommitted |-> {}]
  BY DEF FinishRecover
<1>2. replay.pos = Len(wal)
  <2>1. Len(wal) \in Nat /\ replay.pos \in 0..Len(wal)
    BY <1>1 DEF ReplayInv, TypeOK, WalTypeOK
  <2>2. \A i \in 1..Len(wal) : i \in ReadableRecords
    BY <2>1 DEF ReadableRecords, Readable, Intact
  <2>3. QED BY <1>1, <2>1, <2>2
<1>3. PICK x \in WalValues \cup {NoWrite} : x = replay.result[key] /\ Logged(wal, Len(wal), key, x)
  BY <1>1, <1>2 DEF ReplayInv, TypeOK, WalTypeOK
<1>4. NewestIs(chains'[key].committed, x) /\ chains'[key].uncommitted = {}
  <2>1. CASE x = NoWrite
    BY <1>1, <1>3, <2>1 DEF EmptyChain, NewestIs
  <2>2. CASE x # NoWrite
    <3>1. PICK new : new = [value |-> x, txn |-> nextTxnId, ts |-> tsCounter]
      OBVIOUS
    <3>2. chains'[key].committed = {new} /\ chains'[key].uncommitted = {} /\ new.value = x
      BY <1>1, <1>3, <2>2, <3>1
    <3>3. WalValue(x) = x
      BY <2>2, ValuesAssumption DEF WalValue, WalValues
    <3>4. QED BY <3>2, <3>3 DEF NewestIs
  <2>3. QED BY <2>1, <2>2
<1>5. QED BY <1>1, <1>3, <1>4 DEF KeyLive

\* The memtable and the log agree throughout.
LEMMA NextLive ==
  ASSUME TypeOK, CallInv, OrderInv, HandleInv, SlotInv, FreshInv, EndedInv, ReplayInv, LiveInv,
         IntactStorage, AbortsOnError = TRUE, [Next]_vars
  PROVE  LiveInv'
<1>1. OneSlot'
  BY NextOneSlot DEF LiveInv
<1>2. ReadyInv'
  BY NextReady DEF LiveInv
<1>3. ASSUME status' = "open", NEW key \in Keys PROVE KeyLive(key)'
  <2>1. CASE UNCHANGED vars
    BY <1>3, <2>1 DEF vars, walVars, storageVars, LiveInv, KeyLive, Publishing
  <2>2. ASSUME NEW t \in Threads, ThreadStep(t) PROVE KeyLive(key)'
    <3>1. KeyLive(key) /\ OneSlot /\ \A id \in TxnIds : ReadyOf(id)
      BY <2>2, ThreadStepMoves DEF LiveInv, ReadyInv, EndedInv, Moves
    <3>2. QED BY <2>2, <3>1, OtherStepsLive, RecordLive, PublishLive
  <2>3. CASE RestartStep
    <3>1. FinishRecover
      BY <1>3, <2>3 DEF RestartStep, Crash, Shutdown, Forget, Open, ReplayRecord, storageVars
    <3>2. QED BY <3>1, RecoverLive DEF EndedInv
  <2>4. QED BY <2>1, <2>2, <2>3 DEF Next
<1>4. QED BY <1>1, <1>2, <1>3 DEF LiveInv

\* The slot of a transaction whose commit record is in the log is what the
\* log says of the key: its commit call is on its way to publish it.
LEMMA LoggedSlot ==
  ASSUME TypeOK, EndedInv, LiveInv, status = "open", NEW key \in Keys,
         NEW v \in chains[key].uncommitted, NEW i \in 1..Len(wal), CommittedAt(v.txn, i)
  PROVE  Logged(wal, Len(wal), key, WalValue(v.value))
<1>1. wal[i] = TxnCommit(v.txn) /\ EndedIn(wal, v.txn)
  BY DEF CommittedAt, EndedIn
<1>2. v.txn \in TxnIds
  <2>1. wal[i] \in Records
    BY DEF TypeOK, WalTypeOK
  <2>2. wal[i].txn = v.txn /\ wal[i].type = "Commit"
    BY <1>1 DEF TxnCommit
  <2>3. QED BY <2>1, <2>2 DEF Records, ControlRecords, DataRecords, OtherRecords
<1>3. handles[v.txn] # "free"
  BY <1>1 DEF EndedInv
<1>4. PICK t \in Threads : Recorded(thread[t]) /\ thread[t].id = v.txn
  BY <1>1, <1>2, <1>3 DEF EndedInv
<1>5. QED BY <1>4 DEF LiveInv, KeyLive

\* Conversely, whoever is publishing a key has its commit record in the log.
LEMMA PublishingLogged ==
  ASSUME OrderInv, NEW key \in Keys, Publishing(key)
  PROVE  \E v \in chains[key].uncommitted : \E i \in 1..Len(wal) : CommittedAt(v.txn, i)
<1>1. PICK t \in Threads : Recorded(thread[t]) /\ OwnsSlot(chains[key], thread[t].id)
  BY DEF Publishing
<1>2. Publishes(t, key)
  BY <1>1 DEF Publishes, Committing, Recorded
<1>3. PICK j \in 1..Len(wal) : LoggedAt(wal, thread[t].id, j)
  BY <1>1, <1>2 DEF OrderInv, KeyOrder
<1>4. QED BY <1>1, <1>3 DEF OwnsSlot, LoggedAt, CommittedAt

\* With no torn record and no failed fsync, and clients that abort a
\* transaction one of whose writes was refused, for any number of threads:
\* what recovery would rebuild from the log is, for every key, the newest
\* version in memory or, between the commit record of the key's owner and its
\* publication, the version in the slot.
THEOREM LiveLog ==
  ASSUME IntactStorage, AbortsOnError = TRUE
  PROVE  Spec => []LiveMatchesLog
<1> DEFINE Inv == HandleInv /\ SlotInv /\ FreshInv /\ EndedInv
<1>1. Init => ReplayInv /\ LiveInv
  <2>1. Init => ReplayInv
    BY DEF Init, ReplayInv
  <2>2. Init => LiveInv
    BY DEF Init, LiveInv, ReadyInv, OneSlot, EmptyChain, ReadyOf, BeforeRecordOf, InCommit, Deciding, Decided, Idle
  <2>3. QED BY <2>1, <2>2
<1>2. TypeOK /\ CallInv /\ OrderInv /\ Inv /\ ReplayInv /\ LiveInv /\ [Next]_vars => Inv' /\ ReplayInv' /\ LiveInv'
  BY NextAccounts, NextFresh, NextEnded, NextReplay, NextLive
<1>3. TypeOK /\ OrderInv /\ EndedInv /\ LiveInv => LiveMatchesLog
  <2> SUFFICES ASSUME TypeOK, OrderInv, EndedInv, LiveInv, status = "open", NEW key \in Keys
               PROVE  /\ Decisive(key) = {} => LoggedValue(wal, key) = NoWrite
                      /\ \A v \in Decisive(key) : LoggedValue(wal, key) = WalValue(v.value)
    BY DEF LiveMatchesLog
  <2> DEFINE logged == {v \in chains[key].uncommitted : \E i \in 1..Len(wal) : CommittedAt(v.txn, i)}
  <2>1. ASSUME NEW v \in logged PROVE LoggedValue(wal, key) = WalValue(v.value)
    BY <2>1, LoggedSlot, LoggedUnique DEF TypeOK, WalTypeOK
  <2>2. CASE logged # {}
    BY <2>1, <2>2 DEF Decisive
  <2>3. CASE logged = {}
    <3>1. ~Publishing(key)
      BY <2>3, PublishingLogged
    <3>2. PICK x : NewestIs(chains[key].committed, x) /\ Logged(wal, Len(wal), key, x)
      BY <3>1 DEF LiveInv, KeyLive
    <3>3. LoggedValue(wal, key) = x
      BY <3>2, LoggedUnique DEF TypeOK, WalTypeOK
    <3>4. PICK c \in Chains(StoredValues, Nat) : c = chains[key]
      BY DEF TypeOK, MemTableTypeOK
    <3>5. Decisive(key) = Newest(c.committed)
      BY <2>3, <3>4 DEF Decisive
    <3>6. \A v \in c.committed : v.ts \in Nat
      BY DEF Chains
    <3>7. CASE c.committed = {} /\ x = NoWrite
      BY <3>3, <3>5, <3>7 DEF Newest
    <3>8. ASSUME NEW v \in c.committed, x = WalValue(v.value), \A w \in c.committed : w = v \/ w.ts < v.ts
          PROVE  v \in Newest(c.committed) /\ \A w \in Newest(c.committed) : w = v
      BY <3>6, <3>8 DEF Newest
    <3>9. QED BY <3>2, <3>3, <3>4, <3>5, <3>7, <3>8 DEF NewestIs
  <2>4. QED BY <2>2, <2>3
<1>4. QED
  BY <1>1, <1>2, <1>3, TypeCorrect, InitCallInv, NextCallInv, InitOrder, NextOrder, InitAccounts, PTL DEF Spec

-----------------------------------------------------------------------------
(* Durability: the history of commits and the prefixes of the log.         *)

\* The commit records among the first n records.
CommitsIn(log, n) == Cardinality({i \in 1..n : log[i].type = "Commit"})

\* x is the last write of the key in the first n transactions of a history.
LastWrite(h, n, key, x) ==
    \/ x = NoWrite /\ \A i \in 1..n : h[i].writes[key] = NoWrite
    \/ \E i \in 1..n : /\ h[i].writes[key] = x /\ x # NoWrite
                       /\ \A j \in 1..n : h[j].writes[key] # NoWrite => j <= i

\* The first n records of the log say what the transactions whose commit
\* records are among them wrote.
AgreesAt(log, h, n) ==
    \A key \in Keys : \E x \in StoredValues \cup {NoWrite} :
        LastWrite(h, CommitsIn(log, n), key, x) /\ Logged(log, n, key, WalValue(x))

Entries == [id : TxnIds, writes : [Keys -> StoredValues \cup {NoWrite}], acked : BOOLEAN]

\* The history has an entry for every commit record that can be read, and
\* while the whole log can be read no other.
CountInv ==
    /\ history \in Seq(Entries)
    /\ \A n \in 0..Len(wal) : Readable(n) => CommitsIn(wal, n) <= Len(history)
    /\ status = "open" /\ Intact => Len(history) = CommitsIn(wal, Len(wal))

\* Every prefix of the log that can be read agrees with a prefix of the history.
PrefixInv == \A n \in 0..Len(wal) : Readable(n) => AgreesAt(wal, history, n)

\* Counting commit records.
LEMMA CommitsCounted ==
  ASSUME NEW log, NEW n \in Nat
  PROVE  /\ CommitsIn(log, n) \in Nat
         /\ \A m \in 0..n : CommitsIn(log, m) <= CommitsIn(log, n)
         /\ log[n + 1].type = "Commit" => CommitsIn(log, n + 1) = CommitsIn(log, n) + 1
         /\ log[n + 1].type # "Commit" => CommitsIn(log, n + 1) = CommitsIn(log, n)
<1> DEFINE C(m) == {i \in 1..m : log[i].type = "Commit"}
<1>1. ASSUME NEW m \in Nat PROVE IsFiniteSet(C(m)) /\ Cardinality(C(m)) \in Nat
  <2>1. IsFiniteSet(1..m)
    BY FS_Interval
  <2>2. C(m) \subseteq 1..m
    OBVIOUS
  <2>3. IsFiniteSet(C(m))
    BY <2>1, <2>2, FS_Subset
  <2>4. QED BY <2>3, FS_CardinalityType
<1>2. ASSUME NEW m \in 0..n PROVE Cardinality(C(m)) <= Cardinality(C(n))
  <2>1. C(m) \subseteq C(n)
    OBVIOUS
  <2>2. QED BY <1>1, <2>1, FS_Subset
<1>3. ASSUME log[n + 1].type = "Commit" PROVE Cardinality(C(n + 1)) = Cardinality(C(n)) + 1
  <2>1. C(n + 1) = C(n) \cup {n + 1} /\ n + 1 \notin C(n)
    BY <1>3
  <2>2. QED BY <1>1, <2>1, FS_AddElement
<1>4. ASSUME log[n + 1].type # "Commit" PROVE C(n + 1) = C(n)
  BY <1>4
<1> QED BY <1>1, <1>2, <1>3, <1>4 DEF CommitsIn

\* Only the first n records matter.
LEMMA CommitsSame ==
  ASSUME NEW n \in Nat, NEW log, NEW new, \A i \in 1..n : new[i] = log[i]
  PROVE  CommitsIn(new, n) = CommitsIn(log, n)
<1>1. {i \in 1..n : new[i].type = "Commit"} = {i \in 1..n : log[i].type = "Commit"}
  OBVIOUS
<1> QED BY <1>1 DEF CommitsIn

\* The log says one thing of a key.
LEMMA LoggedSame ==
  ASSUME NEW n \in Nat, NEW log, NEW key, NEW x, NEW y, Logged(log, n, key, x), Logged(log, n, key, y)
  PROVE  x = y
<1>1. ASSUME NEW i \in 1..n, NEW j \in 1..n, NEW f \in 1..n, NEW g \in 1..n,
             j < g \/ (j = g /\ i <= f), g < j \/ (g = j /\ f <= i)
      PROVE  i = f
  BY <1>1
<1> QED BY <1>1 DEF Logged

\* The last write is the value the history gives a key.
LEMMA LastWriteIs ==
  ASSUME NEW n \in Nat, NEW key, NEW x, LastWrite(history, n, key, x)
  PROVE  ValueAfter(n, key) = x
<1> DEFINE writers == {i \in 1..n : history[i].writes[key] # NoWrite}
<1>1. CASE writers = {}
  BY <1>1 DEF LastWrite, ValueAfter
<1>2. CASE writers # {}
  <2>1. PICK i \in 1..n : /\ history[i].writes[key] = x /\ x # NoWrite
                          /\ \A j \in 1..n : history[j].writes[key] # NoWrite => j <= i
    BY <1>2 DEF LastWrite
  <2>2. i \in writers /\ \A j \in writers : i >= j
    BY <2>1
  <2>3. Max(writers) \in writers /\ \A j \in writers : Max(writers) >= j
    BY <2>2 DEF Max
  <2>4. Max(writers) = i
    BY <2>2, <2>3
  <2>5. QED BY <1>2, <2>1, <2>4 DEF ValueAfter
<1> QED BY <1>1, <1>2

\* Agreement survives records that are no commits and changes of the history
\* that keep the writes.
LEMMA AgreesGrow ==
  ASSUME NEW n \in Nat, NEW m \in Nat, n <= m, NEW log, NEW new, NEW h, NEW g,
         \A i \in 1..n : new[i] = log[i],
         \A j \in (n + 1)..m : new[j].type # "Commit",
         \A i \in 1..CommitsIn(log, n) : g[i].writes = h[i].writes,
         AgreesAt(log, h, n)
  PROVE  AgreesAt(new, g, m)
<1> DEFINE c == CommitsIn(log, n)
<1>1. CommitsIn(new, m) = c
  <2>1. {i \in 1..m : new[i].type = "Commit"} = {i \in 1..n : log[i].type = "Commit"}
    OBVIOUS
  <2>2. QED BY <2>1 DEF CommitsIn
<1>2. ASSUME NEW x, NEW key, LastWrite(h, c, key, x) PROVE LastWrite(g, c, key, x)
  BY <1>2 DEF LastWrite
<1>3. \A j \in (n + 1)..m : \A id : new[j] # TxnCommit(id)
  BY DEF TxnCommit
<1>4. ASSUME NEW x, NEW key, Logged(log, n, key, x) PROVE Logged(new, m, key, x)
  BY <1>3, <1>4, GrowLogged
<1> QED BY <1>1, <1>2, <1>4 DEF AgreesAt

\* A commit record and the entry of its transaction keep log and history in
\* agreement.
LEMMA AgreesCommit ==
  ASSUME NEW n \in Nat, NEW log, NEW new, NEW h \in Seq(Entries), NEW e \in Entries,
         \A i \in 1..n : new[i] = log[i], new[n + 1] = TxnCommit(e.id),
         \A i \in 1..n : log[i].type = "Data" => log[i].value # NoWrite,
         Len(h) = CommitsIn(log, n), AgreesAt(log, h, n),
         \A key \in Keys : Pending(log, n, e.id, key, WalValue(e.writes[key]))
  PROVE  AgreesAt(new, Append(h, e), n + 1)
<1> DEFINE c == Len(h)
           g == Append(h, e)
<1>1. CommitsIn(new, n + 1) = c + 1
  <2>1. CommitsIn(new, n) = c
    BY CommitsSame
  <2>2. new[n + 1].type = "Commit"
    BY DEF TxnCommit
  <2>3. QED BY <2>1, <2>2, CommitsCounted
<1>2. Len(g) = c + 1 /\ g[c + 1] = e /\ c \in Nat /\ \A i \in 1..c : g[i] = h[i]
  OBVIOUS
<1>3. ASSUME NEW key \in Keys
      PROVE  \E x \in StoredValues \cup {NoWrite} : LastWrite(g, c + 1, key, x) /\ Logged(new, n + 1, key, WalValue(x))
  <2>1. PICK x \in StoredValues \cup {NoWrite} : LastWrite(h, c, key, x) /\ Logged(log, n, key, WalValue(x))
    BY DEF AgreesAt
  <2>2. e.writes[key] \in StoredValues \cup {NoWrite}
    BY DEF Entries
  <2>3. PICK y \in StoredValues \cup {NoWrite} : y = e.writes[key]
    BY <2>2
  <2>4. LastWrite(g, c + 1, key, IF y = NoWrite THEN x ELSE y)
    <3>1. CASE y = NoWrite
      <4>1. CASE x = NoWrite /\ \A i \in 1..c : h[i].writes[key] = NoWrite
        <5>1. \A i \in 1..(c + 1) : g[i].writes[key] = NoWrite
          <6>1. \A i \in 1..(c + 1) : i \in 1..c \/ i = c + 1
            BY <1>2
          <6>2. QED BY <1>2, <2>3, <3>1, <4>1, <6>1
        <5>2. QED BY <3>1, <4>1, <5>1 DEF LastWrite
      <4>2. ASSUME NEW i \in 1..c, h[i].writes[key] = x, x # NoWrite,
                   \A j \in 1..c : h[j].writes[key] # NoWrite => j <= i
            PROVE  LastWrite(g, c + 1, key, x)
        <5>1. i \in 1..(c + 1) /\ g[i].writes[key] = x
          BY <1>2, <4>2
        <5>2. \A j \in 1..(c + 1) : j \in 1..c \/ j = c + 1
          BY <1>2
        <5>3. \A j \in 1..(c + 1) : g[j].writes[key] # NoWrite => j <= i
          BY <1>2, <2>3, <3>1, <4>2, <5>2
        <5>4. QED BY <4>2, <5>1, <5>3 DEF LastWrite
      <4>3. QED BY <2>1, <3>1, <4>1, <4>2 DEF LastWrite
    <3>2. CASE y # NoWrite
      <4>1. c + 1 \in 1..(c + 1) /\ \A j \in 1..(c + 1) : j <= c + 1
        BY <1>2
      <4>2. QED BY <1>2, <2>3, <3>2, <4>1 DEF LastWrite
    <3>3. QED BY <3>1, <3>2
  <2>5. Logged(new, n, key, WalValue(x)) /\ Pending(new, n, e.id, key, WalValue(y))
    BY <2>1, <2>3, SamePrefix
  <2>6. \A i \in 1..n : new[i].type = "Data" => new[i].value # NoWrite
    OBVIOUS
  <2>7. Logged(new, n + 1, key, IF WalValue(y) = NoWrite THEN WalValue(x) ELSE WalValue(y))
    BY <2>5, <2>6, LoggedCommit
  <2>8. (WalValue(y) = NoWrite) <=> (y = NoWrite)
    BY ValuesAssumption DEF WalValue
  <2>9. QED BY <2>4, <2>7, <2>8
<1>4. QED
  BY <1>1, <1>2, <1>3 DEF AgreesAt

-----------------------------------------------------------------------------
(* Steps of the history.                                                   *)

\* A call adds an entry when it logs its commit record and marks it when it
\* returns.
LEMMA ThreadHistory ==
  ASSUME TypeOK, CallInv, NEW t \in Threads, ThreadStep(t), DurabilityNext
  PROVE  /\ CommitRecord(t) =>
               history' = Append(history, [id |-> thread[t].id, writes |-> WritesOf(thread[t].id), acked |-> FALSE])
         /\ CommitDone(t) => history' = Acked(history, {thread[t].id})
         /\ ~CommitRecord(t) /\ ~CommitDone(t) => history' = history
<1>0. ThreadTypeOK
  BY DEF TypeOK
<1>1. status = "open" /\ status' = "open" /\ ~Recovered
  BY ThreadStepMoves DEF Moves, Recovered
<1>2. \A u \in Threads \ {t} : thread'[u] = thread[u]
  BY <1>0, ThreadStepMoves, OtherThreads DEF Moves
<1>3. Logging \subseteq {t} /\ Acking \subseteq {t}
  BY <1>2 DEF Logging, Acking
<1>4. ASSUME t \in Logging PROVE CommitRecord(t)
  <2>1. thread[t].at = "commitRecord" /\ thread'[t].at = "sync"
    BY <1>4 DEF Logging
  <2>2. ~CommitAllocTs(t)
    BY <2>1 DEF CommitAllocTs, In
  <2>3. ~Fades(t, thread'[t])
    BY <2>1 DEF Fades, Recorded
  <2>4. QED BY <2>2, <2>3, ThreadStepMoves
<1>5. ASSUME CommitRecord(t) PROVE Logging = {t} /\ Acking = {}
  <2>1. thread[t].at = "commitRecord" /\ thread'[t].at = "sync"
    BY <1>0, <1>5, GotoLocals DEF CommitRecord, In
  <2>2. QED BY <1>3, <2>1 DEF Logging, Acking
<1>6. ASSUME t \in Acking PROVE CommitDone(t)
  <2>1. thread[t].at = "publish" /\ thread'[t].at = "idle"
    BY <1>6 DEF Acking
  <2>2. ~CommitRecord(t) /\ ~CommitSyncFails(t)
    BY <2>1 DEF CommitRecord, CommitSyncFails, In
  <2>3. Recorded(thread[t]) /\ ~Recorded(thread'[t])
    BY <2>1 DEF Recorded
  <2>4. QED BY <2>2, <2>3, RecordedThreads
<1>7. ASSUME CommitDone(t) PROVE Acking = {t} /\ Logging = {}
  <2>1. thread[t].at = "publish" /\ thread'[t] = Idle
    BY <1>0, <1>7, OtherThreads DEF CommitDone, In, Return
  <2>2. QED BY <1>1, <1>3, <2>1 DEF Logging, Acking, Idle
<1>8. CASE CommitRecord(t)
  <2>1. (CHOOSE u \in Logging : TRUE) = t
    BY <1>5, <1>8
  <2>2. ~CommitDone(t)
    BY <1>5, <1>7, <1>8
  <2>3. QED BY <1>1, <1>5, <1>8, <2>1, <2>2 DEF DurabilityNext
<1>9. CASE CommitDone(t)
  <2>1. {thread[u].id : u \in Acking} = {thread[t].id}
    BY <1>7, <1>9
  <2>2. ~CommitRecord(t)
    BY <1>5, <1>7, <1>9
  <2>3. QED BY <1>1, <1>7, <1>9, <2>1, <2>2 DEF DurabilityNext
<1>10. CASE ~CommitRecord(t) /\ ~CommitDone(t)
  <2>1. Logging = {} /\ Acking = {}
    BY <1>3, <1>4, <1>6, <1>10
  <2>2. QED BY <1>1, <1>10, <2>1 DEF DurabilityNext
<1> QED BY <1>8, <1>9, <1>10

\* Recovery cuts the history to the commits it read.
LEMMA RestartHistory ==
  ASSUME TypeOK, CallInv, RestartStep, DurabilityNext
  PROVE  /\ FinishRecover => history' = SubSeq(history, 1, Surviving)
         /\ ~FinishRecover => history' = history
<1>1. Logging = {} /\ Acking = {}
  <2>1. CASE Crash \/ Shutdown
    <3>1. status' = "down" /\ \A t \in Threads : thread'[t] = Idle
      BY <2>1 DEF Crash, Shutdown, Forget
    <3>2. QED BY <3>1 DEF Logging, Acking, Idle
  <2>2. CASE Open \/ ReplayRecord \/ FinishRecover
    <3>1. thread' = thread
      BY <2>2 DEF Open, ReplayRecord, FinishRecover, storageVars
    <3>2. QED BY <3>1 DEF Logging, Acking
  <2>3. QED BY <2>1, <2>2 DEF RestartStep
<1>2. FinishRecover => Recovered
  BY DEF FinishRecover, Recovered
<1>3. ~FinishRecover => ~Recovered
  <2>1. CASE Crash \/ Shutdown
    BY <2>1 DEF Crash, Shutdown, Forget, Recovered
  <2>2. CASE Open \/ ReplayRecord
    BY <2>2 DEF Open, ReplayRecord, Recovered, storageVars
  <2>3. QED BY <2>1, <2>2 DEF RestartStep
<1> QED BY <1>1, <1>2, <1>3 DEF DurabilityNext

\* The writes of a transaction are the slots it holds.
LEMMA WritesOfSlots ==
  ASSUME TypeOK, OneSlot, NEW id
  PROVE  /\ WritesOf(id) \in [Keys -> StoredValues \cup {NoWrite}]
         /\ \A key \in Keys :
               \/ ~OwnsSlot(chains[key], id) /\ WritesOf(id)[key] = NoWrite
               \/ \E v \in chains[key].uncommitted : v.txn = id /\ WritesOf(id)[key] = v.value
<1>1. ASSUME NEW key \in Keys, OwnsSlot(chains[key], id)
      PROVE  \E v \in chains[key].uncommitted :
                v.txn = id /\ v.value \in StoredValues /\ (CHOOSE w \in chains[key].uncommitted : TRUE) = v
  <2>1. PICK v \in chains[key].uncommitted : v.txn = id
    BY <1>1 DEF OwnsSlot
  <2>2. chains[key] \in Chains(StoredValues, Nat)
    BY DEF TypeOK, MemTableTypeOK
  <2>3. v.value \in StoredValues
    BY <2>2 DEF Chains
  <2>4. (CHOOSE w \in chains[key].uncommitted : TRUE) = v
    BY <2>1 DEF OneSlot
  <2>5. QED BY <2>1, <2>3, <2>4
<1> QED BY <1>1 DEF WritesOf

\* Acknowledging a commit changes a flag.
LEMMA AckedKeeps ==
  ASSUME NEW h \in Seq(Entries), NEW ids
  PROVE  /\ Acked(h, ids) \in Seq(Entries) /\ Len(Acked(h, ids)) = Len(h)
         /\ \A i \in 1..Len(h) :
               /\ Acked(h, ids)[i].id = h[i].id /\ Acked(h, ids)[i].writes = h[i].writes
               /\ Acked(h, ids)[i].acked => h[i].acked \/ h[i].id \in ids
<1> DEFINE g == Acked(h, ids)
<1>1. DOMAIN h = 1..Len(h) /\ Len(h) \in Nat
  OBVIOUS
<1>2. ASSUME NEW e \in Entries
      PROVE  LET f == [e EXCEPT !.acked = TRUE]
             IN  f \in Entries /\ f.id = e.id /\ f.writes = e.writes
  BY DEF Entries
<1>3. ASSUME NEW i \in 1..Len(h)
      PROVE  /\ g[i] \in Entries /\ g[i].id = h[i].id /\ g[i].writes = h[i].writes
             /\ g[i].acked => h[i].acked \/ h[i].id \in ids
  <2>1. h[i] \in Entries
    OBVIOUS
  <2>2. g[i] = h[i] \/ (g[i] = [h[i] EXCEPT !.acked = TRUE] /\ h[i].id \in ids)
    BY <1>1 DEF Acked
  <2>3. QED BY <1>2, <2>1, <2>2
<1>4. g = [i \in 1..Len(h) |-> g[i]]
  BY <1>1 DEF Acked
<1>5. g \in Seq(Entries) /\ Len(g) = Len(h)
  <2> HIDE DEF g
  <2>1. QED BY <1>1, <1>3, <1>4
<1> QED BY <1>3, <1>5

\* A call adds one entry to the history or none and changes no other.
LEMMA ThreadEntries ==
  ASSUME TypeOK, CallInv, OneSlot, history \in Seq(Entries), NEW t \in Threads, ThreadStep(t), DurabilityNext
  PROVE  /\ history' \in Seq(Entries)
         /\ Len(history') = IF CommitRecord(t) THEN Len(history) + 1 ELSE Len(history)
         /\ \A i \in 1..Len(history) :
               /\ history'[i].id = history[i].id /\ history'[i].writes = history[i].writes
               /\ history'[i].acked => history[i].acked \/ (CommitDone(t) /\ history[i].id = thread[t].id)
<1>1. CASE CommitRecord(t)
  <2>1. thread[t].id \in TxnIds
    BY <1>1, LocalsOf DEF CommitRecord, In, TxnLabels, Labels, TypeOK
  <2>2. PICK e \in Entries : history' = Append(history, e)
    BY <1>1, <2>1, ThreadHistory, WritesOfSlots DEF Entries
  <2>3. QED BY <1>1, <2>2
<1>2. CASE ~CommitRecord(t) /\ CommitDone(t)
  <2>1. history' = Acked(history, {thread[t].id})
    BY <1>2, ThreadHistory
  <2>2. QED BY <1>2, <2>1, AckedKeeps
<1>3. CASE ~CommitRecord(t) /\ ~CommitDone(t)
  BY <1>3, ThreadHistory
<1> QED BY <1>1, <1>2, <1>3

\* Calls add commit records and entries together.
LEMMA ThreadCount ==
  ASSUME TypeOK, CallInv, HandleInv, OneSlot, CountInv, NEW t \in Threads, ThreadStep(t), DurabilityNext
  PROVE  CountInv'
<1> DEFINE n == Len(wal)
<1>0. wal \in Seq(Records) /\ n \in Nat /\ history \in Seq(Entries) /\ Len(history) \in Nat
  BY DEF TypeOK, WalTypeOK, CountInv
<1>1. wal' \in Seq(Records) /\ Len(wal') \in Nat /\ n <= Len(wal') /\ \A i \in 1..n : wal'[i] = wal[i]
  BY ThreadStepGrowsWal DEF WalGrows
<1>2. /\ history' \in Seq(Entries) /\ Len(history') \in Nat
      /\ Len(history') = IF CommitRecord(t) THEN Len(history) + 1 ELSE Len(history)
  BY <1>0, ThreadEntries
<1> HIDE DEF n
<1>3. ASSUME NEW m \in 0..n PROVE CommitsIn(wal', m) = CommitsIn(wal, m)
  BY <1>0, <1>1, CommitsSame
<1>4. CommitsIn(wal', Len(wal')) = IF CommitRecord(t) THEN CommitsIn(wal, n) + 1 ELSE CommitsIn(wal, n)
  <2>1. CASE CommitRecord(t)
    <3>1. wal' = Append(wal, TxnCommit(thread[t].id))
      BY <2>1 DEF CommitRecord, Append1
    <3>2. Len(wal') = n + 1 /\ wal'[n + 1].type = "Commit"
      BY <1>0, <3>1 DEF n, TxnCommit
    <3>3. CommitsIn(wal', n + 1) = CommitsIn(wal', n) + 1
      BY <1>0, <3>2, CommitsCounted
    <3>4. QED BY <1>0, <1>3, <2>1, <3>2, <3>3
  <2>2. CASE ~CommitRecord(t)
    <3>1. \A j \in (n + 1)..Len(wal') : wal'[j].type # "Commit"
      BY <1>0, <1>1, <2>2, ThreadStepAdds DEF Adds, n
    <3>2. {i \in 1..Len(wal') : wal'[i].type = "Commit"} = {i \in 1..n : wal[i].type = "Commit"}
      BY <1>0, <1>1, <3>1
    <3>3. QED BY <2>2, <3>2 DEF CommitsIn
  <2>3. QED BY <2>1, <2>2
<1>5. ASSUME Intact PROVE Len(history') = CommitsIn(wal', Len(wal'))
  <2>1. Len(history) = CommitsIn(wal, n)
    BY <1>5, ThreadStepMoves DEF Moves, CountInv, n
  <2>2. QED BY <1>2, <1>4, <2>1
<1>6. Intact' => Intact
  <2>1. \A i \in 1..Len(wal) : i \in 1..Len(wal') /\ wal'[i] = wal[i]
    BY <1>0, <1>1 DEF n
  <2>2. QED BY <2>1 DEF Intact
<1>7. ASSUME NEW m \in 0..Len(wal'), Readable(m)' PROVE CommitsIn(wal', m) <= Len(history')
  <2>1. CASE m <= n
    <3>1. m \in 0..Len(wal) /\ m \in 0..n /\ \A i \in 1..m : i \in 1..n
      BY <1>0, <2>1 DEF n
    <3>2. Readable(m)
      BY <1>1, <1>7, <3>1 DEF Readable
    <3>3. CommitsIn(wal, m) <= Len(history) /\ CommitsIn(wal, m) \in Nat
      BY <1>0, <3>1, <3>2, CommitsCounted DEF CountInv
    <3>4. QED BY <1>0, <1>2, <1>3, <3>1, <3>3
  <2>2. CASE n < m
    <3>1. \A i \in 1..Len(wal) : i \in 1..m /\ wal'[i] = wal[i]
      BY <1>0, <1>1, <2>2 DEF n
    <3>2. Intact
      BY <1>7, <3>1 DEF Readable, Intact
    <3>3. CommitsIn(wal', m) <= CommitsIn(wal', Len(wal'))
      BY <1>1, CommitsCounted
    <3>4. QED BY <1>5, <3>2, <3>3
  <2>3. QED BY <1>0, <1>1, <2>1, <2>2
<1> QED BY <1>2, <1>5, <1>6, <1>7 DEF CountInv

\* Calls keep log and history in agreement.
LEMMA ThreadPrefix ==
  ASSUME TypeOK, CallInv, HandleInv, OneSlot, ReadyInv, CountInv, PrefixInv,
         NEW t \in Threads, ThreadStep(t), DurabilityNext
  PROVE  PrefixInv'
<1> DEFINE n == Len(wal)
<1>0. wal \in Seq(Records) /\ n \in Nat /\ history \in Seq(Entries) /\ Len(history) \in Nat
  BY DEF TypeOK, WalTypeOK, CountInv
<1>1. wal' \in Seq(Records) /\ Len(wal') \in Nat /\ n <= Len(wal') /\ \A i \in 1..n : wal'[i] = wal[i]
  BY ThreadStepGrowsWal DEF WalGrows
<1>2. \A i \in 1..Len(history) : history'[i].writes = history[i].writes
  BY <1>0, ThreadEntries
<1> HIDE DEF n
<1>3. ASSUME NEW k \in 0..n, NEW m \in k..Len(wal'), Readable(k), \A j \in (k + 1)..m : wal'[j].type # "Commit"
      PROVE  AgreesAt(wal', history', m)
  <2>1. k \in 0..Len(wal) /\ k \in Nat /\ m \in Nat /\ k <= m /\ \A i \in 1..k : wal'[i] = wal[i]
    BY <1>0, <1>1 DEF n
  <2>2. AgreesAt(wal, history, k) /\ CommitsIn(wal, k) \in Nat /\ CommitsIn(wal, k) <= Len(history)
    BY <1>3, <2>1, CommitsCounted DEF PrefixInv, CountInv
  <2>3. \A i \in 1..CommitsIn(wal, k) : history'[i].writes = history[i].writes
    BY <1>0, <1>2, <2>2
  <2>4. QED BY <1>3, <2>1, <2>2, <2>3, AgreesGrow
<1>4. ASSUME CommitRecord(t), Intact PROVE Len(wal') = n + 1 /\ AgreesAt(wal', history', n + 1)
  <2>1. wal' = Append(wal, TxnCommit(thread[t].id)) /\ In(t, "commitRecord")
    BY <1>4 DEF CommitRecord, Append1
  <2>2. Len(wal') = n + 1 /\ wal'[n + 1] = TxnCommit(thread[t].id)
    BY <1>0, <2>1 DEF n
  <2>3. PICK id \in TxnIds : id = thread[t].id
    BY <2>1, LocalsOf DEF In, TxnLabels, Labels, TypeOK
  <2>4. PICK e : e = [id |-> id, writes |-> WritesOf(id), acked |-> FALSE]
    OBVIOUS
  <2>5. e \in Entries /\ e.id = id /\ e.writes = WritesOf(id)
    BY <2>4, WritesOfSlots DEF Entries
  <2>6. history' = Append(history, e)
    BY <1>4, <2>3, <2>4, ThreadHistory
  <2>7. Len(history) = CommitsIn(wal, n) /\ AgreesAt(wal, history, n)
    BY <1>0, <1>4, <2>1 DEF CountInv, PrefixInv, Intact, Readable, In, n
  <2>8. \A i \in 1..n : wal[i].type = "Data" => wal[i].value # NoWrite
    BY <1>0, RecordCases DEF n
  <2>9. BeforeRecordOf(id)
    BY <2>1, <2>3 DEF BeforeRecordOf, In, InCommit, Decided, Recorded, CallInv, CallShape
  <2>10. ReadyToRecord(id)
    BY <1>4, <2>9 DEF ReadyInv, ReadyOf
  <2>11. ASSUME NEW key \in Keys PROVE Pending(wal, n, e.id, key, WalValue(e.writes[key]))
    <3>1. CASE ~OwnsSlot(chains[key], id) /\ WritesOf(id)[key] = NoWrite
      <4>1. WalValue(NoWrite) = NoWrite
        BY ValuesAssumption DEF WalValue
      <4>2. QED BY <2>5, <2>10, <3>1, <4>1 DEF ReadyToRecord, n
    <3>2. ASSUME NEW v \in chains[key].uncommitted, v.txn = id, WritesOf(id)[key] = v.value
          PROVE  Pending(wal, n, e.id, key, WalValue(e.writes[key]))
      BY <2>5, <2>10, <3>2 DEF ReadyToRecord, n
    <3>3. QED BY <3>1, <3>2, WritesOfSlots
  <2>12. AgreesAt(wal', Append(history, e), n + 1)
    BY <1>0, <1>1, <2>2, <2>3, <2>5, <2>7, <2>8, <2>11, AgreesCommit
  <2>13. QED BY <2>2, <2>6, <2>12
<1>5. ASSUME NEW m \in 0..Len(wal'), Readable(m)' PROVE AgreesAt(wal', history', m)
  <2>1. CASE m <= n
    <3>1. m \in 0..n /\ m \in m..Len(wal') /\ (m + 1)..m = {} /\ \A i \in 1..m : i \in 1..n
      BY <1>0, <1>1, <2>1
    <3>2. Readable(m)
      BY <1>1, <1>5, <3>1 DEF Readable
    <3>3. QED BY <1>3, <3>1, <3>2
  <2>2. CASE n < m
    <3>1. \A i \in 1..Len(wal) : i \in 1..m /\ wal'[i] = wal[i]
      BY <1>0, <1>1, <2>2 DEF n
    <3>2. Intact /\ Readable(n)
      BY <1>5, <3>1 DEF Readable, Intact, n
    <3>3. CASE CommitRecord(t)
      <4>1. m = n + 1
        BY <1>0, <1>4, <2>2, <3>2, <3>3
      <4>2. QED BY <1>4, <3>2, <3>3, <4>1
    <3>4. CASE ~CommitRecord(t)
      <4>1. \A j \in (n + 1)..m : wal'[j].type # "Commit"
        BY <1>0, <1>1, <3>4, ThreadStepAdds DEF Adds, n
      <4>2. n \in 0..n /\ m \in n..Len(wal')
        BY <1>0, <1>1, <2>2
      <4>3. QED BY <1>3, <3>2, <4>1, <4>2
    <3>5. QED BY <3>3, <3>4
  <2>3. QED BY <1>0, <1>1, <2>1, <2>2
<1> QED BY <1>5 DEF PrefixInv

\* What a crash leaves of the log: a prefix that includes what was synced,
\* and perhaps a torn record behind it.
LEMMA CrashLog ==
  ASSUME TypeOK, Crash
  PROVE  \E n \in synced..Len(wal) :
            /\ \A i \in 1..n : wal'[i] = wal[i]
            /\ \/ Len(wal') = n
               \/ Len(wal') = n + 1 /\ wal'[n + 1] = TornRecord /\ crashes + 1 \in TornCrashes
<1>1. wal \in Seq(Records) /\ synced \in 0..Len(wal) /\ TornRecord \in Records
  BY DEF TypeOK, WalTypeOK, Records, OtherRecords, TornRecord
<1>2. PICK n \in synced..Len(wal) :
         \/ wal' = SubSeq(wal, 1, n)
         \/ crashes + 1 \in TornCrashes /\ wal' = Append(SubSeq(wal, 1, n), TornRecord)
  BY DEF Crash, LoseTail
<1>3. n \in 0..Len(wal) /\ n \in Nat
  BY <1>1
<1>4. /\ SubSeq(wal, 1, n) \in Seq(Records) /\ Len(SubSeq(wal, 1, n)) = n
      /\ \A i \in 1..n : SubSeq(wal, 1, n)[i] = wal[i]
  BY <1>1, <1>3
<1>5. PICK s \in Seq(Records) : s = SubSeq(wal, 1, n)
  BY <1>4
<1>6. Append(s, TornRecord)[n + 1] = TornRecord /\ Len(Append(s, TornRecord)) = n + 1
      /\ \A i \in 1..n : Append(s, TornRecord)[i] = s[i]
  BY <1>1, <1>3, <1>4, <1>5
<1>7. QED BY <1>2, <1>3, <1>4, <1>5, <1>6

\* Where recovery stops.
LEMMA ReadEnd ==
  ASSUME TypeOK, NEW n \in 0..Len(wal), Readable(n), n + 1 \notin ReadableRecords
  PROVE  /\ Surviving = CommitsIn(wal, n)
         /\ \A m \in 0..Len(wal) : Readable(m) => m <= n
         /\ Intact => n = Len(wal)
<1>1. Len(wal) \in Nat /\ n \in Nat
  BY DEF TypeOK, WalTypeOK
<1>2. ASSUME NEW m \in 0..Len(wal), Readable(m), n < m PROVE FALSE
  <2>1. n + 1 \in 1..Len(wal) /\ \A i \in 1..(n + 1) : i \in 1..m
    BY <1>1, <1>2
  <2>2. QED BY <1>2, <2>1 DEF ReadableRecords, Readable
<1>3. \A m \in 0..Len(wal) : Readable(m) => m <= n
  BY <1>1, <1>2
<1>4. Intact => n = Len(wal)
  <2>1. Intact => Readable(Len(wal))
    BY DEF Intact, Readable
  <2>2. QED BY <1>1, <1>3, <2>1
<1>5. ReadableRecords = 1..n
  <2>1. \A i \in 1..n : Readable(i) /\ i \in 1..Len(wal)
    BY <1>1 DEF Readable
  <2>2. \A i \in ReadableRecords : i \in 1..n
    BY <1>1, <1>3 DEF ReadableRecords
  <2>3. QED BY <2>1, <2>2 DEF ReadableRecords
<1>6. {i \in ReadableRecords : wal[i].type = "Commit"} = {i \in 1..n : wal[i].type = "Commit"}
  BY <1>5
<1> QED BY <1>3, <1>4, <1>6 DEF Surviving, CommitsIn

\* A crash cuts the log, recovery the history.
LEMMA RestartPrefix ==
  ASSUME TypeOK, CallInv, ReplayInv, CountInv, RestartStep, DurabilityNext
  PROVE  CountInv' /\ (PrefixInv => PrefixInv')
<1>0. wal \in Seq(Records) /\ Len(wal) \in Nat /\ history \in Seq(Entries) /\ Len(history) \in Nat /\ synced \in Nat
  BY DEF TypeOK, WalTypeOK, CountInv
<1>1. CASE Crash
  <2>1. history' = history /\ status' = "down"
    BY <1>1, RestartHistory DEF Crash, FinishRecover, Forget
  <2>2. PICK n \in synced..Len(wal) :
           /\ \A i \in 1..n : wal'[i] = wal[i]
           /\ Len(wal') = n \/ (Len(wal') = n + 1 /\ wal'[n + 1] = TornRecord)
    BY <1>1, CrashLog
  <2>3. ASSUME NEW m \in 0..Len(wal'), Readable(m)'
        PROVE  CommitsIn(wal', m) <= Len(history) /\ (PrefixInv => AgreesAt(wal', history, m))
    <3>1. m <= n
      <4>1. CASE m = n + 1
        <5>1. wal'[n + 1].type = "Torn" /\ n + 1 \in 1..m
          BY <1>0, <2>2, <4>1 DEF TornRecord
        <5>2. QED BY <2>3, <5>1 DEF Readable
      <4>2. QED BY <1>0, <2>2, <4>1
    <3>2. m \in 0..Len(wal) /\ m \in Nat /\ \A i \in 1..m : wal'[i] = wal[i]
      BY <1>0, <2>2, <3>1
    <3>3. Readable(m)
      BY <2>3, <3>2 DEF Readable
    <3>4. CommitsIn(wal', m) <= Len(history)
      BY <3>2, <3>3, CommitsSame DEF CountInv
    <3>5. ASSUME PrefixInv PROVE AgreesAt(wal', history, m)
      <4>1. AgreesAt(wal, history, m) /\ \A j \in (m + 1)..m : wal'[j].type # "Commit"
        BY <3>2, <3>3, <3>5 DEF PrefixInv
      <4>2. QED BY <3>2, <4>1, AgreesGrow
    <3>6. QED BY <3>4, <3>5
  <2>4. QED BY <1>0, <2>1, <2>3 DEF CountInv, PrefixInv
<1>2. CASE Shutdown \/ Open \/ ReplayRecord
  <2>1. wal' = wal /\ history' = history /\ status' # "open"
    BY <1>2, RestartHistory DEF Shutdown, Open, ReplayRecord, FinishRecover, Forget, storageVars
  <2>2. QED BY <2>1 DEF CountInv, PrefixInv, Readable
<1>3. CASE FinishRecover
  <2>1. wal' = wal /\ history' = SubSeq(history, 1, Surviving)
    BY <1>3, RestartHistory DEF FinishRecover
  <2>2. PICK n \in 0..Len(wal) : n = replay.pos /\ Readable(n) /\ n + 1 \notin ReadableRecords
    BY <1>3 DEF FinishRecover, ReplayInv
  <2>3. /\ Surviving = CommitsIn(wal, n)
        /\ Intact => n = Len(wal)
        /\ \A m \in 0..Len(wal) : Readable(m) => m <= n
    BY <2>2, ReadEnd
  <2>4. CommitsIn(wal, n) \in Nat /\ CommitsIn(wal, n) <= Len(history)
    BY <1>0, <2>2, CommitsCounted DEF CountInv
  <2>5. /\ history' \in Seq(Entries) /\ Len(history') = CommitsIn(wal, n)
        /\ \A i \in 1..CommitsIn(wal, n) : history'[i] = history[i]
    BY <1>0, <2>1, <2>3, <2>4
  <2>6. ASSUME NEW m \in 0..Len(wal), Readable(m)
        PROVE  CommitsIn(wal, m) <= Len(history') /\ (PrefixInv => AgreesAt(wal, history', m))
    <3>1. m \in 0..n /\ m \in Nat
      BY <1>0, <2>3, <2>6
    <3>2. CommitsIn(wal, m) \in Nat /\ CommitsIn(wal, m) <= CommitsIn(wal, n)
      BY <1>0, <3>1, CommitsCounted
    <3>3. CommitsIn(wal, m) <= Len(history') /\ \A i \in 1..CommitsIn(wal, m) : history'[i].writes = history[i].writes
      BY <2>4, <2>5, <3>2
    <3>4. ASSUME PrefixInv PROVE AgreesAt(wal, history', m)
      <4>1. AgreesAt(wal, history, m) /\ \A j \in (m + 1)..m : wal[j].type # "Commit"
        BY <2>6, <3>1, <3>4 DEF PrefixInv
      <4>2. QED BY <3>1, <3>3, <4>1, AgreesGrow
    <3>5. QED BY <3>3, <3>4
  <2>7. \A m : Readable(m)' <=> Readable(m)
    BY <2>1 DEF Readable
  <2>8. Intact' => Len(history') = CommitsIn(wal', Len(wal'))
    BY <2>1, <2>3, <2>5 DEF Intact
  <2>9. QED BY <2>1, <2>5, <2>6, <2>7, <2>8 DEF CountInv, PrefixInv
<1> QED BY <1>1, <1>2, <1>3 DEF RestartStep

\* The history keeps count of the commit records.
LEMMA NextCount ==
  ASSUME TypeOK, CallInv, HandleInv, OneSlot, ReplayInv, CountInv, [DurabilityNext]_durabilityVars
  PROVE  CountInv'
<1>1. CASE UNCHANGED durabilityVars
  BY <1>1 DEF durabilityVars, vars, walVars, storageVars, CountInv, Readable, Intact
<1>2. ASSUME DurabilityNext, NEW t \in Threads, ThreadStep(t) PROVE CountInv'
  BY <1>2, ThreadCount
<1>3. ASSUME DurabilityNext, RestartStep PROVE CountInv'
  BY <1>3, RestartPrefix
<1> QED BY <1>1, <1>2, <1>3 DEF DurabilityNext, Next

\* Log and history agree throughout.
LEMMA NextPrefix ==
  ASSUME TypeOK, CallInv, HandleInv, OneSlot, ReadyInv, ReplayInv, CountInv, PrefixInv,
         [DurabilityNext]_durabilityVars
  PROVE  PrefixInv'
<1>1. CASE UNCHANGED durabilityVars
  BY <1>1 DEF durabilityVars, vars, walVars, storageVars, PrefixInv, Readable
<1>2. ASSUME DurabilityNext, NEW t \in Threads, ThreadStep(t) PROVE PrefixInv'
  BY <1>2, ThreadPrefix
<1>3. ASSUME DurabilityNext, RestartStep PROVE PrefixInv'
  BY <1>3, RestartPrefix
<1> QED BY <1>1, <1>2, <1>3 DEF DurabilityNext, Next

\* Nothing is logged and nothing has happened in a fresh database.
LEMMA InitHistory == DurabilityInit => CountInv /\ PrefixInv
<1> SUFFICES ASSUME DurabilityInit PROVE CountInv /\ PrefixInv
  OBVIOUS
<1>1. wal = << >> /\ history = << >> /\ status # "open" /\ Len(wal) = 0 /\ Len(history) = 0
  BY DEF DurabilityInit, Init
<1>2. CommitsIn(wal, 0) = 0
  <2>1. {i \in 1..0 : wal[i].type = "Commit"} = {}
    OBVIOUS
  <2>2. QED BY <2>1, FS_EmptySet DEF CommitsIn
<1>3. WalValue(NoWrite) = NoWrite
  BY ValuesAssumption DEF WalValue
<1>4. \A key \in Keys : LastWrite(history, 0, key, NoWrite) /\ Logged(wal, 0, key, NoWrite)
  BY DEF LastWrite, Logged
<1>5. AgreesAt(wal, history, 0)
  BY <1>2, <1>3, <1>4 DEF AgreesAt
<1> QED BY <1>1, <1>2, <1>5 DEF CountInv, PrefixInv

\* The history is cut when recovery ends and not otherwise.
LEMMA RecoveredIs ==
  ASSUME TypeOK, CallInv, DurabilityNext, Recovered
  PROVE  FinishRecover
<1>1. ASSUME NEW t \in Threads, ThreadStep(t) PROVE FALSE
  BY <1>1, ThreadStepMoves DEF Moves, Recovered
<1>2. ~Crash /\ ~Shutdown /\ ~Open /\ ~ReplayRecord
  BY DEF Recovered, Crash, Shutdown, Forget, Open, ReplayRecord, storageVars
<1> QED BY <1>1, <1>2 DEF DurabilityNext, Next, RestartStep

\* The history does not constrain the storage engine.
LEMMA DurabilityIsSpec == DurabilitySpec => Spec
<1>1. DurabilityInit => Init
  BY DEF DurabilityInit
<1>2. [DurabilityNext]_durabilityVars => [Next]_vars
  BY DEF DurabilityNext, durabilityVars
<1> QED BY <1>1, <1>2, PTL DEF DurabilitySpec, Spec

\* With clients that abort a transaction one of whose writes was refused, for
\* any number of threads, any sync mode and any sequence of crashes, torn
\* records and failed fsyncs: recovery rebuilds exactly what the
\* transactions wrote whose commit records it can read, each of them whole.
THEOREM RecoveryRestores ==
  ASSUME AbortsOnError = TRUE
  PROVE  DurabilitySpec => RecoveryRestoresCommittedPrefix
<1> DEFINE Inv == /\ HandleInv /\ SlotInv /\ FreshInv
                  /\ OneSlot /\ ReadyInv /\ ReplayInv /\ CountInv /\ PrefixInv
<1>1. DurabilityInit => Inv
  <2>1. Init => HandleInv /\ SlotInv /\ FreshInv
    BY InitAccounts
  <2>2. Init => OneSlot /\ ReadyInv /\ ReplayInv
    BY DEF Init, ReplayInv, ReadyInv, OneSlot, EmptyChain, ReadyOf, BeforeRecordOf, InCommit, Deciding, Decided, Idle
  <2>3. QED BY <2>1, <2>2, InitHistory DEF DurabilityInit
<1>2. TypeOK /\ CallInv /\ Inv /\ [DurabilityNext]_durabilityVars => Inv'
  <2>1. [DurabilityNext]_durabilityVars => [Next]_vars
    BY DEF DurabilityNext, durabilityVars
  <2>2. QED BY <2>1, NextAccounts, NextFresh, NextOneSlot, NextReady, NextReplay, NextCount, NextPrefix
<1>3. TypeOK /\ CallInv /\ Inv /\ [DurabilityNext]_durabilityVars =>
         [Recovered => \A key \in Keys : Restored(key) = WalValue(ValueAfter(Surviving, key))]_durabilityVars
  <2> SUFFICES ASSUME TypeOK, CallInv, Inv, DurabilityNext, Recovered, NEW key \in Keys
               PROVE  Restored(key) = WalValue(ValueAfter(Surviving, key))
    OBVIOUS
  <2>1. FinishRecover
    BY RecoveredIs
  <2>2. PICK n \in 0..Len(wal) : n = replay.pos /\ Readable(n) /\ n + 1 \notin ReadableRecords
    BY <2>1 DEF FinishRecover, ReplayInv
  <2>3. Surviving = CommitsIn(wal, n) /\ n \in Nat
    BY <2>2, ReadEnd
  <2>4. PICK x \in StoredValues \cup {NoWrite} :
           LastWrite(history, CommitsIn(wal, n), key, x) /\ Logged(wal, n, key, WalValue(x))
    BY <2>2 DEF PrefixInv, AgreesAt
  <2>5. ValueAfter(Surviving, key) = x
    BY <2>3, <2>4, CommitsCounted, LastWriteIs
  <2>6. Logged(wal, n, key, replay.result[key])
    BY <2>1, <2>2 DEF FinishRecover, ReplayInv
  <2>7. replay.result[key] = WalValue(x)
    BY <2>3, <2>4, <2>6, LoggedSame
  <2>8. chains'[key] = IF replay.result[key] = NoWrite THEN EmptyChain
                       ELSE [committed |-> {[value |-> replay.result[key], txn |-> nextTxnId, ts |-> tsCounter]},
                             uncommitted |-> {}]
    BY <2>1 DEF FinishRecover
  <2>9. Restored(key) = replay.result[key]
    <3>1. CASE replay.result[key] = NoWrite
      BY <2>8, <3>1 DEF Restored, EmptyChain
    <3>2. CASE replay.result[key] # NoWrite
      <4>1. PICK v : v = [value |-> replay.result[key], txn |-> nextTxnId, ts |-> tsCounter]
        OBVIOUS
      <4>2. chains'[key].committed = {v} /\ v.value = replay.result[key]
        BY <2>8, <3>2, <4>1
      <4>3. (CHOOSE w \in chains'[key].committed : TRUE) = v
        BY <4>2
      <4>4. QED BY <4>2, <4>3 DEF Restored
    <3>3. QED BY <3>1, <3>2
  <2>10. QED BY <2>5, <2>7, <2>9
<1>4. QED
  BY <1>1, <1>2, <1>3, TypeCorrect, InitCallInv, NextCallInv, DurabilityIsSpec, PTL
  DEF DurabilitySpec, Spec, RecoveryRestoresCommittedPrefix

-----------------------------------------------------------------------------
(* Acknowledged commits.                                                   *)

\* Until the last crash the whole log can be read.
TearInv ==
    /\ crashes <= MaxCrashes
    /\ crashes < MaxCrashes => Intact

\* The commit record at p is the one transaction id is to be acknowledged for.
RecordAt(log, h, id, p) ==
    /\ p \in 1..Len(log) /\ log[p] = TxnCommit(id)
    /\ \A j \in 1..Len(h) : h[j].id = id => j <= CommitsIn(log, p)

\* A call does not publish before an fsync has covered its record.
RecordInv ==
    Intact => \A t \in Threads : Recorded(thread[t]) =>
        \E p \in 1..Len(wal) : RecordAt(wal, history, thread[t].id, p) /\ (thread[t].at = "publish" => p <= synced)

\* What was acknowledged is in the part of the log that no crash takes.
AckInv ==
    status # "open" \/ crashes < MaxCrashes =>
        /\ Readable(synced)
        /\ \A i \in 1..Len(history) : history[i].acked => i <= CommitsIn(wal, synced)

\* No call takes back an fsync.
LEMMA SyncedGrows ==
  ASSUME TypeOK, NEW t \in Threads, ThreadStep(t)
  PROVE  synced' \in Nat /\ synced <= synced' /\ crashes' = crashes
<1>0. synced \in Nat /\ Len(wal) \in Nat /\ synced <= Len(wal)
  BY DEF TypeOK, WalTypeOK
<1>1. CASE BeginStep(t)
  BY <1>0, <1>1 DEF BeginStep, BeginWithMode, BeginReadOnlyFast, BeginInsert, Append1, walVars
<1>2. CASE UpdateMinStep(t) \/ ReadStep(t) \/ WriteStep(t)
  <2>1. UNCHANGED <<synced, crashes>>
    BY <1>2 DEF UpdateMinStep, UpdateMinScan, UpdateMinStore, ReadStep, Read, WriteStep, Write, Delete, WriteKey,
                walVars, storageVars
  <2>2. QED BY <1>0, <2>1
<1>3. CASE CommitStep(t)
  <2>1. CASE \E id \in TxnIds : CommitFlush(t, id)
    BY <1>0, <2>1 DEF CommitFlush
  <2>2. CASE \/ CommitValidate(t) \/ CommitRevalidate(t) \/ CommitRefused(t) \/ CommitAllocTs(t) \/ CommitTrack(t)
             \/ CommitSyncFails(t) \/ CommitPublish(t) \/ CommitDone(t)
    <3>1. UNCHANGED <<synced, crashes>>
      BY <2>2 DEF CommitValidate, CommitRevalidate, CommitRefused, CommitAllocTs, CommitTrack, CommitSyncFails,
                  CommitPublish, CommitDone, walVars
    <3>2. QED BY <1>0, <3>1
  <2>3. CASE CommitRecord(t) \/ GroupSync(t) \/ CommitSync(t)
    BY <1>0, <2>3 DEF CommitRecord, GroupSync, CommitSync, Append1, storageVars
  <2>4. QED BY <1>3, <2>1, <2>2, <2>3 DEF CommitStep
<1>4. CASE AbortStep(t)
  BY <1>0, <1>4 DEF AbortStep, Abort, AbortReadOnlyFast, Append1, walVars
<1>5. CASE MaintenanceStep(t)
  BY <1>0, <1>5 DEF MaintenanceStep, GcLoad, GcSweep, Checkpoint, AppendSync, walVars, storageVars
<1> QED BY <1>1, <1>2, <1>3, <1>4, <1>5 DEF ThreadStep

\* A call goes on to publish by CommitSync only.
LEMMA SyncToPublish ==
  ASSUME TypeOK, NEW t \in Threads, ThreadStep(t), thread[t].at = "sync", thread'[t].at = "publish"
  PROVE  CommitSync(t)
<1>0. ThreadTypeOK
  BY DEF TypeOK
<1>1. ~BeginStep(t) /\ ~UpdateMinStep(t)
  BY DEF BeginStep, BeginWithMode, BeginReadOnlyFast, BeginInsert, MayCall, In, UpdateMinStep, UpdateMinScan,
         UpdateMinStore
<1>2. ~ReadStep(t) /\ ~WriteStep(t) /\ ~AbortStep(t)
  BY DEF ReadStep, Read, WriteStep, Write, Delete, WriteKey, AbortStep, Abort, AbortReadOnlyFast, MayCall
<1>3. ~MaintenanceStep(t)
  BY DEF MaintenanceStep, GcLoad, GcSweep, Checkpoint, In
<1>4. /\ \A id \in TxnIds : ~CommitFlush(t, id)
      /\ ~CommitValidate(t) /\ ~CommitRevalidate(t) /\ ~CommitRefused(t) /\ ~CommitAllocTs(t) /\ ~CommitTrack(t)
      /\ ~CommitRecord(t) /\ ~CommitPublish(t) /\ ~CommitDone(t)
  BY DEF CommitFlush, MayCall, In, CommitValidate, CommitRevalidate, CommitRefused, CommitAllocTs, CommitTrack,
         CommitRecord, CommitPublish, CommitDone
<1>5. ~GroupSync(t)
  BY DEF GroupSync, storageVars
<1>6. ~CommitSyncFails(t)
  <2>1. CommitSyncFails(t) => thread'[t] = Idle
    BY <1>0, OtherThreads DEF CommitSyncFails, Return
  <2>2. QED BY <2>1 DEF Idle
<1> QED BY <1>1, <1>2, <1>3, <1>4, <1>5, <1>6 DEF ThreadStep, CommitStep

\* Calls do not tear the log.
LEMMA ThreadTear ==
  ASSUME TypeOK, CallInv, HandleInv, NEW t \in Threads, ThreadStep(t)
  PROVE  Intact' <=> Intact
<1>0. wal \in Seq(Records) /\ Len(wal) \in Nat
  BY DEF TypeOK, WalTypeOK
<1>1. WalGrows /\ Adds(t)
  BY ThreadStepGrowsWal, ThreadStepAdds
<1>2. \A i \in 1..Len(wal) : i \in 1..Len(wal') /\ wal'[i] = wal[i]
  BY <1>0, <1>1 DEF WalGrows
<1>3. \A i \in 1..Len(wal') : i \in 1..Len(wal) \/ wal'[i].type # "Torn"
  BY <1>1 DEF Adds
<1> QED BY <1>2, <1>3 DEF Intact

\* The last crash alone may tear the log.
LastTear == \A c \in TornCrashes : MaxCrashes <= c

\* The log stays whole until then.
LEMMA NextTear ==
  ASSUME TypeOK, CallInv, HandleInv, LastTear, TearInv, [Next]_vars
  PROVE  TearInv'
<1>0. crashes \in Nat /\ MaxCrashes \in Nat /\ wal \in Seq(Records) /\ Len(wal) \in Nat /\ synced \in Nat
  BY StorageAssumption DEF TypeOK, WalTypeOK, ClientTypeOK
<1>1. CASE UNCHANGED vars
  BY <1>1 DEF vars, walVars, storageVars, TearInv, Intact
<1>2. ASSUME NEW t \in Threads, ThreadStep(t) PROVE TearInv'
  BY <1>2, SyncedGrows, ThreadTear DEF TearInv
<1>3. CASE Crash
  <2>1. crashes < MaxCrashes /\ crashes' = crashes + 1
    BY <1>3 DEF Crash, Forget
  <2>2. PICK n \in synced..Len(wal) :
            /\ \A i \in 1..n : wal'[i] = wal[i]
            /\ Len(wal') = n \/ (Len(wal') = n + 1 /\ crashes + 1 \in TornCrashes)
    BY <1>3, CrashLog
  <2>3. ASSUME crashes' < MaxCrashes PROVE Intact'
    <3>1. ~(crashes + 1 \in TornCrashes)
      BY <1>0, <2>1, <2>3 DEF LastTear
    <3>2. Len(wal') = n /\ Intact /\ \A i \in 1..n : i \in 1..Len(wal)
      BY <1>0, <2>1, <2>2, <3>1 DEF TearInv
    <3>3. QED BY <2>2, <3>2 DEF Intact
  <2>4. QED BY <1>0, <2>1, <2>3 DEF TearInv
<1>4. CASE Shutdown
  <2>1. wal' = wal /\ crashes < MaxCrashes /\ crashes' = crashes + 1
    BY <1>4 DEF Shutdown, Forget
  <2>2. QED BY <1>0, <2>1 DEF TearInv, Intact
<1>5. CASE Open \/ ReplayRecord \/ FinishRecover
  <2>1. wal' = wal /\ crashes' = crashes
    BY <1>5 DEF Open, ReplayRecord, FinishRecover, storageVars
  <2>2. QED BY <2>1 DEF TearInv, Intact
<1> QED BY <1>1, <1>2, <1>3, <1>4, <1>5 DEF Next, RestartStep

\* The record a call is to be acknowledged for stays where it is.
LEMMA RecordStays ==
  ASSUME TypeOK, CallInv, OneSlot, CountInv, NEW t \in Threads, ThreadStep(t), DurabilityNext,
         NEW id, NEW p, RecordAt(wal, history, id, p), CommitRecord(t) => thread[t].id # id
  PROVE  RecordAt(wal', history', id, p)
<1>0. wal \in Seq(Records) /\ Len(wal) \in Nat /\ history \in Seq(Entries) /\ Len(history) \in Nat
  BY DEF TypeOK, WalTypeOK, CountInv
<1>1. p \in 1..Len(wal) /\ p \in Nat /\ wal[p] = TxnCommit(id)
  BY <1>0 DEF RecordAt
<1>2. Len(wal') \in Nat /\ Len(wal) <= Len(wal') /\ \A i \in 1..Len(wal) : wal'[i] = wal[i]
  BY ThreadStepGrowsWal DEF WalGrows
<1>3. p \in 1..Len(wal') /\ wal'[p] = TxnCommit(id)
  BY <1>0, <1>1, <1>2
<1>4. \A i \in 1..p : wal'[i] = wal[i]
  BY <1>0, <1>1, <1>2
<1>5. CommitsIn(wal', p) = CommitsIn(wal, p)
  BY <1>1, <1>4, CommitsSame
<1>6. /\ Len(history') = IF CommitRecord(t) THEN Len(history) + 1 ELSE Len(history)
      /\ \A i \in 1..Len(history) : history'[i].id = history[i].id
  BY <1>0, ThreadEntries
<1>7. ASSUME CommitRecord(t) PROVE history'[Len(history) + 1].id # id
  <2>1. PICK e : e = [id |-> thread[t].id, writes |-> WritesOf(thread[t].id), acked |-> FALSE]
    OBVIOUS
  <2>2. history' = Append(history, e)
    BY <1>7, <2>1, ThreadHistory
  <2>3. QED BY <1>0, <1>7, <2>1, <2>2
<1>8. ASSUME NEW j \in 1..Len(history'), history'[j].id = id PROVE j \in 1..Len(history) /\ history[j].id = id
  <2>1. j \in 1..Len(history) \/ (CommitRecord(t) /\ j = Len(history) + 1)
    BY <1>0, <1>6
  <2>2. QED BY <1>6, <1>7, <1>8, <2>1
<1>9. \A j \in 1..Len(history') : history'[j].id = id => j <= CommitsIn(wal', p)
  BY <1>5, <1>8 DEF RecordAt
<1> QED BY <1>3, <1>9 DEF RecordAt

\* The sync covers the record of the call that goes on.
LEMMA SyncCovers ==
  ASSUME TypeOK, NEW t \in Threads, CommitSync(t), SyncMode \in {"FULL", "GROUP"}, NEW p, RecordAt(wal, history, thread[t].id, p)
  PROVE  p <= synced'
<1>0. Len(wal) \in Nat /\ synced \in 0..Len(wal) /\ p \in 1..Len(wal) /\ wal[p] = TxnCommit(thread[t].id)
  BY DEF TypeOK, WalTypeOK, RecordAt
<1>1. CASE SyncMode = "FULL"
  <2>1. synced' = Len(wal)
    BY <1>1 DEF CommitSync
  <2>2. QED BY <1>0, <2>1
<1>2. CASE SyncMode = "GROUP"
  <2>1. RecordSynced(thread[t].id) /\ synced' = synced
    BY <1>2 DEF CommitSync
  <2>2. PICK k \in 1..synced : \A j \in (k + 1)..Len(wal) : wal[j] # TxnCommit(thread[t].id)
    BY <2>1 DEF RecordSynced
  <2>3. p <= k
    BY <1>0, <2>2
  <2>4. QED BY <1>0, <2>1, <2>3
<1> QED BY <1>1, <1>2

\* Records are synced before their calls publish.
LEMMA NextRecord ==
  ASSUME TypeOK, CallInv, HandleInv, OneSlot, CountInv, RecordInv, SyncMode \in {"FULL", "GROUP"},
         [DurabilityNext]_durabilityVars
  PROVE  RecordInv'
<1>0. ThreadTypeOK /\ wal \in Seq(Records) /\ Len(wal) \in Nat /\ synced \in 0..Len(wal) /\ synced \in Nat
      /\ history \in Seq(Entries) /\ Len(history) \in Nat
  BY DEF TypeOK, WalTypeOK, CountInv
<1>1. CASE UNCHANGED durabilityVars
  BY <1>1 DEF durabilityVars, vars, walVars, storageVars, RecordInv, RecordAt, Intact
<1>2. ASSUME DurabilityNext, NEW t \in Threads, ThreadStep(t), Intact', NEW u \in Threads, Recorded(thread'[u])
      PROVE  \E p \in 1..Len(wal') : RecordAt(wal', history', thread'[u].id, p) /\ (thread'[u].at = "publish" => p <= synced')
  <2>0. Intact /\ status = "open" /\ synced <= synced' /\ \A w \in Threads \ {t} : thread'[w] = thread[w]
    BY <1>0, <1>2, ThreadTear, SyncedGrows, ThreadStepMoves, OtherThreads DEF Moves
  <2>1. CASE CommitRecord(t) /\ u = t
    <3>1. wal' = Append(wal, TxnCommit(thread[t].id)) /\ synced' = synced
      BY <2>1 DEF CommitRecord, Append1
    <3>2. thread'[t].id = thread[t].id /\ thread'[t].at = "sync"
      BY <1>0, <2>1, GotoLocals DEF CommitRecord
    <3>3. PICK p \in Nat : p = Len(wal) + 1
      BY <1>0
    <3>4. p \in 1..Len(wal') /\ Len(wal') = p /\ wal'[p] = TxnCommit(thread[t].id) /\ p - 1 = Len(wal)
      BY <1>0, <3>1, <3>3
    <3>5. CommitsIn(wal', p) = Len(history')
      <4>1. CountInv' /\ status' = "open"
        BY <1>2, ThreadCount, ThreadStepMoves DEF Moves
      <4>2. QED BY <1>2, <3>4, <4>1 DEF CountInv
    <3>6. \A j \in 1..Len(history') : j <= CommitsIn(wal', p)
      BY <3>5
    <3>7. RecordAt(wal', history', thread'[t].id, p)
      BY <3>2, <3>4, <3>6 DEF RecordAt
    <3>8. QED BY <2>1, <3>2, <3>4, <3>7
  <2>2. CASE ~(CommitRecord(t) /\ u = t)
    <3>1. Recorded(thread[u]) /\ thread'[u].id = thread[u].id
      BY <1>2, <2>0, <2>2, RecordedThreads
    <3>2. PICK id \in TxnIds : id = thread[u].id
      BY <1>0, <3>1, LocalsOf DEF Recorded, TxnLabels, Labels
    <3>3. PICK p \in 1..Len(wal) : RecordAt(wal, history, id, p) /\ (thread[u].at = "publish" => p <= synced)
      BY <2>0, <3>1, <3>2 DEF RecordInv
    <3>4. CommitRecord(t) => thread[t].id # id
      BY <2>2, <3>2, TxnIdsNat DEF CallInv
    <3>5. RecordAt(wal', history', id, p)
      BY <1>2, <3>3, <3>4, RecordStays
    <3>6. p \in 1..Len(wal')
      BY <3>5 DEF RecordAt
    <3>7. ASSUME thread'[u].at = "publish" PROVE p <= synced'
      <4>1. CASE thread[u].at = "publish"
        <5>1. p <= synced /\ p \in Nat
          BY <3>3, <4>1
        <5>2. synced' \in Nat
          BY <1>2, SyncedGrows
        <5>3. QED BY <1>0, <2>0, <5>1, <5>2
      <4>2. CASE thread[u].at = "sync"
        <5>1. u = t
          BY <2>0, <3>7, <4>2
        <5>2. CommitSync(t)
          BY <1>2, <3>7, <4>2, <5>1, SyncToPublish
        <5>3. QED BY <3>2, <3>3, <5>1, <5>2, SyncCovers
      <4>3. QED BY <3>1, <4>1, <4>2 DEF Recorded
    <3>8. QED BY <3>1, <3>2, <3>5, <3>6, <3>7
  <2>3. QED BY <2>1, <2>2
<1>3. ASSUME RestartStep PROVE \A u \in Threads : ~Recorded(thread'[u])
  <2>1. thread' = [t \in Threads |-> Idle] \/ (status # "open" /\ thread' = thread)
    BY <1>3 DEF RestartStep, Crash, Shutdown, Forget, Open, ReplayRecord, FinishRecover, storageVars
  <2>2. \A u \in Threads : thread'[u] = Idle
    BY <2>1 DEF CallInv, Closed
  <2>3. QED BY <2>2 DEF Recorded, Idle
<1> QED BY <1>1, <1>2, <1>3 DEF DurabilityNext, Next, RecordInv

\* The fsynced commits are among those of a longer log and a later fsync.
LEMMA SyncedCommits ==
  ASSUME NEW s \in Nat, NEW r \in Nat, s <= r, NEW log, NEW new, \A i \in 1..s : new[i] = log[i]
  PROVE  CommitsIn(log, s) \in Nat /\ CommitsIn(new, r) \in Nat /\ CommitsIn(log, s) <= CommitsIn(new, r)
<1>1. CommitsIn(new, s) = CommitsIn(log, s)
  BY CommitsSame
<1>2. s \in 0..r
  OBVIOUS
<1>3. CommitsIn(new, s) \in Nat /\ CommitsIn(new, r) \in Nat /\ CommitsIn(new, s) <= CommitsIn(new, r)
  BY <1>2, CommitsCounted
<1> QED BY <1>1, <1>3

\* Calls acknowledge only what is synced.
LEMMA ThreadAck ==
  ASSUME TypeOK, CallInv, HandleInv, OneSlot, CountInv, TearInv, RecordInv, AckInv,
         NEW t \in Threads, ThreadStep(t), DurabilityNext, crashes < MaxCrashes,
         WalTypeOK'
  PROVE  AckInv'
<1>0. wal \in Seq(Records) /\ Len(wal) \in Nat /\ synced \in 0..Len(wal) /\ synced \in Nat
      /\ history \in Seq(Entries) /\ Len(history) \in Nat
  BY DEF TypeOK, WalTypeOK, CountInv
<1>1. Intact /\ Intact' /\ synced' \in Nat /\ synced <= synced' /\ synced' \in 0..Len(wal')
  BY ThreadTear, SyncedGrows DEF TearInv, WalTypeOK
<1>2. Readable(synced)'
  BY <1>1 DEF Readable, Intact
<1>3. Len(wal) <= Len(wal') /\ \A i \in 1..Len(wal) : wal'[i] = wal[i]
  BY ThreadStepGrowsWal DEF WalGrows
<1>4. CommitsIn(wal, synced) \in Nat /\ CommitsIn(wal', synced') \in Nat /\ CommitsIn(wal, synced) <= CommitsIn(wal', synced')
  <2>1. \A i \in 1..synced : wal'[i] = wal[i]
    BY <1>0, <1>3
  <2>2. QED BY <1>0, <1>1, <2>1, SyncedCommits
<1>5. /\ Len(history') = IF CommitRecord(t) THEN Len(history) + 1 ELSE Len(history)
      /\ \A i \in 1..Len(history) :
            history'[i].acked => history[i].acked \/ (CommitDone(t) /\ history[i].id = thread[t].id)
  BY <1>0, ThreadEntries
<1>6. ASSUME NEW i \in 1..Len(history), history[i].acked PROVE i <= CommitsIn(wal, synced)
  BY <1>6 DEF AckInv
<1>7. ASSUME NEW i \in 1..Len(history), CommitDone(t), history[i].id = thread[t].id PROVE i <= CommitsIn(wal, synced)
  <2>1. thread[t].at = "publish" /\ Recorded(thread[t])
    BY <1>7 DEF CommitDone, In, Recorded
  <2>2. PICK p \in 1..Len(wal) : RecordAt(wal, history, thread[t].id, p) /\ p <= synced
    BY <1>1, <2>1 DEF RecordInv
  <2>3. i <= CommitsIn(wal, p)
    BY <1>7, <2>2 DEF RecordAt
  <2>4. p \in Nat /\ p \in 0..synced
    BY <1>0, <2>2
  <2>5. CommitsIn(wal, p) \in Nat /\ CommitsIn(wal, p) <= CommitsIn(wal, synced)
    BY <1>0, <2>4, CommitsCounted
  <2>6. QED BY <1>4, <2>3, <2>5
<1>8. ASSUME CommitRecord(t) PROVE ~history'[Len(history) + 1].acked
  <2>1. PICK e : e = [id |-> thread[t].id, writes |-> WritesOf(thread[t].id), acked |-> FALSE]
    OBVIOUS
  <2>2. history' = Append(history, e)
    BY <1>8, <2>1, ThreadHistory
  <2>3. history'[Len(history) + 1] = e
    BY <1>0, <2>2
  <2>4. ~e.acked
    BY <2>1
  <2>5. QED BY <2>3, <2>4
<1>9. ASSUME NEW i \in 1..Len(history'), history'[i].acked PROVE i <= CommitsIn(wal', synced')
  <2>1. i \in 1..Len(history) \/ (CommitRecord(t) /\ i = Len(history) + 1)
    BY <1>0, <1>5
  <2>2. CASE i \in 1..Len(history)
    <3>1. i <= CommitsIn(wal, synced)
      BY <1>5, <1>6, <1>7, <1>9, <2>2
    <3>2. QED BY <1>4, <2>2, <3>1
  <2>3. QED BY <1>8, <1>9, <2>1, <2>2
<1> QED BY <1>2, <1>9 DEF AckInv

\* No crash takes what was acknowledged.
LEMMA RestartAck ==
  ASSUME TypeOK, CallInv, ReplayInv, CountInv, TearInv, AckInv, RestartStep, DurabilityNext
  PROVE  AckInv'
<1>0. wal \in Seq(Records) /\ Len(wal) \in Nat /\ synced \in 0..Len(wal) /\ synced \in Nat
      /\ history \in Seq(Entries) /\ Len(history) \in Nat
  BY DEF TypeOK, WalTypeOK, CountInv
<1>1. CASE Crash
  <2>1. history' = history /\ synced' = synced /\ crashes < MaxCrashes
    BY <1>1, RestartHistory DEF Crash, FinishRecover, Forget
  <2>2. PICK n \in synced..Len(wal) : \A i \in 1..n : wal'[i] = wal[i]
    BY <1>1, CrashLog
  <2>3. \A i \in 1..synced : wal'[i] = wal[i]
    BY <1>0, <2>2
  <2>4. CommitsIn(wal', synced) = CommitsIn(wal, synced)
    BY <1>0, <2>3, CommitsSame
  <2>5. Readable(synced) /\ \A i \in 1..Len(history) : history[i].acked => i <= CommitsIn(wal, synced)
    BY <2>1 DEF AckInv
  <2>6. Readable(synced)'
    BY <2>1, <2>3, <2>5 DEF Readable
  <2>7. QED BY <2>1, <2>4, <2>5, <2>6 DEF AckInv
<1>2. CASE Shutdown
  <2>1. history' = history /\ wal' = wal /\ synced' = Len(wal) /\ crashes < MaxCrashes
    BY <1>2, RestartHistory DEF Shutdown, FinishRecover, Forget
  <2>2. Readable(synced)'
    BY <2>1 DEF TearInv, Intact, Readable
  <2>3. CommitsIn(wal, synced) \in Nat /\ CommitsIn(wal, Len(wal)) \in Nat /\ CommitsIn(wal, synced) <= CommitsIn(wal, Len(wal))
    BY <1>0, CommitsCounted
  <2>4. \A i \in 1..Len(history) : history[i].acked => i <= CommitsIn(wal, synced)
    BY <2>1 DEF AckInv
  <2>5. \A i \in 1..Len(history) : history[i].acked => i <= CommitsIn(wal, Len(wal))
    BY <1>0, <2>3, <2>4
  <2>6. QED BY <2>1, <2>2, <2>5 DEF AckInv
<1>3. CASE Open \/ ReplayRecord
  <2>1. UNCHANGED <<history, wal, synced, crashes>> /\ status # "open"
    BY <1>3, RestartHistory DEF Open, ReplayRecord, FinishRecover, storageVars
  <2>2. QED BY <2>1 DEF AckInv, Readable
<1>4. CASE FinishRecover
  <2>1. UNCHANGED <<wal, synced>> /\ status # "open" /\ history' = SubSeq(history, 1, Surviving)
    BY <1>4, RestartHistory DEF FinishRecover
  <2>2. PICK n \in 0..Len(wal) : Readable(n) /\ n + 1 \notin ReadableRecords
    BY <1>4 DEF FinishRecover, ReplayInv
  <2>3. Surviving = CommitsIn(wal, n) /\ n \in Nat
    BY <2>2, ReadEnd
  <2>4. Surviving \in Nat /\ Surviving <= Len(history)
    BY <1>0, <2>2, <2>3, CommitsCounted DEF CountInv
  <2>5. Len(history') = Surviving /\ \A i \in 1..Surviving : history'[i] = history[i] /\ i \in 1..Len(history)
    BY <1>0, <2>1, <2>4
  <2>6. Readable(synced) /\ \A i \in 1..Len(history) : history[i].acked => i <= CommitsIn(wal, synced)
    BY <2>1 DEF AckInv
  <2>7. Readable(synced)'
    BY <2>1, <2>6 DEF Readable
  <2>8. QED BY <2>1, <2>5, <2>6, <2>7 DEF AckInv
<1> QED BY <1>1, <1>2, <1>3, <1>4 DEF RestartStep

\* What was acknowledged stays in the synced part of the log.
LEMMA NextAck ==
  ASSUME TypeOK, TypeOK', CallInv, HandleInv, OneSlot, ReplayInv, CountInv, TearInv, RecordInv, AckInv,
         [DurabilityNext]_durabilityVars
  PROVE  AckInv'
<1>1. CASE UNCHANGED durabilityVars
  BY <1>1 DEF durabilityVars, vars, walVars, storageVars, AckInv, Readable
<1>2. ASSUME DurabilityNext, NEW t \in Threads, ThreadStep(t) PROVE AckInv'
  <2>1. CASE crashes < MaxCrashes
    BY <1>2, <2>1, ThreadAck DEF TypeOK
  <2>2. CASE ~(crashes < MaxCrashes)
    <3>1. status' = "open" /\ crashes' = crashes
      BY <1>2, SyncedGrows, ThreadStepMoves DEF Moves
    <3>2. QED BY <2>2, <3>1 DEF AckInv
  <2>3. QED BY <2>1, <2>2
<1>3. ASSUME DurabilityNext, RestartStep PROVE AckInv'
  BY <1>3, RestartAck
<1> QED BY <1>1, <1>2, <1>3 DEF DurabilityNext, Next

\* With sync mode FULL or group commit, for any number of threads and crashes
\* and with fsyncs that fail: every transaction whose commit() returned Ok is
\* among those recovery restores, provided no crash but the last one leaves a
\* torn record.  (Without that proviso it is false: see MCTornTail.)
THEOREM AckedSurvive ==
  ASSUME SyncMode \in {"FULL", "GROUP"}, LastTear
  PROVE  DurabilitySpec => AckedCommitsSurvive
<1> DEFINE Inv == /\ HandleInv /\ SlotInv
                  /\ OneSlot /\ ReplayInv /\ CountInv /\ TearInv /\ RecordInv /\ AckInv
<1>1. DurabilityInit => Inv
  <2>1. Init => HandleInv /\ SlotInv
    BY InitAccounts
  <2>2. Init => OneSlot /\ ReplayInv
    BY DEF Init, ReplayInv, OneSlot, EmptyChain
  <2>3. DurabilityInit => TearInv /\ RecordInv /\ AckInv
    <3> SUFFICES ASSUME DurabilityInit PROVE TearInv /\ RecordInv /\ AckInv
      OBVIOUS
    <3>1. /\ wal = << >> /\ history = << >> /\ synced = 0 /\ crashes = 0 /\ Len(wal) = 0 /\ Len(history) = 0
          /\ \A t \in Threads : thread[t] = Idle
      BY DEF DurabilityInit, Init
    <3>2. TearInv
      BY <3>1, StorageAssumption DEF TearInv, Intact
    <3>3. RecordInv
      BY <3>1 DEF RecordInv, Recorded, Idle
    <3>4. AckInv
      BY <3>1 DEF AckInv, Readable
    <3>5. QED BY <3>2, <3>3, <3>4
  <2>4. QED BY <2>1, <2>2, <2>3, InitHistory DEF DurabilityInit
<1>2. TypeOK /\ TypeOK' /\ CallInv /\ Inv /\ [DurabilityNext]_durabilityVars => Inv'
  <2>1. [DurabilityNext]_durabilityVars => [Next]_vars
    BY DEF DurabilityNext, durabilityVars
  <2>2. QED BY <2>1, NextAccounts, NextOneSlot, NextReplay, NextCount, NextTear, NextRecord, NextAck
<1>3. TypeOK /\ CallInv /\ Inv /\ [DurabilityNext]_durabilityVars =>
         [Recovered => \A i \in DOMAIN history : history[i].acked => i <= Surviving]_durabilityVars
  <2> SUFFICES ASSUME TypeOK, CallInv, Inv, DurabilityNext, Recovered, NEW i \in DOMAIN history, history[i].acked
               PROVE  i <= Surviving
    OBVIOUS
  <2>0. /\ Len(wal) \in Nat /\ synced \in 0..Len(wal) /\ synced \in Nat
        /\ i \in 1..Len(history) /\ status = "recovering"
    BY DEF TypeOK, WalTypeOK, CountInv, Recovered
  <2>1. FinishRecover
    BY RecoveredIs
  <2>2. PICK n \in 0..Len(wal) : Readable(n) /\ n + 1 \notin ReadableRecords
    BY <2>1 DEF FinishRecover, ReplayInv
  <2>3. Surviving = CommitsIn(wal, n) /\ n \in Nat /\ \A m \in 0..Len(wal) : Readable(m) => m <= n
    BY <2>2, ReadEnd
  <2>4. Readable(synced) /\ i <= CommitsIn(wal, synced)
    BY <2>0 DEF AckInv
  <2>5. synced \in 0..n
    BY <2>0, <2>3, <2>4
  <2>6. CommitsIn(wal, synced) \in Nat /\ CommitsIn(wal, n) \in Nat /\ CommitsIn(wal, synced) <= CommitsIn(wal, n)
    BY <2>0, <2>3, <2>5, CommitsCounted
  <2>7. QED BY <2>0, <2>3, <2>4, <2>6
<1>4. QED
  BY <1>1, <1>2, <1>3, TypeCorrect, InitCallInv, NextCallInv, DurabilityIsSpec, PTL
  DEF DurabilitySpec, Spec, AckedCommitsSurvive

=============================================================================
