---------------------------- MODULE SessionProofs ----------------------------
(***************************************************************************)
(* What holds of Session for every set of clients, rows and strings, every *)
(* bound of the transactions, and both programs.                           *)
(***************************************************************************)
EXTENDS Session, TLAPS, SequenceTheorems

-----------------------------------------------------------------------------
(* Types.  A write still has rows to come whenever it is the next statement.*)

KeysLeft(sql) == \A i \in DOMAIN sql : sql[i].do = "write" => sql[i].keys # <<>>

Typed ==
    /\ TypeOK
    /\ \A t \in Thread : at[t].do = "running" => KeysLeft(at[t].todo)

\* What a thread is doing has the fields that go with it.
LEMMA Kinds ==
    ASSUME TypeOK, NEW t \in Thread
    PROVE  /\ at[t].do \in {"running", "raised"} => at[t] \in Work
           /\ at[t].do = "connected" => at[t] \in [do : {"connected"}, txn : Txn]
           /\ at[t].do \in {"idle", "away", "connected", "running", "raised"}
           /\ at[t].do = "idle" => at[t] = Idle
           /\ at[t].do = "away" => at[t] = Away
  BY DEF TypeOK, Idle, Away, Work

LEMMA HeadStatement ==
    ASSUME NEW sql \in Seq(Statement), sql # <<>>
    PROVE  Head(sql) \in Statement /\ Tail(sql) \in Seq(Statement)
  BY HeadTailProperties

LEMMA TailLeft ==
    ASSUME NEW sql \in Seq(Statement), sql # <<>>, KeysLeft(sql)
    PROVE  KeysLeft(Tail(sql))
<1> SUFFICES ASSUME NEW i \in DOMAIN Tail(sql) PROVE i + 1 \in DOMAIN sql /\ Tail(sql)[i] = sql[i + 1]
  BY DEF KeysLeft
<1> QED BY HeadTailProperties

LEMMA WriteLeft ==
    ASSUME NEW sql \in Seq(Statement), sql # <<>>, KeysLeft(sql), Head(sql).do = "write"
    PROVE  /\ Head(sql).keys \in Seq(Key) /\ Head(sql).keys # <<>>
           /\ Head(Head(sql).keys) \in Key
<1>1. Head(sql) \in Statement /\ 1 \in DOMAIN sql /\ Head(sql) = sql[1]
  BY HeadTailProperties
<1>2. Head(sql).keys \in Seq(Key)
  BY <1>1 DEF Statement
<1> QED BY <1>1, <1>2, HeadTailProperties DEF KeysLeft

\* The first row of a write done.
LEMMA FirstRowDone ==
    ASSUME NEW sql \in Seq(Statement), sql # <<>>, KeysLeft(sql), Head(sql).do = "write",
           Tail(Head(sql).keys) # <<>>
    PROVE  LET rest == [sql EXCEPT ![1].keys = Tail(Head(sql).keys)] IN
           /\ rest \in Seq(Statement) /\ KeysLeft(rest) /\ Len(rest) = Len(sql)
           /\ \A i \in DOMAIN sql : rest[i].do = sql[i].do
<1> DEFINE rest == [sql EXCEPT ![1].keys = Tail(Head(sql).keys)]
<1>1. Head(sql) = sql[1] /\ 1 \in DOMAIN sql /\ DOMAIN sql = 1..Len(sql) /\ Len(sql) \in Nat
  BY HeadTailProperties
<1>2. sql[1] \in [do : {"write"}, keys : Seq(Key)]
  BY <1>1, HeadTailProperties DEF Statement
<1>3. Tail(Head(sql).keys) \in Seq(Key)
  BY <1>1, <1>2, WriteLeft, HeadTailProperties
<1>4. rest[1] = [sql[1] EXCEPT !.keys = Tail(Head(sql).keys)]
  BY <1>1
<1>5. rest[1] \in Statement /\ rest[1].do = "write" /\ rest[1].keys = Tail(Head(sql).keys)
  BY <1>2, <1>3, <1>4 DEF Statement
<1>6. \A i \in DOMAIN sql : i # 1 => rest[i] = sql[i]
  OBVIOUS
<1>7. \A i \in DOMAIN sql : rest[i] \in Statement
  <2> HIDE DEF rest
  <2>1. \A i \in DOMAIN sql : sql[i] \in Statement
    BY <1>1, ElementOfSeq
  <2> QED BY <1>5, <1>6, <2>1
<1>8. rest \in Seq(Statement) /\ Len(rest) = Len(sql) /\ DOMAIN rest = DOMAIN sql
  <2>1. rest = [i \in 1..Len(sql) |-> rest[i]]
    BY <1>1
  <2>2. rest \in [1..Len(sql) -> Statement]
    BY <1>1, <1>7, <2>1
  <2>3. rest \in Seq(Statement)
    BY <1>1, <2>2
  <2> QED BY <1>1, <2>2, <2>3
<1> QED BY <1>2, <1>5, <1>6, <1>8, <1>1 DEF KeysLeft

LEMMA BegunType ==
    ASSUME TypeOK, New \in Txn, NEW level \in Level
    PROVE  Begun(level) \in Seq(Transaction) /\ Len(Begun(level)) = New
<1>1. [k \in Key |-> Committed(k)] \in [Key -> Version]
  BY DEF TypeOK, Committed, Version
<1>2. [state |-> "RUNNING", level |-> level, read_ts |-> last_commit_ts,
       snapshot |-> [k \in Key |-> Committed(k)], scanned |-> FALSE] \in Transaction
  BY <1>1 DEF TypeOK, Transaction, State
<1> QED BY <1>2, AppendProperties DEF TypeOK, Begun, New

\* A change of one transaction.
LEMMA TxnsExcept ==
    ASSUME TypeOK, NEW x \in DOMAIN txns, NEW r \in Transaction
    PROVE  LET changed == [txns EXCEPT ![x] = r] IN
           /\ changed \in Seq(Transaction) /\ Len(changed) = Len(txns)
  BY ExceptSeq DEF TypeOK

LEMMA EndedType ==
    ASSUME TypeOK, NEW x \in DOMAIN txns, NEW state \in State, Ended(x, state)
    PROVE  txns' \in Seq(Transaction) /\ Len(txns') = Len(txns)
<1>1. txns[x] \in Transaction
  BY ElementOfSeq DEF TypeOK
<1>2. [txns[x] EXCEPT !.state = state] \in Transaction
  BY <1>1 DEF Transaction
<1> QED BY <1>2, TxnsExcept DEF Ended

LEMMA AbortType ==
    ASSUME TypeOK, NEW x \in DOMAIN txns, Abort(x)
    PROVE  /\ txns' \in Seq(Transaction) /\ Len(txns') = Len(txns)
           /\ rows' \in [Key -> [ts : Nat, v : Txn \cup {NoTxn}, by : Txn \cup {NoTxn}]]
           /\ last_commit_ts' \in Nat
<1>1. txns' \in Seq(Transaction) /\ Len(txns') = Len(txns)
  BY EndedType DEF Abort, State
<1> QED BY <1>1 DEF Abort, TypeOK

LEMMA CommitType ==
    ASSUME TypeOK, NEW x \in DOMAIN txns, Commit(x)
    PROVE  /\ txns' \in Seq(Transaction) /\ Len(txns') = Len(txns)
           /\ rows' \in [Key -> [ts : Nat, v : Txn \cup {NoTxn}, by : Txn \cup {NoTxn}]]
           /\ last_commit_ts' \in Nat
<1>1. CASE Publish(x)
  <2>1. txns' \in Seq(Transaction) /\ Len(txns') = Len(txns)
    BY <1>1, EndedType DEF Publish, State
  <2> QED BY <1>1, <2>1 DEF Publish, TypeOK
<1> QED BY <1>1, AbortType DEF Commit

\* Parts of the types that a step moves together.
StoreTyped ==
    /\ txns \in Seq(Transaction) /\ Len(txns) \in 0..MaxTxns
    /\ rows \in [Key -> [ts : Nat, v : Txn \cup {NoTxn}, by : Txn \cup {NoTxn}]]
    /\ last_commit_ts \in Nat

AtTyped(s, n) ==
    /\ s \in {Idle, Away} \cup [do : {"connected"}, txn : Txn] \cup Work
    /\ s.do \in {"connected", "running", "raised"} => s.txn \in 1..n
    /\ s.do = "running" => KeysLeft(s.todo)

\* A step of thread t that changes nobody else.
LEMMA OneThread ==
    ASSUME Typed, NEW t \in Thread, NEW s, at' = [at EXCEPT ![t] = s], AtTyped(s, Len(txns')),
           StoreTyped', Len(txns') >= Len(txns),
           current_txn' \in DOMAIN txns' \cup {NoTxn}, setting' \in Setting, UNCHANGED mode,
           terminated' \in BOOLEAN
    PROVE  Typed'
<1>1. DOMAIN txns \subseteq DOMAIN txns'
  BY DEF Typed, TypeOK, StoreTyped
<1>2. \A u \in Thread : u # t => at'[u] = at[u]
  BY DEF Typed, TypeOK
<1>3. at'[t] = s
  BY DEF Typed, TypeOK
<1>4. \A u \in Thread : AtTyped(at'[u], Len(txns'))
  BY <1>1, <1>2, <1>3 DEF Typed, TypeOK, AtTyped
<1>5. at' \in [Thread -> {Idle, Away} \cup [do : {"connected"}, txn : Txn] \cup Work]
  BY <1>4 DEF AtTyped, Typed, TypeOK
<1> QED BY <1>4, <1>5 DEF Typed, TypeOK, StoreTyped, AtTyped

LEMMA DoneTyped ==
    ASSUME Typed, NEW t \in Thread, at[t].do = "running", at[t].todo # <<>>, Done(t),
           StoreTyped', Len(txns') >= Len(txns),
           current_txn' \in DOMAIN txns' \cup {NoTxn}, setting' \in Setting, UNCHANGED <<mode, terminated>>
    PROVE  Typed'
<1> DEFINE s == [at[t] EXCEPT !.todo = Tail(at[t].todo)]
<1>1. at[t] \in Work /\ at[t].txn \in DOMAIN txns
  BY Kinds DEF Typed, TypeOK
<1>2. Tail(at[t].todo) \in Seq(Statement) /\ KeysLeft(Tail(at[t].todo))
  BY <1>1, HeadStatement, TailLeft DEF Work, Typed
<1>3. s \in Work /\ s.txn = at[t].txn /\ s.todo = Tail(at[t].todo)
  BY <1>1, <1>2 DEF Work
<1>4. at' = [at EXCEPT ![t] = s]
  BY DEF Done
<1>5. AtTyped(s, Len(txns'))
  BY <1>1, <1>2, <1>3 DEF AtTyped, StoreTyped, Typed, TypeOK
<1> HIDE DEF s
<1> QED BY <1>4, <1>5, OneThread DEF Typed, TypeOK

LEMMA RaiseTyped ==
    ASSUME Typed, NEW t \in Thread, at[t].do = "running", Raise(t),
           StoreTyped', Len(txns') >= Len(txns), UNCHANGED <<current_txn, setting, mode, terminated>>
    PROVE  Typed'
<1> DEFINE s == [at[t] EXCEPT !.do = "raised"]
<1>1. at[t] \in Work /\ at[t].txn \in DOMAIN txns
  BY Kinds DEF Typed, TypeOK
<1>2. s \in Work /\ s.txn = at[t].txn /\ s.do = "raised"
  BY <1>1 DEF Work
<1>3. at' = [at EXCEPT ![t] = s]
  BY DEF Raise
<1>4. AtTyped(s, Len(txns')) /\ current_txn' \in DOMAIN txns' \cup {NoTxn} /\ setting' \in Setting /\ terminated' \in BOOLEAN
  BY <1>1, <1>2 DEF AtTyped, StoreTyped, Typed, TypeOK
<1> HIDE DEF s
<1> QED BY <1>3, <1>4, OneThread

LEMMA RestsTyped ==
    ASSUME Typed, NEW t \in Thread, NEW s \in {Idle, Away} \cup [do : {"connected"}, txn : DOMAIN txns],
           at' = [at EXCEPT ![t] = s],
           StoreTyped', Len(txns') >= Len(txns), current_txn' \in DOMAIN txns' \cup {NoTxn},
           UNCHANGED <<setting, mode, terminated>>
    PROVE  Typed'
<1>0. DOMAIN txns = 1..Len(txns) /\ Len(txns) <= MaxTxns
  BY DEF Typed, TypeOK
<1>1. s \in {Idle, Away} \cup [do : {"connected"}, txn : Txn] /\ s.do # "running" /\ s.do # "raised"
      /\ (s.do = "connected" => s.txn \in DOMAIN txns)
  BY <1>0, SessionAssumption DEF Txn, Idle, Away
<1>2. DOMAIN txns \subseteq DOMAIN txns'
  BY DEF Typed, TypeOK, StoreTyped
<1>3. AtTyped(s, Len(txns'))
  BY <1>1, <1>2 DEF AtTyped
<1> QED BY <1>3, OneThread DEF Typed, TypeOK

LEMMA RunsTyped ==
    ASSUME Typed, NEW t \in Thread, NEW x \in DOMAIN txns', NEW own \in BOOLEAN, NEW sql \in Strings,
           at' = [at EXCEPT ![t] = Running(x, own, sql)],
           StoreTyped', Len(txns') >= Len(txns), UNCHANGED <<current_txn, setting, mode, terminated>>
    PROVE  Typed'
<1>1. sql \in Seq(Statement) /\ KeysLeft(sql)
  BY SessionAssumption DEF KeysLeft
<1>2. Running(x, own, sql) \in Work /\ Running(x, own, sql).todo = sql /\ Running(x, own, sql).txn = x
  <2>1. x \in Txn
    BY SessionAssumption DEF Txn, StoreTyped
  <2> QED BY <1>1, <2>1 DEF Running, Work
<1>3. AtTyped(Running(x, own, sql), Len(txns'))
  BY <1>1, <1>2 DEF AtTyped
<1>4. current_txn' \in DOMAIN txns' \cup {NoTxn} /\ setting' \in Setting /\ terminated' \in BOOLEAN
  BY DEF Typed, TypeOK, StoreTyped
<1> QED BY <1>3, <1>4, OneThread

\* A step that leaves the transaction manager alone, or only changes a transaction.
LEMMA StoreKept ==
    ASSUME Typed, UNCHANGED store
    PROVE  StoreTyped' /\ Len(txns') >= Len(txns)
  BY DEF Typed, TypeOK, StoreTyped, store

LEMMA AtTransaction ==
    ASSUME Typed, NEW t \in Thread, at[t].do \in {"connected", "running", "raised"}
    PROVE  at[t].txn \in DOMAIN txns /\ txns[at[t].txn] \in Transaction
<1>1. at[t].txn \in DOMAIN txns
  BY DEF Typed, TypeOK
<1> QED BY <1>1, ElementOfSeq DEF Typed, TypeOK

LEMMA EndTyped ==
    ASSUME Typed, NEW x \in DOMAIN txns, Commit(x) \/ Abort(x)
    PROVE  StoreTyped' /\ Len(txns') >= Len(txns) /\ DOMAIN txns' = DOMAIN txns
<1>1. TypeOK
  BY DEF Typed
<1>2. /\ txns' \in Seq(Transaction) /\ Len(txns') = Len(txns)
      /\ rows' \in [Key -> [ts : Nat, v : Txn \cup {NoTxn}, by : Txn \cup {NoTxn}]]
      /\ last_commit_ts' \in Nat
  BY <1>1, CommitType, AbortType
<1> QED BY <1>1, <1>2 DEF StoreTyped, TypeOK

LEMMA BeginTyped ==
    ASSUME Typed, New \in Txn, NEW level \in Level, txns' = Begun(level), UNCHANGED <<rows, last_commit_ts>>
    PROVE  /\ StoreTyped' /\ Len(txns') = New /\ New = Len(txns) + 1 /\ New \in DOMAIN txns'
           /\ Len(txns') >= Len(txns) /\ DOMAIN txns \subseteq DOMAIN txns'
<1>1. txns' \in Seq(Transaction) /\ Len(txns') = New
  BY BegunType DEF Typed
<1> QED BY <1>1, SessionAssumption DEF Typed, TypeOK, StoreTyped, New, Txn

LEMMA ConflictTyped == ASSUME Typed, NEW t \in Thread, Conflict(t) PROVE Typed'
<1> DEFINE s == [at[t] EXCEPT !.todo = Tail(at[t].todo), !.ok = FALSE]
<1>1. at[t] \in Work /\ at[t].do = "running" /\ at[t].todo # <<>>
  BY Kinds DEF Typed, Conflict, Doing
<1>2. at[t].txn \in DOMAIN txns /\ txns[at[t].txn] \in Transaction
  BY <1>1, AtTransaction
<1>3. Ended(at[t].txn, "TAINTED") /\ UNCHANGED <<rows, last_commit_ts>>
  BY DEF Conflict, Ended
<1>4. StoreTyped' /\ Len(txns') = Len(txns) /\ Len(txns') >= Len(txns)
  BY <1>2, <1>3, EndedType DEF State, Typed, TypeOK, StoreTyped
<1>5. Tail(at[t].todo) \in Seq(Statement) /\ KeysLeft(Tail(at[t].todo))
  BY <1>1, HeadStatement, TailLeft DEF Work, Typed
<1>6. s \in Work /\ s.txn = at[t].txn /\ s.todo = Tail(at[t].todo)
  BY <1>1, <1>5 DEF Work
<1>7. at' = [at EXCEPT ![t] = s]
  BY DEF Conflict
<1>8. AtTyped(s, Len(txns'))
  BY <1>2, <1>4, <1>5, <1>6 DEF AtTyped, Typed, TypeOK
<1>9. current_txn' \in DOMAIN txns' \cup {NoTxn} /\ setting' \in Setting /\ terminated' \in BOOLEAN /\ UNCHANGED mode
  BY <1>4 DEF Typed, TypeOK, Conflict, StoreTyped, shared
<1> HIDE DEF s
<1> QED BY <1>4, <1>7, <1>8, <1>9, OneThread

LEMMA WriteRowTyped == ASSUME Typed, NEW t \in Thread, WriteRow(t) PROVE Typed'
<1> DEFINE keys == Head(at[t].todo).keys
           s    == [at[t] EXCEPT !.todo[1].keys = Tail(keys)]
<1>1. at[t] \in Work /\ at[t].do = "running" /\ at[t].todo # <<>> /\ Head(at[t].todo).do = "write"
  BY Kinds DEF Typed, WriteRow, Doing
<1>2. at[t].todo \in Seq(Statement) /\ KeysLeft(at[t].todo) /\ at[t].txn \in DOMAIN txns
  BY <1>1, AtTransaction DEF Work, Typed
<1>3. Head(keys) \in Key
  BY <1>1, <1>2, WriteLeft
<1>4. StoreTyped' /\ Len(txns') >= Len(txns) /\ DOMAIN txns' = DOMAIN txns
  <2>1. rows' = [rows EXCEPT ![Head(keys)].by = at[t].txn] /\ UNCHANGED <<txns, last_commit_ts>>
    BY DEF WriteRow
  <2>2. rows' \in [Key -> [ts : Nat, v : Txn \cup {NoTxn}, by : Txn \cup {NoTxn}]]
    <3>1. at[t].txn \in Txn
      BY <1>1 DEF Work
    <3> DEFINE Row == [ts : Nat, v : Txn \cup {NoTxn}, by : Txn \cup {NoTxn}]
               k == Head(keys)
    <3>2. k \in Key /\ rows \in [Key -> Row]
      BY <1>3 DEF Typed, TypeOK
    <3>3. [rows[k] EXCEPT !.by = at[t].txn] \in Row
      BY <3>1, <3>2
    <3>4. rows' = [rows EXCEPT ![k] = [rows[k] EXCEPT !.by = at[t].txn]]
      BY <2>1
    <3> HIDE DEF keys, k, Row
    <3>5. rows' \in [Key -> Row]
      BY <3>2, <3>3, <3>4
    <3> QED BY <3>5 DEF Row
  <2> HIDE DEF keys, s
  <2>3. UNCHANGED txns /\ last_commit_ts' = last_commit_ts
    BY <2>1
  <2> QED BY <2>2, <2>3 DEF Typed, TypeOK, StoreTyped
<1>5. current_txn' \in DOMAIN txns' \cup {NoTxn} /\ setting' \in Setting /\ terminated' \in BOOLEAN
      /\ UNCHANGED <<mode, terminated>>
  BY <1>4 DEF Typed, TypeOK, WriteRow, shared
<1>6. CASE Done(t)
  BY <1>1, <1>4, <1>5, <1>6, DoneTyped
<1>7. CASE Tail(keys) # <<>> /\ at' = [at EXCEPT ![t].todo[1].keys = Tail(keys)]
  <2> DEFINE rest == [at[t].todo EXCEPT ![1].keys = Tail(keys)]
  <2>1. rest \in Seq(Statement) /\ KeysLeft(rest)
    BY <1>1, <1>2, <1>7, FirstRowDone
  <2>2. at' = [at EXCEPT ![t] = s]
    BY <1>7
  <2>3. s = [at[t] EXCEPT !.todo = rest]
    OBVIOUS
  <2>4. s \in Work /\ s.txn = at[t].txn /\ s.todo = rest
    <3> HIDE DEF rest, s
    <3> QED BY <1>1, <2>1, <2>3 DEF Work
  <2>5. AtTyped(s, Len(txns'))
    <3> HIDE DEF rest, s
    <3> QED BY <1>2, <1>4, <2>1, <2>4 DEF AtTyped, Typed, TypeOK, StoreTyped
  <2> HIDE DEF s, rest
  <2> QED BY <1>4, <1>5, <2>2, <2>5, OneThread
<1> QED BY <1>6, <1>7 DEF WriteRow

LEMMA SelectTyped == ASSUME Typed, NEW t \in Thread, Select(t) PROVE Typed'
<1> DEFINE x == at[t].txn
           r == [txns[x] EXCEPT !.scanned = txns[x].level = "SERIALIZABLE"]
<1>1. at[t].do = "running" /\ at[t].todo # <<>> /\ Done(t)
  BY DEF Select, Doing
<1>2. x \in DOMAIN txns /\ txns[x] \in Transaction
  BY <1>1, AtTransaction
<1>3. r \in Transaction
  BY <1>2 DEF Transaction
<1>4. txns' = [txns EXCEPT ![x] = r]
  BY DEF Select
<1>5. txns' \in Seq(Transaction) /\ Len(txns') = Len(txns)
  <2> HIDE DEF x, r
  <2> QED BY <1>2, <1>3, <1>4, TxnsExcept DEF Typed
<1>6. StoreTyped' /\ Len(txns') >= Len(txns) /\ current_txn' \in DOMAIN txns' \cup {NoTxn}
      /\ setting' \in Setting /\ UNCHANGED <<mode, terminated>>
  BY <1>5 DEF Select, Typed, TypeOK, StoreTyped, shared
<1> QED BY <1>1, <1>6, DoneTyped

LEMMA ExecuteSqlTyped == ASSUME Typed, ExecuteSql PROVE Typed'
<1> PICK sql \in Strings :
        IF current_txn # NoTxn
        THEN /\ at' = [at EXCEPT ![Prompt] = Running(current_txn, FALSE, sql)]
             /\ UNCHANGED txns
        ELSE /\ New \in Txn
             /\ txns' = Begun("SNAPSHOT_ISOLATION")
             /\ at' = [at EXCEPT ![Prompt] = Running(New, TRUE, sql)]
  BY DEF ExecuteSql
<1>1. UNCHANGED <<rows, last_commit_ts>> /\ UNCHANGED <<current_txn, setting, mode, terminated>>
      /\ Prompt \in Thread
  BY DEF ExecuteSql, shared, Thread
<1>2. CASE current_txn # NoTxn
  <2>1. UNCHANGED store /\ current_txn \in DOMAIN txns'
    BY <1>1, <1>2 DEF store, Typed, TypeOK
  <2> QED BY <1>1, <1>2, <2>1, StoreKept, RunsTyped
<1>3. CASE current_txn = NoTxn
  BY <1>1, <1>3, BeginTyped, RunsTyped DEF Level
<1> QED BY <1>2, <1>3

LEMMA ClientTyped ==
    ASSUME Typed, NEW c \in Client, Connect(c) \/ CloseEnded(c) \/ Query(c) \/ Disconnect(c)
    PROVE  Typed'
<1>0. c \in Thread /\ DOMAIN txns = 1..Len(txns)
  BY DEF Thread, Typed, TypeOK
<1>1. CASE Connect(c)
  <2>1. mode.level \in Level /\ UNCHANGED <<current_txn, setting, mode, terminated>>
    BY <1>1 DEF Connect, Typed, TypeOK, shared
  <2>2. StoreTyped' /\ Len(txns') >= Len(txns) /\ New \in DOMAIN txns' /\ DOMAIN txns \subseteq DOMAIN txns'
    BY <1>1, <2>1, BeginTyped DEF Connect
  <2>3. current_txn' \in DOMAIN txns' \cup {NoTxn} /\ setting' \in Setting /\ terminated' \in BOOLEAN
    BY <2>1, <2>2 DEF Typed, TypeOK
  <2>4. AtTyped(Connected(New), Len(txns'))
    <3>1. New \in Txn /\ New \in 1..Len(txns')
      BY <1>1, <2>2 DEF Connect, StoreTyped
    <3> QED BY <3>1 DEF AtTyped, Connected
  <2> QED BY <1>0, <1>1, <2>1, <2>2, <2>3, <2>4, OneThread DEF Connect
<1>2. CASE CloseEnded(c)
  BY <1>0, <1>2, StoreKept, RestsTyped DEF CloseEnded, shared, Typed, TypeOK, store
<1>3. CASE Query(c)
  <2>1. PICK sql \in Strings : at' = [at EXCEPT ![c] = Running(at[c].txn, FALSE, sql)]
    BY <1>3 DEF Query
  <2>2. at[c].txn \in DOMAIN txns /\ UNCHANGED store /\ at[c].txn \in DOMAIN txns'
    BY <1>0, <1>3, AtTransaction DEF Query, store
  <2>3. UNCHANGED <<current_txn, setting, mode, terminated>>
    BY <1>3 DEF Query, shared
  <2> QED BY <1>0, <2>1, <2>2, <2>3, StoreKept, RunsTyped
<1>4. CASE Disconnect(c)
  <2>1. at[c].txn \in DOMAIN txns
    BY <1>0, <1>4, AtTransaction DEF Disconnect
  <2>2. StoreTyped' /\ Len(txns') >= Len(txns) /\ DOMAIN txns' = DOMAIN txns
    BY <1>4, <2>1, EndTyped DEF Disconnect
  <2> QED BY <1>0, <1>4, <2>2, RestsTyped DEF Disconnect, shared, Typed, TypeOK
<1> QED BY <1>1, <1>2, <1>3, <1>4

\* The other steps of a statement.
LEMMA StatementTyped ==
    ASSUME Typed, NEW t \in Thread,
           \/ Bad(t) \/ SetVariable(t) \/ BeginRefused(t) \/ EndRefused(t) \/ Leave(t) \/ Switch(t)
           \/ MismatchStops(t) \/ ConflictAgain(t)
    PROVE  Typed'
<1>1. CASE ConflictAgain(t) \/ MismatchStops(t) \/ (Leave(t) /\ Stop)
  BY <1>1 DEF ConflictAgain, MismatchStops, Stop, store, shared, Typed, TypeOK
<1>2. CASE UNCHANGED <<store, current_txn, mode, terminated>> /\ at[t].do = "running" /\ at[t].todo # <<>>
           /\ Done(t) /\ setting' \in Setting
  <2>1. current_txn' \in DOMAIN txns' \cup {NoTxn}
    BY <1>2 DEF Typed, TypeOK, store
  <2> QED BY <1>2, <2>1, StoreKept, DoneTyped
<1>3. CASE UNCHANGED <<store, shared, terminated>> /\ at[t].do = "running" /\ Raise(t)
  BY <1>3, StoreKept, RaiseTyped DEF shared
<1>4. CASE SetVariable(t)
  <2>1. at[t] \in Work /\ at[t].todo # <<>> /\ Head(at[t].todo).do = "set"
    BY <1>4, Kinds DEF SetVariable, Doing, Typed
  <2>2. Head(at[t].todo) \in Statement
    BY <2>1, HeadStatement DEF Work
  <2>3. Head(at[t].todo).value \in Setting
    BY <2>1, <2>2 DEF Statement
  <2> QED BY <1>2, <1>4, <2>3 DEF SetVariable, Doing, Typed, TypeOK
<1>5. CASE Bad(t)
  BY <1>3, <1>5 DEF Bad, Doing
<1>6. CASE BeginRefused(t)
  BY <1>2, <1>3, <1>6 DEF BeginRefused, Doing, shared, Typed, TypeOK
<1>7. CASE EndRefused(t)
  BY <1>3, <1>7 DEF EndRefused, Doing
<1>8. CASE Leave(t) /\ ~Stop
  <2>1. at[t].do = "running" /\ at[t].todo # <<>> /\ Done(t) /\ current_txn' = NoTxn
        /\ UNCHANGED <<store, setting, mode, terminated>>
    BY <1>8 DEF Leave, Doing
  <2>2. setting' \in Setting
    BY <2>1 DEF Typed, TypeOK
  <2> QED BY <2>1, <2>2, StoreKept, DoneTyped
<1>9. CASE Switch(t)
  <2>1. at[t].do = "running" /\ at[t].todo # <<>> /\ Done(t)
        /\ UNCHANGED <<store, setting, mode, terminated>>
    BY <1>9 DEF Switch, Doing
  <2>2. current_txn' \in DOMAIN txns' \cup {NoTxn} /\ setting' \in Setting
    BY <1>9, <2>1 DEF Switch, store, Typed, TypeOK
  <2> QED BY <2>1, <2>2, StoreKept, DoneTyped
<1> QED BY <1>1, <1>4, <1>5, <1>6, <1>7, <1>8, <1>9

LEMMA TxnTyped ==
    ASSUME Typed, NEW t \in Thread, Begin(t) \/ CommitTxn(t) \/ AbortTxn(t)
    PROVE  Typed'
<1>1. at[t].do = "running" /\ at[t].todo # <<>> /\ Done(t) /\ UNCHANGED <<setting, mode, terminated>>
  BY DEF Begin, CommitTxn, AbortTxn, Doing
<1>2. at[t].txn \in DOMAIN txns /\ setting' \in Setting
  BY <1>1, AtTransaction DEF Typed, TypeOK
<1>3. CASE Begin(t)
  <2>1. LevelOf(setting) \in Level
    BY DEF LevelOf, Level
  <2>2. /\ New \in Txn /\ txns' = Begun(LevelOf(setting)) /\ UNCHANGED <<rows, last_commit_ts>>
        /\ current_txn' = New
    BY <1>3 DEF Begin
  <2>3. StoreTyped' /\ Len(txns') >= Len(txns) /\ New \in DOMAIN txns'
    BY <2>1, <2>2, BeginTyped
  <2> QED BY <1>1, <1>2, <2>2, <2>3, DoneTyped
<1>4. CASE CommitTxn(t) \/ AbortTxn(t)
  <2>1. (Commit(at[t].txn) \/ Abort(at[t].txn)) /\ current_txn' = NoTxn
    BY <1>4 DEF CommitTxn, AbortTxn
  <2> QED BY <1>1, <1>2, <2>1, EndTyped, DoneTyped
<1> QED BY <1>3, <1>4

LEMMA EndOfStringTyped ==
    ASSUME Typed, NEW t \in Thread, FinishOwn(t) \/ Finish(t) \/ Catch(t)
    PROVE  Typed'
<1> DEFINE x == at[t].txn
<1>1. x \in DOMAIN txns /\ at[t].do \in {"running", "raised"}
  BY AtTransaction DEF FinishOwn, Finish, Catch, Finished
<1>2. StoreTyped' /\ Len(txns') >= Len(txns) /\ DOMAIN txns \subseteq DOMAIN txns'
  <2>1. Commit(x) \/ Abort(x) \/ UNCHANGED store
    BY DEF FinishOwn, Finish, Catch
  <2>2. CASE UNCHANGED store
    BY <2>2, StoreKept DEF store
  <2> QED BY <1>1, <2>1, <2>2, EndTyped
<1>3. UNCHANGED <<setting, mode, terminated>> /\ current_txn' \in {current_txn, NoTxn}
  BY DEF FinishOwn, Finish, Catch, shared
<1>4. current_txn' \in DOMAIN txns' \cup {NoTxn}
  BY <1>2, <1>3 DEF Typed, TypeOK
<1>5. CASE Raise(t) /\ FinishOwn(t)
  BY <1>2, <1>5, RaiseTyped DEF FinishOwn, Finished, shared
<1>6. CASE Return(t) \/ at' = [at EXCEPT ![t] = Idle]
  <2>1. PICK s \in {Idle, Connected(x)} : at' = [at EXCEPT ![t] = s]
    BY <1>6 DEF Return
  <2>2. s \in {Idle, Away} \cup [do : {"connected"}, txn : DOMAIN txns]
    BY <1>1, <2>1 DEF Connected
  <2> HIDE DEF x
  <2> QED BY <1>2, <1>3, <1>4, <2>1, <2>2, RestsTyped
<1> QED BY <1>5, <1>6 DEF FinishOwn, Finish, Catch

LEMMA TypedStep ==
    ASSUME Typed, [Next]_vars
    PROVE  Typed'
<1>1. CASE UNCHANGED vars
  BY <1>1 DEF vars, Typed, TypeOK
<1>2. ASSUME NEW t \in Thread, Execute(t) PROVE Typed'
  BY <1>2, ConflictTyped, WriteRowTyped, SelectTyped, StatementTyped, TxnTyped, EndOfStringTyped DEF Execute
<1> QED BY <1>1, <1>2, ExecuteSqlTyped, ClientTyped DEF Next

LEMMA NoneBegun == DOMAIN <<>> = {}
<1>1. <<>> \in Seq(Nat) /\ Len(<<>>) = 0
  BY EmptySeq
<1> QED BY <1>1

LEMMA InitTyped == ASSUME Init PROVE Typed
<1>1. txns \in Seq(Transaction) /\ Len(txns) \in 0..MaxTxns /\ DOMAIN txns = {}
  <2>1. MaxTxns \in Nat
    BY SessionAssumption
  <2>2. <<>> \in Seq(Transaction) /\ Len(<<>>) = 0 /\ DOMAIN <<>> = {}
    BY EmptySeq
  <2>3. txns = <<>>
    BY DEF Init
  <2>4. 0 \in 0..MaxTxns
    BY <2>1
  <2> QED BY <2>2, <2>3, <2>4
<1>2. rows \in [Key -> [ts : Nat, v : Txn \cup {NoTxn}, by : Txn \cup {NoTxn}]] /\ last_commit_ts \in Nat
  BY DEF Init
<1>3. current_txn = NoTxn /\ setting \in Setting /\ mode \in [managed : BOOLEAN, level : Level] /\ terminated \in BOOLEAN
  BY SessionAssumption DEF Init, Setting
<1>4. at \in [Thread -> {Idle, Away}]
  BY DEF Init
<1>5. \A t \in Thread : at[t].do \in {"idle", "away"}
  BY <1>4 DEF Idle, Away
<1> QED BY <1>1, <1>2, <1>3, <1>4, <1>5 DEF Typed, TypeOK

\* Type correctness, whatever users and clients send: a thread's transaction
\* and the current one exist, and a write that goes on has a row to go on with.
THEOREM SessionTypeOK == Spec => []TypeOK
<1>1. Typed => TypeOK
  BY DEF Typed
<1> QED BY <1>1, InitTyped, TypedStep, PTL DEF Spec

-----------------------------------------------------------------------------
(* Who works in which transaction, of orderly users.                       *)

Busy(t)  == at[t].do \in {"running", "raised"}
InTxn(t) == at[t].do \in {"connected", "running", "raised"}
EndsLast(sql) == \A i \in DOMAIN sql : sql[i].do \in {"commit", "abort"} => i = Len(sql)

\* A transaction has one thread, and is active as long as a statement of its
\* thread is to come; the current one is active and not the one that ExecuteSql
\* has begun for the call.
Owned ==
    /\ \A t, u \in Thread : InTxn(t) /\ InTxn(u) /\ at[t].txn = at[u].txn => t = u
    /\ \A t \in Thread : Busy(t) /\ at[t].own => t = Prompt /\ current_txn # at[t].txn
    /\ \A t \in Thread : at[t].do = "running" =>
          EndsLast(at[t].todo) /\ (at[t].todo # <<>> => Active(at[t].txn))
    /\ current_txn # NoTxn => mode.managed /\ Active(current_txn)
    /\ mode.managed => \A c \in Client : at[c].do = "away"

\* Active after a step.
StillActive(x) == x \in DOMAIN txns' /\ txns'[x].state \in {"RUNNING", "TAINTED"}

LEMMA ActivePrime == \A x : Active(x)' <=> StillActive(x)
  BY DEF Active, StillActive

LEMMA ActiveBegun ==
    ASSUME Typed, New \in Txn, NEW level \in Level, txns' = Begun(level)
    PROVE  /\ \A x : StillActive(x) <=> Active(x) \/ x = New
           /\ \A x \in DOMAIN txns : txns'[x] = txns[x]
           /\ New \notin DOMAIN txns /\ DOMAIN txns' = DOMAIN txns \cup {New} /\ New # NoTxn
           /\ txns'[New] = [state |-> "RUNNING", level |-> level, read_ts |-> last_commit_ts,
                            snapshot |-> [k \in Key |-> Committed(k)], scanned |-> FALSE]
<1> DEFINE r == [state |-> "RUNNING", level |-> level, read_ts |-> last_commit_ts,
                 snapshot |-> [k \in Key |-> Committed(k)], scanned |-> FALSE]
<1>1. txns \in Seq(Transaction) /\ r \in Transaction
  <2>1. [k \in Key |-> Committed(k)] \in [Key -> Version]
    BY DEF Typed, TypeOK, Committed, Version
  <2> QED BY <2>1 DEF Typed, TypeOK, Transaction, State
<1>2. r.state = "RUNNING"
  OBVIOUS
<1>3. txns' = Append(txns, r)
  BY DEF Begun
<1> HIDE DEF r
<1>4. /\ Len(txns') = Len(txns) + 1 /\ Len(txns) \in Nat /\ DOMAIN txns = 1..Len(txns)
      /\ DOMAIN txns' = 1..Len(txns')
      /\ \A x \in 1..Len(txns) : txns'[x] = txns[x]
      /\ txns'[Len(txns) + 1] = r
  BY <1>1, <1>3, AppendProperties
<1>5. /\ \A x \in DOMAIN txns : txns'[x] = txns[x]
      /\ New \notin DOMAIN txns /\ DOMAIN txns' = DOMAIN txns \cup {New} /\ New # NoTxn
      /\ txns'[New] = r
  BY <1>4 DEF New, NoTxn
<1>6. \A x : StillActive(x) <=> Active(x) \/ x = New
  BY <1>2, <1>5 DEF StillActive, Active
<1> QED BY <1>5, <1>6 DEF r

LEMMA ActiveEnded ==
    ASSUME Typed, NEW x \in DOMAIN txns, NEW state \in {"COMMITTED", "ABORTED"}, Ended(x, state)
    PROVE  /\ \A y : StillActive(y) <=> Active(y) /\ y # x
           /\ DOMAIN txns' = DOMAIN txns
           /\ \A y \in DOMAIN txns : /\ y # x => txns'[y] = txns[y]
                                     /\ txns'[y].read_ts = txns[y].read_ts
                                     /\ txns'[y].snapshot = txns[y].snapshot
                                     /\ txns'[y].scanned = txns[y].scanned
<1>1. txns[x] \in Transaction
  BY ElementOfSeq DEF Typed, TypeOK
<1>2. DOMAIN txns' = DOMAIN txns /\ \A y \in DOMAIN txns : y # x => txns'[y] = txns[y]
  BY DEF Ended
<1>3. txns'[x] = [txns[x] EXCEPT !.state = state]
  BY DEF Ended
<1>4. /\ txns'[x].state = state /\ txns'[x].read_ts = txns[x].read_ts
      /\ txns'[x].snapshot = txns[x].snapshot /\ txns'[x].scanned = txns[x].scanned
  BY <1>1, <1>3 DEF Transaction
<1> QED BY <1>2, <1>4 DEF StillActive, Active

\* A step of thread t.
LEMMA OwnedThread ==
    ASSUME Typed, Owned, NEW t \in Thread, NEW s,
           at' = [at EXCEPT ![t] = s], UNCHANGED mode,
           s.do \in {"connected", "running", "raised"} =>
               \A u \in Thread \ {t} : InTxn(u) => at[u].txn # s.txn,
           s.do \in {"running", "raised"} /\ s.own => t = Prompt /\ current_txn' # s.txn,
           s.do = "running" => EndsLast(s.todo) /\ (s.todo # <<>> => StillActive(s.txn)),
           \A u \in Thread \ {t} : InTxn(u) /\ Active(at[u].txn) => StillActive(at[u].txn),
           current_txn' # NoTxn => mode.managed /\ StillActive(current_txn'),
           t # Prompt => UNCHANGED current_txn,
           mode.managed /\ t # Prompt => s.do = "away"
    PROVE  Owned'
<1>1. at'[t] = s /\ \A u \in Thread \ {t} : at'[u] = at[u]
  BY DEF Typed, TypeOK
<1>2. \A u \in Thread : InTxn(u)' <=> (IF u = t THEN s.do \in {"connected", "running", "raised"} ELSE InTxn(u))
  BY <1>1 DEF InTxn
<1>3. (\A u, v \in Thread : InTxn(u) /\ InTxn(v) /\ at[u].txn = at[v].txn => u = v)'
  BY <1>1, <1>2 DEF Owned
<1>4. (\A u \in Thread : Busy(u) /\ at[u].own => u = Prompt /\ current_txn # at[u].txn)'
  <2> SUFFICES ASSUME NEW u \in Thread, Busy(u)', at'[u].own
               PROVE  u = Prompt /\ current_txn' # at'[u].txn
    OBVIOUS
  <2>1. CASE u = t
    BY <1>1, <2>1 DEF Busy
  <2>2. CASE u # t
    BY <1>1, <2>2 DEF Busy, Owned
  <2> QED BY <2>1, <2>2
<1>5. (\A u \in Thread : at[u].do = "running" =>
          EndsLast(at[u].todo) /\ (at[u].todo # <<>> => Active(at[u].txn)))'
  BY <1>1, ActivePrime DEF Owned, InTxn
<1>6. (current_txn # NoTxn => mode.managed /\ Active(current_txn))'
  BY ActivePrime
<1>7. (mode.managed => \A c \in Client : at[c].do = "away")'
  BY <1>1, SessionAssumption DEF Owned, Thread
<1> QED BY <1>3, <1>4, <1>5, <1>6, <1>7 DEF Owned

\* What a step makes of the active transactions.
LEMMA ActiveKept ==
    ASSUME UNCHANGED txns
    PROVE  \A x : StillActive(x) <=> Active(x)
  BY DEF StillActive, Active

LEMMA ActiveChanged ==
    ASSUME Typed, NEW x \in DOMAIN txns, NEW r \in Transaction, Active(x), r.state \in {"RUNNING", "TAINTED"},
           txns' = [txns EXCEPT ![x] = r]
    PROVE  \A y : StillActive(y) <=> Active(y)
<1>1. DOMAIN txns' = DOMAIN txns /\ txns'[x] = r /\ \A y \in DOMAIN txns : y # x => txns'[y] = txns[y]
  OBVIOUS
<1> QED BY <1>1 DEF StillActive, Active

\* A thread ends its transaction: nobody else's.
LEMMA OwnEnded ==
    ASSUME Typed, Owned, NEW t \in Thread, InTxn(t), Commit(at[t].txn) \/ Abort(at[t].txn)
    PROVE  /\ \A y : StillActive(y) <=> Active(y) /\ y # at[t].txn
           /\ \A u \in Thread \ {t} : InTxn(u) /\ Active(at[u].txn) => StillActive(at[u].txn)
<1>1. at[t].txn \in DOMAIN txns
  BY AtTransaction DEF InTxn
<1>2. Ended(at[t].txn, "COMMITTED") \/ Ended(at[t].txn, "ABORTED")
  BY DEF Commit, Publish, Abort
<1>3. \A y : StillActive(y) <=> Active(y) /\ y # at[t].txn
  BY <1>1, <1>2, ActiveEnded
<1> QED BY <1>3 DEF Owned

LEMMA EndsLastTail ==
    ASSUME NEW sql \in Seq(Statement), sql # <<>>, EndsLast(sql)
    PROVE  /\ EndsLast(Tail(sql))
           /\ Head(sql).do \in {"commit", "abort"} => Tail(sql) = <<>>
<1>1. /\ Head(sql) = sql[1] /\ 1 \in DOMAIN sql /\ DOMAIN sql = 1..Len(sql) /\ Len(sql) \in Nat
      /\ Len(Tail(sql)) = Len(sql) - 1 /\ Tail(sql) \in Seq(Statement)
      /\ \A i \in 1..Len(Tail(sql)) : Tail(sql)[i] = sql[i + 1] /\ i + 1 \in DOMAIN sql
      /\ DOMAIN Tail(sql) = 1..Len(Tail(sql))
  BY HeadTailProperties
<1>2. EndsLast(Tail(sql))
  BY <1>1 DEF EndsLast
<1>3. Head(sql).do \in {"commit", "abort"} => Len(sql) = 1
  BY <1>1 DEF EndsLast
<1>4. Len(sql) = 1 => Tail(sql) = <<>>
  BY <1>1, EmptySeq
<1> QED BY <1>2, <1>3, <1>4

\* A step of a statement.
LEMMA OwnedGoes ==
    ASSUME Typed, Owned, NEW t \in Thread, Busy(t), NEW s, at' = [at EXCEPT ![t] = s], UNCHANGED mode,
           s.do \in {"running", "raised"}, s.txn = at[t].txn, s.own = at[t].own,
           s.do = "running" => EndsLast(s.todo) /\ (s.todo # <<>> => StillActive(at[t].txn)),
           \A u \in Thread \ {t} : InTxn(u) /\ Active(at[u].txn) => StillActive(at[u].txn),
           current_txn' # NoTxn => mode.managed /\ StillActive(current_txn'),
           at[t].own => current_txn' # at[t].txn,
           t # Prompt => UNCHANGED current_txn
    PROVE  Owned'
<1>1. \A u \in Thread \ {t} : InTxn(u) => at[u].txn # s.txn
  BY DEF Owned, Busy, InTxn
<1>2. s.do \in {"running", "raised"} /\ s.own => t = Prompt /\ current_txn' # s.txn
  BY DEF Owned, Busy
<1>3. mode.managed => t = Prompt
  BY DEF Owned, Busy, Thread
<1> QED BY <1>1, <1>2, <1>3, OwnedThread

LEMMA OwnedDone ==
    ASSUME Typed, Owned, NEW t \in Thread, at[t].do = "running", at[t].todo # <<>>, Done(t), UNCHANGED mode,
           Tail(at[t].todo) # <<>> => StillActive(at[t].txn),
           \A u \in Thread \ {t} : InTxn(u) /\ Active(at[u].txn) => StillActive(at[u].txn),
           current_txn' # NoTxn => mode.managed /\ StillActive(current_txn'),
           at[t].own => current_txn' # at[t].txn,
           t # Prompt => UNCHANGED current_txn
    PROVE  Owned'
<1> DEFINE s == [at[t] EXCEPT !.todo = Tail(at[t].todo)]
<1>1. at[t] \in Work /\ Busy(t)
  BY Kinds DEF Typed, Busy
<1>2. EndsLast(Tail(at[t].todo))
  BY <1>1, EndsLastTail DEF Owned, Work
<1>3. s.do = "running" /\ s.txn = at[t].txn /\ s.own = at[t].own /\ s.todo = Tail(at[t].todo)
  BY <1>1 DEF Work
<1>4. at' = [at EXCEPT ![t] = s]
  BY DEF Done
<1> HIDE DEF s
<1> QED BY <1>1, <1>2, <1>3, <1>4, OwnedGoes

LEMMA OwnedRaise ==
    ASSUME Typed, Owned, NEW t \in Thread, at[t].do = "running", Raise(t), UNCHANGED <<mode, current_txn>>,
           \A u \in Thread \ {t} : InTxn(u) /\ Active(at[u].txn) => StillActive(at[u].txn),
           current_txn # NoTxn => StillActive(current_txn)
    PROVE  Owned'
<1> DEFINE s == [at[t] EXCEPT !.do = "raised"]
<1>1. at[t] \in Work /\ Busy(t)
  BY Kinds DEF Typed, Busy
<1>2. s.do = "raised" /\ s.txn = at[t].txn /\ s.own = at[t].own
  BY <1>1 DEF Work
<1>3. at' = [at EXCEPT ![t] = s]
  BY DEF Raise
<1>4. (current_txn # NoTxn => mode.managed) /\ (at[t].own => current_txn # at[t].txn)
  BY <1>1 DEF Owned
<1> HIDE DEF s
<1> QED BY <1>1, <1>2, <1>3, <1>4, OwnedGoes

LEMMA OwnedStatement ==
    ASSUME Typed, Owned, NEW t \in Thread,
           Conflict(t) \/ WriteRow(t) \/ Select(t) \/ Bad(t) \/ SetVariable(t) \/ BeginRefused(t) \/ EndRefused(t)
    PROVE  Owned'
<1>1. at[t] \in Work /\ at[t].do = "running" /\ at[t].todo # <<>> /\ Busy(t) /\ UNCHANGED <<mode, current_txn>>
  BY Kinds DEF Typed, Busy, Conflict, WriteRow, Select, Bad, SetVariable, BeginRefused, EndRefused, Doing, shared
<1>2. at[t].txn \in DOMAIN txns /\ txns[at[t].txn] \in Transaction /\ Active(at[t].txn)
  BY <1>1, AtTransaction DEF Owned
<1>3. \A x : StillActive(x) <=> Active(x)
  <2>1. CASE Conflict(t)
    <3>1. [txns[at[t].txn] EXCEPT !.state = "TAINTED"] \in Transaction
      BY <1>2 DEF Transaction, State
    <3>2. [txns[at[t].txn] EXCEPT !.state = "TAINTED"].state = "TAINTED"
      BY <1>2 DEF Transaction
    <3>3. txns' = [txns EXCEPT ![at[t].txn] = [txns[at[t].txn] EXCEPT !.state = "TAINTED"]]
      BY <2>1 DEF Conflict
    <3> QED BY <1>2, <3>1, <3>2, <3>3, ActiveChanged
  <2>2. CASE Select(t)
    <3> DEFINE r == [txns[at[t].txn] EXCEPT !.scanned = txns[at[t].txn].level = "SERIALIZABLE"]
    <3>1. r \in Transaction /\ r.state = txns[at[t].txn].state
      BY <1>2 DEF Transaction
    <3>2. txns' = [txns EXCEPT ![at[t].txn] = r]
      BY <2>2 DEF Select
    <3> HIDE DEF r
    <3> QED BY <1>2, <3>1, <3>2, ActiveChanged DEF Active
  <2> QED BY <2>1, <2>2, ActiveKept DEF WriteRow, Bad, SetVariable, BeginRefused, EndRefused, store
<1>4. \A u \in Thread \ {t} : InTxn(u) /\ Active(at[u].txn) => StillActive(at[u].txn)
  BY <1>3
<1>5. /\ current_txn # NoTxn => mode.managed /\ StillActive(current_txn)
      /\ at[t].own => current_txn # at[t].txn
  BY <1>1, <1>3 DEF Owned
<1>6. CASE Done(t)
  BY <1>1, <1>2, <1>3, <1>4, <1>5, <1>6, OwnedDone
<1>7. CASE Raise(t)
  BY <1>1, <1>4, <1>5, <1>7, OwnedRaise
<1>8. CASE Conflict(t)
  <2> DEFINE s == [at[t] EXCEPT !.todo = Tail(at[t].todo), !.ok = FALSE]
  <2>1. s.do = "running" /\ s.txn = at[t].txn /\ s.own = at[t].own /\ s.todo = Tail(at[t].todo)
    BY <1>1 DEF Work
  <2>2. at' = [at EXCEPT ![t] = s]
    BY <1>8 DEF Conflict
  <2>3. EndsLast(Tail(at[t].todo))
    BY <1>1, EndsLastTail DEF Owned, Work
  <2> HIDE DEF s
  <2> QED BY <1>1, <1>2, <1>3, <1>4, <1>5, <2>1, <2>2, <2>3, OwnedGoes
<1>9. CASE WriteRow(t) /\ ~Done(t)
  <2> DEFINE keys == Head(at[t].todo).keys
             rest == [at[t].todo EXCEPT ![1].keys = Tail(keys)]
             s == [at[t] EXCEPT !.todo = rest]
  <2>1. at' = [at EXCEPT ![t] = s] /\ Tail(keys) # <<>>
    BY <1>9 DEF WriteRow
  <2>2. at[t].todo \in Seq(Statement) /\ KeysLeft(at[t].todo) /\ Head(at[t].todo).do = "write"
    BY <1>1, <1>9 DEF Work, Typed, WriteRow, Doing
  <2>3. rest \in Seq(Statement) /\ Len(rest) = Len(at[t].todo) /\ \A i \in DOMAIN at[t].todo : rest[i].do = at[t].todo[i].do
    BY <1>1, <2>1, <2>2, FirstRowDone
  <2>4. EndsLast(rest)
    <3>1. EndsLast(at[t].todo) /\ DOMAIN rest = DOMAIN at[t].todo
      BY <1>1 DEF Owned
    <3> HIDE DEF rest, keys
    <3> QED BY <2>3, <3>1 DEF EndsLast
  <2>5. s.do = "running" /\ s.txn = at[t].txn /\ s.own = at[t].own /\ s.todo = rest
    <3> HIDE DEF rest
    <3> QED BY <1>1 DEF Work
  <2> HIDE DEF s, rest, keys
  <2> QED BY <1>1, <1>2, <1>3, <1>4, <1>5, <2>1, <2>4, <2>5, OwnedGoes
<1> QED BY <1>6, <1>7, <1>8, <1>9 DEF Select, Bad, SetVariable, BeginRefused, EndRefused

LEMMA OwnedTxn ==
    ASSUME Orderly, Typed, Owned, NEW t \in Thread,
           Begin(t) \/ CommitTxn(t) \/ AbortTxn(t) \/ (Leave(t) /\ ~Stop) \/ Switch(t)
    PROVE  Owned'
<1>1. at[t] \in Work /\ at[t].do = "running" /\ at[t].todo # <<>> /\ Busy(t) /\ InTxn(t) /\ Done(t)
      /\ UNCHANGED mode
  BY Kinds DEF Typed, Busy, InTxn, Begin, CommitTxn, AbortTxn, Leave, Switch, Doing
<1>2. at[t].txn \in DOMAIN txns /\ Active(at[t].txn) /\ (t # Prompt => ~mode.managed /\ current_txn = NoTxn)
      /\ at[t].txn # NoTxn
  <2>1. t # Prompt => ~mode.managed
    BY <1>1 DEF Owned, Thread
  <2> QED BY <1>1, <2>1, AtTransaction DEF Owned, NoTxn, Typed, TypeOK
<1>3. CASE Begin(t)
  <2>1. LevelOf(setting) \in Level /\ New \in Txn /\ txns' = Begun(LevelOf(setting)) /\ current_txn' = New
        /\ mode.managed
    BY <1>3 DEF Begin, LevelOf, Level
  <2>2. (\A x : StillActive(x) <=> Active(x) \/ x = New) /\ New \notin DOMAIN txns
    BY <2>1, ActiveBegun
  <2> QED BY <1>1, <1>2, <2>1, <2>2, OwnedDone
<1>4. CASE CommitTxn(t) \/ AbortTxn(t)
  <2>1. /\ Commit(at[t].txn) \/ Abort(at[t].txn)
        /\ current_txn' = NoTxn /\ Head(at[t].todo).do \in {"commit", "abort"}
    BY <1>4 DEF CommitTxn, AbortTxn, Doing
  <2>2. Tail(at[t].todo) = <<>>
    BY <1>1, <2>1, EndsLastTail DEF Owned, Work
  <2>3. \A u \in Thread \ {t} : InTxn(u) /\ Active(at[u].txn) => StillActive(at[u].txn)
    BY <1>1, <2>1, OwnEnded
  <2> QED BY <1>1, <1>2, <2>1, <2>2, <2>3, OwnedDone
<1>5. CASE Leave(t) /\ ~Stop
  <2>1. UNCHANGED txns /\ current_txn' = NoTxn
    BY <1>5 DEF Leave, store
  <2> QED BY <1>1, <1>2, <2>1, ActiveKept, OwnedDone
<1>6. CASE Switch(t)
  <2>1. UNCHANGED txns
    BY <1>6 DEF Switch, store
  <2>2. \/ mode.managed /\ Active(current_txn') /\ (at[t].own => current_txn' # at[t].txn)
        \/ UNCHANGED current_txn
    BY <1>6 DEF Switch, Orderly
  <2>3. \A x : StillActive(x) <=> Active(x)
    BY <2>1, ActiveKept
  <2>4. /\ current_txn' # NoTxn => mode.managed /\ StillActive(current_txn')
        /\ at[t].own => current_txn' # at[t].txn
        /\ t # Prompt => UNCHANGED current_txn
    BY <1>1, <1>2, <2>2, <2>3 DEF Owned
  <2> QED BY <1>1, <1>2, <2>3, <2>4, OwnedDone
<1> QED BY <1>3, <1>4, <1>5, <1>6

LEMMA OwnedEndOfString ==
    ASSUME Typed, Owned, NEW t \in Thread, FinishOwn(t) \/ Finish(t) \/ Catch(t)
    PROVE  Owned'
<1> DEFINE x == at[t].txn
<1>1. at[t] \in Work /\ Busy(t) /\ InTxn(t) /\ x \in DOMAIN txns /\ UNCHANGED mode /\ x # NoTxn
  <2>1. at[t].do \in {"running", "raised"} /\ UNCHANGED mode
    BY DEF FinishOwn, Finish, Catch, Finished, shared
  <2> QED BY <2>1, Kinds, AtTransaction DEF Typed, Busy, InTxn, TypeOK, NoTxn
<1>2. t # Prompt => ~mode.managed /\ current_txn = NoTxn /\ ~at[t].own
  <2>1. t # Prompt => ~mode.managed
    BY <1>1 DEF Owned, Thread, Busy
  <2> QED BY <1>1, <2>1 DEF Owned
<1>3. \/ Commit(x) \/ Abort(x)
      \/ UNCHANGED store
  BY DEF FinishOwn, Finish, Catch
<1>4. \A u \in Thread \ {t} : InTxn(u) /\ Active(at[u].txn) => StillActive(at[u].txn)
  <2>1. CASE UNCHANGED store
    BY <2>1, ActiveKept DEF store
  <2> QED BY <1>1, <1>3, <2>1, OwnEnded
<1>5. \A y : StillActive(y) <=> Active(y) /\ (y = x => UNCHANGED store)
  <2>1. CASE UNCHANGED store
    BY <2>1, ActiveKept DEF store
  <2>2. CASE ~UNCHANGED store
    BY <1>1, <1>3, <2>2, OwnEnded
  <2> QED BY <2>1, <2>2
<1>6. /\ current_txn' # NoTxn => mode.managed /\ StillActive(current_txn')
      /\ t # Prompt => UNCHANGED current_txn
  <2>1. CASE FinishOwn(t)
    <3>1. UNCHANGED current_txn /\ current_txn # x
      BY <1>1, <2>1 DEF FinishOwn, shared, Owned
    <3> QED BY <1>5, <3>1 DEF Owned
  <2>2. CASE Finish(t)
    BY <1>5, <2>2 DEF Finish, shared, Owned
  <2>3. CASE Catch(t)
    <3>1. (current_txn' = NoTxn /\ t = Prompt) \/ UNCHANGED <<store, current_txn>>
      BY <2>3 DEF Catch
    <3> QED BY <1>5, <3>1 DEF Owned
  <2> QED BY <2>1, <2>2, <2>3
<1>7. CASE Raise(t)
  <2>1. FinishOwn(t) /\ UNCHANGED current_txn /\ at[t].do = "running" /\ current_txn # x
    <3>1. ~Catch(t) /\ ~Finish(t)
      <4>1. at'[t] = [at[t] EXCEPT !.do = "raised"]
        BY <1>7 DEF Raise, Typed, TypeOK
      <4>2. at'[t].do = "raised"
        BY <1>1, <4>1 DEF Work
      <4>3. Return(t) => at'[t].do # "raised"
        BY DEF Return, Idle, Connected, Typed, TypeOK
      <4> QED BY <4>2, <4>3 DEF Catch, Finish
    <3> QED BY <1>1, <3>1 DEF FinishOwn, Finished, shared, Owned
  <2> HIDE DEF x
  <2> QED BY <1>1, <1>4, <1>6, <1>7, <2>1, OwnedRaise
<1>8. CASE Return(t) \/ (FinishOwn(t) /\ ~Raise(t))
  <2>1. FinishOwn(t) => t = Prompt
    BY <1>1 DEF FinishOwn, Owned
  <2>2. PICK s : s = (IF t = Prompt THEN Idle ELSE Connected(x)) /\ at' = [at EXCEPT ![t] = s]
    BY <1>8, <2>1 DEF Return, FinishOwn
  <2>3. s.do \in {"idle", "connected"} /\ (s.do = "connected" => s.txn = x /\ t # Prompt)
    BY <2>2 DEF Idle, Connected
  <2>4. \A u \in Thread \ {t} : InTxn(u) => at[u].txn # x
    BY <1>1 DEF Owned
  <2> HIDE DEF x
  <2> QED BY <1>1, <1>2, <1>4, <1>6, <2>2, <2>3, <2>4, OwnedThread
<1> QED BY <1>7, <1>8 DEF FinishOwn, Finish, Catch

LEMMA OwnedExecuteSql == ASSUME Orderly, Typed, Owned, ExecuteSql PROVE Owned'
<1> PICK sql \in Strings :
        IF current_txn # NoTxn
        THEN /\ at' = [at EXCEPT ![Prompt] = Running(current_txn, FALSE, sql)]
             /\ UNCHANGED txns
        ELSE /\ New \in Txn
             /\ txns' = Begun("SNAPSHOT_ISOLATION")
             /\ at' = [at EXCEPT ![Prompt] = Running(New, TRUE, sql)]
  BY DEF ExecuteSql
<1>1. Prompt \in Thread /\ UNCHANGED <<current_txn, mode>> /\ EndsLast(sql)
  BY DEF ExecuteSql, shared, Thread, Orderly, EndsLast
<1>2. CASE current_txn # NoTxn
  <2>1. mode.managed /\ Active(current_txn) /\ \A u \in Thread \ {Prompt} : ~InTxn(u)
    BY <1>2 DEF Owned, Thread, InTxn
  <2>2. PICK s : s = Running(current_txn, FALSE, sql)
    OBVIOUS
  <2>3. s.do = "running" /\ s.txn = current_txn /\ s.own = FALSE /\ s.todo = sql
    BY <2>2 DEF Running
  <2>4. at' = [at EXCEPT ![Prompt] = s]
    BY <1>2, <2>2
  <2> QED BY <1>1, <1>2, <2>1, <2>3, <2>4, ActiveKept, OwnedThread
<1>3. CASE current_txn = NoTxn
  <2>1. (\A x : StillActive(x) <=> Active(x) \/ x = New) /\ New \notin DOMAIN txns /\ New # NoTxn
    BY <1>3, ActiveBegun DEF Level
  <2>2. \A u \in Thread : InTxn(u) => at[u].txn # New
    BY <2>1, AtTransaction DEF InTxn
  <2>3. PICK s : s = Running(New, TRUE, sql)
    OBVIOUS
  <2>4. s.do = "running" /\ s.txn = New /\ s.own = TRUE /\ s.todo = sql
    BY <2>3 DEF Running
  <2>5. at' = [at EXCEPT ![Prompt] = s]
    BY <1>3, <2>3
  <2> QED BY <1>1, <1>3, <2>1, <2>2, <2>4, <2>5, OwnedThread
<1> QED BY <1>2, <1>3

LEMMA OwnedClient ==
    ASSUME Orderly, Typed, Owned, NEW c \in Client, Connect(c) \/ CloseEnded(c) \/ Query(c) \/ Disconnect(c)
    PROVE  Owned'
<1>1. c \in Thread /\ ~mode.managed /\ current_txn = NoTxn /\ UNCHANGED <<mode, current_txn>>
  <2>1. ~mode.managed
    BY DEF Connect, CloseEnded, Query, Disconnect, Owned
  <2> QED BY <2>1 DEF Connect, CloseEnded, Query, Disconnect, shared, Thread, Owned
<1>2. CASE Connect(c)
  <2>1. New \in Txn /\ mode.level \in Level /\ txns' = Begun(mode.level)
    BY <1>2 DEF Connect, Typed, TypeOK
  <2>2. (\A x : StillActive(x) <=> Active(x) \/ x = New) /\ New \notin DOMAIN txns
    BY <2>1, ActiveBegun
  <2>3. \A u \in Thread : InTxn(u) => at[u].txn # New
    BY <2>2, AtTransaction DEF InTxn
  <2>4. Connected(New).do = "connected" /\ Connected(New).txn = New /\ at' = [at EXCEPT ![c] = Connected(New)]
    BY <1>2 DEF Connect, Connected
  <2> HIDE DEF New
  <2> QED BY <1>1, <2>2, <2>3, <2>4, OwnedThread
<1>3. CASE CloseEnded(c) \/ Disconnect(c)
  <2>1. at' = [at EXCEPT ![c] = Away] /\ Away.do = "away" /\ InTxn(c)
    BY <1>3 DEF CloseEnded, Disconnect, Away, InTxn
  <2>2. \A u \in Thread \ {c} : InTxn(u) /\ Active(at[u].txn) => StillActive(at[u].txn)
    <3>1. CASE CloseEnded(c)
      BY <3>1, ActiveKept DEF CloseEnded, store
    <3>2. CASE Disconnect(c)
      BY <1>1, <2>1, <3>2, OwnEnded DEF Disconnect
    <3> QED BY <1>3, <3>1, <3>2
  <2> QED BY <1>1, <2>1, <2>2, OwnedThread
<1>4. CASE Query(c)
  <2>1. PICK sql \in Strings : at' = [at EXCEPT ![c] = Running(at[c].txn, FALSE, sql)]
    BY <1>4 DEF Query
  <2>2. PICK s : s = Running(at[c].txn, FALSE, sql)
    OBVIOUS
  <2>3. s.do = "running" /\ s.txn = at[c].txn /\ s.own = FALSE /\ s.todo = sql /\ at' = [at EXCEPT ![c] = s]
    BY <2>1, <2>2 DEF Running
  <2>4. InTxn(c) /\ UNCHANGED txns /\ at[c].txn \in DOMAIN txns /\ txns[at[c].txn].state = "RUNNING"
    BY <1>1, <1>4, AtTransaction DEF Query, InTxn, store
  <2>5. StillActive(at[c].txn) /\ \A u \in Thread \ {c} : InTxn(u) => at[u].txn # at[c].txn
    BY <1>1, <2>4 DEF StillActive, Owned
  <2>6. EndsLast(sql)
    BY DEF Orderly, EndsLast
  <2> QED BY <1>1, <2>3, <2>4, <2>5, <2>6, ActiveKept, OwnedThread
<1> QED BY <1>2, <1>3, <1>4

\* The process stops.
LEMMA Stops ==
    ASSUME NEW t \in Thread, ConflictAgain(t) \/ MismatchStops(t) \/ (Leave(t) /\ Stop)
    PROVE  UNCHANGED <<txns, rows, last_commit_ts, current_txn, mode, at>>
  BY DEF ConflictAgain, MismatchStops, Stop, store, shared

LEMMA OwnedStep == ASSUME Orderly, Typed, Owned, [Next]_vars PROVE Owned'
<1>1. CASE UNCHANGED <<txns, current_txn, mode, at>>
  BY <1>1 DEF Owned, InTxn, Busy, Active
<1>2. ASSUME NEW t \in Thread, Execute(t) PROVE Owned'
  BY <1>1, <1>2, Stops, OwnedStatement, OwnedTxn, OwnedEndOfString DEF Execute
<1> QED BY <1>1, <1>2, OwnedExecuteSql, OwnedClient DEF Next, vars

LEMMA InitOwned == ASSUME Init PROVE Owned
<1>1. \A t \in Thread : at[t].do \in {"idle", "away"}
  BY DEF Init, Idle, Away
<1>2. \A c \in Client : at[c].do = "away"
  BY SessionAssumption DEF Init, Away, Thread
<1> QED BY <1>1, <1>2 DEF Owned, InTxn, Busy, Init

\* However BEGIN, COMMIT, ROLLBACK and errors of orderly users follow each other,
\* the transaction the shell's next statement will run in can still end.
THEOREM SessionCurrentActive == ASSUME Orderly PROVE Spec => []CurrentActive
<1>1. Owned => CurrentActive
  BY DEF Owned, CurrentActive
<1>2. Init => Typed /\ Owned
  BY InitTyped, InitOwned
<1>3. Typed /\ Owned /\ [Next]_vars => (Typed /\ Owned)'
  BY TypedStep, OwnedStep
<1> QED BY <1>1, <1>2, <1>3, PTL DEF Spec

-----------------------------------------------------------------------------
(* What the steps do to the store.                                         *)

\* A version a transaction can still overwrite is the one of its snapshot, and
\* only active transactions have overwritten any.
Versioned ==
    /\ \A k \in Key : rows[k].ts <= last_commit_ts
    /\ \A k \in Key : rows[k].by # NoTxn =>
          Active(rows[k].by) /\ rows[k].ts <= txns[rows[k].by].read_ts
    /\ \A x \in DOMAIN txns : txns[x].read_ts <= last_commit_ts
    /\ \A x \in DOMAIN txns, k \in Key :
          rows[k].ts <= txns[x].read_ts => Committed(k) = txns[x].snapshot[k]
    /\ \A x \in DOMAIN txns : txns[x].scanned => txns[x].level = "SERIALIZABLE"

SameTxn(x) ==
    /\ txns'[x].level = txns[x].level /\ txns'[x].read_ts = txns[x].read_ts
    /\ txns'[x].snapshot = txns[x].snapshot

Kept ==
    /\ UNCHANGED <<rows, last_commit_ts>> /\ DOMAIN txns' = DOMAIN txns
    /\ \A x : StillActive(x) <=> Active(x)
    /\ \A x \in DOMAIN txns : SameTxn(x) /\ txns'[x].scanned = txns[x].scanned
Begins ==
    /\ New \in Txn /\ \E level \in Level : txns' = Begun(level)
    /\ UNCHANGED <<rows, last_commit_ts>>
Writes(x, k) ==
    /\ Active(x) /\ ~Conflicts(x, k)
    /\ rows' = [rows EXCEPT ![k].by = x]
    /\ UNCHANGED <<txns, last_commit_ts>>
Scans(x) ==
    /\ Active(x) /\ txns[x].level = "SERIALIZABLE"
    /\ txns' = [txns EXCEPT ![x].scanned = TRUE]
    /\ UNCHANGED <<rows, last_commit_ts>>
Ends(x) == Active(x) /\ ((Publish(x) /\ Verified(x)) \/ Abort(x))

Effect ==
    \/ Kept \/ Begins
    \/ \E x \in Txn : Ends(x) \/ Scans(x) \/ \E k \in Key : Writes(x, k)

LEMMA ActiveTxn ==
    ASSUME Typed, NEW x, Active(x)
    PROVE  x \in Txn /\ x \in DOMAIN txns /\ txns[x] \in Transaction /\ x # NoTxn
<1>1. x \in DOMAIN txns /\ DOMAIN txns = 1..Len(txns) /\ Len(txns) <= MaxTxns /\ Len(txns) \in Nat
  BY DEF Active, Typed, TypeOK
<1> QED BY <1>1, ElementOfSeq, SessionAssumption DEF Typed, TypeOK, Txn, NoTxn

LEMMA NothingKept == ASSUME UNCHANGED <<txns, rows, last_commit_ts>> PROVE Effect
  BY ActiveKept DEF Effect, Kept, SameTxn

LEMMA EndEffect ==
    ASSUME Typed, NEW x, Active(x), Commit(x) \/ Abort(x)
    PROVE  Effect
<1>1. x \in Txn
  BY ActiveTxn
<1>2. Ends(x)
  BY DEF Ends, Commit
<1> QED BY <1>1, <1>2 DEF Effect

LEMMA StatementEffect ==
    ASSUME Typed, Versioned, NEW t \in Thread, at[t].do = "running", Active(at[t].txn),
           Conflict(t) \/ WriteRow(t) \/ Select(t)
    PROVE  Effect
<1> DEFINE x == at[t].txn
<1>1. x \in Txn /\ x \in DOMAIN txns /\ txns[x] \in Transaction
  BY ActiveTxn
<1>2. at[t] \in Work /\ at[t].todo # <<>>
  BY Kinds DEF Typed, Conflict, WriteRow, Select, Doing
<1>3. CASE Conflict(t)
  <2> DEFINE r == [txns[x] EXCEPT !.state = "TAINTED"]
  <2>1. r \in Transaction /\ r.state = "TAINTED" /\ r.level = txns[x].level /\ r.read_ts = txns[x].read_ts
        /\ r.snapshot = txns[x].snapshot /\ r.scanned = txns[x].scanned
    BY <1>1 DEF Transaction, State
  <2>2. txns' = [txns EXCEPT ![x] = r] /\ UNCHANGED <<rows, last_commit_ts>>
    BY <1>3 DEF Conflict
  <2> HIDE DEF r, x
  <2>3. \A y : StillActive(y) <=> Active(y)
    BY <1>1, <2>1, <2>2, ActiveChanged DEF x
  <2>4. DOMAIN txns' = DOMAIN txns /\ \A y \in DOMAIN txns : SameTxn(y) /\ txns'[y].scanned = txns[y].scanned
    BY <1>1, <2>1, <2>2 DEF SameTxn
  <2> QED BY <2>2, <2>3, <2>4 DEF Effect, Kept
<1>4. CASE WriteRow(t)
  <2>1. at[t].todo \in Seq(Statement) /\ KeysLeft(at[t].todo) /\ Head(at[t].todo).do = "write"
    BY <1>2, <1>4 DEF Work, Typed, WriteRow, Doing
  <2>2. Head(Head(at[t].todo).keys) \in Key
    BY <1>2, <2>1, WriteLeft
  <2>3. Writes(x, Head(Head(at[t].todo).keys))
    BY <1>4 DEF WriteRow, Writes
  <2> QED BY <1>1, <2>2, <2>3 DEF Effect
<1>5. CASE Select(t) /\ txns[x].level = "SERIALIZABLE"
  <2>1. Scans(x)
    BY <1>5 DEF Select, Scans
  <2> QED BY <1>1, <2>1 DEF Effect
<1>6. CASE Select(t) /\ txns[x].level # "SERIALIZABLE"
  <2>1. txns' = [txns EXCEPT ![x].scanned = FALSE] /\ UNCHANGED <<rows, last_commit_ts>>
    BY <1>6 DEF Select
  <2>2. txns[x].scanned = FALSE
    BY <1>1, <1>6 DEF Versioned, Transaction
  <2> HIDE DEF x
  <2>3. [txns[x] EXCEPT !.scanned = FALSE] = txns[x]
    BY <1>1, <2>2 DEF Transaction
  <2>4. txns' = txns
    <3>1. txns' = [txns EXCEPT ![x] = txns[x]]
      BY <2>1, <2>3
    <3>2. txns = [y \in DOMAIN txns |-> txns[y]]
      BY DEF Typed, TypeOK
    <3> QED BY <3>1, <3>2
  <2> QED BY <2>1, <2>4, NothingKept
<1> QED BY <1>3, <1>4, <1>5, <1>6

LEMMA StepEffect == ASSUME Typed, Owned, Versioned, [Next]_vars PROVE Effect
<1>1. CASE UNCHANGED <<txns, rows, last_commit_ts>>
  BY <1>1, NothingKept
<1>2. CASE ExecuteSql
  BY <1>1, <1>2 DEF ExecuteSql, Effect, Begins, Level
<1>3. ASSUME NEW c \in Client, Connect(c) \/ CloseEnded(c) \/ Query(c) \/ Disconnect(c) PROVE Effect
  <2>1. CASE Connect(c)
    BY <2>1 DEF Connect, Effect, Begins, Typed, TypeOK
  <2>2. CASE Disconnect(c)
    <3>1. c \in Thread /\ at[c].txn \in DOMAIN txns
      BY <2>2, AtTransaction DEF Disconnect, Thread
    <3>2. Active(at[c].txn) /\ Abort(at[c].txn)
      BY <2>2, <3>1 DEF Disconnect, Active
    <3> QED BY <3>2, EndEffect
  <2> QED BY <1>1, <1>3, <2>1, <2>2 DEF CloseEnded, Query, store
<1>4. ASSUME NEW t \in Thread, Execute(t) PROVE Effect
  <2>1. CASE Conflict(t) \/ WriteRow(t) \/ Select(t)
    <3>1. at[t].do = "running" /\ at[t].todo # <<>>
      BY <2>1 DEF Conflict, WriteRow, Select, Doing
    <3> QED BY <2>1, <3>1, StatementEffect DEF Owned
  <2>2. CASE ConflictAgain(t) \/ MismatchStops(t) \/ Leave(t) \/ Bad(t) \/ SetVariable(t) \/ BeginRefused(t)
             \/ EndRefused(t) \/ Switch(t) \/ Finish(t)
    BY <1>1, <2>2, Stops DEF Leave, Bad, SetVariable, BeginRefused, EndRefused, Switch, Finish, store
  <2>3. CASE Begin(t)
    BY <2>3 DEF Begin, Effect, Begins, LevelOf, Level
  <2>4. CASE CommitTxn(t) \/ AbortTxn(t)
    <3>1. at[t].do = "running" /\ at[t].todo # <<>> /\ (Commit(at[t].txn) \/ Abort(at[t].txn))
      BY <2>4 DEF CommitTxn, AbortTxn, Doing
    <3> QED BY <3>1, EndEffect DEF Owned
  <2>5. CASE FinishOwn(t) \/ Catch(t)
    <3>1. at[t].txn \in DOMAIN txns
      BY <2>5, AtTransaction DEF FinishOwn, Catch, Finished
    <3>2. UNCHANGED store \/ (Active(at[t].txn) /\ (Commit(at[t].txn) \/ Abort(at[t].txn)))
      BY <2>5, <3>1 DEF FinishOwn, Catch, Active
    <3> QED BY <1>1, <3>2, EndEffect DEF store
  <2> QED BY <1>4, <2>1, <2>2, <2>3, <2>4, <2>5 DEF Execute
<1> QED BY <1>1, <1>2, <1>3, <1>4 DEF Next, vars

RowType == [ts : Nat, v : Txn \cup {NoTxn}, by : Txn \cup {NoTxn}]

\* What the two ends of a transaction do to the rows.
LEMMA RowsEnded ==
    ASSUME Typed, Versioned, NEW x \in Txn, Ends(x)
    PROVE  /\ \A y : StillActive(y) <=> Active(y) /\ y # x
           /\ DOMAIN txns' = DOMAIN txns
           /\ \A y \in DOMAIN txns : SameTxn(y) /\ txns'[y].scanned = txns[y].scanned
           /\ \A k \in Key : rows[k].by # x => rows'[k] = rows[k]
           /\ \A k \in Key : rows[k].by = x => rows'[k].by = NoTxn
           /\ Abort(x) => last_commit_ts' = last_commit_ts
                          /\ \A k \in Key : rows'[k].ts = rows[k].ts /\ rows'[k].v = rows[k].v
           /\ Publish(x) => last_commit_ts' = last_commit_ts + 1
                            /\ \A k \in Key : rows[k].by = x => rows'[k].ts = last_commit_ts + 1 /\ rows'[k].v = x
<1>1. x \in DOMAIN txns /\ txns[x] \in Transaction
  BY ActiveTxn DEF Ends
<1>2. PICK state \in {"COMMITTED", "ABORTED"} : Ended(x, state)
  BY DEF Ends, Publish, Abort
<1>3. /\ \A y : StillActive(y) <=> Active(y) /\ y # x
      /\ DOMAIN txns' = DOMAIN txns
      /\ \A y \in DOMAIN txns : SameTxn(y) /\ txns'[y].scanned = txns[y].scanned
  <2>1. (\A y : StillActive(y) <=> Active(y) /\ y # x) /\ DOMAIN txns' = DOMAIN txns
        /\ \A y \in DOMAIN txns : /\ y # x => txns'[y] = txns[y]
                                  /\ txns'[y].read_ts = txns[y].read_ts
                                  /\ txns'[y].snapshot = txns[y].snapshot
                                  /\ txns'[y].scanned = txns[y].scanned
    BY <1>1, <1>2, ActiveEnded
  <2>2. txns'[x] = [txns[x] EXCEPT !.state = state]
    BY <1>1, <1>2 DEF Ended
  <2>3. txns'[x].level = txns[x].level
    BY <1>1, <2>2 DEF Transaction
  <2> QED BY <2>1, <2>3 DEF SameTxn
<1>4. \A k \in Key : rows[k] \in RowType
  BY DEF Typed, TypeOK, RowType
<1>5. CASE Abort(x) /\ ~Publish(x)
  <2>1. \A k \in Key : rows'[k] = IF rows[k].by = x THEN [rows[k] EXCEPT !.by = NoTxn] ELSE rows[k]
    BY <1>5 DEF Abort
  <2> QED BY <1>3, <1>4, <1>5, <2>1 DEF Abort, RowType
<1>6. CASE Publish(x)
  <2>1. \A k \in Key : rows'[k] = IF rows[k].by = x
                                  THEN [ts |-> last_commit_ts + 1, v |-> x, by |-> NoTxn] ELSE rows[k]
    BY <1>6 DEF Publish
  <2>2. last_commit_ts' = last_commit_ts + 1 /\ ~Abort(x)
    BY <1>6 DEF Publish, Abort, Typed, TypeOK
  <2> QED BY <1>3, <1>4, <1>6, <2>1, <2>2
<1> QED BY <1>5, <1>6 DEF Ends

LEMMA RowWritten ==
    ASSUME Typed, NEW x \in Txn, NEW k \in Key, Writes(x, k)
    PROVE  /\ UNCHANGED <<txns, last_commit_ts>>
           /\ rows'[k].by = x
           /\ \A j \in Key : /\ rows'[j].ts = rows[j].ts /\ rows'[j].v = rows[j].v
                             /\ j # k => rows'[j].by = rows[j].by
<1>1. rows \in [Key -> RowType]
  BY DEF Typed, TypeOK, RowType
<1>2. rows' = [rows EXCEPT ![k] = [rows[k] EXCEPT !.by = x]] /\ UNCHANGED <<txns, last_commit_ts>>
  BY DEF Writes
<1>3. rows'[k] = [rows[k] EXCEPT !.by = x] /\ \A j \in Key : j # k => rows'[j] = rows[j]
  BY <1>1, <1>2
<1> QED BY <1>1, <1>2, <1>3 DEF RowType

LEMMA Scanned ==
    ASSUME Typed, NEW x \in Txn, Scans(x)
    PROVE  /\ UNCHANGED <<rows, last_commit_ts>> /\ DOMAIN txns' = DOMAIN txns
           /\ \A y : StillActive(y) <=> Active(y)
           /\ \A y \in DOMAIN txns : SameTxn(y) /\ (y # x => txns'[y].scanned = txns[y].scanned)
           /\ txns'[x].scanned = TRUE
<1> DEFINE r == [txns[x] EXCEPT !.scanned = TRUE]
<1>1. x \in DOMAIN txns /\ txns[x] \in Transaction /\ Active(x)
  BY ActiveTxn DEF Scans
<1>2. /\ r \in Transaction /\ r.state = txns[x].state /\ r.level = txns[x].level
      /\ r.read_ts = txns[x].read_ts /\ r.snapshot = txns[x].snapshot /\ r.scanned = TRUE
  BY <1>1 DEF Transaction
<1>3. txns' = [txns EXCEPT ![x] = r] /\ UNCHANGED <<rows, last_commit_ts>>
  BY DEF Scans
<1> HIDE DEF r
<1>4. \A y : StillActive(y) <=> Active(y)
  BY <1>1, <1>2, <1>3, ActiveChanged DEF Active
<1> QED BY <1>1, <1>2, <1>3, <1>4 DEF SameTxn

LEMMA VersionedStep ==
    ASSUME Typed, Owned, Versioned, [Next]_vars
    PROVE  Versioned'
<1>1. /\ \A x \in DOMAIN txns : txns[x].read_ts \in Nat
      /\ \A k \in Key : rows[k] \in RowType /\ rows[k].ts \in Nat
      /\ last_commit_ts \in Nat
  <2>1. \A x \in DOMAIN txns : txns[x] \in Transaction
    BY ElementOfSeq DEF Typed, TypeOK
  <2> QED BY <2>1 DEF Typed, TypeOK, Transaction, RowType
<1>2. CASE Kept
  BY <1>2, ActivePrime DEF Kept, Versioned, SameTxn, Committed, Active
<1>3. CASE Begins
  <2>1. PICK level \in Level : txns' = Begun(level)
    BY <1>3 DEF Begins
  <2>2. New \in Txn /\ UNCHANGED <<rows, last_commit_ts>>
    BY <1>3 DEF Begins
  <2>3. /\ \A x : StillActive(x) <=> Active(x) \/ x = New
        /\ \A x \in DOMAIN txns : txns'[x] = txns[x]
        /\ New \notin DOMAIN txns /\ DOMAIN txns' = DOMAIN txns \cup {New}
        /\ txns'[New] = [state |-> "RUNNING", level |-> level, read_ts |-> last_commit_ts,
                         snapshot |-> [k \in Key |-> Committed(k)], scanned |-> FALSE]
    BY <2>1, <2>2, ActiveBegun
  <2>4. /\ txns'[New].read_ts = last_commit_ts /\ txns'[New].scanned = FALSE
        /\ \A k \in Key : txns'[New].snapshot[k] = Committed(k)
    BY <2>3
  <2> HIDE DEF New
  <2>5. (\A k \in Key : rows[k].by # NoTxn =>
            Active(rows[k].by) /\ rows[k].ts <= txns[rows[k].by].read_ts)'
    BY <2>2, <2>3, ActivePrime DEF Versioned, Active
  <2>6. (\A x \in DOMAIN txns, k \in Key :
            rows[k].ts <= txns[x].read_ts => Committed(k) = txns[x].snapshot[k])'
    BY <2>2, <2>3, <2>4 DEF Versioned, Committed
  <2>7. (\A x \in DOMAIN txns : txns[x].read_ts <= last_commit_ts)'
    BY <1>1, <2>2, <2>3, <2>4 DEF Versioned
  <2> QED BY <2>2, <2>3, <2>4, <2>5, <2>6, <2>7 DEF Versioned
<1>4. ASSUME NEW x \in Txn, NEW k \in Key, Writes(x, k) PROVE Versioned'
  <2>1. /\ UNCHANGED <<txns, last_commit_ts>>
        /\ rows'[k].by = x
        /\ \A j \in Key : /\ rows'[j].ts = rows[j].ts /\ rows'[j].v = rows[j].v
                          /\ j # k => rows'[j].by = rows[j].by
    BY <1>4, RowWritten
  <2>2. Active(x) /\ (rows[k].by = x \/ (rows[k].by = NoTxn /\ ~(rows[k].ts > txns[x].read_ts)))
    BY <1>4 DEF Writes, Conflicts
  <2>3. x # NoTxn /\ x \in DOMAIN txns /\ rows[k].ts <= txns[x].read_ts
    BY <1>1, <2>2, ActiveTxn DEF Versioned
  <2>4. \A j \in Key : rows'[j].by # NoTxn => Active(rows'[j].by) /\ rows'[j].ts <= txns[rows'[j].by].read_ts
    BY <2>1, <2>2, <2>3 DEF Versioned
  <2>5. \A j \in Key : Committed(j)' = Committed(j)
    BY <2>1 DEF Committed
  <2> QED BY <2>1, <2>4, <2>5, ActivePrime, ActiveKept DEF Versioned
<1>5. ASSUME NEW x \in Txn, Scans(x) PROVE Versioned'
  <2>1. txns[x].level = "SERIALIZABLE"
    BY <1>5 DEF Scans
  <2>2. /\ UNCHANGED <<rows, last_commit_ts>> /\ DOMAIN txns' = DOMAIN txns
        /\ \A y : Active(y)' <=> Active(y)
        /\ \A y \in DOMAIN txns : SameTxn(y) /\ (y # x => txns'[y].scanned = txns[y].scanned)
    BY <1>5, Scanned, ActivePrime
  <2>3. \A k \in Key : Committed(k)' = Committed(k)
    BY <2>2 DEF Committed
  <2>4. \A k \in Key : rows[k].by # NoTxn => rows[k].by \in DOMAIN txns
    BY DEF Versioned, Active
  <2> QED BY <2>1, <2>2, <2>3, <2>4 DEF Versioned, SameTxn
<1>6. ASSUME NEW x \in Txn, Ends(x) PROVE Versioned'
  <2>1. /\ \A y : StillActive(y) <=> Active(y) /\ y # x
        /\ DOMAIN txns' = DOMAIN txns
        /\ \A y \in DOMAIN txns : SameTxn(y) /\ txns'[y].scanned = txns[y].scanned
        /\ \A k \in Key : rows[k].by # x => rows'[k] = rows[k]
        /\ \A k \in Key : rows[k].by = x => rows'[k].by = NoTxn
    BY <1>6, RowsEnded
  <2>2. CASE Abort(x)
    <3>1. last_commit_ts' = last_commit_ts /\ \A k \in Key : rows'[k].ts = rows[k].ts /\ rows'[k].v = rows[k].v
      BY <1>6, <2>2, RowsEnded
    <3> QED BY <2>1, <3>1, ActivePrime DEF Versioned, SameTxn, Committed, Active
  <2>3. CASE Publish(x)
    <3>1. /\ last_commit_ts' = last_commit_ts + 1
          /\ \A k \in Key : rows[k].by = x => rows'[k].ts = last_commit_ts + 1
      BY <1>6, <2>3, RowsEnded
    <3>2. \A k \in Key, y \in DOMAIN txns : rows[k].by = x => ~(rows'[k].ts <= txns[y].read_ts)
      BY <1>1, <3>1 DEF Versioned
    <3>3. (\A k \in Key : rows[k].by # NoTxn =>
              Active(rows[k].by) /\ rows[k].ts <= txns[rows[k].by].read_ts)'
      BY <2>1, ActivePrime DEF Versioned, SameTxn, Active
    <3>4. (\A y \in DOMAIN txns, k \in Key :
              rows[k].ts <= txns[y].read_ts => Committed(k) = txns[y].snapshot[k])'
      <4> SUFFICES ASSUME NEW y \in DOMAIN txns, NEW k \in Key, rows'[k].ts <= txns[y].read_ts
                   PROVE  Committed(k)' = txns[y].snapshot[k]
        BY <2>1 DEF SameTxn
      <4>1. rows'[k] = rows[k]
        BY <2>1, <3>2
      <4> QED BY <4>1 DEF Versioned, Committed
    <3>5. (\A k \in Key : rows[k].ts <= last_commit_ts)'
      BY <1>1, <2>1, <3>1 DEF Versioned
    <3>6. (\A y \in DOMAIN txns : txns[y].read_ts <= last_commit_ts)'
      BY <1>1, <2>1, <3>1 DEF Versioned, SameTxn
    <3> QED BY <2>1, <3>3, <3>4, <3>5, <3>6 DEF Versioned, SameTxn
  <2> QED BY <1>6, <2>2, <2>3 DEF Ends
<1> QED BY <1>2, <1>3, <1>4, <1>5, <1>6, StepEffect DEF Effect

LEMMA InitVersioned == ASSUME Init PROVE Versioned
<1>1. DOMAIN txns = {} /\ last_commit_ts = 0
  BY NoneBegun DEF Init
<1>2. \A k \in Key : rows[k].ts = 0 /\ rows[k].by = NoTxn
  BY DEF Init
<1> QED BY <1>1, <1>2 DEF Versioned

-----------------------------------------------------------------------------
(* The steps of the store.                                                 *)

\* The store's variables, as Session sees them.
Db         == [k \in Key |-> Committed(k)]
RunningTxns == {x \in Txn : Active(x)}
Snap       == [x \in Txn |-> IF Active(x) THEN txns[x].snapshot ELSE [k \in Key |-> [ts |-> 0, v |-> NoTxn]]]
Mine       == [x \in Txn |-> [k \in Wrote(x) |-> x]]
Preds      == [x \in Txn |-> IF Active(x) /\ txns[x].scanned THEN {[id : Key, v : Txn]} ELSE {}]

\* Their parts.
LEMMA StoreParts ==
    /\ \A k \in Key : Db[k] = Committed(k)
    /\ \A x \in Txn : /\ Active(x) => Snap[x] = txns[x].snapshot
                      /\ ~Active(x) => Snap[x] = [k \in Key |-> [ts |-> 0, v |-> NoTxn]]
                      /\ DOMAIN Mine[x] = Wrote(x) /\ \A k \in Wrote(x) : Mine[x][k] = x
                      /\ Active(x) /\ txns[x].scanned => Preds[x] = {[id : Key, v : Txn]}
                      /\ ~(Active(x) /\ txns[x].scanned) => Preds[x] = {}
  BY DEF Db, Snap, Mine, Preds

LEMMA KeptImplements == ASSUME Typed, Kept PROVE UNCHANGED Store!vars
<1>1. \A x : Active(x)' <=> Active(x)
  BY ActivePrime DEF Kept
<1>2. Db' = Db
  BY DEF Kept, Db, Committed
<1>3. RunningTxns' = RunningTxns
  BY <1>1 DEF RunningTxns
<1>4. \A x \in Txn : Active(x) => txns'[x].snapshot = txns[x].snapshot /\ txns'[x].scanned = txns[x].scanned
  BY DEF Kept, SameTxn, Active
<1>5. Snap' = Snap /\ Preds' = Preds
  BY <1>1, <1>4 DEF Snap, Preds
<1>6. Mine' = Mine
  BY DEF Kept, Mine, Wrote
<1> QED BY <1>2, <1>3, <1>5, <1>6 DEF Store!vars, Db, RunningTxns, Snap, Mine, Preds, Kept

LEMMA BeginsImplements ==
    ASSUME Typed, Versioned, Begins, NEW begun \in Txn, begun = New
    PROVE  Store!Begin(begun)
<1>1. PICK level \in Level : txns' = Begun(level)
  BY DEF Begins
<1>2. New \in Txn /\ UNCHANGED <<rows, last_commit_ts>>
  BY DEF Begins
<1>3. /\ \A x : StillActive(x) <=> Active(x) \/ x = New
      /\ \A x \in DOMAIN txns : txns'[x] = txns[x]
      /\ New \notin DOMAIN txns /\ New # NoTxn
      /\ txns'[New] = [state |-> "RUNNING", level |-> level, read_ts |-> last_commit_ts,
                       snapshot |-> [k \in Key |-> Committed(k)], scanned |-> FALSE]
  BY <1>1, <1>2, ActiveBegun
<1>4. txns'[New].snapshot = Db /\ txns'[New].scanned = FALSE
  BY <1>3 DEF Db
<1>5. ~Active(New) /\ \A x : Active(x)' <=> Active(x) \/ x = New
  BY <1>3, ActivePrime DEF Active
<1>6. \A x \in Txn : Active(x) => txns'[x] = txns[x]
  BY <1>3 DEF Active
<1> HIDE DEF New
<1>7. Db' = Db /\ Mine' = Mine
  BY <1>2 DEF Db, Committed, Mine, Wrote
<1>8. New \notin RunningTxns /\ RunningTxns' = RunningTxns \cup {New}
  BY <1>2, <1>5 DEF RunningTxns
<1>9. Snap' = [Snap EXCEPT ![New] = Db] /\ Preds' = Preds
  BY <1>2, <1>4, <1>5, <1>6 DEF Snap, Preds
<1> QED BY <1>2, <1>7, <1>8, <1>9 DEF Store!Begin, Db, RunningTxns, Snap, Mine, Preds

LEMMA WritesImplements ==
    ASSUME Typed, Versioned, NEW x \in Txn, NEW k \in Key, Writes(x, k)
    PROVE  Store!Write(x, k, x)
<1>1. /\ UNCHANGED <<txns, last_commit_ts>>
      /\ rows'[k].by = x
      /\ \A j \in Key : /\ rows'[j].ts = rows[j].ts /\ rows'[j].v = rows[j].v
                        /\ j # k => rows'[j].by = rows[j].by
  BY RowWritten
<1>2. Active(x) /\ (rows[k].by = x \/ (rows[k].by = NoTxn /\ ~(rows[k].ts > txns[x].read_ts)))
  BY DEF Writes, Conflicts
<1>3. x # NoTxn /\ x \in DOMAIN txns /\ txns[x].read_ts \in Nat /\ rows[k].ts \in Nat
  <2>1. txns[x] \in Transaction /\ rows[k] \in RowType /\ x # NoTxn /\ x \in DOMAIN txns
    BY <1>2, ActiveTxn DEF Typed, TypeOK, RowType
  <2> QED BY <2>1 DEF Transaction, RowType
<1>4. Committed(k) = txns[x].snapshot[k]
  BY <1>2, <1>3 DEF Versioned
<1>5. \A u \in Txn \ {x} : Active(u) => k \notin Wrote(u)
  BY <1>2, ActiveTxn DEF Wrote
<1>6. Db' = Db
  BY <1>1 DEF Db, Committed
<1>7. RunningTxns' = RunningTxns /\ Snap' = Snap /\ Preds' = Preds
  BY <1>1 DEF RunningTxns, Snap, Preds, Active
<1>8. (\A u \in Txn \ {x} : Wrote(u)' = Wrote(u)) /\ Wrote(x)' = Wrote(x) \cup {k}
  <2>1. \A u \in Txn \ {x} : k \notin Wrote(u)
    BY <1>2, <1>3 DEF Wrote, Txn, NoTxn
  <2> QED BY <1>1, <2>1 DEF Wrote
<1>9. Mine' = [Mine EXCEPT ![x] = [j \in Wrote(x) \cup {k} |-> IF j = k THEN x ELSE Mine[x][j]]]
  <2>1. Mine'[x] = [j \in Wrote(x) \cup {k} |-> x]
    BY <1>8 DEF Mine
  <2>2. [j \in Wrote(x) \cup {k} |-> IF j = k THEN x ELSE Mine[x][j]] = [j \in Wrote(x) \cup {k} |-> x]
    BY StoreParts
  <2>3. \A u \in Txn \ {x} : Mine'[u] = Mine[u]
    BY <1>8 DEF Mine
  <2>4. Mine' = [u \in Txn |-> Mine'[u]] /\ Mine = [u \in Txn |-> Mine[u]]
    BY DEF Mine
  <2> QED BY <2>1, <2>2, <2>3, <2>4
<1>10. x \in RunningTxns /\ Db[k] = Snap[x][k] /\ \A u \in RunningTxns \ {x} : k \notin DOMAIN Mine[u]
  <2>1. Db[k] = Snap[x][k]
    BY <1>2, <1>4, StoreParts
  <2>2. \A u \in RunningTxns \ {x} : k \notin DOMAIN Mine[u]
    BY <1>5, StoreParts DEF RunningTxns
  <2> QED BY <1>2, <2>1, <2>2 DEF RunningTxns
<1>11. DOMAIN Mine[x] = Wrote(x)
  BY StoreParts
<1>12. Mine' = [Mine EXCEPT ![x] = [j \in DOMAIN @ \cup {k} |-> IF j = k THEN x ELSE @[j]]]
  BY <1>9, <1>11
<1> QED BY <1>1, <1>6, <1>7, <1>10, <1>12 DEF Store!Write, Db, RunningTxns, Snap, Mine, Preds

LEMMA ScansImplements ==
    ASSUME Typed, Versioned, NEW x \in Txn, Scans(x)
    PROVE  Store!Query(x, [id : Key, v : Txn])
<1>1. /\ UNCHANGED <<rows, last_commit_ts>> /\ DOMAIN txns' = DOMAIN txns
      /\ \A y : Active(y)' <=> Active(y)
      /\ \A y \in DOMAIN txns : txns'[y].snapshot = txns[y].snapshot
                                /\ (y # x => txns'[y].scanned = txns[y].scanned)
      /\ txns'[x].scanned = TRUE /\ Active(x)
  BY Scanned, ActivePrime DEF Scans, SameTxn
<1>2. Db' = Db /\ Mine' = Mine
  BY <1>1 DEF Db, Committed, Mine, Wrote
<1>3. RunningTxns' = RunningTxns /\ x \in RunningTxns
  BY <1>1 DEF RunningTxns
<1>4. \A y \in Txn : Active(y) => y \in DOMAIN txns
  BY DEF Active
<1>5. Snap' = Snap
  BY <1>1, <1>4 DEF Snap
<1>6. Preds[x] \cup {[id : Key, v : Txn]} = {[id : Key, v : Txn]}
  BY StoreParts
<1>7. Preds' = [Preds EXCEPT ![x] = @ \cup {[id : Key, v : Txn]}]
  <2>1. Preds'[x] = {[id : Key, v : Txn]}
    BY <1>1 DEF Preds
  <2>2. \A y \in Txn \ {x} : Preds'[y] = Preds[y]
    BY <1>1, <1>4 DEF Preds
  <2>3. Preds' = [y \in Txn |-> Preds'[y]] /\ Preds = [y \in Txn |-> Preds[y]]
    BY DEF Preds
  <2> QED BY <1>6, <2>1, <2>2, <2>3
<1> QED BY <1>1, <1>2, <1>3, <1>5, <1>7 DEF Store!Query, Db, RunningTxns, Snap, Mine, Preds

\* What every end of a transaction does to the store.
LEMMA EndsImplements ==
    ASSUME Typed, Versioned, NEW x \in Txn, Ends(x)
    PROVE  /\ x \in RunningTxns /\ RunningTxns' = RunningTxns \ {x}
           /\ Snap' = [Snap EXCEPT ![x] = [k \in Key |-> [ts |-> 0, v |-> NoTxn]]]
           /\ Mine' = [Mine EXCEPT ![x] = <<>>]
           /\ Preds' = [Preds EXCEPT ![x] = {}]
<1>1. /\ \A y : Active(y)' <=> Active(y) /\ y # x
      /\ \A y \in DOMAIN txns : txns'[y].snapshot = txns[y].snapshot /\ txns'[y].scanned = txns[y].scanned
      /\ \A k \in Key : rows[k].by # x => rows'[k] = rows[k]
      /\ \A k \in Key : rows[k].by = x => rows'[k].by = NoTxn
      /\ Active(x) /\ x # NoTxn
  BY RowsEnded, ActivePrime, ActiveTxn DEF SameTxn, Ends
<1>2. \A y \in Txn : Active(y) => y \in DOMAIN txns
  BY DEF Active
<1>3. x \in RunningTxns /\ RunningTxns' = RunningTxns \ {x}
  BY <1>1 DEF RunningTxns
<1>4. Snap' = [Snap EXCEPT ![x] = [k \in Key |-> [ts |-> 0, v |-> NoTxn]]]
  <2>1. Snap'[x] = [k \in Key |-> [ts |-> 0, v |-> NoTxn]]
    BY <1>1 DEF Snap
  <2>2. \A y \in Txn \ {x} : Snap'[y] = Snap[y]
    BY <1>1, <1>2 DEF Snap
  <2>3. Snap' = [y \in Txn |-> Snap'[y]] /\ Snap = [y \in Txn |-> Snap[y]]
    BY DEF Snap
  <2> QED BY <2>1, <2>2, <2>3
<1>5. Preds' = [Preds EXCEPT ![x] = {}]
  <2>1. Preds'[x] = {}
    BY <1>1 DEF Preds
  <2>2. \A y \in Txn \ {x} : Preds'[y] = Preds[y]
    BY <1>1, <1>2 DEF Preds
  <2>3. Preds' = [y \in Txn |-> Preds'[y]] /\ Preds = [y \in Txn |-> Preds[y]]
    BY DEF Preds
  <2> QED BY <2>1, <2>2, <2>3
<1>6. Wrote(x)' = {} /\ \A y \in Txn \ {x} : Wrote(y)' = Wrote(y)
  <2>1. \A y \in Txn : y # NoTxn
    BY SessionAssumption DEF Txn, NoTxn
  <2> QED BY <1>1, <2>1 DEF Wrote
<1>7. Mine' = [Mine EXCEPT ![x] = <<>>]
  <2>1. Mine'[x] = [k \in {} |-> x]
    BY <1>6 DEF Mine
  <2>2. [k \in {} |-> x] = <<>>
    OBVIOUS
  <2>3. \A y \in Txn \ {x} : Mine'[y] = Mine[y]
    BY <1>6 DEF Mine
  <2>4. Mine' = [y \in Txn |-> Mine'[y]] /\ Mine = [y \in Txn |-> Mine[y]]
    BY DEF Mine
  <2> QED BY <2>1, <2>2, <2>3, <2>4
<1> QED BY <1>3, <1>4, <1>5, <1>7

LEMMA AbortImplements ==
    ASSUME Typed, Versioned, NEW x \in Txn, Ends(x), Abort(x)
    PROVE  Store!Abort(x)
<1>1. last_commit_ts' = last_commit_ts /\ \A k \in Key : rows'[k].ts = rows[k].ts /\ rows'[k].v = rows[k].v
  BY RowsEnded
<1>2. Db' = Db
  BY <1>1 DEF Db, Committed
<1> QED BY <1>1, <1>2, EndsImplements
     DEF Store!Abort, Store!End, Store!Nobody, Store!Never, Db, RunningTxns, Snap, Mine, Preds

LEMMA PublishImplements ==
    ASSUME Typed, Versioned, NEW x \in Txn, Ends(x), Publish(x), Verified(x)
    PROVE  Store!Commit(x)
<1>1. /\ last_commit_ts' = last_commit_ts + 1
      /\ \A k \in Key : rows[k].by # x => rows'[k] = rows[k]
      /\ \A k \in Key : rows[k].by = x => rows'[k].ts = last_commit_ts + 1 /\ rows'[k].v = x
  BY RowsEnded
<1>2. Active(x) /\ x \in DOMAIN txns /\ x # NoTxn
  BY ActiveTxn DEF Ends
<1>3. \A k \in Key : rows[k].ts <= txns[x].read_ts => Db[k] = Snap[x][k]
  BY <1>2, StoreParts DEF Versioned
<1>4. \A k \in DOMAIN Mine[x] : Db[k] = Snap[x][k]
  BY <1>2, <1>3, StoreParts DEF Wrote, Versioned
<1>5. DOMAIN Mine[x] # {} => \A p \in Preds[x], k \in Key : Db[k] = Snap[x][k]
  <2>1. DOMAIN Mine[x] = Wrote(x) /\ (Preds[x] # {} => txns[x].scanned)
    BY <1>2, StoreParts
  <2> QED BY <1>3, <2>1 DEF Verified
<1>6. Db' = [k \in Key |-> IF k \in DOMAIN Mine[x] THEN [ts |-> last_commit_ts + 1, v |-> Mine[x][k]] ELSE Db[k]]
  <2>1. \A k \in Key : Committed(k)' = IF k \in Wrote(x) THEN [ts |-> last_commit_ts + 1, v |-> x] ELSE Committed(k)
    BY <1>1 DEF Committed, Wrote
  <2>2. \A k \in Key : Committed(k)' = IF k \in DOMAIN Mine[x] THEN [ts |-> last_commit_ts + 1, v |-> Mine[x][k]]
                                       ELSE Db[k]
    BY <2>1, StoreParts
  <2>3. Db' = [k \in Key |-> Committed(k)']
    BY DEF Db
  <2> QED BY <2>2, <2>3
<1>7. DOMAIN Mine[x] # {} => Store!QueriesHold(x)
  BY <1>5 DEF Store!QueriesHold, Db, Snap, Preds
<1> QED BY <1>1, <1>4, <1>6, <1>7, EndsImplements
     DEF Store!Commit, Store!End, Store!Nobody, Store!Never, Db, RunningTxns, Snap, Mine, Preds

LEMMA InitImplements == ASSUME Init PROVE Store!Init
<1>1. \A x : ~Active(x)
  <2>1. DOMAIN txns = {}
    BY NoneBegun DEF Init
  <2> QED BY <2>1 DEF Active
<1>2. \A k \in Key : rows[k] = [ts |-> 0, v |-> NoTxn, by |-> NoTxn] /\ Committed(k) = [ts |-> 0, v |-> NoTxn]
  BY DEF Init, Committed
<1>3. Db \in [Key -> Store!Version] /\ \A k \in Key : Db[k].ts <= last_commit_ts
  <2>1. Db = [k \in Key |-> [ts |-> 0, v |-> NoTxn]] /\ last_commit_ts = 0
    BY <1>2 DEF Db, Init
  <2>2. [ts |-> 0, v |-> NoTxn] \in Store!Version
    BY DEF Store!Version
  <2> QED BY <2>1, <2>2
<1>4. RunningTxns = {} /\ Snap = [x \in Txn |-> [k \in Key |-> [ts |-> 0, v |-> NoTxn]]]
      /\ Preds = [x \in Txn |-> {}]
  BY <1>1 DEF RunningTxns, Snap, Preds
<1>5. Mine = [x \in Txn |-> <<>>]
  <2>1. \A x \in Txn : Wrote(x) = {}
    BY <1>2, SessionAssumption DEF Wrote, Txn, NoTxn
  <2>2. \A x \in Txn : [k \in Wrote(x) |-> x] = <<>>
    BY <2>1
  <2> QED BY <2>2 DEF Mine
<1>6. last_commit_ts \in Nat
  BY DEF Init
<1> QED BY <1>3, <1>4, <1>5, <1>6
     DEF Store!Init, Store!Nobody, Store!Never, Db, RunningTxns, Snap, Mine, Preds

LEMMA EffectImplements ==
    ASSUME Typed, Versioned, Effect
    PROVE  [Store!Next]_(Store!vars)
<1>1. CASE Kept
  BY <1>1, KeptImplements
<1>2. CASE Begins
  <2>1. PICK x \in Txn : x = New
    BY <1>2 DEF Begins
  <2> QED BY <1>2, <2>1, BeginsImplements DEF Store!Next
<1>3. ASSUME NEW x \in Txn, Ends(x) PROVE Store!Next
  BY <1>3, AbortImplements, PublishImplements DEF Store!Next, Ends
<1>4. ASSUME NEW x \in Txn, Scans(x) PROVE Store!Next
  BY <1>4, ScansImplements DEF Store!Next
<1>5. ASSUME NEW x \in Txn, NEW k \in Key, Writes(x, k) PROVE Store!Next
  BY <1>5, WritesImplements DEF Store!Next
<1> QED BY <1>1, <1>2, <1>3, <1>4, <1>5 DEF Effect

\* Whatever strings orderly users and clients send, and whatever fails in the middle
\* of one, the rows change as the transactions of the store do: snapshots, first
\* writer wins, and every transaction ends once.
THEOREM SessionImplementsStore == ASSUME Orderly PROVE Spec => ImplementsStore
<1>1. Init => Typed /\ Owned /\ Versioned
  BY InitTyped, InitOwned, InitVersioned
<1>2. Typed /\ Owned /\ Versioned /\ [Next]_vars => (Typed /\ Owned /\ Versioned)'
  BY TypedStep, OwnedStep, VersionedStep
<1>3. Typed /\ Owned /\ Versioned /\ [Next]_vars => [Store!Next]_(Store!vars)
  BY StepEffect, EffectImplements
<1>4. Init => Store!Init
  BY InitImplements
<1> QED BY <1>1, <1>2, <1>3, <1>4, PTL DEF Spec, Store!Spec, ImplementsStore

-----------------------------------------------------------------------------
(* What a user is told. *)

\* What is assumed of users besides Orderly: a string with a COMMIT writes nothing.  ExecuteSql commits
\* once more what it has begun itself, fails and reports an error, although the rows are committed.
Commits(sql) == \E i \in DOMAIN sql : sql[i].do = "commit"
Reads(sql)   == \A i \in DOMAIN sql : sql[i].do # "write"
Unmixed      == \A sql \in Strings : Commits(sql) => Reads(sql)

OwnCall   == Busy(Prompt) /\ at[Prompt].own
NoRows(x) == \A k \in Key : rows[k].by # x

\* Nothing of the transaction that ExecuteSql has begun is committed before the string has ended; as long
\* as it can commit, every statement has succeeded; and where a COMMIT is still to come nothing is written.
Answers ==
    /\ \A k \in Key : rows[k].v \in DOMAIN txns \cup {NoTxn}
    /\ OwnCall => \A k \in Key : rows[k].v # at[Prompt].txn
    /\ OwnCall /\ at[Prompt].do = "running" =>
          /\ txns[at[Prompt].txn].state = "RUNNING" => at[Prompt].ok
          /\ Commits(at[Prompt].todo) => Reads(at[Prompt].todo) /\ NoRows(at[Prompt].txn)

\* A step changes no other transaction than x, and no rows but for x.
Touches(x) ==
    /\ DOMAIN txns \subseteq DOMAIN txns'
    /\ \A y \in DOMAIN txns : y # x => txns'[y].state = txns[y].state
    /\ \A k \in Key : /\ rows'[k].v = rows[k].v \/ rows'[k].v = x
                      /\ rows'[k].by \in {rows[k].by, x, NoTxn}

LEMMA KeptTouches ==
    ASSUME UNCHANGED <<txns, rows>>, NEW x
    PROVE  Touches(x)
  BY DEF Touches

LEMMA BegunTouches ==
    ASSUME Typed, New \in Txn, NEW level \in Level, txns' = Begun(level), UNCHANGED rows, NEW x
    PROVE  Touches(x)
<1>1. /\ \A y \in DOMAIN txns : txns'[y] = txns[y]
      /\ DOMAIN txns' = DOMAIN txns \cup {New}
  BY ActiveBegun
<1> QED BY <1>1 DEF Touches

LEMMA ChangedTouches ==
    ASSUME NEW x \in DOMAIN txns, NEW r, txns' = [txns EXCEPT ![x] = r], UNCHANGED rows
    PROVE  Touches(x)
  BY DEF Touches

LEMMA EndTouches ==
    ASSUME Typed, NEW x \in DOMAIN txns, Commit(x) \/ Abort(x)
    PROVE  /\ Touches(x) /\ x \in Txn /\ x # NoTxn
           /\ \A k \in Key : rows'[k].by # x
           /\ Abort(x) => txns'[x].state = "ABORTED" /\ \A k \in Key : rows'[k].v = rows[k].v
           /\ Publish(x) => /\ txns'[x].state = "COMMITTED"
                            /\ NoRows(x) => \A k \in Key : rows'[k].v = rows[k].v
<1>1. x \in Txn /\ x # NoTxn /\ txns[x] \in Transaction
  <2>1. DOMAIN txns = 1..Len(txns) /\ Len(txns) <= MaxTxns /\ Len(txns) \in Nat
    BY DEF Typed, TypeOK
  <2> QED BY <2>1, ElementOfSeq, SessionAssumption DEF Typed, TypeOK, Txn, NoTxn
<1>2. \A k \in Key : rows[k] \in [ts : Nat, v : Txn \cup {NoTxn}, by : Txn \cup {NoTxn}]
  BY DEF Typed, TypeOK
<1>3. ASSUME NEW state, Ended(x, state)
      PROVE  /\ DOMAIN txns' = DOMAIN txns /\ txns'[x].state = state
             /\ \A y \in DOMAIN txns : y # x => txns'[y].state = txns[y].state
  <2>1. txns' = [txns EXCEPT ![x] = [txns[x] EXCEPT !.state = state]]
    BY <1>3 DEF Ended
  <2>2. [txns[x] EXCEPT !.state = state].state = state
    BY <1>1 DEF Transaction
  <2> QED BY <2>1, <2>2
<1>4. CASE Abort(x)
  <2>1. \A k \in Key : /\ rows[k].by = x => rows'[k] = [rows[k] EXCEPT !.by = NoTxn]
                       /\ rows[k].by # x => rows'[k] = rows[k]
    BY <1>4 DEF Abort
  <2>2. \A k \in Key : /\ rows'[k].v = rows[k].v /\ rows'[k].by # x
                       /\ rows'[k].by \in {rows[k].by, NoTxn}
    BY <1>1, <1>2, <2>1
  <2>3. Ended(x, "ABORTED")
    BY <1>4 DEF Abort
  <2>4. DOMAIN txns' = DOMAIN txns /\ txns'[x].state = "ABORTED"
        /\ \A y \in DOMAIN txns : y # x => txns'[y].state = txns[y].state
    BY <1>3, <2>3
  <2>5. ~Publish(x)
    <3>1. Publish(x) => txns'[x].state = "COMMITTED"
      BY <1>3 DEF Publish
    <3> QED BY <2>4, <3>1
  <2> QED BY <1>1, <1>4, <2>2, <2>4, <2>5 DEF Touches
<1>5. CASE Publish(x)
  <2>1. \A k \in Key : /\ rows[k].by = x => rows'[k] = [ts |-> last_commit_ts + 1, v |-> x, by |-> NoTxn]
                       /\ rows[k].by # x => rows'[k] = rows[k]
    BY <1>5 DEF Publish
  <2>2. \A k \in Key : /\ rows'[k].by # x /\ rows'[k].by \in {rows[k].by, NoTxn}
                       /\ rows'[k].v = rows[k].v \/ rows'[k].v = x
                       /\ rows[k].by # x => rows'[k].v = rows[k].v
    BY <1>1, <1>2, <2>1
  <2>3. Ended(x, "COMMITTED")
    BY <1>5 DEF Publish
  <2>4. DOMAIN txns' = DOMAIN txns /\ txns'[x].state = "COMMITTED"
        /\ \A y \in DOMAIN txns : y # x => txns'[y].state = txns[y].state
    BY <1>3, <2>3
  <2>5. ~Abort(x)
    <3>1. Abort(x) => txns'[x].state = "ABORTED"
      BY <1>3 DEF Abort
    <3> QED BY <2>4, <3>1
  <2> QED BY <1>1, <1>5, <2>2, <2>4, <2>5 DEF Touches, NoRows
<1> QED BY <1>4, <1>5 DEF Commit
\* A step of a thread is about its transaction, and about what the thread does.
LEMMA ExecuteTouches ==
    ASSUME Typed, Owned, NEW t \in Thread, Execute(t), ~UNCHANGED <<txns, rows, at>>
    PROVE  /\ Busy(t) /\ at[t] \in Work /\ at[t].txn \in DOMAIN txns
           /\ Touches(at[t].txn)
           /\ \A u \in Thread : u # t => at'[u] = at[u]
<1> DEFINE x == at[t].txn
<1>1. Busy(t)
  BY DEF Execute, Busy, Conflict, ConflictAgain, WriteRow, Select, Bad, SetVariable, MismatchStops, OnTxn,
         Begin, BeginRefused, CommitTxn, AbortTxn, EndRefused, Leave, Switch, FinishOwn, Finish, Catch,
         Doing, Finished
<1>2. at[t] \in Work /\ x \in DOMAIN txns
  BY <1>1, Kinds, AtTransaction DEF Typed, Busy
<1>3. ~Stop
  BY DEF Stop, store
<1>4. \A u \in Thread : u # t => at'[u] = at[u]
  <2>1. \/ \E s : at' = [at EXCEPT ![t] = s]
        \/ Done(t) \/ Raise(t) \/ Return(t)
    BY <1>3 DEF Execute, Conflict, ConflictAgain, WriteRow, Select, Bad, SetVariable, MismatchStops,
                Begin, BeginRefused, CommitTxn, AbortTxn, EndRefused, Leave, Switch, FinishOwn, Finish, Catch,
                Done
  <2> QED BY <2>1 DEF Done, Raise, Return, Typed, TypeOK
<1>5. Touches(x)
  <2>1. CASE Conflict(t)
    <3>1. PICK r : r = [txns[x] EXCEPT !.state = "TAINTED"]
      OBVIOUS
    <3>2. txns' = [txns EXCEPT ![x] = r] /\ UNCHANGED rows
      BY <2>1, <3>1 DEF Conflict
    <3> QED BY <1>2, <3>2, ChangedTouches
  <2>2. CASE WriteRow(t)
    <3>1. PICK k : rows' = [rows EXCEPT ![k].by = x] /\ UNCHANGED txns
      BY <2>2 DEF WriteRow
    <3>2. \A j \in Key : rows[j] \in [ts : Nat, v : Txn \cup {NoTxn}, by : Txn \cup {NoTxn}]
      BY DEF Typed, TypeOK
    <3>3. \A j \in Key : rows'[j] = rows[j] \/ rows'[j] = [rows[j] EXCEPT !.by = x]
      BY <3>1 DEF Typed, TypeOK
    <3>4. \A j \in Key : rows'[j].v = rows[j].v /\ rows'[j].by \in {rows[j].by, x}
      BY <3>2, <3>3
    <3> QED BY <3>1, <3>4 DEF Touches
  <2>3. CASE Select(t)
    <3>1. PICK r : r = [txns[x] EXCEPT !.scanned = txns[x].level = "SERIALIZABLE"]
      OBVIOUS
    <3>2. txns' = [txns EXCEPT ![x] = r] /\ UNCHANGED rows
      BY <2>3, <3>1 DEF Select
    <3> QED BY <1>2, <3>2, ChangedTouches
  <2>4. CASE Begin(t)
    <3>1. LevelOf(setting) \in Level /\ New \in Txn /\ txns' = Begun(LevelOf(setting)) /\ UNCHANGED rows
      BY <2>4 DEF Begin, LevelOf, Level
    <3> QED BY <3>1, BegunTouches
  <2>5. CASE CommitTxn(t) \/ AbortTxn(t)
    BY <1>2, <2>5, EndTouches DEF CommitTxn, AbortTxn
  <2>6. CASE FinishOwn(t) \/ Finish(t) \/ Catch(t)
    <3>1. Commit(x) \/ Abort(x) \/ UNCHANGED store
      BY <2>6 DEF FinishOwn, Finish, Catch
    <3> QED BY <1>2, <3>1, EndTouches, KeptTouches DEF store
  <2>7. CASE Bad(t) \/ SetVariable(t) \/ BeginRefused(t) \/ EndRefused(t) \/ Leave(t) \/ Switch(t)
    BY <1>3, <2>7, KeptTouches DEF Bad, SetVariable, BeginRefused, EndRefused, Leave, Switch, store
  <2>8. ~ConflictAgain(t) /\ ~MismatchStops(t)
    BY <1>3 DEF ConflictAgain, MismatchStops
  <2> QED BY <2>1, <2>2, <2>3, <2>4, <2>5, <2>6, <2>7, <2>8 DEF Execute
<1> QED BY <1>1, <1>2, <1>4, <1>5

\* What the others do leaves the answer to the prompt's string as it is.
LEMMA OthersAnswer ==
    ASSUME Typed, Answers, NEW x, Touches(x), x \in DOMAIN txns' \cup {NoTxn},
           OwnCall => x # at[Prompt].txn, at'[Prompt] = at[Prompt]
    PROVE  Answers'
<1> DEFINE p == at[Prompt].txn
<1>0. Prompt \in Thread
  BY DEF Thread
<1>1. OwnCall' <=> OwnCall
  BY DEF OwnCall, Busy
<1>2. \A k \in Key : rows'[k].v \in DOMAIN txns' \cup {NoTxn}
  BY DEF Touches, Answers
<1>3. OwnCall => p \in DOMAIN txns /\ txns'[p].state = txns[p].state /\ p # NoTxn
  BY <1>0, AtTransaction DEF OwnCall, Busy, Touches, Typed, TypeOK, NoTxn
<1>4. OwnCall => \A k \in Key : rows[k].v # p => rows'[k].v # p
  BY DEF Touches
<1>5. OwnCall => \A k \in Key : rows[k].by # p => rows'[k].by # p
  BY <1>3 DEF Touches
<1>6. OwnCall /\ NoRows(p) => NoRows(p)'
  BY <1>1, <1>5 DEF NoRows
<1> QED BY <1>1, <1>2, <1>3, <1>4, <1>6 DEF Answers

\* A step of the prompt within a string.
LEMMA AnswersGo ==
    ASSUME Typed, Answers, NEW s, at'[Prompt] = s, Touches(at[Prompt].txn), Busy(Prompt),
           s.do \in {"running", "raised"}, s.txn = at[Prompt].txn, s.own = at[Prompt].own,
           OwnCall => \A k \in Key : rows'[k].v # s.txn,
           OwnCall /\ s.do = "running" =>
              /\ txns'[s.txn].state = "RUNNING" => s.ok
              /\ Commits(s.todo) => Reads(s.todo) /\ \A k \in Key : rows'[k].by # s.txn
    PROVE  Answers'
<1>1. OwnCall' <=> OwnCall
  BY DEF OwnCall, Busy
<1>2. \A k \in Key : rows'[k].v \in DOMAIN txns' \cup {NoTxn}
  <2>1. at[Prompt].txn \in DOMAIN txns
    BY AtTransaction DEF Busy, Thread
  <2> QED BY <2>1 DEF Touches, Answers
<1>3. (\A k \in Key : rows'[k].by # s.txn) => NoRows(at[Prompt].txn)'
  BY DEF NoRows
<1> QED BY <1>1, <1>2, <1>3 DEF Answers

LEMMA MixedTail ==
    ASSUME NEW sql \in Seq(Statement), sql # <<>>, Commits(sql) => Reads(sql)
    PROVE  /\ Commits(Tail(sql)) => Commits(sql) /\ Reads(Tail(sql))
           /\ Head(sql).do = "commit" => Commits(sql)
           /\ Head(sql).do = "write" => ~Reads(sql)
<1>1. /\ Head(sql) = sql[1] /\ 1 \in DOMAIN sql
      /\ \A i \in DOMAIN Tail(sql) : Tail(sql)[i] = sql[i + 1] /\ i + 1 \in DOMAIN sql
  BY HeadTailProperties
<1> QED BY <1>1 DEF Commits, Reads

LEMMA DoneAnswer ==
    ASSUME Typed, Answers, at[Prompt].do = "running", at[Prompt].todo # <<>>, Done(Prompt),
           Touches(at[Prompt].txn),
           OwnCall => /\ \A k \in Key : rows'[k].v # at[Prompt].txn
                      /\ txns'[at[Prompt].txn].state = "RUNNING" => txns[at[Prompt].txn].state = "RUNNING"
                      /\ Commits(at[Prompt].todo) => \A k \in Key : rows'[k].by # at[Prompt].txn
    PROVE  Answers'
<1>1. Prompt \in Thread /\ at[Prompt] \in Work /\ Busy(Prompt)
  BY Kinds DEF Typed, Busy, Thread
<1>2. PICK s : s = [at[Prompt] EXCEPT !.todo = Tail(at[Prompt].todo)]
  OBVIOUS
<1>3. at'[Prompt] = s
  BY <1>1, <1>2 DEF Done, Typed, TypeOK
<1>4. /\ s.do = "running" /\ s.txn = at[Prompt].txn /\ s.own = at[Prompt].own /\ s.ok = at[Prompt].ok
      /\ s.todo = Tail(at[Prompt].todo) /\ at[Prompt].todo \in Seq(Statement)
  BY <1>1, <1>2 DEF Work
<1>5. OwnCall => (Commits(at[Prompt].todo) => Reads(at[Prompt].todo))
                 /\ (txns[at[Prompt].txn].state = "RUNNING" => at[Prompt].ok)
  BY DEF Answers
<1>6. OwnCall => (Commits(s.todo) => Commits(at[Prompt].todo) /\ Reads(s.todo))
  BY <1>4, <1>5, MixedTail
<1> QED BY <1>1, <1>3, <1>4, <1>5, <1>6, AnswersGo

LEMMA RaiseAnswer ==
    ASSUME Typed, Answers, at[Prompt].do = "running", Raise(Prompt), Touches(at[Prompt].txn),
           OwnCall => \A k \in Key : rows'[k].v # at[Prompt].txn
    PROVE  Answers'
<1>1. Prompt \in Thread /\ at[Prompt] \in Work /\ Busy(Prompt)
  BY Kinds DEF Typed, Busy, Thread
<1>2. PICK s : s = [at[Prompt] EXCEPT !.do = "raised"]
  OBVIOUS
<1>3. at'[Prompt] = s
  BY <1>1, <1>2 DEF Raise, Typed, TypeOK
<1>4. s.do = "raised" /\ s.txn = at[Prompt].txn /\ s.own = at[Prompt].own
  BY <1>1, <1>2 DEF Work
<1> QED BY <1>1, <1>3, <1>4, AnswersGo

\* A string has ended: nothing more is owed.
LEMMA IdleAnswer ==
    ASSUME Typed, Answers, Busy(Prompt), at'[Prompt] = Idle, Touches(at[Prompt].txn)
    PROVE  Answers'
<1>1. at[Prompt].txn \in DOMAIN txns
  BY AtTransaction DEF Busy, Thread
<1>2. ~OwnCall'
  BY DEF OwnCall, Busy, Idle
<1> QED BY <1>1, <1>2 DEF Answers, Touches

\* The statements that neither write nor end a transaction.
LEMMA StatementAnswer ==
    ASSUME Typed, Answers, Touches(at[Prompt].txn),
           \/ Conflict(Prompt) \/ WriteRow(Prompt) \/ Select(Prompt) \/ Bad(Prompt) \/ SetVariable(Prompt)
           \/ Begin(Prompt) \/ BeginRefused(Prompt) \/ EndRefused(Prompt) \/ Switch(Prompt)
           \/ Leave(Prompt) /\ ~Stop
    PROVE  Answers'
<1> DEFINE x == at[Prompt].txn
<1>1. /\ Prompt \in Thread /\ at[Prompt] \in Work /\ Busy(Prompt) /\ at[Prompt].do = "running"
      /\ at[Prompt].todo # <<>> /\ at[Prompt].todo \in Seq(Statement)
  <2>1. at[Prompt].do = "running" /\ at[Prompt].todo # <<>>
    BY DEF Conflict, WriteRow, Select, Bad, SetVariable, Begin, BeginRefused, EndRefused, Switch, Leave, Doing
  <2> QED BY <2>1, Kinds DEF Typed, Busy, Thread, Work
<1>2. x \in DOMAIN txns /\ txns[x] \in Transaction
  BY <1>1, AtTransaction DEF Busy
<1>3. \A k \in Key : rows'[k].v = rows[k].v
  <2>1. CASE WriteRow(Prompt)
    <3>1. PICK k : rows' = [rows EXCEPT ![k].by = x]
      BY <2>1 DEF WriteRow
    <3>2. \A j \in Key : rows[j] \in [ts : Nat, v : Txn \cup {NoTxn}, by : Txn \cup {NoTxn}]
      BY DEF Typed, TypeOK
    <3>3. \A j \in Key : rows'[j] = rows[j] \/ rows'[j] = [rows[j] EXCEPT !.by = x]
      BY <3>1 DEF Typed, TypeOK
    <3> QED BY <3>2, <3>3
  <2>2. CASE ~WriteRow(Prompt)
    <3>1. UNCHANGED rows
      BY <2>2 DEF Conflict, Select, Bad, SetVariable, Begin, BeginRefused, EndRefused, Switch, Leave, store
    <3> QED BY <3>1
  <2> QED BY <2>1, <2>2
<1>4. OwnCall => \A k \in Key : rows'[k].v # x
  BY <1>3 DEF Answers
<1>5. txns'[x].state = "RUNNING" => txns[x].state = "RUNNING" /\ ~Conflict(Prompt)
  <2>1. CASE Conflict(Prompt)
    <3>1. txns'[x] = [txns[x] EXCEPT !.state = "TAINTED"]
      BY <1>2, <2>1 DEF Conflict
    <3>2. txns'[x].state = "TAINTED"
      BY <1>2, <3>1 DEF Transaction
    <3> QED BY <3>2
  <2>2. CASE Select(Prompt)
    <3>1. txns'[x] = [txns[x] EXCEPT !.scanned = txns[x].level = "SERIALIZABLE"]
      BY <1>2, <2>2 DEF Select
    <3>2. txns'[x].state = txns[x].state
      BY <1>2, <3>1 DEF Transaction
    <3>3. CASE ~Conflict(Prompt)
      BY <3>2, <3>3
    <3> QED BY <2>1, <3>3
  <2>3. CASE Begin(Prompt)
    <3>1. LevelOf(setting) \in Level /\ New \in Txn /\ txns' = Begun(LevelOf(setting))
      BY <2>3 DEF Begin, LevelOf, Level
    <3>2. txns'[x] = txns[x]
      BY <1>2, <3>1, ActiveBegun
    <3>3. CASE ~Conflict(Prompt)
      BY <3>2, <3>3
    <3> QED BY <2>1, <3>3
  <2>4. CASE ~Conflict(Prompt) /\ ~Select(Prompt) /\ ~Begin(Prompt)
    <3>1. UNCHANGED txns
      BY <2>4 DEF WriteRow, Bad, SetVariable, BeginRefused, EndRefused, Switch, Leave, store
    <3> QED BY <2>4, <3>1
  <2> QED BY <2>1, <2>2, <2>3, <2>4
<1>6. OwnCall => /\ Commits(at[Prompt].todo) => Reads(at[Prompt].todo) /\ NoRows(x)
                 /\ txns[x].state = "RUNNING" => at[Prompt].ok
  BY <1>1 DEF Answers
<1>7. OwnCall /\ Commits(at[Prompt].todo) => \A k \in Key : rows'[k].by # x
  <2>1. CASE WriteRow(Prompt)
    <3>1. Head(at[Prompt].todo).do = "write"
      BY <2>1 DEF WriteRow, Doing
    <3>2. OwnCall => ~Commits(at[Prompt].todo)
      BY <1>1, <1>6, <3>1, MixedTail
    <3> QED BY <3>2
  <2>2. CASE ~WriteRow(Prompt)
    <3>1. UNCHANGED rows
      BY <2>2 DEF Conflict, Select, Bad, SetVariable, Begin, BeginRefused, EndRefused, Switch, Leave, store
    <3> QED BY <1>6, <3>1 DEF NoRows
  <2> QED BY <2>1, <2>2
<1>8. CASE Done(Prompt)
  BY <1>1, <1>4, <1>5, <1>7, <1>8, DoneAnswer
<1>9. CASE Raise(Prompt)
  BY <1>1, <1>4, <1>9, RaiseAnswer
<1>10. CASE Conflict(Prompt)
  <2>1. PICK s : s = [at[Prompt] EXCEPT !.todo = Tail(at[Prompt].todo), !.ok = FALSE]
    OBVIOUS
  <2>2. at'[Prompt] = s
    BY <1>1, <1>10, <2>1 DEF Conflict, Typed, TypeOK
  <2>3. /\ s.do = "running" /\ s.txn = x /\ s.own = at[Prompt].own /\ s.todo = Tail(at[Prompt].todo)
    BY <1>1, <2>1 DEF Work
  <2>4. OwnCall => (Commits(s.todo) => Commits(at[Prompt].todo) /\ Reads(s.todo))
    BY <1>1, <1>6, <2>3, MixedTail
  <2>5. txns'[x].state # "RUNNING"
    BY <1>5, <1>10
  <2> QED BY <1>1, <1>4, <1>7, <2>2, <2>3, <2>4, <2>5, AnswersGo
<1>11. CASE WriteRow(Prompt) /\ ~Done(Prompt)
  <2>1. PICK keys, rest : keys = Head(at[Prompt].todo).keys /\ rest = [at[Prompt].todo EXCEPT ![1].keys = Tail(keys)]
    OBVIOUS
  <2>2. PICK s : s = [at[Prompt] EXCEPT !.todo = rest]
    OBVIOUS
  <2>3. at' = [at EXCEPT ![Prompt] = s] /\ Tail(keys) # <<>>
    BY <1>11, <2>1, <2>2 DEF WriteRow
  <2>4. KeysLeft(at[Prompt].todo) /\ Head(at[Prompt].todo).do = "write"
    BY <1>1, <1>11 DEF Typed, WriteRow, Doing
  <2>5. rest \in Seq(Statement) /\ Len(rest) = Len(at[Prompt].todo)
        /\ \A i \in DOMAIN at[Prompt].todo : rest[i].do = at[Prompt].todo[i].do
    BY <1>1, <2>1, <2>3, <2>4, FirstRowDone
  <2>6. Commits(rest) => Commits(at[Prompt].todo)
    <3>1. DOMAIN rest = DOMAIN at[Prompt].todo
      BY <1>1, <2>5
    <3> QED BY <2>5, <3>1 DEF Commits
  <2>7. OwnCall => ~Commits(rest)
    BY <1>1, <1>6, <2>4, <2>6, MixedTail
  <2>8. at'[Prompt] = s
    BY <1>1, <2>3 DEF Typed, TypeOK
  <2>9. s.do = "running" /\ s.txn = x /\ s.own = at[Prompt].own /\ s.todo = rest /\ s.ok = at[Prompt].ok
    BY <1>1, <2>2 DEF Work
  <2> QED BY <1>1, <1>4, <1>5, <1>6, <2>7, <2>8, <2>9, AnswersGo
<1> QED BY <1>8, <1>9, <1>10, <1>11 DEF Select, Bad, SetVariable, Begin, BeginRefused, EndRefused, Switch, Leave

LEMMA EndAnswer ==
    ASSUME Typed, Answers, Touches(at[Prompt].txn), CommitTxn(Prompt) \/ AbortTxn(Prompt)
    PROVE  Answers'
<1> DEFINE x == at[Prompt].txn
<1>1. /\ Prompt \in Thread /\ at[Prompt] \in Work /\ at[Prompt].do = "running" /\ x \in DOMAIN txns
      /\ at[Prompt].todo # <<>> /\ at[Prompt].todo \in Seq(Statement) /\ Done(Prompt)
  <2>1. at[Prompt].do = "running" /\ at[Prompt].todo # <<>> /\ Done(Prompt)
    BY DEF CommitTxn, AbortTxn, Doing
  <2> QED BY <2>1, Kinds, AtTransaction DEF Typed, Thread, Work
<1>2. OwnCall /\ CommitTxn(Prompt) => NoRows(x)
  <2>1. CommitTxn(Prompt) => Head(at[Prompt].todo).do = "commit"
    BY DEF CommitTxn, Doing
  <2>2. OwnCall => (Commits(at[Prompt].todo) => Reads(at[Prompt].todo) /\ NoRows(x))
    BY <1>1 DEF Answers
  <2>3. Commits(at[Prompt].todo) <=> \E i \in DOMAIN at[Prompt].todo : at[Prompt].todo[i].do = "commit"
    BY DEF Commits
  <2>4. CommitTxn(Prompt) => Commits(at[Prompt].todo)
    <3>1. 1 \in DOMAIN at[Prompt].todo /\ Head(at[Prompt].todo) = at[Prompt].todo[1]
      BY <1>1, HeadTailProperties
    <3> QED BY <2>1, <2>3, <3>1
  <2> QED BY <2>2, <2>4
<1>3. /\ \A k \in Key : rows'[k].by # x
      /\ Abort(x) => txns'[x].state = "ABORTED" /\ \A k \in Key : rows'[k].v = rows[k].v
      /\ Publish(x) => txns'[x].state = "COMMITTED" /\ (NoRows(x) => \A k \in Key : rows'[k].v = rows[k].v)
  BY <1>1, EndTouches DEF CommitTxn, AbortTxn
<1>4. Abort(x) \/ (Publish(x) /\ CommitTxn(Prompt))
  BY DEF CommitTxn, AbortTxn, Commit
<1>5. txns'[x].state # "RUNNING" /\ (OwnCall => \A k \in Key : rows'[k].v # x)
  <2>1. OwnCall => \A k \in Key : rows[k].v # x
    BY DEF Answers
  <2> QED BY <1>2, <1>3, <1>4, <2>1
<1> QED BY <1>1, <1>3, <1>5, DoneAnswer

LEMMA EndOfStringAnswer ==
    ASSUME Typed, Answers, Touches(at[Prompt].txn), FinishOwn(Prompt) \/ Finish(Prompt) \/ Catch(Prompt)
    PROVE  Answers'
<1> DEFINE x == at[Prompt].txn
<1>1. Prompt \in Thread /\ Busy(Prompt) /\ x \in DOMAIN txns
  <2>1. at[Prompt].do \in {"running", "raised"}
    BY DEF FinishOwn, Finish, Catch, Finished
  <2> QED BY <2>1, AtTransaction DEF Busy, Thread
<1>2. CASE Raise(Prompt) /\ FinishOwn(Prompt)
  <2>1. Abort(x) \/ UNCHANGED store \/ (Commit(x) /\ txns[x].state = "RUNNING")
    BY <1>2 DEF FinishOwn
  <2>2. CASE Abort(x) \/ UNCHANGED store
    <3>1. \A k \in Key : rows'[k].v = rows[k].v
      BY <1>1, <2>2, EndTouches DEF store
    <3>2. at[Prompt].do = "running"
      BY <1>2 DEF FinishOwn, Finished
    <3> QED BY <1>2, <3>1, <3>2, RaiseAnswer DEF Answers
  <2>3. CASE Commit(x) /\ txns[x].state = "RUNNING" /\ ~Abort(x)
    <3>1. Verified(x)
      BY <2>3 DEF Commit
    <3>2. at' = [at EXCEPT ![Prompt] = Idle]
      BY <1>2, <2>3, <3>1 DEF FinishOwn
    <3>3. at'[Prompt] = Idle
      BY <1>1, <3>2 DEF Typed, TypeOK
    <3> QED BY <1>1, <3>3, IdleAnswer
  <2> QED BY <2>1, <2>2, <2>3
<1>3. CASE ~(Raise(Prompt) /\ FinishOwn(Prompt))
  <2>1. at' = [at EXCEPT ![Prompt] = Idle]
    BY <1>3 DEF FinishOwn, Finish, Catch, Return
  <2>2. at'[Prompt] = Idle
    BY <1>1, <2>1 DEF Typed, TypeOK
  <2> QED BY <1>1, <2>2, IdleAnswer
<1> QED BY <1>2, <1>3

\* A string begins: its transaction has done nothing yet.
LEMMA ExecuteSqlAnswer ==
    ASSUME Unmixed, Typed, Owned, Versioned, Answers, ExecuteSql
    PROVE  Answers'
<1> PICK sql \in Strings :
        IF current_txn # NoTxn
        THEN /\ at' = [at EXCEPT ![Prompt] = Running(current_txn, FALSE, sql)]
             /\ UNCHANGED txns
        ELSE /\ New \in Txn
             /\ txns' = Begun("SNAPSHOT_ISOLATION")
             /\ at' = [at EXCEPT ![Prompt] = Running(New, TRUE, sql)]
  BY DEF ExecuteSql
<1>1. Prompt \in Thread /\ UNCHANGED rows /\ (Commits(sql) => Reads(sql))
  BY DEF ExecuteSql, Thread, Unmixed
<1>2. CASE current_txn # NoTxn
  <2>1. at'[Prompt] = Running(current_txn, FALSE, sql) /\ UNCHANGED txns
    BY <1>1, <1>2 DEF Typed, TypeOK
  <2>2. ~OwnCall'
    BY <2>1 DEF OwnCall, Running
  <2> QED BY <1>1, <2>1, <2>2 DEF Answers
<1>3. CASE current_txn = NoTxn
  <2>1. New \notin DOMAIN txns /\ DOMAIN txns' = DOMAIN txns \cup {New} /\ New # NoTxn
    BY <1>3, ActiveBegun DEF Level
  <2>2. PICK s : s = Running(New, TRUE, sql)
    OBVIOUS
  <2>3. s.do = "running" /\ s.txn = New /\ s.ok = TRUE /\ s.todo = sql
    BY <2>2 DEF Running
  <2>4. at'[Prompt] = s
    BY <1>1, <1>3, <2>2 DEF Typed, TypeOK
  <2>5. \A k \in Key : rows[k].v # New /\ rows[k].by # New
    BY <2>1 DEF Answers, Versioned, Active
  <2>6. \A k \in Key : rows'[k].v \in DOMAIN txns' \cup {NoTxn} /\ rows'[k].v # New
    BY <1>1, <2>1, <2>5 DEF Answers
  <2>7. \A k \in Key : rows'[k].by # s.txn
    BY <1>1, <2>3, <2>5
  <2>8. NoRows(at[Prompt].txn)'
    BY <2>4, <2>7 DEF NoRows
  <2> HIDE DEF New
  <2> QED BY <1>1, <2>3, <2>4, <2>6, <2>8 DEF Answers
<1> QED BY <1>2, <1>3

LEMMA ClientAnswer ==
    ASSUME Typed, Owned, Answers, NEW c \in Client, Connect(c) \/ CloseEnded(c) \/ Query(c) \/ Disconnect(c)
    PROVE  Answers' /\ at'[Prompt] = at[Prompt]
<1>1. c \in Thread /\ Prompt \in Thread /\ c # Prompt
  BY SessionAssumption DEF Thread
<1>2. at'[Prompt] = at[Prompt]
  BY <1>1 DEF Connect, CloseEnded, Query, Disconnect, Typed, TypeOK
<1>3. CASE Connect(c)
  <2>1. New \in Txn /\ mode.level \in Level /\ txns' = Begun(mode.level) /\ UNCHANGED rows
    BY <1>3 DEF Connect, Typed, TypeOK
  <2>2. Touches(NoTxn)
    BY <2>1, BegunTouches
  <2>3. OwnCall => NoTxn # at[Prompt].txn
    BY <1>1, AtTransaction DEF OwnCall, Busy, Typed, TypeOK, NoTxn
  <2> QED BY <1>2, <2>2, <2>3, OthersAnswer
<1>4. CASE CloseEnded(c) \/ Query(c)
  <2>1. Touches(NoTxn)
    BY <1>4, KeptTouches DEF CloseEnded, Query, store
  <2>2. OwnCall => NoTxn # at[Prompt].txn
    BY <1>1, AtTransaction DEF OwnCall, Busy, Typed, TypeOK, NoTxn
  <2> QED BY <1>2, <2>1, <2>2, OthersAnswer
<1>5. CASE Disconnect(c)
  <2>1. at[c].do = "connected" /\ Abort(at[c].txn)
    BY <1>5 DEF Disconnect
  <2>2. at[c].txn \in DOMAIN txns
    BY <1>1, <2>1, AtTransaction
  <2>3. Touches(at[c].txn)
    BY <2>1, <2>2, EndTouches
  <2>4. OwnCall => at[c].txn # at[Prompt].txn
    BY <1>1, <2>1 DEF OwnCall, Busy, Owned, InTxn
  <2>5. at[c].txn \in DOMAIN txns'
    BY <2>2, <2>3 DEF Touches
  <2> QED BY <1>2, <2>3, <2>4, <2>5, OthersAnswer
<1> QED BY <1>2, <1>3, <1>4, <1>5

LEMMA ThreadAnswer ==
    ASSUME Typed, Owned, Answers, NEW t \in Thread, t # Prompt, Execute(t)
    PROVE  Answers' /\ at'[Prompt] = at[Prompt]
<1>0. Prompt \in Thread
  BY DEF Thread
<1>1. CASE UNCHANGED <<txns, rows, at>>
  BY <1>1 DEF Answers, OwnCall, Busy, NoRows
<1>2. CASE ~UNCHANGED <<txns, rows, at>>
  <2>1. /\ Busy(t) /\ at[t].txn \in DOMAIN txns /\ Touches(at[t].txn)
        /\ at'[Prompt] = at[Prompt]
    BY <1>0, <1>2, ExecuteTouches
  <2>2. OwnCall => at[t].txn # at[Prompt].txn
    BY <1>0, <2>1 DEF OwnCall, Busy, Owned, InTxn
  <2>3. at[t].txn \in DOMAIN txns'
    BY <2>1 DEF Touches
  <2> QED BY <2>1, <2>2, <2>3, OthersAnswer
<1> QED BY <1>1, <1>2

LEMMA AnswersStep ==
    ASSUME Unmixed, Typed, Owned, Versioned, Answers, [Next]_vars
    PROVE  Answers'
<1>1. CASE UNCHANGED <<txns, rows, at>>
  BY <1>1 DEF Answers, OwnCall, Busy, NoRows
<1>2. ASSUME Execute(Prompt), ~UNCHANGED <<txns, rows, at>> PROVE Answers'
  <2>1. Touches(at[Prompt].txn)
    BY <1>2, ExecuteTouches DEF Thread
  <2>2. ~ConflictAgain(Prompt) /\ ~MismatchStops(Prompt) /\ ~(Leave(Prompt) /\ Stop)
    BY <1>2 DEF ConflictAgain, MismatchStops, Stop, store
  <2> QED BY <1>2, <2>1, <2>2, StatementAnswer, EndAnswer, EndOfStringAnswer DEF Execute
<1>3. ASSUME NEW t \in Thread, Execute(t) PROVE Answers'
  BY <1>1, <1>2, <1>3, ThreadAnswer
<1> QED BY <1>1, <1>3, ExecuteSqlAnswer, ClientAnswer DEF Next, vars

LEMMA InitAnswers == ASSUME Init PROVE Answers
<1>1. at[Prompt].do = "idle"
  BY DEF Init, Idle, Thread
<1> QED BY <1>1 DEF Init, Answers, OwnCall, Busy

\* Only the end of a string makes the prompt idle.
LEMMA ToldAtEnd ==
    ASSUME Typed, OwnCall, Execute(Prompt), at'[Prompt] = Idle
    PROVE  FinishOwn(Prompt) \/ Catch(Prompt)
<1>1. Prompt \in Thread /\ at[Prompt] \in Work /\ at[Prompt].do # "idle"
  BY Kinds DEF Typed, OwnCall, Busy, Thread
<1>2. at'[Prompt].do = "idle"
  BY DEF Idle
<1>3. ~Done(Prompt) /\ ~Raise(Prompt) /\ ~Stop
  <2>1. Done(Prompt) => at'[Prompt].do = at[Prompt].do
    BY <1>1 DEF Done, Typed, TypeOK, Work
  <2>2. Raise(Prompt) => at'[Prompt].do = "raised"
    BY <1>1 DEF Raise, Typed, TypeOK, Work
  <2>3. Stop => at'[Prompt] = at[Prompt]
    BY DEF Stop
  <2> QED BY <1>1, <1>2, <2>1, <2>2, <2>3
<1>4. ~Conflict(Prompt)
  <2>1. ASSUME Conflict(Prompt) PROVE at'[Prompt] = [at[Prompt] EXCEPT !.todo = Tail(@), !.ok = FALSE]
    BY <1>1, <2>1 DEF Conflict, Typed, TypeOK
  <2> QED BY <1>1, <1>2, <2>1 DEF Work
<1>5. ~WriteRow(Prompt)
  <2>1. ASSUME WriteRow(Prompt)
        PROVE  \E rest : at'[Prompt] = [at[Prompt] EXCEPT !.todo = rest]
    <3>1. at' = [at EXCEPT ![Prompt].todo[1].keys = Tail(Head(at[Prompt].todo).keys)]
      BY <1>3, <2>1 DEF WriteRow
    <3> QED BY <1>1, <3>1 DEF Typed, TypeOK
  <2> QED BY <1>1, <1>2, <2>1 DEF Work
<1>6. ~Finish(Prompt)
  BY DEF Finish, OwnCall
<1> QED BY <1>3, <1>4, <1>5, <1>6 DEF Execute, ConflictAgain, Select, Bad, SetVariable, MismatchStops, Begin,
           BeginRefused, CommitTxn, AbortTxn, EndRefused, Leave, Switch

\* The action of AnswerTells.
Told ==
    at[Prompt].do \in {"running", "raised"} /\ at[Prompt].own /\ at'[Prompt] = Idle =>
        LET x == at[Prompt].txn IN
        /\ at[Prompt].do = "running" => at[Prompt].ok /\ txns'[x].state = "COMMITTED"
        /\ at[Prompt].do = "raised" => \A k \in Key : rows'[k].v # x
        /\ txns'[x].state \in {"COMMITTED", "ABORTED"}
        /\ \A k \in Key : rows'[k].by # x

LEMMA AnswerStep ==
    ASSUME Typed, Owned, Versioned, Answers, [Next]_vars
    PROVE  Told
<1> SUFFICES ASSUME OwnCall, at'[Prompt] = Idle,
                    NEW x, x = at[Prompt].txn
             PROVE  /\ at[Prompt].do = "running" => at[Prompt].ok /\ txns'[x].state = "COMMITTED"
                    /\ at[Prompt].do = "raised" => \A k \in Key : rows'[k].v # x
                    /\ txns'[x].state \in {"COMMITTED", "ABORTED"}
                    /\ \A k \in Key : rows'[k].by # x
  BY DEF Told, OwnCall, Busy
<1>1. Prompt \in Thread /\ x \in DOMAIN txns /\ txns[x] \in Transaction /\ x # NoTxn
  <2>1. Prompt \in Thread /\ x \in DOMAIN txns /\ txns[x] \in Transaction
    BY AtTransaction DEF OwnCall, Busy, Thread
  <2> QED BY <2>1 DEF Typed, TypeOK, NoTxn
<1>2. at'[Prompt] # at[Prompt]
  BY DEF OwnCall, Busy, Idle
<1>3. FinishOwn(Prompt) \/ Catch(Prompt)
  <2>1. ~UNCHANGED vars
    BY <1>2 DEF vars
  <2>2. ~ExecuteSql
    BY DEF ExecuteSql, OwnCall, Busy
  <2>3. \A c \in Client : ~(Connect(c) \/ CloseEnded(c) \/ Query(c) \/ Disconnect(c))
    BY <1>2, ClientAnswer
  <2>4. \A t \in Thread : t # Prompt => ~Execute(t)
    BY <1>2, ThreadAnswer
  <2>5. Execute(Prompt)
    BY <2>1, <2>2, <2>3, <2>4 DEF Next
  <2> QED BY <2>5, ToldAtEnd
<1>4. CASE FinishOwn(Prompt)
  <2>1. at[Prompt].do = "running" /\ at[Prompt] \in Work
    BY <1>1, <1>4, Kinds DEF FinishOwn, Finished, Typed
  <2>2. ~Raise(Prompt)
    <3>1. Raise(Prompt) => at'[Prompt].do = "raised"
      BY <1>1, <2>1 DEF Raise, Typed, TypeOK, Work
    <3> QED BY <3>1 DEF Idle
  <2>3. txns[x].state = "RUNNING" /\ Publish(x)
    BY <1>4, <2>2 DEF FinishOwn, Commit
  <2>4. at[Prompt].ok
    BY <2>1, <2>3 DEF Answers
  <2>5. Commit(x) \/ Abort(x)
    BY <1>4, <2>3 DEF FinishOwn
  <2>6. txns'[x].state = "COMMITTED" /\ \A k \in Key : rows'[k].by # x
    BY <1>1, <2>3, <2>5, EndTouches
  <2> QED BY <2>1, <2>4, <2>6
<1>5. CASE Catch(Prompt)
  <2>1. at[Prompt].do = "raised" /\ \A k \in Key : rows[k].v # x
    BY <1>5 DEF Catch, Answers
  <2>2. CASE Active(x)
    <3>1. Abort(x)
      BY <1>5, <2>2 DEF Catch
    <3> QED BY <1>1, <2>1, <3>1, EndTouches
  <2>3. CASE ~Active(x)
    <3>1. UNCHANGED <<txns, rows>>
      BY <1>5, <2>3 DEF Catch, store
    <3>2. txns[x].state \in {"COMMITTED", "ABORTED"}
      BY <1>1, <2>3 DEF Active, Transaction, State
    <3>3. \A k \in Key : rows[k].by # x
      BY <1>1, <2>3 DEF Versioned
    <3> QED BY <2>1, <3>1, <3>2, <3>3
  <2> QED BY <2>2, <2>3
<1> QED BY <1>3, <1>4, <1>5

\* AnswerTells, of orderly users whose strings do not mix a COMMIT with writes: what ExecuteSql
\* answers, after errors at any statement and whatever the clients do meanwhile, is what has happened.
THEOREM SessionAnswerTells == ASSUME Orderly, Unmixed PROVE Spec => AnswerTells
<1>1. Init => Typed /\ Owned /\ Versioned /\ Answers
  BY InitTyped, InitOwned, InitVersioned, InitAnswers
<1>2. Typed /\ Owned /\ Versioned /\ Answers /\ [Next]_vars => (Typed /\ Owned /\ Versioned /\ Answers)'
  BY TypedStep, OwnedStep, VersionedStep, AnswersStep
<1>3. Typed /\ Owned /\ Versioned /\ Answers /\ [Next]_vars => [Told]_vars
  BY AnswerStep
<1>4. ([][Told]_vars) => AnswerTells
  BY DEF Told, AnswerTells
<1> QED BY <1>1, <1>2, <1>3, <1>4, PTL DEF Spec
=============================================================================
