----------------------------- MODULE MvccProofs -----------------------------
(***************************************************************************)
(* What holds of Mvcc for every set of keys and values, every number of    *)
(* transactions and rows, and every workload: the types, the watermark,    *)
(* the order of the version chains, and that garbage collection erases no  *)
(* undo log that a transaction in progress may still follow.               *)
(***************************************************************************)
EXTENDS Mvcc, TLAPS, FiniteSetTheorems, SequenceTheorems, WellFoundedInduction

-----------------------------------------------------------------------------
(* The inductive invariant. *)

\* Ids are given out once, in order, and to a transaction that works.
IdsIssued == \A t \in DOMAIN txn_map : t < next_txn_id
BusyActive == \A t \in Txn : at[t] # Idle => Active(t)

\* A snapshot is not newer than the last commit.
SnapshotsPast == \A t \in DOMAIN txn_map : txn_map[t].read_ts <= last_commit_ts

\* Every commit and every transaction in progress took an id.
ActiveTxns == {t \in DOMAIN txn_map : Active(t)}
CommitsCounted == TxnStart + last_commit_ts + Cardinality(ActiveTxns) <= next_txn_id

\* The watermark counts the readers of each timestamp in use.
Readers(ts) == {t \in ActiveTxns : txn_map[t].read_ts = ts}

WatermarkCounts ==
    /\ running_txns.commit_ts = last_commit_ts
    /\ DOMAIN running_txns.reads = {txn_map[t].read_ts : t \in ActiveTxns}
    /\ \A ts \in DOMAIN running_txns.reads :
          running_txns.reads[ts] = Cardinality(Readers(ts))
    /\ DOMAIN running_txns.reads # {} =>
          running_txns.watermark = Least(DOMAIN running_txns.reads)

\* The rows a thread is about to touch exist.
StepRows(s) ==
    /\ s.do = "scan" => /\ \A i \in DOMAIN s.todo : s.todo[i] \in DOMAIN heap
                        /\ \A i \in DOMAIN s.rows : s.rows[i].rid \in DOMAIN heap
                        /\ s.got # <<>> => s.todo # <<>>
    /\ s.do = "modify" => \A i \in DOMAIN s.mods : s.mods[i].rid \in DOMAIN heap
    /\ s.do = "modify" /\ s.mods = <<>> => s.rows # <<>>
    /\ s.do \in {"append", "revive", "enter"} => s.rows # <<>>
    /\ s.do \in {"revive", "enter"} => s.rid \in DOMAIN heap
    /\ s.do \in {"verify", "stamp", "abort"} => s.todo \subseteq DOMAIN heap
    /\ s.do = "join" => index[s.key] # NoRid

RowsKnown ==
    /\ \A t \in Txn : StepRows(at[t])
    /\ \A t \in DOMAIN txn_map : txn_map[t].write_set \subseteq DOMAIN heap

\* A link names a log of a transaction that has begun; if garbage collection
\* erased the transaction, its id does not come back.
Known(link) ==
    link.txn # NoTxn =>
        /\ link.txn < next_txn_id
        /\ Exists(link) => link.idx \in DOMAIN txn_map[link.txn].undo_logs

LinksKnown ==
    /\ \A r \in Rid : Known(undo_link[r])
    /\ \A r \in Rid \ DOMAIN heap : undo_link[r] = InvalidLink
    /\ \A t \in DOMAIN txn_map : \A i \in DOMAIN txn_map[t].undo_logs :
          Known(txn_map[t].undo_logs[i].prev_version)

\* The first log of a row in progress is its writer's.
OwnLinks ==
    \A r \in DOMAIN heap : heap[r].ts \in Txn =>
        undo_link[r] = InvalidLink \/ undo_link[r].txn = heap[r].ts

WatermarkInv ==
    /\ IdsIssued
    /\ BusyActive
    /\ SnapshotsPast
    /\ CommitsCounted
    /\ WatermarkCounts

ChainInv == LinksKnown /\ OwnLinks /\ VersionsOrdered

IInv == TypeOK /\ WatermarkInv /\ RowsKnown /\ ChainInv

-----------------------------------------------------------------------------
(* Basic facts. *)

LEMMA TxnFacts ==
    /\ TxnStart \in Nat /\ MaxTxns \in Nat /\ NoTxn \notin Txn
    /\ IsFiniteSet(Txn)
    /\ \A t \in Txn : t \in Nat /\ t > TxnStart
  <1>1. IsFiniteSet(TxnStart + 1 .. TxnStart + MaxTxns)
    BY FS_Interval, BoundsAssumption
  <1> QED
    BY <1>1, BoundsAssumption DEF Txn, NoTxn

LEMMA ActiveIsTxn == ASSUME TypeOK PROVE ActiveTxns \subseteq Txn /\ IsFiniteSet(ActiveTxns)
  <1>1. ActiveTxns \subseteq Txn
    BY DEF TypeOK, ActiveTxns
  <1> QED
    BY <1>1, TxnFacts, FS_Subset

LEMMA TransactionFields ==
    ASSUME TypeOK, NEW t \in DOMAIN txn_map
    PROVE  /\ t \in Txn
           /\ txn_map[t] \in Transaction
           /\ txn_map[t].read_ts \in Nat
           /\ txn_map[t].undo_logs \in Seq(UndoLog)
           /\ txn_map[t].write_set \subseteq Rid
           /\ txn_map[t].scan_predicates \subseteq Predicate
  BY DEF TypeOK, Transaction

\* A thread at a step of its own is at work for an active transaction.
LEMMA AtWork ==
    ASSUME BusyActive, NEW t \in Txn, at[t].do # "idle"
    PROVE  at[t] # Idle /\ Active(t) /\ t \in DOMAIN txn_map
  BY DEF BusyActive, Idle, Active

LEMMA GotoMoves ==
    ASSUME TypeOK, NEW t \in Txn, NEW next, Goto(t, next)
    PROVE  /\ DOMAIN at' = Txn
           /\ at'[t] = next
           /\ \A u \in Txn : u # t => at'[u] = at[u]
           /\ next \in Step => at' \in [Txn -> Step]
  BY DEF Goto, TypeOK

-----------------------------------------------------------------------------
(* The initial states. *)

LEMMA InitWatermark ==
    ASSUME Init
    PROVE  IdsIssued /\ BusyActive /\ SnapshotsPast /\ CommitsCounted /\ WatermarkCounts
  <1>1. DOMAIN txn_map = {} /\ ActiveTxns = {}
    BY DEF Init, ActiveTxns
  <1>2. Cardinality(ActiveTxns) = 0
    BY <1>1, FS_EmptySet
  <1>3. DOMAIN running_txns.reads = {}
    BY DEF Init
  <1>4. IdsIssued /\ SnapshotsPast
    BY <1>1 DEF IdsIssued, SnapshotsPast
  <1>5. BusyActive
    BY DEF BusyActive, Init, Idle
  <1>6. CommitsCounted
    BY <1>2, TxnFacts DEF CommitsCounted, Init
  <1>7. WatermarkCounts
    BY <1>1, <1>3 DEF WatermarkCounts, Init
  <1> QED
    BY <1>4, <1>5, <1>6, <1>7

-----------------------------------------------------------------------------
(* Steps that neither begin nor end a transaction. *)

\* What those steps leave alone; only the thread of an active transaction moves.
Quiet ==
    /\ DOMAIN txn_map' = DOMAIN txn_map
    /\ \A u \in DOMAIN txn_map :
          (Active(u)' <=> Active(u)) /\ txn_map'[u].read_ts = txn_map[u].read_ts
    /\ \A u \in Txn : at'[u] # at[u] => Active(u)
    /\ UNCHANGED <<next_txn_id, last_commit_ts, running_txns>>

LEMMA QuietTxnMap ==
    ASSUME TypeOK, NEW t \in DOMAIN txn_map,
           \/ UNCHANGED txn_map
           \/ Active(t) /\ txn_map' = [txn_map EXCEPT ![t].state = "TAINTED"]
           \/ \E p : txn_map' = [txn_map EXCEPT ![t].scan_predicates = p]
           \/ \E w : txn_map' = [txn_map EXCEPT ![t].write_set = w]
           \/ \E l, w : txn_map' = [txn_map EXCEPT ![t].undo_logs = l, ![t].write_set = w]
    PROVE  /\ DOMAIN txn_map' = DOMAIN txn_map
           /\ \A u \in DOMAIN txn_map :
                 (Active(u)' <=> Active(u)) /\ txn_map'[u].read_ts = txn_map[u].read_ts
  <1>1. \A u \in DOMAIN txn_map : txn_map[u] \in Transaction
    BY DEF TypeOK
  <1>2. CASE UNCHANGED txn_map
    BY <1>2 DEF Active
  <1>3. CASE Active(t) /\ txn_map' = [txn_map EXCEPT ![t].state = "TAINTED"]
    BY <1>1, <1>3 DEF Active, Transaction
  <1>4. CASE \E p : txn_map' = [txn_map EXCEPT ![t].scan_predicates = p]
    <2>1. PICK p : txn_map' = [txn_map EXCEPT ![t].scan_predicates = p]
      BY <1>4
    <2>2. /\ DOMAIN txn_map' = DOMAIN txn_map
          /\ \A u \in DOMAIN txn_map :
                txn_map'[u].state = txn_map[u].state /\ txn_map'[u].read_ts = txn_map[u].read_ts
      BY <1>1, <2>1 DEF Transaction
    <2> QED
      BY <2>2 DEF Active
  <1>5. CASE \E w : txn_map' = [txn_map EXCEPT ![t].write_set = w]
    <2>1. PICK w : txn_map' = [txn_map EXCEPT ![t].write_set = w]
      BY <1>5
    <2>2. /\ DOMAIN txn_map' = DOMAIN txn_map
          /\ \A u \in DOMAIN txn_map :
                txn_map'[u].state = txn_map[u].state /\ txn_map'[u].read_ts = txn_map[u].read_ts
      BY <1>1, <2>1 DEF Transaction
    <2> QED
      BY <2>2 DEF Active
  <1>6. CASE \E l, w : txn_map' = [txn_map EXCEPT ![t].undo_logs = l, ![t].write_set = w]
    <2>1. PICK l, w : txn_map' = [txn_map EXCEPT ![t].undo_logs = l, ![t].write_set = w]
      BY <1>6
    <2>2. /\ DOMAIN txn_map' = DOMAIN txn_map
          /\ \A u \in DOMAIN txn_map :
                txn_map'[u].state = txn_map[u].state /\ txn_map'[u].read_ts = txn_map[u].read_ts
      BY <1>1, <2>1 DEF Transaction
    <2> QED
      BY <2>2 DEF Active
  <1> QED
    BY <1>2, <1>3, <1>4, <1>5, <1>6

LEMMA ModifyTupleQuiet ==
    ASSUME TypeOK, NEW t \in DOMAIN txn_map, Active(t), NEW r, NEW target, NEW dead, NEW next,
           ModifyTuple(t, r, target, dead, next)
    PROVE  /\ DOMAIN txn_map' = DOMAIN txn_map
           /\ \A u \in DOMAIN txn_map :
                 (Active(u)' <=> Active(u)) /\ txn_map'[u].read_ts = txn_map[u].read_ts
           /\ \E where : Goto(t, where)
  <1>1. CASE Conflicts(t, r, dead)
    <2>1. txn_map' = [txn_map EXCEPT ![t].state = "TAINTED"] /\ Goto(t, Idle)
      BY <1>1 DEF ModifyTuple, ThrowWriteConflict
    <2> QED
      BY <2>1, QuietTxnMap
  <1>2. CASE ~Conflicts(t, r, dead)
    <2> DEFINE w == txn_map[t].write_set \cup {r}
    <2>1. /\ txn_map' = [txn_map EXCEPT ![t].undo_logs = Logged(t, r, target).logs,
                                        ![t].write_set = @ \cup {r}]
          /\ Goto(t, next)
      BY <1>2 DEF ModifyTuple
    <2>2. txn_map' = [txn_map EXCEPT ![t].undo_logs = Logged(t, r, target).logs,
                                     ![t].write_set = w]
      BY <2>1, TransactionFields DEF Transaction
    <2> QED
      BY <2>1, <2>2, QuietTxnMap
  <1> QED
    BY <1>1, <1>2

LEMMA GotoQuiet ==
    ASSUME TypeOK, NEW t \in Txn, Active(t), NEW where, Goto(t, where),
           DOMAIN txn_map' = DOMAIN txn_map,
           \A u \in DOMAIN txn_map :
              (Active(u)' <=> Active(u)) /\ txn_map'[u].read_ts = txn_map[u].read_ts,
           UNCHANGED <<next_txn_id, last_commit_ts, running_txns>>
    PROVE  Quiet
  <1>1. \A u \in Txn : u # t => at'[u] = at[u]
    BY GotoMoves
  <1> QED
    BY <1>1 DEF Quiet

\* The same, for a step that writes no transaction.
LEMMA GotoStill ==
    ASSUME TypeOK, NEW t \in Txn, Active(t), NEW where, Goto(t, where),
           UNCHANGED <<txn_map, next_txn_id, last_commit_ts, running_txns>>
    PROVE  Quiet
  BY GotoQuiet, QuietTxnMap DEF Active

LEMMA RunsIsActive == ASSUME NEW t, Runs(t) PROVE Active(t) /\ t \in DOMAIN txn_map
  BY DEF Runs, Active

LEMMA StatementQuiet ==
    ASSUME TypeOK, BusyActive, NEW t \in Txn, Statement(t)
    PROVE  Quiet
  <1>1. CASE StartScan(t)
    <2>1. Active(t) /\ t \in DOMAIN txn_map
      BY <1>1, RunsIsActive DEF StartScan
    <2>2. PICK where : Goto(t, where)
      BY <1>1 DEF StartScan
    <2>3. \E p : txn_map' = [txn_map EXCEPT ![t].scan_predicates = p]
      <3>1. txn_map' = [txn_map EXCEPT ![t].scan_predicates =
                            @ \cup {Head(program[t].todo).where}]
        BY <1>1 DEF StartScan
      <3>2. txn_map' = [txn_map EXCEPT ![t].scan_predicates =
                            txn_map[t].scan_predicates \cup {Head(program[t].todo).where}]
        BY <3>1, <2>1, TransactionFields DEF Transaction
      <3> QED
        BY <3>2
    <2> QED
      BY <1>1, <2>1, <2>2, <2>3, GotoQuiet, QuietTxnMap DEF StartScan, Others
  <1>2. CASE Visit(t)
    <2>1. Active(t)
      BY <1>2, AtWork DEF Visit
    <2>2. \E where : Goto(t, where)
      BY <1>2 DEF Visit
    <2> QED
      BY <1>2, <2>1, <2>2, GotoStill DEF Visit, Others
  <1>3. CASE Collect(t)
    BY <1>3, AtWork, GotoStill DEF Collect, Others
  <1>4. CASE EndScan(t)
    <2>1. Active(t)
      BY <1>4, AtWork DEF EndScan, Drained
    <2>2. \E where : Goto(t, where)
      BY <1>4 DEF EndScan
    <2> QED
      BY <1>4, <2>1, <2>2, GotoStill DEF EndScan, Others
  <1>5. CASE StartInsert(t)
    BY <1>5, RunsIsActive, GotoStill DEF StartInsert, Others
  <1> QED
    BY <1>1, <1>2, <1>3, <1>4, <1>5 DEF Statement

LEMMA ConflictQuiet ==
    ASSUME TypeOK, NEW t \in Txn, Active(t), ThrowWriteConflict(t),
           UNCHANGED <<next_txn_id, last_commit_ts, running_txns>>
    PROVE  Quiet
  <1>1. t \in DOMAIN txn_map
    BY DEF Active
  <1> QED
    BY <1>1, GotoQuiet, QuietTxnMap DEF ThrowWriteConflict

LEMMA WriteQuiet ==
    ASSUME TypeOK, BusyActive, NEW t \in Txn, Write(t)
    PROVE  Quiet
  <1>1. CASE Modify(t)
    <2>1. Active(t) /\ t \in DOMAIN txn_map
      BY <1>1, AtWork DEF Modify
    <2>2. PICK r, target, next : ModifyTuple(t, r, target, FALSE, next)
      BY <1>1 DEF Modify
    <2> QED
      BY <1>1, <2>1, <2>2, ModifyTupleQuiet, GotoQuiet DEF Modify, Others
  <1>2. CASE LookUpKey(t)
    BY <1>2, AtWork, GotoStill DEF LookUpKey, Others
  <1>3. CASE Revive(t)
    <2>1. Active(t) /\ t \in DOMAIN txn_map
      BY <1>3, AtWork DEF Revive
    <2>2. PICK r, target, next : ModifyTuple(t, r, target, TRUE, next)
      BY <1>3 DEF Revive
    <2> QED
      BY <1>3, <2>1, <2>2, ModifyTupleQuiet, GotoQuiet DEF Revive, Others
  <1>4. CASE AppendRow(t)
    <2>1. Active(t) /\ t \in DOMAIN txn_map
      BY <1>4, AtWork DEF AppendRow
    <2>2. \E w : txn_map' = [txn_map EXCEPT ![t].write_set = w]
      <3>1. txn_map' = [txn_map EXCEPT ![t].write_set =
                            txn_map[t].write_set \cup {Len(heap) + 1}]
        BY <1>4, <2>1, TransactionFields DEF AppendRow, Transaction
      <3> QED
        BY <3>1
    <2> QED
      BY <1>4, <2>1, <2>2, GotoQuiet, QuietTxnMap DEF AppendRow, Others
  <1>5. CASE EnterKey(t)
    <2>1. Active(t) /\ t \in DOMAIN txn_map
      BY <1>5, AtWork DEF EnterKey
    <2>2. UNCHANGED <<next_txn_id, last_commit_ts, running_txns>>
      BY <1>5 DEF EnterKey, Others
    <2>3. CASE ThrowWriteConflict(t)
      BY <2>1, <2>2, <2>3, ConflictQuiet
    <2>4. CASE Goto(t, NextRow(t)) /\ UNCHANGED txn_map
      BY <2>1, <2>2, <2>4, GotoStill
    <2> QED
      BY <1>5, <2>3, <2>4 DEF EnterKey
  <1> QED
    BY <1>1, <1>2, <1>3, <1>4, <1>5 DEF Write

LEMMA JoinQuiet ==
    ASSUME TypeOK, BusyActive, NEW t \in Txn, Join(t)
    PROVE  Quiet
  <1>1. CASE \E k \in Joining : StartJoin(t, k)
    BY <1>1, RunsIsActive, GotoStill DEF StartJoin, Others
  <1>2. CASE JoinRead(t)
    <2>1. \E where : Goto(t, where)
      BY <1>2 DEF JoinRead
    <2> QED
      BY <1>2, <2>1, AtWork, GotoStill DEF JoinRead, Others
  <1>3. CASE EndJoin(t)
    BY <1>3, AtWork, GotoStill DEF EndJoin, Others
  <1> QED
    BY <1>1, <1>2, <1>3 DEF Join

\* The steps of Commit before it publishes the new timestamp.
LEMMA CommitQuiet ==
    ASSUME TypeOK, BusyActive, NEW t \in Txn,
           StartCommit(t) \/ Fetch(t) \/ VerifyRow(t) \/ StampRow(t)
    PROVE  Quiet
  <1>1. CASE StartCommit(t)
    BY <1>1, RunsIsActive, GotoStill DEF StartCommit
  <1>2. CASE Fetch(t)
    <2>1. \E where : Goto(t, where)
      BY <1>2 DEF Fetch
    <2> QED
      BY <1>2, <2>1, AtWork, GotoStill DEF Fetch, Others
  <1>3. CASE VerifyRow(t)
    <2>1. \E where : Goto(t, where)
      BY <1>3 DEF VerifyRow
    <2> QED
      BY <1>3, <2>1, AtWork, GotoStill DEF VerifyRow
  <1>4. CASE StampRow(t)
    <2>1. \E where : Goto(t, where)
      BY <1>4 DEF StampRow
    <2> QED
      BY <1>4, <2>1, AtWork, GotoStill DEF StampRow, Others
  <1> QED
    BY <1>1, <1>2, <1>3, <1>4

\* The steps of Abort before the transaction leaves the watermark.
LEMMA AbortQuiet ==
    ASSUME TypeOK, BusyActive, NEW t \in Txn, StartAbort(t) \/ RestoreRow(t)
    PROVE  Quiet
  <1>1. CASE StartAbort(t)
    BY <1>1, GotoStill DEF StartAbort, Others
  <1>2. CASE RestoreRow(t)
    <2>1. \E where : Goto(t, where)
      BY <1>2 DEF RestoreRow
    <2> QED
      BY <1>2, <2>1, AtWork, GotoStill DEF RestoreRow, Others
  <1> QED
    BY <1>1, <1>2

-----------------------------------------------------------------------------
(* The watermark. *)

LEMMA QuietWatermark ==
    ASSUME TypeOK, WatermarkInv, Quiet
    PROVE  WatermarkInv'
  <1>1. ActiveTxns' = ActiveTxns
    BY DEF Quiet, ActiveTxns
  <1>2. \A u \in ActiveTxns : txn_map'[u].read_ts = txn_map[u].read_ts
    BY DEF Quiet, ActiveTxns
  <1>3. \A ts : Readers(ts)' = Readers(ts)
    BY <1>1, <1>2 DEF Readers
  <1>4. {txn_map'[u].read_ts : u \in ActiveTxns} = {txn_map[u].read_ts : u \in ActiveTxns}
    BY <1>2
  <1>5. IdsIssued' /\ SnapshotsPast'
    BY DEF Quiet, WatermarkInv, IdsIssued, SnapshotsPast
  <1>6. BusyActive'
    <2>1. \A u \in Txn : Active(u) => Active(u)'
      BY DEF Quiet, Active
    <2> QED
      BY <2>1 DEF Quiet, WatermarkInv, BusyActive
  <1>7. CommitsCounted'
    BY <1>1 DEF Quiet, WatermarkInv, CommitsCounted
  <1>8. WatermarkCounts'
    BY <1>1, <1>3, <1>4 DEF Quiet, WatermarkInv, WatermarkCounts
  <1> QED
    BY <1>5, <1>6, <1>7, <1>8 DEF WatermarkInv

LEMMA CountedReaders ==
    ASSUME TypeOK, WatermarkCounts, NEW ts
    PROVE  /\ Counted(ts) = Cardinality(Readers(ts))
           /\ IsFiniteSet(Readers(ts)) /\ Cardinality(Readers(ts)) \in Nat
           /\ ts \in DOMAIN running_txns.reads <=> Readers(ts) # {}
  <1>1. Readers(ts) \subseteq ActiveTxns
    BY DEF Readers
  <1>2. IsFiniteSet(Readers(ts)) /\ Cardinality(Readers(ts)) \in Nat
    BY <1>1, ActiveIsTxn, FS_Subset, FS_CardinalityType
  <1>3. ts \in DOMAIN running_txns.reads <=> Readers(ts) # {}
    BY DEF Readers, WatermarkCounts
  <1>4. CASE ts \in DOMAIN running_txns.reads
    BY <1>2, <1>3, <1>4 DEF Counted, WatermarkCounts
  <1>5. CASE ts \notin DOMAIN running_txns.reads
    BY <1>2, <1>3, <1>5, FS_EmptySet DEF Counted
  <1> QED
    BY <1>2, <1>3, <1>4, <1>5

LEMMA BeginWatermark ==
    ASSUME TypeOK, WatermarkInv, NEW t \in Txn, Begin(t)
    PROVE  WatermarkInv'
  <1>0. PICK now : now = last_commit_ts
    OBVIOUS
  <1>1. /\ t = next_txn_id /\ next_txn_id' = t + 1
        /\ DOMAIN txn_map' = DOMAIN txn_map \cup {t}
        /\ txn_map'[t].state = "RUNNING" /\ txn_map'[t].read_ts = now
        /\ \A u \in DOMAIN txn_map \ {t} : txn_map'[u] = txn_map[u]
        /\ running_txns' = AddTxn(now)
        /\ UNCHANGED <<last_commit_ts, at>>
    BY <1>0 DEF Begin
  <1>2. t \notin DOMAIN txn_map
    BY <1>1, TxnFacts, TransactionFields DEF WatermarkInv, IdsIssued
  <1>3. ActiveTxns' = ActiveTxns \cup {t} /\ t \notin ActiveTxns
    BY <1>1, <1>2 DEF ActiveTxns, Active
  <1>4. Cardinality(ActiveTxns)' = Cardinality(ActiveTxns) + 1
    BY <1>3, ActiveIsTxn, FS_AddElement
  <1>5. Cardinality(ActiveTxns) \in Nat
    BY ActiveIsTxn, FS_CardinalityType
  <1>6. now \in Nat /\ next_txn_id \in Nat
    BY <1>0, <1>1, TxnFacts DEF TypeOK
  <1>7. IdsIssued'
    BY <1>1, <1>6, TxnFacts, TransactionFields DEF IdsIssued, WatermarkInv
  <1>8. BusyActive'
    <2>1. \A u \in Txn : Active(u) => Active(u)'
      BY <1>1, <1>2 DEF Active
    <2> QED
      BY <2>1, <1>1 DEF WatermarkInv, BusyActive
  <1>9. SnapshotsPast'
    BY <1>0, <1>1, <1>2, <1>6 DEF WatermarkInv, SnapshotsPast
  <1>10. CommitsCounted'
    BY <1>0, <1>1, <1>4, <1>5, <1>6, TxnFacts DEF WatermarkInv, CommitsCounted
  <1>11. \A u \in ActiveTxns : txn_map'[u].read_ts = txn_map[u].read_ts
    BY <1>1, <1>2 DEF ActiveTxns
  <1>12. /\ Readers(now)' = Readers(now) \cup {t} /\ t \notin Readers(now)
         /\ \A ts : ts # now => Readers(ts)' = Readers(ts)
    BY <1>1, <1>3, <1>11 DEF Readers
  <1>13. Cardinality(Readers(now))' = Counted(now) + 1
    <2>1. IsFiniteSet(Readers(now)) /\ Counted(now) = Cardinality(Readers(now))
      BY CountedReaders DEF WatermarkInv
    <2> QED
      BY <1>12, <2>1, FS_AddElement
  <1>14. /\ running_txns'.commit_ts = now
         /\ DOMAIN running_txns'.reads = DOMAIN running_txns.reads \cup {now}
         /\ running_txns'.reads[now] = Counted(now) + 1
         /\ \A ts \in DOMAIN running_txns.reads \ {now} :
               running_txns'.reads[ts] = running_txns.reads[ts]
         /\ running_txns'.watermark = Least(DOMAIN running_txns'.reads)
    BY <1>0, <1>1 DEF AddTxn, WatermarkInv, WatermarkCounts
  <1>15. DOMAIN running_txns'.reads = {txn_map'[u].read_ts : u \in ActiveTxns'}
    BY <1>1, <1>3, <1>11, <1>14 DEF WatermarkInv, WatermarkCounts
  <1>16. \A ts \in DOMAIN running_txns'.reads :
            running_txns'.reads[ts] = Cardinality(Readers(ts)')
    BY <1>12, <1>13, <1>14 DEF WatermarkInv, WatermarkCounts
  <1>17. WatermarkCounts'
    BY <1>0, <1>1, <1>14, <1>15, <1>16 DEF WatermarkCounts
  <1> QED
    BY <1>7, <1>8, <1>9, <1>10, <1>17 DEF WatermarkInv

\* A transaction that commits or aborts: RemoveTxn at the new last commit.
LEMMA RemoveWatermark ==
    ASSUME TypeOK, WatermarkInv, NEW t \in ActiveTxns, NEW commit, last_commit_ts' = commit,
           running_txns' = RemoveTxn(txn_map[t].read_ts, commit),
           ActiveTxns' = ActiveTxns \ {t},
           \A u \in DOMAIN txn_map : txn_map'[u].read_ts = txn_map[u].read_ts
    PROVE  WatermarkCounts'
  <1>0. PICK now : now = txn_map[t].read_ts
    OBVIOUS
  <1> DEFINE left == {x \in DOMAIN running_txns.reads : x # now \/ Counted(now) > 1}
  <1>1. /\ running_txns'.commit_ts = commit
        /\ DOMAIN running_txns'.reads = left
        /\ \A x \in left : running_txns'.reads[x] =
              IF x = now THEN Counted(now) - 1 ELSE running_txns.reads[x]
        /\ left # {} => running_txns'.watermark = Least(left)
    BY <1>0 DEF RemoveTxn
  <1>2. \A u \in ActiveTxns : txn_map'[u].read_ts = txn_map[u].read_ts
    BY DEF ActiveTxns
  <1>3. /\ Readers(now)' = Readers(now) \ {t} /\ t \in Readers(now)
        /\ \A ts : ts # now => Readers(ts)' = Readers(ts)
    BY <1>0, <1>2 DEF Readers
  <1>4. /\ IsFiniteSet(Readers(now)) /\ Counted(now) = Cardinality(Readers(now))
        /\ Counted(now) \in Nat
    BY CountedReaders DEF WatermarkInv
  <1>5. Cardinality(Readers(now)') = Counted(now) - 1 /\ IsFiniteSet(Readers(now)')
    BY <1>3, <1>4, FS_RemoveElement
  <1>6. Counted(now) > 1 <=> Readers(now)' # {}
    <2>1. Cardinality(Readers(now)') \in Nat
      BY <1>5, FS_CardinalityType
    <2>2. Cardinality(Readers(now)') = 0 <=> Readers(now)' = {}
      BY <1>5, FS_EmptySet
    <2> QED
      BY <1>4, <1>5, <2>1, <2>2
  <1>7. \A ts : ts \in left <=> Readers(ts)' # {}
    <2>1. \A ts : ts \in DOMAIN running_txns.reads <=> Readers(ts) # {}
      BY CountedReaders DEF WatermarkInv
    <2> QED
      BY <1>3, <1>6, <2>1
  <1>8. left = {txn_map'[u].read_ts : u \in ActiveTxns'}
    BY <1>7 DEF Readers
  <1>9. \A ts \in left : running_txns'.reads[ts] = Cardinality(Readers(ts)')
    <2>1. \A ts \in left : ts # now => running_txns.reads[ts] = Cardinality(Readers(ts))
      BY DEF WatermarkInv, WatermarkCounts
    <2> QED
      BY <1>1, <1>3, <1>5, <2>1
  <1> QED
    BY <1>1, <1>8, <1>9 DEF WatermarkCounts

LEMMA EndCommitWatermark ==
    ASSUME TypeOK, WatermarkInv, NEW t \in Txn, EndCommit(t)
    PROVE  WatermarkInv'
  <1>1. Active(t) /\ t \in DOMAIN txn_map /\ t \in ActiveTxns
    BY AtWork DEF EndCommit, WatermarkInv, ActiveTxns
  <1>2. /\ DOMAIN txn_map' = DOMAIN txn_map
        /\ txn_map'[t].state = "COMMITTED"
        /\ \A u \in DOMAIN txn_map : txn_map'[u].read_ts = txn_map[u].read_ts
        /\ \A u \in DOMAIN txn_map \ {t} : txn_map'[u] = txn_map[u]
    <2>1. txn_map[t] \in Transaction
      BY <1>1, TransactionFields
    <2> QED
      BY <1>1, <2>1 DEF EndCommit, Transaction
  <1>3. /\ last_commit_ts' = last_commit_ts + 1 /\ next_txn_id' = next_txn_id
        /\ running_txns' = RemoveTxn(txn_map[t].read_ts, last_commit_ts + 1)
        /\ Goto(t, Idle)
    BY DEF EndCommit
  <1>4. ActiveTxns' = ActiveTxns \ {t}
    BY <1>2 DEF ActiveTxns, Active
  <1>5. WatermarkCounts'
    <2>1. PICK commit : commit = last_commit_ts + 1
      OBVIOUS
    <2> QED
      BY <1>1, <1>2, <1>3, <1>4, <2>1, RemoveWatermark
  <1>6. CommitsCounted'
    <2>1. Cardinality(ActiveTxns)' = Cardinality(ActiveTxns) - 1
      BY <1>1, <1>4, ActiveIsTxn, FS_RemoveElement
    <2>2. Cardinality(ActiveTxns) \in Nat
      BY ActiveIsTxn, FS_CardinalityType
    <2> QED
      BY <1>3, <2>1, <2>2, TxnFacts DEF WatermarkInv, CommitsCounted, TypeOK
  <1>7. SnapshotsPast'
    <2>1. \A u \in DOMAIN txn_map : txn_map[u].read_ts \in Nat /\ last_commit_ts \in Nat
      BY TransactionFields DEF TypeOK
    <2> QED
      BY <1>2, <1>3, <2>1 DEF WatermarkInv, SnapshotsPast
  <1>8. IdsIssued'
    BY <1>2, <1>3 DEF WatermarkInv, IdsIssued
  <1>9. BusyActive'
    <2>1. \A u \in Txn : u # t /\ Active(u) => Active(u)'
      BY <1>2 DEF Active
    <2>2. at'[t] = Idle /\ \A u \in Txn : u # t => at'[u] = at[u]
      BY <1>3, GotoMoves
    <2> QED
      BY <2>1, <2>2 DEF WatermarkInv, BusyActive
  <1> QED
    BY <1>5, <1>6, <1>7, <1>8, <1>9 DEF WatermarkInv

LEMMA EndAbortWatermark ==
    ASSUME TypeOK, WatermarkInv, NEW t \in Txn, EndAbort(t)
    PROVE  WatermarkInv'
  <1>1. Active(t) /\ t \in DOMAIN txn_map /\ t \in ActiveTxns
    BY AtWork DEF EndAbort, WatermarkInv, ActiveTxns
  <1>2. /\ DOMAIN txn_map' = DOMAIN txn_map
        /\ txn_map'[t].state = "ABORTED"
        /\ \A u \in DOMAIN txn_map : txn_map'[u].read_ts = txn_map[u].read_ts
        /\ \A u \in DOMAIN txn_map \ {t} : txn_map'[u] = txn_map[u]
    <2>1. txn_map[t] \in Transaction
      BY <1>1, TransactionFields
    <2> QED
      BY <1>1, <2>1 DEF EndAbort, Transaction
  <1>3. /\ last_commit_ts' = last_commit_ts /\ next_txn_id' = next_txn_id
        /\ running_txns' = RemoveTxn(txn_map[t].read_ts, running_txns.commit_ts)
        /\ Goto(t, Idle)
    BY DEF EndAbort
  <1>4. ActiveTxns' = ActiveTxns \ {t}
    BY <1>2 DEF ActiveTxns, Active
  <1>5. WatermarkCounts'
    <2>1. PICK commit : commit = last_commit_ts
      OBVIOUS
    <2>2. running_txns.commit_ts = commit
      BY <2>1 DEF WatermarkInv, WatermarkCounts
    <2> QED
      BY <1>1, <1>2, <1>3, <1>4, <2>1, <2>2, RemoveWatermark
  <1>6. CommitsCounted'
    <2>1. Cardinality(ActiveTxns)' = Cardinality(ActiveTxns) - 1
      BY <1>1, <1>4, ActiveIsTxn, FS_RemoveElement
    <2>2. Cardinality(ActiveTxns) \in Nat
      BY ActiveIsTxn, FS_CardinalityType
    <2> QED
      BY <1>3, <2>1, <2>2, TxnFacts DEF WatermarkInv, CommitsCounted, TypeOK
  <1>7. SnapshotsPast' /\ IdsIssued'
    BY <1>2, <1>3 DEF WatermarkInv, IdsIssued, SnapshotsPast
  <1>8. BusyActive'
    <2>1. \A u \in Txn : u # t /\ Active(u) => Active(u)'
      BY <1>2 DEF Active
    <2>2. at'[t] = Idle /\ \A u \in Txn : u # t => at'[u] = at[u]
      BY <1>3, GotoMoves
    <2> QED
      BY <2>1, <2>2 DEF WatermarkInv, BusyActive
  <1> QED
    BY <1>5, <1>6, <1>7, <1>8 DEF WatermarkInv

\* Garbage collection erases only transactions that have ended.
LEMMA CollectionWatermark ==
    ASSUME TypeOK, WatermarkInv, GarbageCollection
    PROVE  WatermarkInv'
  <1>1. /\ DOMAIN txn_map' = DOMAIN txn_map \ Garbage
        /\ \A u \in DOMAIN txn_map \ Garbage : txn_map'[u] = txn_map[u]
        /\ UNCHANGED <<next_txn_id, last_commit_ts, running_txns, at>>
    BY DEF GarbageCollection, Others
  <1>2. \A u \in Garbage : u \in DOMAIN txn_map /\ ~Active(u)
    BY DEF Garbage, Active
  <1>3. ActiveTxns' = ActiveTxns
    BY <1>1, <1>2 DEF ActiveTxns, Active
  <1>4. \A u \in ActiveTxns : txn_map'[u] = txn_map[u]
    BY <1>1, <1>2 DEF ActiveTxns
  <1>5. \A ts : Readers(ts)' = Readers(ts)
    BY <1>3, <1>4 DEF Readers
  <1>6. {txn_map'[u].read_ts : u \in ActiveTxns'} = {txn_map[u].read_ts : u \in ActiveTxns}
    BY <1>3, <1>4
  <1>7. WatermarkCounts'
    BY <1>1, <1>5, <1>6 DEF WatermarkInv, WatermarkCounts
  <1>8. IdsIssued' /\ SnapshotsPast'
    BY <1>1 DEF WatermarkInv, IdsIssued, SnapshotsPast
  <1>9. BusyActive'
    BY <1>1 DEF WatermarkInv, BusyActive, GarbageCollection
  <1>10. CommitsCounted'
    BY <1>1, <1>3 DEF WatermarkInv, CommitsCounted
  <1> QED
    BY <1>7, <1>8, <1>9, <1>10 DEF WatermarkInv

LEMMA StutterQuiet == ASSUME UNCHANGED vars PROVE Quiet
  BY DEF vars, Quiet, Active

LEMMA WatermarkStep ==
    ASSUME TypeOK, WatermarkInv, [Next]_vars
    PROVE  WatermarkInv'
  <1>1. BusyActive
    BY DEF WatermarkInv
  <1>2. ASSUME NEW t \in Txn,
               Begin(t) \/ Statement(t) \/ Write(t) \/ Join(t) \/ Commit(t) \/ Abort(t)
        PROVE  WatermarkInv'
    <2>1. CASE Begin(t)
      BY <2>1, BeginWatermark
    <2>2. CASE Statement(t)
      BY <1>1, <2>2, StatementQuiet, QuietWatermark
    <2>3. CASE Write(t)
      BY <1>1, <2>3, WriteQuiet, QuietWatermark
    <2>4. CASE Join(t)
      BY <1>1, <2>4, JoinQuiet, QuietWatermark
    <2>5. CASE Commit(t)
      BY <1>1, <2>5, CommitQuiet, QuietWatermark, EndCommitWatermark DEF Commit
    <2>6. CASE Abort(t)
      BY <1>1, <2>6, AbortQuiet, QuietWatermark, EndAbortWatermark DEF Abort
    <2> QED
      BY <1>2, <2>1, <2>2, <2>3, <2>4, <2>5, <2>6
  <1>3. CASE GarbageCollection
    BY <1>3, CollectionWatermark
  <1>4. CASE UNCHANGED vars
    BY <1>4, StutterQuiet, QuietWatermark
  <1> QED
    BY <1>2, <1>3, <1>4 DEF Next

-----------------------------------------------------------------------------
(* Types of tuples, versions and undo logs. *)

LEMMA OverlayType ==
    ASSUME NEW f \in Fields, NEW x \in Tuple
    PROVE  Overlay(f, x) \in Tuple
  <1>1. DOMAIN x = {"id", "v"} /\ x.id \in Key /\ x.v \in Value
    BY DEF Tuple
  <1>2. /\ "id" \in DOMAIN f => f["id"] \in Key
        /\ "v" \in DOMAIN f => f["v"] \in Value
    BY DEF Fields
  <1> DEFINE y == Overlay(f, x)
  <1>3. y = [c \in {"id", "v"} |-> IF c \in DOMAIN f THEN f[c] ELSE x[c]]
    BY <1>1 DEF Overlay
  <1>4. y["id"] \in Key /\ y["v"] \in Value
    BY <1>1, <1>2, <1>3
  <1>5. y = [id |-> y["id"], v |-> y["v"]]
    BY <1>3
  <1> QED
    BY <1>4, <1>5 DEF Tuple

LEMMA PartType ==
    ASSUME NEW x \in Tuple, NEW S \in SUBSET Column
    PROVE  [c \in S |-> x[c]] \in Fields
  <1>1. x["id"] \in Key /\ x["v"] \in Value
    BY DEF Tuple
  <1>2. \A c \in S : x[c] \in Key \cup Value
    BY <1>1 DEF Column
  <1>3. [c \in S |-> x[c]] \in [S -> Key \cup Value]
    BY <1>2
  <1> QED
    BY <1>1, <1>3 DEF Fields

LEMMA NoFields == <<>> \in Fields
  <1>1. <<>> \in [{} -> Key \cup Value]
    OBVIOUS
  <1>2. {} \in SUBSET Column /\ DOMAIN <<>> = {}
    OBVIOUS
  <1> QED
    BY <1>1, <1>2 DEF Fields

LEMMA ChangedColumns == ASSUME NEW x, NEW target PROVE Changed(x, target) \in SUBSET Column
  BY DEF Changed

LEMMA NewLogType ==
    ASSUME NEW ver \in Version, NEW target
    PROVE  /\ GenerateNewUndoLog(ver, target) \in UndoLog
           /\ GenerateNewUndoLog(ver, target).ts = ver.ts
           /\ GenerateNewUndoLog(ver, target).prev_version = ver.link
  <1>1. ver.tuple \in Tuple /\ ver.ts \in Nat /\ ver.deleted \in BOOLEAN /\ ver.link \in Link
    BY DEF Version
  <1>2. [c \in Changed(ver.tuple, target) |-> ver.tuple[c]] \in Fields
    BY <1>1, PartType, ChangedColumns
  <1> QED
    BY <1>1, <1>2, NoFields DEF GenerateNewUndoLog, UndoLog

LEMMA UpdatedLogType ==
    ASSUME NEW ver \in Version, NEW target, NEW log \in UndoLog
    PROVE  /\ GenerateUpdatedUndoLog(ver, target, log) \in UndoLog
           /\ GenerateUpdatedUndoLog(ver, target, log).ts = log.ts
           /\ GenerateUpdatedUndoLog(ver, target, log).prev_version = log.prev_version
  <1>1. ver.tuple \in Tuple /\ log.fields \in Fields
    BY DEF Version, UndoLog
  <1> DEFINE more   == Changed(ver.tuple, target)
             fields == [c \in DOMAIN log.fields \cup more |->
                           IF c \in DOMAIN log.fields THEN log.fields[c] ELSE ver.tuple[c]]
  <1>2. fields \in Fields
    <2>1. DOMAIN log.fields \cup more \in SUBSET Column
      BY <1>1, ChangedColumns DEF Fields
    <2>2. ver.tuple["id"] \in Key /\ ver.tuple["v"] \in Value
      BY <1>1 DEF Tuple
    <2>3. /\ "id" \in DOMAIN log.fields => log.fields["id"] \in Key
          /\ "v" \in DOMAIN log.fields => log.fields["v"] \in Value
      BY <1>1 DEF Fields
    <2>4. fields \in [DOMAIN log.fields \cup more -> Key \cup Value]
      BY <2>1, <2>2, <2>3 DEF Column
    <2> QED
      BY <2>1, <2>2, <2>3, <2>4 DEF Fields
  <1>3. CASE log.is_deleted \/ ver.deleted
    BY <1>3 DEF GenerateUpdatedUndoLog
  <1>4. CASE ~(log.is_deleted \/ ver.deleted)
    <2>1. GenerateUpdatedUndoLog(ver, target, log) = [log EXCEPT !.fields = fields]
      BY <1>4 DEF GenerateUpdatedUndoLog, UndoLog
    <2> QED
      BY <1>2, <2>1 DEF UndoLog
  <1> QED
    BY <1>3, <1>4

LEMMA UndoneType ==
    ASSUME NEW ver \in Version, NEW log \in UndoLog
    PROVE  /\ Undone(ver, log) \in Version
           /\ Undone(ver, log).ts = log.ts
           /\ Undone(ver, log).link = log.prev_version
  BY OverlayType DEF Undone, Version, UndoLog

LEMMA RowType ==
    ASSUME TypeOK, NEW r \in DOMAIN heap
    PROVE  /\ r \in Rid
           /\ heap[r] \in [tuple : Tuple, ts : Nat, deleted : BOOLEAN]
           /\ undo_link[r] \in Link
           /\ Base(r) \in Version
           /\ Base(r).ts = heap[r].ts
           /\ Base(r).link = undo_link[r]
  <1>1. DOMAIN heap = 1..Len(heap) /\ Len(heap) \in Nat /\ Len(heap) <= MaxRows
    BY DEF TypeOK
  <1>2. r \in Rid
    BY <1>1, BoundsAssumption DEF Rid
  <1>3. heap[r] \in [tuple : Tuple, ts : Nat, deleted : BOOLEAN]
    BY <1>1, ElementOfSeq DEF TypeOK
  <1>4. undo_link[r] \in Link
    BY <1>2 DEF TypeOK
  <1> QED
    BY <1>2, <1>3, <1>4 DEF Base, Version

\* What the undo logs of a transaction become when it changes a row: those it
\* had keep their timestamps and links, and a row of another transaction gets a
\* new log for the version it had.
LEMMA LoggedLogs ==
    ASSUME TypeOK, LinksKnown, NEW t \in DOMAIN txn_map, NEW r \in DOMAIN heap, NEW target
    PROVE  LET old == txn_map[t].undo_logs
               new == Logged(t, r, target)
           IN  /\ new.logs \in Seq(UndoLog) /\ new.link \in Link
               /\ \A i \in DOMAIN old :
                     /\ i \in DOMAIN new.logs
                     /\ new.logs[i].ts = old[i].ts
                     /\ new.logs[i].prev_version = old[i].prev_version
               /\ heap[r].ts = t =>
                     DOMAIN new.logs = DOMAIN old /\ new.link = undo_link[r]
               /\ heap[r].ts # t =>
                     /\ DOMAIN new.logs = DOMAIN old \cup {Len(old) + 1}
                     /\ Len(old) + 1 \notin DOMAIN old
                     /\ new.link = [txn |-> t, idx |-> Len(old) + 1]
                     /\ new.logs[Len(old) + 1].ts = heap[r].ts
                     /\ new.logs[Len(old) + 1].prev_version = undo_link[r]
  <1> DEFINE old == txn_map[t].undo_logs
             ver == Base(r)
             new == Logged(t, r, target)
  <1>1. /\ t \in Txn /\ old \in Seq(UndoLog)
        /\ Len(old) \in Nat /\ DOMAIN old = 1..Len(old)
    BY TransactionFields, LenProperties
  <1>2. /\ r \in Rid /\ ver \in Version /\ ver.ts = heap[r].ts
        /\ ver.link = undo_link[r] /\ undo_link[r] \in Link
    BY RowType
  <1>3. CASE heap[r].ts # t
    <2> DEFINE log == GenerateNewUndoLog(ver, target)
    <2>1. new = [logs |-> Append(old, log), link |-> [txn |-> t, idx |-> Len(old) + 1]]
      BY <1>2, <1>3 DEF Logged, Own
    <2>2. log \in UndoLog /\ log.ts = heap[r].ts /\ log.prev_version = undo_link[r]
      BY <1>2, NewLogType
    <2>3. /\ Append(old, log) \in Seq(UndoLog)
          /\ Len(Append(old, log)) = Len(old) + 1
          /\ \A i \in 1..Len(old) : Append(old, log)[i] = old[i]
          /\ Append(old, log)[Len(old) + 1] = log
      BY <1>1, <2>2
    <2>4. DOMAIN Append(old, log) = 1..Len(old) + 1
      BY <2>3, LenProperties
    <2>5. [txn |-> t, idx |-> Len(old) + 1] \in Link
      BY <1>1 DEF Link
    <2> HIDE DEF log
    <2> QED
      BY <1>1, <1>3, <2>1, <2>2, <2>3, <2>4, <2>5
  <1>4. CASE heap[r].ts = t /\ ver.link.txn = t
    <2> DEFINE i   == ver.link.idx
               log == GenerateUpdatedUndoLog(ver, target, old[i])
    <2>1. i \in 1..Len(old)
      BY <1>1, <1>2, <1>4, TxnFacts DEF LinksKnown, Known, Exists
    <2>2. new = [logs |-> [old EXCEPT ![i] = log], link |-> ver.link]
      BY <1>1, <1>2, <1>4, <2>1 DEF Logged, Own
    <2>3. old[i] \in UndoLog
      BY <1>1, <2>1, ElementOfSeq
    <2>4. log \in UndoLog /\ log.ts = old[i].ts /\ log.prev_version = old[i].prev_version
      BY <1>2, <2>3, UpdatedLogType
    <2> HIDE DEF log, i
    <2>5. /\ [old EXCEPT ![i] = log] \in Seq(UndoLog)
          /\ Len([old EXCEPT ![i] = log]) = Len(old)
          /\ \A j \in 1..Len(old) : [old EXCEPT ![i] = log][j] = IF j = i THEN log ELSE old[j]
      BY <1>1, <2>1, <2>4, ExceptSeq
    <2>6. DOMAIN [old EXCEPT ![i] = log] = DOMAIN old
      OBVIOUS
    <2> QED
      BY <1>1, <1>2, <1>4, <2>2, <2>4, <2>5, <2>6
  <1>5. CASE heap[r].ts = t /\ ver.link.txn # t
    <2>1. new = [logs |-> old, link |-> ver.link]
      BY <1>2, <1>5 DEF Logged, Own
    <2> QED
      BY <1>1, <1>2, <1>5, <2>1
  <1> QED
    BY <1>3, <1>4, <1>5

-----------------------------------------------------------------------------
(* Types of the steps of a thread. *)

Located == [rid : Rid, tuple : Tuple]
Change  == [rid : Rid, target : Tuple \cup {Deleted}]

LEMMA StepFields ==
    ASSUME NEW s \in Step
    PROVE  /\ s.do = "scan" => s \in Scan
           /\ s.do = "modify" => s \in Apply
           /\ s.do \in {"append", "revive", "enter"} => s \in Place
           /\ s.do = "join" => s.key \in Key
           /\ s.do = "joined" => s.key \in Key /\ s.found \subseteq Tuple
           /\ s.do \in {"stamp", "abort"} => s \in Sweep
           /\ s.do = "verify" => s \in Check
           /\ Idle \in Step
           /\ s.do = "idle" => s = Idle
  BY DEF Step, Idle, Scan, Apply, Place, Probe, Sweep, Check

LEMMA RestType ==
    ASSUME NEW mods \in Seq(Change), NEW rows \in Seq(Tuple)
    PROVE  Rest(mods, rows) \in Step
  BY DEF Rest, Step, Apply, Change

LEMMA ScanningFields ==
    ASSUME NEW s \in Scanning
    PROVE  /\ s.where \in Predicate /\ s.where.holds \subseteq Tuple
           /\ s.kind \in {"select", "delete", "update"}
           /\ s.kind = "update" => s.set \in Fields
  BY PredicateAssumption DEF Scanning

LEMMA CommandFields ==
    ASSUME NEW s \in Command
    PROVE  /\ s.kind \in {"select", "update", "delete"} => s \in Scanning
           /\ s.kind = "insert" => s.rows \in Seq(Tuple)
  BY DEF Command, Scanning

LEMMA TodoType ==
    ASSUME TypeOK, NEW t \in Txn, program[t].todo # <<>>
    PROVE  /\ Head(program[t].todo) \in Command
           /\ program' = [program EXCEPT ![t].todo = Tail(@)] =>
                 program' \in [Txn -> [level : Level, todo : Seq(Command)]]
  <1>1. program[t] \in [level : Level, todo : Seq(Command)]
    BY DEF TypeOK
  <1>2. Head(program[t].todo) \in Command /\ Tail(program[t].todo) \in Seq(Command)
    BY <1>1, HeadTailProperties
  <1> QED
    BY <1>1, <1>2 DEF TypeOK

LEMMA FoundType ==
    ASSUME NEW t \in Txn, at[t] \in Scan, NEW r \in Rid, NEW ver
    PROVE  /\ Found(t, r, ver) \in Seq(Located)
           /\ \A i \in DOMAIN Found(t, r, ver) :
                 \/ i \in DOMAIN at[t].rows /\ Found(t, r, ver)[i] = at[t].rows[i]
                 \/ Found(t, r, ver)[i].rid = r
  <1> DEFINE seen == Visible(t, ver) \cap at[t].stmt.where.holds
             x    == CHOOSE y \in seen : TRUE
             more == IF seen = {} THEN <<>> ELSE <<[rid |-> r, tuple |-> x]>>
  <1>1. at[t].stmt \in Scanning /\ at[t].rows \in Seq(Located)
    BY DEF Scan, Located
  <1>2. seen # {} => x \in Tuple
    BY <1>1, ScanningFields
  <1> HIDE DEF seen, x
  <1>3. /\ more \in Seq(Located)
        /\ \A i \in 1..Len(more) : more[i].rid = r
    <2>1. CASE seen = {}
      BY <2>1
    <2>2. CASE seen # {}
      <3>1. [rid |-> r, tuple |-> x] \in Located
        BY <1>2, <2>2 DEF Located
      <3>2. more = <<[rid |-> r, tuple |-> x]>>
        BY <2>2
      <3>3. Len(more) = 1 /\ more[1] = [rid |-> r, tuple |-> x] /\ more \in Seq(Located)
        BY <3>1, <3>2
      <3> QED
        BY <3>3
    <2> QED
      BY <2>1, <2>2
  <1>4. Found(t, r, ver) = at[t].rows \o more
    BY DEF Found, seen, x
  <1> HIDE DEF more
  <1>5. /\ Len(at[t].rows) \in Nat /\ DOMAIN at[t].rows = 1..Len(at[t].rows)
        /\ Len(more) \in Nat
    BY <1>1, <1>3, LenProperties
  <1>6. /\ at[t].rows \o more \in Seq(Located)
        /\ Len(at[t].rows \o more) = Len(at[t].rows) + Len(more)
        /\ \A i \in 1..Len(at[t].rows) + Len(more) : (at[t].rows \o more)[i] =
              IF i <= Len(at[t].rows) THEN at[t].rows[i] ELSE more[i - Len(at[t].rows)]
    BY <1>1, <1>3, ConcatProperties
  <1>7. DOMAIN (at[t].rows \o more) = 1..Len(at[t].rows) + Len(more)
    BY <1>6, LenProperties
  <1>8. \A i \in 1..Len(at[t].rows) + Len(more) :
           i > Len(at[t].rows) => i - Len(at[t].rows) \in 1..Len(more)
    BY <1>5
  <1> QED
    BY <1>3, <1>4, <1>5, <1>6, <1>7, <1>8

-----------------------------------------------------------------------------
(* Every set of timestamps has a least one. *)

LEMMA LeastNat ==
    ASSUME NEW S \in SUBSET Nat, S # {}
    PROVE  Least(S) \in S /\ \A y \in S : Least(S) <= y
  <1> DEFINE less == OpToRel(<, Nat)
  <1>1. IsWellFoundedOn(less, Nat)
    BY NatLessThanWellFounded
  <1>2. \A x, y \in Nat : <<y, x>> \notin less => x <= y
    BY DEF OpToRel
  <1> HIDE DEF less
  <1>3. PICK x \in S : \A y \in S : <<y, x>> \notin less
    BY <1>1, WFMin
  <1>4. ASSUME NEW y \in S PROVE x <= y
    <2>1. x \in Nat /\ y \in Nat /\ <<y, x>> \notin less
      BY <1>3
    <2> QED
      BY <1>2, <2>1
  <1> QED
    BY <1>4 DEF Least

-----------------------------------------------------------------------------
(* Types, and the rows the threads know. *)

\* A step that leaves the table and the clock alone.
LEMMA StillTable ==
    ASSUME TypeOK, RowsKnown, NEW t \in Txn, NEW next \in Step, StepRows(next), Goto(t, next),
           UNCHANGED <<heap, undo_link, index, next_txn_id, last_commit_ts, running_txns>>,
           commit_mutex' \in Txn \cup {NoTxn},
           program' \in [Txn -> [level : Level, todo : Seq(Command)]],
           DOMAIN txn_map' = DOMAIN txn_map,
           \A u \in DOMAIN txn_map :
              txn_map'[u] \in Transaction /\ txn_map'[u].write_set \subseteq DOMAIN heap
    PROVE  TypeOK' /\ RowsKnown'
  <1>1. at' \in [Txn -> Step] /\ at'[t] = next /\ \A u \in Txn : u # t => at'[u] = at[u]
    BY GotoMoves
  <1>2. TypeOK'
    BY <1>1 DEF TypeOK
  <1>3. \A u \in Txn : StepRows(at'[u])
    BY <1>1 DEF RowsKnown
  <1>4. \A u \in Txn : StepRows(at[u])'
    BY <1>3 DEF StepRows
  <1> QED
    BY <1>2, <1>4 DEF RowsKnown

\* The same, when txn_map is unchanged too.
LEMMA StillTxns ==
    ASSUME TypeOK, RowsKnown, NEW t \in Txn, NEW next \in Step, StepRows(next), Goto(t, next),
           UNCHANGED <<heap, undo_link, index, txn_map, next_txn_id, last_commit_ts, running_txns>>,
           commit_mutex' \in Txn \cup {NoTxn},
           program' \in [Txn -> [level : Level, todo : Seq(Command)]]
    PROVE  TypeOK' /\ RowsKnown'
  <1>1. \A u \in DOMAIN txn_map :
           txn_map[u] \in Transaction /\ txn_map[u].write_set \subseteq DOMAIN heap
    BY DEF TypeOK, RowsKnown
  <1> QED
    BY <1>1, StillTable

\* The same, when the step belongs to no transaction but its thread.
LEMMA StillOthers ==
    ASSUME TypeOK, RowsKnown, NEW t \in Txn, NEW next \in Step, StepRows(next), Goto(t, next),
           UNCHANGED <<heap, undo_link, index, txn_map, Others, program>>
    PROVE  TypeOK' /\ RowsKnown'
  <1>1. /\ commit_mutex' \in Txn \cup {NoTxn}
        /\ program' \in [Txn -> [level : Level, todo : Seq(Command)]]
        /\ UNCHANGED <<heap, undo_link, index, txn_map, next_txn_id, last_commit_ts, running_txns>>
    BY DEF TypeOK, Others
  <1> QED
    BY <1>1, StillTxns

LEMMA HeapDomain ==
    ASSUME TypeOK
    PROVE  DOMAIN heap = 1..Len(heap) /\ Len(heap) \in Nat /\ DOMAIN heap \subseteq Rid
  BY LenProperties, BoundsAssumption DEF TypeOK, Rid

LEMMA IndexScannedType ==
    ASSUME TypeOK, NEW keys \in SUBSET Key, NEW todo \in IndexScanned(keys)
    PROVE  todo \in Seq(Rid) /\ \A i \in DOMAIN todo : todo[i] \in DOMAIN heap
  <1> DEFINE S == {index[k] : k \in keys} \ {NoRid}
  <1>1. S \subseteq DOMAIN heap /\ S \subseteq Rid
    BY HeapDomain DEF TypeOK
  <1>2. IsFiniteSet(Rid)
    BY FS_Interval, BoundsAssumption DEF Rid
  <1>3. Cardinality(S) \in Nat
    BY <1>1, <1>2, FS_Subset, FS_CardinalityType
  <1>4. todo \in [1..Cardinality(S) -> S]
    BY DEF IndexScanned, Orders
  <1> HIDE DEF S
  <1>5. todo \in Seq(S)
    BY <1>3, <1>4, SeqDef
  <1>6. todo \in Seq(Rid)
    BY <1>1, <1>5, SeqMonotonic
  <1> QED
    BY <1>1, <1>4, <1>6

LEMMA SeqScannedType ==
    ASSUME TypeOK
    PROVE  SeqScanned \in Seq(Rid) /\ \A i \in DOMAIN SeqScanned : SeqScanned[i] \in DOMAIN heap
  <1>1. SeqScanned \in [1..Len(heap) -> Rid]
    BY HeapDomain DEF SeqScanned
  <1> QED
    BY <1>1, HeapDomain, SeqDef DEF SeqScanned

LEMMA StartScanType ==
    ASSUME TypeOK, RowsKnown, NEW t \in Txn, StartScan(t)
    PROVE  TypeOK' /\ RowsKnown'
  <1> DEFINE s == Head(program[t].todo)
  <1>1. s \in Scanning /\ t \in DOMAIN txn_map
    BY TodoType, CommandFields, RunsIsActive DEF StartScan
  <1>2. s.where \in Predicate /\ s.where.keys \subseteq Key
    BY <1>1, ScanningFields, PredicateAssumption
  <1>3. PICK todo \in IF s.where.keys = {} THEN {SeqScanned} ELSE IndexScanned(s.where.keys) :
           Goto(t, [do |-> "scan", stmt |-> s, todo |-> todo, got |-> <<>>, rows |-> <<>>])
    BY DEF StartScan
  <1>4. todo \in Seq(Rid) /\ \A i \in DOMAIN todo : todo[i] \in DOMAIN heap
    BY <1>2, <1>3, SeqScannedType, IndexScannedType
  <1>5. PICK next : next = [do |-> "scan", stmt |-> s, todo |-> todo, got |-> <<>>, rows |-> <<>>]
    OBVIOUS
  <1>6. next \in Step /\ StepRows(next)
    <2>1. next \in Scan
      BY <1>1, <1>4, <1>5 DEF Scan
    <2>2. StepRows(next)
      BY <1>4, <1>5 DEF StepRows
    <2> QED
      BY <2>1, <2>2 DEF Step
  <1>7. \A u \in DOMAIN txn_map :
           txn_map[u] \in Transaction /\ txn_map[u].write_set \subseteq DOMAIN heap
    BY DEF TypeOK, RowsKnown
  <1>8. /\ DOMAIN txn_map' = DOMAIN txn_map
        /\ \A u \in DOMAIN txn_map :
              txn_map'[u] \in Transaction /\ txn_map'[u].write_set \subseteq DOMAIN heap
    <2>1. txn_map' = [txn_map EXCEPT ![t].scan_predicates = @ \cup {s.where}]
      BY DEF StartScan
    <2> HIDE DEF s
    <2> QED
      BY <1>1, <1>2, <1>7, <2>1 DEF Transaction
  <1>9. /\ program' \in [Txn -> [level : Level, todo : Seq(Command)]]
        /\ commit_mutex' \in Txn \cup {NoTxn}
        /\ UNCHANGED <<heap, undo_link, index, next_txn_id, last_commit_ts, running_txns>>
    BY TodoType DEF StartScan, table, Others, TypeOK
  <1> QED
    BY <1>3, <1>5, <1>6, <1>8, <1>9, StillTable

LEMMA ScanStep ==
    ASSUME NEW stmt \in Scanning, NEW todo \in Seq(Rid), NEW rows \in Seq(Located),
           \A i \in DOMAIN todo : todo[i] \in DOMAIN heap,
           \A i \in DOMAIN rows : rows[i].rid \in DOMAIN heap
    PROVE  LET next == [do |-> "scan", stmt |-> stmt, todo |-> todo, got |-> <<>>, rows |-> rows]
           IN  next \in Step /\ StepRows(next)
  <1> DEFINE next == [do |-> "scan", stmt |-> stmt, todo |-> todo, got |-> <<>>, rows |-> rows]
  <1>1. next \in Scan
    BY DEF Scan, Located
  <1>2. StepRows(next)
    BY DEF StepRows
  <1> QED
    BY <1>1, <1>2 DEF Step

\* A scan that goes on after it saw row r.
LEMMA SeenType ==
    ASSUME TypeOK, RowsKnown, NEW t \in Txn, at[t].do = "scan", at[t].todo # <<>>,
           NEW ver, NEW got, got = <<>>,
           NEW next, next = [at[t] EXCEPT !.todo = Tail(@), !.got = got,
                                          !.rows = Found(t, Head(at[t].todo), ver)]
    PROVE  next \in Step /\ StepRows(next)
  <1> DEFINE todo == at[t].todo
             rows == Found(t, Head(todo), ver)
  <1>1. at[t] \in Scan
    BY StepFields DEF TypeOK
  <1>2. todo \in Seq(Rid) /\ \A i \in DOMAIN todo : todo[i] \in DOMAIN heap
    BY <1>1 DEF Scan, RowsKnown, StepRows
  <1>3. /\ Head(todo) \in Rid /\ Head(todo) = todo[1] /\ 1 \in DOMAIN todo
        /\ Tail(todo) \in Seq(Rid)
        /\ \A i \in DOMAIN Tail(todo) : i + 1 \in DOMAIN todo /\ Tail(todo)[i] = todo[i + 1]
    <2>1. Len(todo) \in Nat /\ Len(todo) > 0 /\ DOMAIN todo = 1..Len(todo)
      BY <1>2, LenProperties, EmptySeq
    <2>2. /\ Head(todo) \in Rid /\ Tail(todo) \in Seq(Rid) /\ Len(Tail(todo)) = Len(todo) - 1
          /\ \A i \in 1..Len(Tail(todo)) : Tail(todo)[i] = todo[i + 1]
      BY <1>2, HeadTailProperties
    <2>3. DOMAIN Tail(todo) = 1..Len(todo) - 1
      BY <2>2, LenProperties
    <2>4. Head(todo) = todo[1]
      BY <1>2
    <2> QED
      BY <2>1, <2>2, <2>3, <2>4
  <1>4. /\ rows \in Seq(Located)
        /\ \A i \in DOMAIN rows : \/ i \in DOMAIN at[t].rows /\ rows[i] = at[t].rows[i]
                                  \/ rows[i].rid = Head(todo)
    BY <1>1, <1>3, FoundType
  <1>5. \A i \in DOMAIN rows : rows[i].rid \in DOMAIN heap
    BY <1>2, <1>3, <1>4 DEF RowsKnown, StepRows
  <1> HIDE DEF rows, todo
  <1>6. next = [do |-> "scan", stmt |-> at[t].stmt, todo |-> Tail(todo), got |-> <<>>,
                rows |-> rows]
    BY <1>1 DEF Scan, rows, todo
  <1>7. at[t].stmt \in Scanning /\ \A i \in DOMAIN Tail(todo) : Tail(todo)[i] \in DOMAIN heap
    BY <1>1, <1>2, <1>3 DEF Scan
  <1> DEFINE s == [do |-> "scan", stmt |-> at[t].stmt, todo |-> Tail(todo), got |-> <<>>,
                   rows |-> rows]
  <1>8. s \in Step /\ StepRows(s)
    BY <1>3, <1>4, <1>5, <1>7, ScanStep
  <1> HIDE DEF s
  <1>9. next = s
    BY <1>6 DEF s
  <1> QED
    BY <1>8, <1>9

LEMMA VisitType ==
    ASSUME TypeOK, RowsKnown, NEW t \in Txn, Visit(t)
    PROVE  TypeOK' /\ RowsKnown'
  <1> DEFINE r == Head(at[t].todo)
  <1>1. at[t].do = "scan" /\ at[t].todo # <<>> /\ at[t].got = <<>>
    BY DEF Visit
  <1>2. at[t] \in Scan
    BY <1>1, StepFields DEF TypeOK
  <1>3. CASE Goto(t, [at[t] EXCEPT !.todo = Tail(@), !.rows = Found(t, r, Base(r))])
    <2>1. PICK next : next = [at[t] EXCEPT !.todo = Tail(@), !.got = <<>>,
                                           !.rows = Found(t, r, Base(r))]
      OBVIOUS
    <2>2. next = [at[t] EXCEPT !.todo = Tail(@), !.rows = Found(t, r, Base(r))]
      BY <1>1, <1>2, <2>1 DEF Scan
    <2>3. next \in Step /\ StepRows(next)
      BY <1>1, <2>1, SeenType
    <2> QED
      BY <1>3, <2>2, <2>3, StillOthers DEF Visit, table
  <1>4. CASE Goto(t, [at[t] EXCEPT !.got = <<Base(r)>>])
    <2>1. PICK next : next = [at[t] EXCEPT !.got = <<Base(r)>>]
      OBVIOUS
    <2>2. r \in DOMAIN heap
      <3>1. 1 \in DOMAIN at[t].todo /\ r = at[t].todo[1]
        BY <1>1, <1>2, LenProperties, EmptySeq DEF Scan
      <3> QED
        BY <1>1, <3>1 DEF RowsKnown, StepRows
    <2>3. <<Base(r)>> \in Seq(Version)
      BY <2>2, RowType
    <2>4. next \in Scan
      BY <1>2, <2>1, <2>3 DEF Scan
    <2>5. StepRows(next)
      <3>1. next.do = "scan" /\ next.todo = at[t].todo /\ next.rows = at[t].rows
        BY <1>1, <1>2, <2>1 DEF Scan
      <3> QED
        BY <1>1, <3>1 DEF RowsKnown, StepRows
    <2> QED
      BY <1>4, <2>1, <2>4, <2>5, StillOthers DEF Visit, table, Step
  <1> QED
    BY <1>3, <1>4 DEF Visit

LEMMA CollectType ==
    ASSUME TypeOK, RowsKnown, NEW t \in Txn, Collect(t)
    PROVE  TypeOK' /\ RowsKnown'
  <1>1. PICK next : next = [at[t] EXCEPT !.todo = Tail(@), !.got = <<>>,
                               !.rows = Found(t, Head(at[t].todo), at[t].got[1])]
    BY SMTT(30)
  <1>2. next \in Step /\ StepRows(next)
    BY <1>1, SeenType DEF Collect, RowsKnown, StepRows
  <1> QED
    BY <1>1, <1>2, StillOthers DEF Collect, table

LEMMA RestStep ==
    ASSUME NEW mods \in Seq(Change), NEW rows \in Seq(Tuple),
           \A i \in DOMAIN mods : mods[i].rid \in DOMAIN heap
    PROVE  Rest(mods, rows) \in Step /\ StepRows(Rest(mods, rows))
  <1>1. StepRows(Rest(mods, rows))
    BY DEF Rest, StepRows, Idle
  <1> QED
    BY <1>1, RestType

LEMMA EndScanType ==
    ASSUME TypeOK, RowsKnown, NEW t \in Txn, EndScan(t)
    PROVE  TypeOK' /\ RowsKnown'
  <1> DEFINE s == at[t].stmt
             changed == IF s.kind = "select" THEN <<>> ELSE at[t].rows
             moved == {i \in DOMAIN changed : s.kind = "update" /\ Moves(changed[i], s.set)}
             Target(row) == CASE s.kind = "delete" -> Deleted
                              [] OTHER -> IF Moves(row, s.set) THEN Deleted
                                          ELSE Overlay(s.set, row.tuple)
             mods == [i \in DOMAIN changed |->
                         [rid |-> changed[i].rid, target |-> Target(changed[i])]]
             rows(order) == [n \in DOMAIN order |-> Overlay(s.set, changed[order[n]].tuple)]
  <1>1. PICK order \in Ascending(moved) : Goto(t, Rest(mods, rows(order)))
    BY DEF EndScan
  <1>2. /\ s \in Scanning
        /\ at[t].rows \in Seq(Located)
        /\ \A i \in DOMAIN at[t].rows : at[t].rows[i].rid \in DOMAIN heap
    <2>1. at[t].do = "scan" /\ at[t] \in Scan
      BY StepFields DEF EndScan, Drained, TypeOK
    <2> QED
      BY <2>1 DEF Scan, Located, RowsKnown, StepRows
  <1>3. /\ s.kind \in {"select", "delete", "update"}
        /\ s.kind = "update" => s.set \in Fields
    BY <1>2, ScanningFields
  <1>4. /\ changed \in Seq(Located)
        /\ \A i \in DOMAIN changed : changed[i].rid \in DOMAIN heap
        /\ s.kind = "select" => changed = <<>>
    BY <1>2
  <1> HIDE DEF changed, s
  <1>5. /\ Len(changed) \in Nat /\ DOMAIN changed = 1..Len(changed)
        /\ \A i \in DOMAIN changed : changed[i] \in Located
    BY <1>4, LenProperties, ElementOfSeq
  <1>6. \A i \in DOMAIN changed : Target(changed[i]) \in Tuple \cup {Deleted}
    <2>1. SUFFICES ASSUME NEW i \in DOMAIN changed
                   PROVE  Target(changed[i]) \in Tuple \cup {Deleted}
      OBVIOUS
    <2>2. changed[i].tuple \in Tuple
      BY <1>5 DEF Located
    <2>3. s.kind # "select"
      BY <1>4, <1>5
    <2>4. s.kind = "update" => Overlay(s.set, changed[i].tuple) \in Tuple
      BY <1>3, <2>2, OverlayType
    <2> QED
      BY <1>3, <2>3, <2>4
  <1> HIDE DEF Target
  <1>7. /\ mods \in Seq(Change)
        /\ \A i \in DOMAIN mods : mods[i].rid \in DOMAIN heap
    <2>1. mods \in [1..Len(changed) -> Change]
      BY <1>5, <1>6 DEF Located, Change
    <2> QED
      BY <1>4, <1>5, <2>1, SeqDef
  <1>8. rows(order) \in Seq(Tuple)
    <2>1. IsFiniteSet(DOMAIN changed)
      BY <1>5, FS_Interval
    <2>2. Cardinality(moved) \in Nat
      BY <2>1, FS_Subset, FS_CardinalityType
    <2>3. order \in [1..Cardinality(moved) -> moved]
      BY DEF Ascending, Orders
    <2>4. \A n \in DOMAIN order : Overlay(s.set, changed[order[n]].tuple) \in Tuple
      <3>1. SUFFICES ASSUME NEW n \in DOMAIN order
                     PROVE  Overlay(s.set, changed[order[n]].tuple) \in Tuple
        OBVIOUS
      <3>2. order[n] \in DOMAIN changed /\ s.kind = "update"
        BY <2>3
      <3>3. changed[order[n]].tuple \in Tuple /\ s.set \in Fields
        BY <1>3, <1>5, <3>2 DEF Located
      <3> QED
        BY <3>3, OverlayType
    <2> HIDE DEF moved
    <2>5. rows(order) \in [1..Cardinality(moved) -> Tuple]
      BY <2>3, <2>4
    <2> QED
      BY <2>2, <2>5, SeqDef
  <1> HIDE DEF mods, rows
  <1>9. PICK next : next = Rest(mods, rows(order))
    OBVIOUS
  <1>10. next \in Step /\ StepRows(next)
    BY <1>7, <1>8, <1>9, RestStep
  <1> QED
    BY <1>1, <1>9, <1>10, StillOthers DEF EndScan, table

LEMMA StartInsertType ==
    ASSUME TypeOK, RowsKnown, NEW t \in Txn, StartInsert(t)
    PROVE  TypeOK' /\ RowsKnown'
  <1>1. Head(program[t].todo).rows \in Seq(Tuple)
    BY TodoType, CommandFields DEF StartInsert
  <1>2. PICK next : next = Rest(<<>>, Head(program[t].todo).rows)
    OBVIOUS
  <1>3. next \in Step /\ StepRows(next)
    <2>1. <<>> \in Seq(Change) /\ \A i \in DOMAIN <<>> : <<>>[i].rid \in DOMAIN heap
      OBVIOUS
    <2> QED
      BY <1>1, <1>2, <2>1, RestStep
  <1>4. /\ program' \in [Txn -> [level : Level, todo : Seq(Command)]]
        /\ commit_mutex' \in Txn \cup {NoTxn}
        /\ UNCHANGED <<heap, undo_link, index, txn_map, next_txn_id, last_commit_ts, running_txns>>
    BY TodoType DEF StartInsert, table, Others, TypeOK
  <1> QED
    BY <1>2, <1>3, <1>4, StillTxns DEF StartInsert

\* A thread that is about to place a row has one.
LEMMA PlaceFields ==
    ASSUME TypeOK, RowsKnown, NEW t \in Txn,
           \/ at[t].do \in {"append", "revive", "enter"}
           \/ at[t].do = "modify" /\ at[t].mods = <<>>
    PROVE  /\ at[t].rows \in Seq(Tuple)
           /\ Head(at[t].rows) \in Tuple /\ Head(at[t].rows).id \in Key
           /\ Tail(at[t].rows) \in Seq(Tuple)
  <1>1. at[t].rows \in Seq(Tuple) /\ at[t].rows # <<>>
    BY StepFields DEF TypeOK, Place, Apply, RowsKnown, StepRows
  <1>2. Head(at[t].rows) \in Tuple /\ Tail(at[t].rows) \in Seq(Tuple)
    BY <1>1, HeadTailProperties
  <1> QED
    BY <1>1, <1>2 DEF Tuple

LEMMA LookUpKeyType ==
    ASSUME TypeOK, RowsKnown, NEW t \in Txn, LookUpKey(t)
    PROVE  TypeOK' /\ RowsKnown'
  <1>1. PICK r : r = index[Head(at[t].rows).id]
    OBVIOUS
  <1>2. /\ at[t].rows \in Seq(Tuple) /\ at[t].rows # <<>>
        /\ r \in {NoRid} \cup DOMAIN heap
    BY <1>1, PlaceFields DEF LookUpKey, TypeOK, RowsKnown, StepRows
  <1>3. PICK next : next = [do |-> IF r = NoRid THEN "append" ELSE "revive", rid |-> r,
                            rows |-> at[t].rows]
    OBVIOUS
  <1>4. next \in Step /\ StepRows(next)
    <2>1. r \in Rid \cup {NoRid}
      BY <1>2, HeapDomain
    <2>2. next \in Place
      BY <1>2, <1>3, <2>1 DEF Place
    <2>3. StepRows(next)
      BY <1>2, <1>3 DEF StepRows
    <2> QED
      BY <2>2, <2>3 DEF Step
  <1> QED
    BY <1>1, <1>3, <1>4, StillOthers DEF LookUpKey, table

LEMMA JoinType ==
    ASSUME TypeOK, RowsKnown, NEW t \in Txn, Join(t)
    PROVE  TypeOK' /\ RowsKnown'
  <1>1. ASSUME NEW k \in Joining, StartJoin(t, k)
        PROVE  TypeOK' /\ RowsKnown'
    <2>1. PICK next : next = [do |-> "join", key |-> k]
      OBVIOUS
    <2>2. next \in Step /\ StepRows(next)
      BY <1>1, <2>1, JoiningAssumption DEF StartJoin, StepRows, Step, Probe
    <2> QED
      BY <1>1, <2>1, <2>2, StillOthers DEF StartJoin, table
  <1>2. CASE JoinRead(t)
    <2> DEFINE row == heap[index[at[t].key]]
    <2>1. PICK next : next = [do |-> "joined", key |-> at[t].key,
                              found |-> IF row.deleted THEN {} ELSE {row.tuple}]
      OBVIOUS
    <2>2. at[t].key \in Key /\ index[at[t].key] \in DOMAIN heap
      BY <1>2, StepFields DEF JoinRead, TypeOK, RowsKnown, StepRows
    <2>3. row.tuple \in Tuple
      BY <2>2, RowType
    <2>4. next \in Step /\ StepRows(next)
      <3>1. (IF row.deleted THEN {} ELSE {row.tuple}) \in SUBSET Tuple
        BY <2>3
      <3> HIDE DEF row
      <3> QED
        BY <2>1, <2>2, <3>1 DEF StepRows, Step, Probe
    <2> QED
      BY <1>2, <2>1, <2>4, StillOthers DEF JoinRead, table
  <1>3. CASE EndJoin(t)
    <2>1. Idle \in Step /\ StepRows(Idle)
      BY DEF Step, StepRows, Idle
    <2> QED
      BY <1>3, <2>1, StillOthers DEF EndJoin, table
  <1> QED
    BY <1>1, <1>2, <1>3 DEF Join

\* The rows of a write set, or of a verification, are rows of the heap.
LEMMA SweepStep ==
    ASSUME TypeOK, NEW todo \in SUBSET (DOMAIN heap), NEW do \in {"stamp", "abort"}
    PROVE  /\ [do |-> do, todo |-> todo] \in Step
           /\ StepRows([do |-> do, todo |-> todo])
  <1>1. todo \in SUBSET Rid
    BY HeapDomain
  <1>2. StepRows([do |-> do, todo |-> todo])
    BY DEF StepRows
  <1> QED
    BY <1>1, <1>2 DEF Step, Sweep

LEMMA CheckStep ==
    ASSUME TypeOK, NEW todo \in SUBSET (DOMAIN heap), NEW got \in Seq(Version)
    PROVE  /\ [do |-> "verify", todo |-> todo, got |-> got] \in Step
           /\ StepRows([do |-> "verify", todo |-> todo, got |-> got])
  <1>1. todo \in SUBSET Rid
    BY HeapDomain
  <1>2. StepRows([do |-> "verify", todo |-> todo, got |-> got])
    BY DEF StepRows
  <1> QED
    BY <1>1, <1>2 DEF Step, Check

LEMMA VerifyingStep ==
    ASSUME TypeOK, RowsKnown, NEW t \in DOMAIN txn_map, NEW todo \in SUBSET (DOMAIN heap)
    PROVE  Verifying(t, todo) \in Step /\ StepRows(Verifying(t, todo))
  <1>1. txn_map[t].write_set \in SUBSET (DOMAIN heap)
    BY DEF RowsKnown
  <1>2. CASE todo = {}
    BY <1>1, <1>2, SweepStep DEF Verifying
  <1>3. CASE todo # {}
    <2>1. <<>> \in Seq(Version)
      OBVIOUS
    <2> QED
      BY <1>3, <2>1, CheckStep DEF Verifying
  <1> QED
    BY <1>2, <1>3

LEMMA StartCommitType ==
    ASSUME TypeOK, RowsKnown, NEW t \in Txn, StartCommit(t)
    PROVE  TypeOK' /\ RowsKnown'
  <1>1. PICK next : next = Verifying(t, Unverified(t))
    OBVIOUS
  <1>2. Unverified(t) \in SUBSET (DOMAIN heap) /\ t \in DOMAIN txn_map
    BY RunsIsActive DEF Unverified, ChangedSince, RowsKnown, StartCommit
  <1>3. next \in Step /\ StepRows(next)
    BY <1>1, <1>2, VerifyingStep
  <1>4. /\ program' \in [Txn -> [level : Level, todo : Seq(Command)]]
        /\ commit_mutex' \in Txn \cup {NoTxn}
        /\ UNCHANGED <<heap, undo_link, index, txn_map, next_txn_id, last_commit_ts, running_txns>>
    BY DEF StartCommit, table, TypeOK
  <1> QED
    BY <1>1, <1>3, <1>4, StillTxns DEF StartCommit

LEMMA FetchType ==
    ASSUME TypeOK, RowsKnown, NEW t \in Txn, Fetch(t)
    PROVE  TypeOK' /\ RowsKnown'
  <1>1. PICK r \in at[t].todo :
           Goto(t, [do |-> "verify", todo |-> at[t].todo \ {r}, got |-> <<Base(r)>>])
    BY DEF Fetch
  <1>2. at[t] \in Check /\ at[t].todo \in SUBSET (DOMAIN heap) /\ at[t].do = "verify"
    BY StepFields DEF Fetch, TypeOK, RowsKnown, StepRows
  <1>3. <<Base(r)>> \in Seq(Version)
    BY <1>2, RowType
  <1> DEFINE s == [do |-> "verify", todo |-> at[t].todo \ {r}, got |-> <<Base(r)>>]
  <1>4. s \in Step /\ StepRows(s)
    BY <1>2, <1>3, CheckStep
  <1>5. PICK next : next = s
    OBVIOUS
  <1> QED
    BY <1>1, <1>4, <1>5, StillOthers DEF Fetch, table

LEMMA VerifyRowType ==
    ASSUME TypeOK, RowsKnown, BusyActive, NEW t \in Txn, VerifyRow(t)
    PROVE  TypeOK' /\ RowsKnown'
  <1>1. t \in DOMAIN txn_map
    BY AtWork DEF VerifyRow
  <1>2. at[t].todo \in SUBSET (DOMAIN heap) /\ txn_map[t].write_set \in SUBSET (DOMAIN heap)
    BY <1>1 DEF VerifyRow, RowsKnown, StepRows
  <1>3. PICK next : /\ Goto(t, next)
                    /\ \/ next = [do |-> "abort", todo |-> txn_map[t].write_set]
                       \/ next = Verifying(t, at[t].todo)
    BY DEF VerifyRow
  <1>4. next \in Step /\ StepRows(next)
    BY <1>1, <1>2, <1>3, SweepStep, VerifyingStep
  <1>5. /\ program' \in [Txn -> [level : Level, todo : Seq(Command)]]
        /\ commit_mutex' \in Txn \cup {NoTxn}
        /\ UNCHANGED <<heap, undo_link, index, txn_map, next_txn_id, last_commit_ts, running_txns>>
    BY DEF VerifyRow, table, TypeOK
  <1> QED
    BY <1>3, <1>4, <1>5, StillTxns

LEMMA StartAbortType ==
    ASSUME TypeOK, RowsKnown, NEW t \in Txn, StartAbort(t)
    PROVE  TypeOK' /\ RowsKnown'
  <1>1. txn_map[t].write_set \in SUBSET (DOMAIN heap)
    BY DEF StartAbort, Active, RowsKnown
  <1>2. PICK next : next = [do |-> "abort", todo |-> txn_map[t].write_set]
    OBVIOUS
  <1>3. next \in Step /\ StepRows(next)
    BY <1>1, <1>2, SweepStep
  <1>4. /\ program' \in [Txn -> [level : Level, todo : Seq(Command)]]
        /\ commit_mutex' \in Txn \cup {NoTxn}
        /\ UNCHANGED <<heap, undo_link, index, txn_map, next_txn_id, last_commit_ts, running_txns>>
    <2>1. program' = [program EXCEPT ![t].todo = <<>>] /\ <<>> \in Seq(Command)
      BY DEF StartAbort
    <2>2. program' \in [Txn -> [level : Level, todo : Seq(Command)]]
      BY <2>1 DEF TypeOK
    <2> QED
      BY <2>2 DEF StartAbort, table, Others, TypeOK
  <1> QED
    BY <1>2, <1>3, <1>4, StillTxns DEF StartAbort

Row == [tuple : Tuple, ts : Nat, deleted : BOOLEAN]

\* A step that writes the table: rows stay, and keys stay in the index.
LEMMA TableStep ==
    ASSUME TypeOK, RowsKnown, NEW t \in Txn, NEW next \in Step, StepRows(next)', Goto(t, next),
           heap' \in Seq(Row), DOMAIN heap \subseteq DOMAIN heap', Len(heap') <= MaxRows,
           undo_link' \in [Rid -> Link],
           index' \in [Key -> {NoRid} \cup DOMAIN heap'],
           \A k \in Key : index[k] # NoRid => index'[k] # NoRid,
           DOMAIN txn_map' = DOMAIN txn_map,
           \A u \in DOMAIN txn_map :
              txn_map'[u] \in Transaction /\ txn_map'[u].write_set \subseteq DOMAIN heap',
           UNCHANGED <<Others, program>>
    PROVE  TypeOK' /\ RowsKnown'
  <1>1. at' \in [Txn -> Step] /\ at'[t] = next /\ \A u \in Txn : u # t => at'[u] = at[u]
    BY GotoMoves
  <1>2. TypeOK'
    BY <1>1 DEF TypeOK, Others, Row
  <1>3. ASSUME NEW u \in Txn, u # t PROVE StepRows(at[u])'
    <2>1. at'[u] = at[u] /\ at[u] \in Step
      BY <1>1, <1>3 DEF TypeOK
    <2>2. at[u].do = "join" => at[u].key \in Key
      BY <2>1, StepFields
    <2>3. StepRows(at[u])
      BY DEF RowsKnown
    <2> PICK s : s = at[u]
      OBVIOUS
    <2>4. StepRows(s)'
      BY <2>2, <2>3 DEF StepRows
    <2> QED
      BY <2>1, <2>4
  <1>4. StepRows(at[t])'
    BY <1>1
  <1> QED
    BY <1>2, <1>3, <1>4 DEF RowsKnown

LEMMA ConflictType ==
    ASSUME TypeOK, RowsKnown, NEW t \in DOMAIN txn_map, ThrowWriteConflict(t),
           UNCHANGED <<Others, program>>
    PROVE  TypeOK' /\ RowsKnown'
  <1>1. \A u \in DOMAIN txn_map :
           txn_map[u] \in Transaction /\ txn_map[u].write_set \subseteq DOMAIN heap
    BY DEF TypeOK, RowsKnown
  <1>2. /\ DOMAIN txn_map' = DOMAIN txn_map
        /\ \A u \in DOMAIN txn_map :
              txn_map'[u] \in Transaction /\ txn_map'[u].write_set \subseteq DOMAIN heap
    BY <1>1 DEF ThrowWriteConflict, Transaction
  <1>3. Idle \in Step /\ StepRows(Idle)
    BY DEF Step, StepRows, Idle
  <1>4. t \in Txn
    BY TransactionFields
  <1>5. /\ program' \in [Txn -> [level : Level, todo : Seq(Command)]]
        /\ commit_mutex' \in Txn \cup {NoTxn}
        /\ UNCHANGED <<heap, undo_link, index, next_txn_id, last_commit_ts, running_txns>>
    BY DEF ThrowWriteConflict, table, Others, TypeOK
  <1>6. Goto(t, Idle)
    BY DEF ThrowWriteConflict
  <1> QED
    BY <1>2, <1>3, <1>4, <1>5, <1>6, StillTable

WithLogs(x, logs, w) == [x EXCEPT !.undo_logs = logs, !.write_set = w]

LEMMA NewLogsType ==
    ASSUME NEW x \in Transaction, NEW logs \in Seq(UndoLog), NEW w \in SUBSET Rid
    PROVE  WithLogs(x, logs, w) \in Transaction /\ WithLogs(x, logs, w).write_set = w
  BY DEF Transaction, WithLogs

\* A changed row, and the transaction that changed it.
LEMMA ModifyTupleType ==
    ASSUME TypeOK, RowsKnown, LinksKnown, NEW t \in DOMAIN txn_map, NEW r \in DOMAIN heap,
           NEW target \in Tuple \cup {Deleted}, NEW dead, NEW next \in Step, StepRows(next),
           ModifyTuple(t, r, target, dead, next), UNCHANGED <<Others, program>>
    PROVE  TypeOK' /\ RowsKnown'
  <1>1. CASE Conflicts(t, r, dead)
    BY <1>1, ConflictType DEF ModifyTuple
  <1>2. CASE ~Conflicts(t, r, dead)
    <2> DEFINE new == Logged(t, r, target)
               row == [tuple |-> IF target = Deleted THEN heap[r].tuple ELSE target,
                       ts |-> t, deleted |-> target = Deleted]
    <2>1. /\ heap' = [heap EXCEPT ![r] = row]
          /\ undo_link' = [undo_link EXCEPT ![r] = new.link]
          /\ txn_map' = [txn_map EXCEPT ![t].undo_logs = new.logs,
                                        ![t].write_set = @ \cup {r}]
          /\ Goto(t, next)
          /\ index' = index
      BY <1>2 DEF ModifyTuple
    <2>2. r \in Rid /\ heap[r] \in Row /\ t \in Txn /\ t \in Nat
      BY RowType, TransactionFields, TxnFacts DEF Row
    <2>3. row \in Row
      BY <2>2 DEF Row
    <2>4. new.logs \in Seq(UndoLog) /\ new.link \in Link
      BY LoggedLogs
    <2> HIDE DEF row, new
    <2>5. heap' \in Seq(Row) /\ DOMAIN heap' = DOMAIN heap /\ Len(heap') = Len(heap)
      <3>1. heap \in Seq(Row) /\ r \in 1..Len(heap)
        BY HeapDomain DEF TypeOK, Row
      <3>2. /\ [heap EXCEPT ![r] = row] \in Seq(Row)
            /\ Len([heap EXCEPT ![r] = row]) = Len(heap)
        BY <2>3, <3>1, ExceptSeq
      <3> QED
        BY <2>1, <3>1, <3>2, LenProperties
    <2>6. undo_link' \in [Rid -> Link]
      BY <2>1, <2>2, <2>4 DEF TypeOK
    <2>7. /\ DOMAIN txn_map' = DOMAIN txn_map
          /\ \A u \in DOMAIN txn_map :
                txn_map'[u] \in Transaction /\ txn_map'[u].write_set \subseteq DOMAIN heap
      <3>1. \A u \in DOMAIN txn_map :
               txn_map[u] \in Transaction /\ txn_map[u].write_set \subseteq DOMAIN heap
        BY DEF TypeOK, RowsKnown
      <3>2. /\ DOMAIN txn_map' = DOMAIN txn_map
            /\ \A u \in DOMAIN txn_map \ {t} : txn_map'[u] = txn_map[u]
        BY <2>1
      <3>3. txn_map'[t] = [txn_map[t] EXCEPT !.undo_logs = new.logs,
                                             !.write_set = txn_map[t].write_set \cup {r}]
        BY <2>1, <3>1 DEF Transaction
      <3>4. txn_map'[t] \in Transaction /\ txn_map'[t].write_set \subseteq DOMAIN heap
        <4>1. PICK w : w = txn_map[t].write_set \cup {r}
          OBVIOUS
        <4>2. w \in SUBSET Rid /\ w \subseteq DOMAIN heap
          BY <2>2, <3>1, <4>1, TransactionFields
        <4> DEFINE y == WithLogs(txn_map[t], new.logs, w)
        <4>3. y \in Transaction /\ y.write_set = w
          BY <2>4, <3>1, <4>2, NewLogsType
        <4>4. txn_map'[t] = y
          BY <3>3, <4>1 DEF WithLogs
        <4> HIDE DEF y
        <4> QED
          BY <4>2, <4>3, <4>4
      <3> QED
        BY <3>1, <3>2, <3>4
    <2>8. index' \in [Key -> {NoRid} \cup DOMAIN heap']
      BY <2>1, <2>5 DEF TypeOK
    <2>9. StepRows(next)'
      BY <2>1, <2>5 DEF StepRows
    <2>10. Len(heap') <= MaxRows
      BY <2>5 DEF TypeOK
    <2> QED
      BY <2>1, <2>2, <2>5, <2>6, <2>7, <2>8, <2>9, <2>10, TableStep
  <1> QED
    BY <1>1, <1>2

LEMMA ModifyType ==
    ASSUME TypeOK, RowsKnown, LinksKnown, BusyActive, NEW t \in Txn, Modify(t)
    PROVE  TypeOK' /\ RowsKnown'
  <1> DEFINE mods == at[t].mods
             m    == Head(mods)
  <1>1. t \in DOMAIN txn_map /\ at[t].do = "modify" /\ mods # <<>>
    BY AtWork DEF Modify
  <1>2. /\ mods \in Seq(Change) /\ at[t].rows \in Seq(Tuple)
        /\ \A i \in DOMAIN mods : mods[i].rid \in DOMAIN heap
    <2>1. at[t] \in Apply
      BY <1>1, StepFields DEF TypeOK
    <2>2. \A i \in DOMAIN at[t].mods : at[t].mods[i].rid \in DOMAIN heap
      BY <1>1 DEF RowsKnown, StepRows
    <2> QED
      BY <2>1, <2>2 DEF Apply, Change
  <1>3. ModifyTuple(t, m.rid, m.target, FALSE, Rest(Tail(mods), at[t].rows))
    BY DEF Modify
  <1> HIDE DEF mods
  <1>4. /\ m \in Change /\ m.rid \in DOMAIN heap
        /\ Tail(mods) \in Seq(Change)
        /\ \A i \in DOMAIN Tail(mods) : Tail(mods)[i].rid \in DOMAIN heap
    <2>1. Len(mods) \in Nat /\ Len(mods) > 0 /\ DOMAIN mods = 1..Len(mods)
      BY <1>1, <1>2, LenProperties, EmptySeq
    <2>2. /\ m \in Change /\ Tail(mods) \in Seq(Change) /\ Len(Tail(mods)) = Len(mods) - 1
          /\ \A i \in 1..Len(Tail(mods)) : Tail(mods)[i] = mods[i + 1]
      BY <1>1, <1>2, HeadTailProperties
    <2>3. DOMAIN Tail(mods) = 1..Len(mods) - 1
      BY <2>2, LenProperties
    <2>4. m = mods[1]
      BY <1>2
    <2> QED
      BY <1>2, <2>1, <2>2, <2>3, <2>4
  <1>5. m.target \in Tuple \cup {Deleted}
    BY <1>4 DEF Change
  <1>6. PICK next : next = Rest(Tail(mods), at[t].rows)
    OBVIOUS
  <1>7. next \in Step /\ StepRows(next)
    BY <1>2, <1>4, <1>6, RestStep
  <1>8. PICK r, target : r = m.rid /\ target = m.target
    OBVIOUS
  <1> QED
    BY <1>1, <1>3, <1>4, <1>5, <1>6, <1>7, <1>8, ModifyTupleType DEF Modify

\* The rows that are left after one has been placed.
LEMMA NextRowStep ==
    ASSUME TypeOK, RowsKnown, NEW t \in Txn, at[t].do \in {"append", "revive", "enter"}
    PROVE  NextRow(t) \in Step /\ StepRows(NextRow(t))
  <1>1. Tail(at[t].rows) \in Seq(Tuple)
    BY PlaceFields
  <1>2. <<>> \in Seq(Change) /\ \A i \in DOMAIN <<>> : <<>>[i].rid \in DOMAIN heap
    OBVIOUS
  <1> QED
    BY <1>1, <1>2, RestStep DEF NextRow

LEMMA ReviveType ==
    ASSUME TypeOK, RowsKnown, LinksKnown, BusyActive, NEW t \in Txn, Revive(t)
    PROVE  TypeOK' /\ RowsKnown'
  <1>1. t \in DOMAIN txn_map /\ at[t].do = "revive"
    BY AtWork DEF Revive
  <1>2. PICK r, target, next : r = at[t].rid /\ target = Head(at[t].rows) /\ next = NextRow(t)
    OBVIOUS
  <1>3. r \in DOMAIN heap /\ target \in Tuple /\ next \in Step /\ StepRows(next)
    BY <1>1, <1>2, PlaceFields, NextRowStep DEF RowsKnown, StepRows
  <1>4. ModifyTuple(t, r, target, TRUE, next) /\ UNCHANGED <<Others, program>>
    BY <1>2 DEF Revive
  <1> QED
    BY <1>1, <1>3, <1>4, ModifyTupleType

LEMMA AppendRowType ==
    ASSUME TypeOK, RowsKnown, BusyActive, NEW t \in Txn, AppendRow(t)
    PROVE  TypeOK' /\ RowsKnown'
  <1> DEFINE row == [tuple |-> Head(at[t].rows), ts |-> t, deleted |-> FALSE]
             r   == Len(heap) + 1
  <1>1. t \in DOMAIN txn_map /\ at[t].do = "append" /\ at[t] \in Place
    BY AtWork, StepFields DEF AppendRow, TypeOK
  <1>2. /\ heap' = Append(heap, row) /\ Len(heap) < MaxRows
        /\ txn_map' = [txn_map EXCEPT ![t].write_set = @ \cup {r}]
        /\ UNCHANGED <<undo_link, index, Others, program>>
    BY DEF AppendRow
  <1>3. row \in Row
    BY <1>1, PlaceFields, TxnFacts DEF Row
  <1>4. /\ heap \in Seq(Row) /\ DOMAIN heap = 1..Len(heap) /\ Len(heap) \in Nat
    BY HeapDomain DEF TypeOK, Row
  <1> HIDE DEF row
  <1>5. /\ heap' \in Seq(Row) /\ Len(heap') = Len(heap) + 1
        /\ DOMAIN heap' = 1..Len(heap) + 1
    BY <1>2, <1>3, <1>4, LenProperties
  <1>6. /\ DOMAIN heap \subseteq DOMAIN heap' /\ r \in DOMAIN heap' /\ r \in Rid
        /\ Len(heap') <= MaxRows
    BY <1>2, <1>4, <1>5, BoundsAssumption DEF Rid
  <1>7. PICK next : next = [at[t] EXCEPT !.do = "enter", !.rid = r]
    OBVIOUS
  <1>8. next.do = "enter" /\ next.rid = r /\ next.rows = at[t].rows /\ next \in Place
    BY <1>1, <1>6, <1>7 DEF Place
  <1>9. next \in Step /\ StepRows(next)'
    <2>1. at[t].rows # <<>>
      BY <1>1 DEF RowsKnown, StepRows
    <2>2. StepRows(next)'
      BY <1>6, <1>8, <2>1 DEF StepRows
    <2> QED
      BY <1>8, <2>2 DEF Step
  <1>10. /\ DOMAIN txn_map' = DOMAIN txn_map
         /\ \A u \in DOMAIN txn_map :
               txn_map'[u] \in Transaction /\ txn_map'[u].write_set \subseteq DOMAIN heap'
    <2>1. \A u \in DOMAIN txn_map :
             txn_map[u] \in Transaction /\ txn_map[u].write_set \subseteq DOMAIN heap
      BY DEF TypeOK, RowsKnown
    <2> HIDE DEF r
    <2> QED
      BY <1>2, <1>6, <2>1 DEF Transaction
  <1>11. index' \in [Key -> {NoRid} \cup DOMAIN heap']
    BY <1>2, <1>6 DEF TypeOK
  <1>12. Goto(t, next)
    BY <1>7 DEF AppendRow
  <1>13. undo_link' \in [Rid -> Link] /\ UNCHANGED <<Others, program>>
    BY <1>2 DEF TypeOK
  <1> QED
    BY <1>2, <1>5, <1>6, <1>9, <1>10, <1>11, <1>12, <1>13, TableStep

LEMMA EnterKeyType ==
    ASSUME TypeOK, RowsKnown, BusyActive, NEW t \in Txn, EnterKey(t)
    PROVE  TypeOK' /\ RowsKnown'
  <1> DEFINE k == Head(at[t].rows).id
  <1>1. t \in DOMAIN txn_map /\ at[t].do = "enter" /\ k \in Key
    BY AtWork, PlaceFields DEF EnterKey
  <1>2. CASE ThrowWriteConflict(t)
    BY <1>1, <1>2, ConflictType DEF EnterKey
  <1>3. CASE /\ index[k] = NoRid
             /\ index' = [index EXCEPT ![k] = at[t].rid]
             /\ Goto(t, NextRow(t))
             /\ UNCHANGED <<heap, undo_link, txn_map>>
    <2>1. at[t].rid \in DOMAIN heap
      BY <1>1 DEF RowsKnown, StepRows
    <2>2. index' \in [Key -> {NoRid} \cup DOMAIN heap']
      BY <1>3, <2>1 DEF TypeOK
    <2>3. \A j \in Key : index[j] # NoRid => index'[j] # NoRid
      BY <1>1, <1>3 DEF TypeOK
    <2>4. PICK next : next = NextRow(t)
      OBVIOUS
    <2>5. next \in Step /\ StepRows(next)
      BY <1>1, <2>4, NextRowStep
    <2>6. next.do # "join"
      BY <2>4 DEF NextRow, Rest, Idle
    <2>7. StepRows(next)'
      BY <1>3, <2>5, <2>6 DEF StepRows
    <2>8. \A u \in DOMAIN txn_map :
             txn_map[u] \in Transaction /\ txn_map[u].write_set \subseteq DOMAIN heap
      BY DEF TypeOK, RowsKnown
    <2>9. /\ heap' \in Seq(Row) /\ Len(heap') <= MaxRows /\ undo_link' \in [Rid -> Link]
          /\ UNCHANGED <<Others, program>>
      BY <1>3 DEF TypeOK, EnterKey, Row
    <2> QED
      BY <1>3, <2>2, <2>3, <2>4, <2>5, <2>7, <2>8, <2>9, TableStep
  <1> QED
    BY <1>2, <1>3 DEF EnterKey

LEMMA SweepOn ==
    ASSUME TypeOK, RowsKnown, NEW t \in Txn, at[t].do \in {"stamp", "abort"}, NEW r,
           NEW next, next = [at[t] EXCEPT !.todo = @ \ {r}]
    PROVE  /\ at[t].todo \subseteq DOMAIN heap
           /\ next \in Step
           /\ DOMAIN heap' = DOMAIN heap => StepRows(next)'
  <1>1. at[t] \in Sweep /\ at[t].todo \subseteq DOMAIN heap
    BY StepFields DEF TypeOK, RowsKnown, StepRows
  <1>2. next \in Sweep /\ next.todo \subseteq DOMAIN heap /\ next.do = at[t].do
    BY <1>1 DEF Sweep
  <1>3. ASSUME DOMAIN heap' = DOMAIN heap PROVE StepRows(next)'
    BY <1>2, <1>3 DEF StepRows
  <1> QED
    BY <1>1, <1>2, <1>3 DEF Step

\* A row of the heap that gets another version.
LEMMA RowStep ==
    ASSUME TypeOK, RowsKnown, NEW t \in Txn, NEW next \in Step, StepRows(next)', Goto(t, next),
           NEW r \in DOMAIN heap, NEW row \in Row, heap' = [heap EXCEPT ![r] = row] \/ heap' = heap,
           undo_link' \in [Rid -> Link], UNCHANGED <<index, txn_map, Others, program>>
    PROVE  TypeOK' /\ RowsKnown'
  <1>1. heap \in Seq(Row) /\ r \in 1..Len(heap) /\ Len(heap) <= MaxRows
    BY HeapDomain DEF TypeOK, Row
  <1>2. /\ [heap EXCEPT ![r] = row] \in Seq(Row)
        /\ Len([heap EXCEPT ![r] = row]) = Len(heap)
    BY <1>1, ExceptSeq
  <1>3. heap' \in Seq(Row) /\ DOMAIN heap' = DOMAIN heap /\ Len(heap') <= MaxRows
    BY <1>1, <1>2, LenProperties
  <1>4. \A u \in DOMAIN txn_map :
           txn_map[u] \in Transaction /\ txn_map[u].write_set \subseteq DOMAIN heap
    BY DEF TypeOK, RowsKnown
  <1>5. index' \in [Key -> {NoRid} \cup DOMAIN heap']
    BY <1>3 DEF TypeOK
  <1> QED
    BY <1>3, <1>4, <1>5, TableStep

LEMMA StampRowType ==
    ASSUME TypeOK, RowsKnown, NEW t \in Txn, StampRow(t)
    PROVE  TypeOK' /\ RowsKnown'
  <1>1. PICK r \in at[t].todo :
           /\ heap' = IF heap[r].ts = t THEN [heap EXCEPT ![r].ts = last_commit_ts + 1] ELSE heap
           /\ Goto(t, [at[t] EXCEPT !.todo = @ \ {r}])
    BY DEF StampRow
  <1>2. PICK next : next = [at[t] EXCEPT !.todo = @ \ {r}]
    OBVIOUS
  <1>3. next \in Step /\ r \in DOMAIN heap /\ (DOMAIN heap' = DOMAIN heap => StepRows(next)')
    BY <1>1, <1>2, SweepOn DEF StampRow
  <1>4. PICK row : row = [heap[r] EXCEPT !.ts = last_commit_ts + 1]
    OBVIOUS
  <1>5. heap[r] \in Row /\ row \in Row
    <2>1. heap[r] \in Row
      BY <1>3, RowType DEF Row
    <2>2. last_commit_ts + 1 \in Nat
      BY DEF TypeOK
    <2> QED
      BY <1>4, <2>1, <2>2 DEF Row
  <1>6. heap' = [heap EXCEPT ![r] = row] \/ heap' = heap
    BY <1>1, <1>4
  <1>7. DOMAIN heap' = DOMAIN heap
    BY <1>6
  <1>8. undo_link' \in [Rid -> Link] /\ UNCHANGED <<index, txn_map, Others, program>>
    BY DEF StampRow, TypeOK
  <1> QED
    BY <1>1, <1>2, <1>3, <1>5, <1>6, <1>7, <1>8, RowStep

\* The version a transaction gives a row back, with the timestamp of its undo log.
LEMMA RestoredType ==
    ASSUME TypeOK, LinksKnown, NEW t \in DOMAIN txn_map, NEW r \in DOMAIN heap
    PROVE  /\ Restored(t, Base(r)) \in Version
           /\ undo_link[r].txn = t =>
                 /\ undo_link[r].idx \in DOMAIN txn_map[t].undo_logs
                 /\ Restored(t, Base(r)).ts = LogAt(undo_link[r]).ts
                 /\ Restored(t, Base(r)).link = LogAt(undo_link[r]).prev_version
           /\ undo_link[r].txn # t =>
                 Restored(t, Base(r)).ts = 0 /\ Restored(t, Base(r)).link = undo_link[r]
  <1> DEFINE ver == Base(r)
  <1>1. /\ r \in Rid /\ ver \in Version /\ ver.ts = heap[r].ts
        /\ ver.link = undo_link[r] /\ undo_link[r] \in Link
    BY RowType
  <1> HIDE DEF ver
  <1>2. CASE undo_link[r].txn = t
    <2>1. undo_link[r].idx \in DOMAIN txn_map[t].undo_logs
      BY <1>1, <1>2, TransactionFields, TxnFacts DEF LinksKnown, Known, Exists
    <2>2. LogAt(undo_link[r]) \in UndoLog
      BY <1>2, <2>1, TransactionFields, LenProperties, ElementOfSeq DEF LogAt
    <2>3. Restored(t, ver) = Undone(ver, LogAt(undo_link[r]))
      BY <1>1, <1>2 DEF Restored
    <2> QED
      BY <1>1, <1>2, <2>1, <2>2, <2>3, UndoneType DEF ver
  <1>3. CASE undo_link[r].txn # t
    <2>1. Restored(t, ver) = [tuple |-> ver.tuple, ts |-> 0, deleted |-> TRUE, link |-> ver.link]
      BY <1>1, <1>3 DEF Restored
    <2>2. /\ Restored(t, ver) \in Version
          /\ Restored(t, ver).ts = 0 /\ Restored(t, ver).link = ver.link
      BY <1>1, <2>1 DEF Version
    <2> QED
      BY <1>1, <1>3, <2>2 DEF ver
  <1> QED
    BY <1>2, <1>3

LEMMA RestoreRowType ==
    ASSUME TypeOK, RowsKnown, LinksKnown, BusyActive, NEW t \in Txn, RestoreRow(t)
    PROVE  TypeOK' /\ RowsKnown'
  <1>1. t \in DOMAIN txn_map
    BY AtWork DEF RestoreRow
  <1> DEFINE old(r) == Restored(t, Base(r))
             row(r) == [tuple |-> IF old(r).deleted THEN heap[r].tuple ELSE old(r).tuple,
                        ts |-> old(r).ts, deleted |-> old(r).deleted]
  <1>2. PICK r \in at[t].todo :
           /\ Goto(t, [at[t] EXCEPT !.todo = @ \ {r}])
           /\ \/ UNCHANGED <<heap, undo_link>>
              \/ /\ heap' = [heap EXCEPT ![r] = row(r)]
                 /\ undo_link' = [undo_link EXCEPT ![r] = old(r).link]
    BY DEF RestoreRow
  <1>3. PICK next : next = [at[t] EXCEPT !.todo = @ \ {r}]
    OBVIOUS
  <1>4. next \in Step /\ r \in DOMAIN heap /\ (DOMAIN heap' = DOMAIN heap => StepRows(next)')
    BY <1>2, <1>3, SweepOn DEF RestoreRow
  <1>5. old(r) \in Version /\ heap[r] \in Row /\ r \in Rid
    BY <1>1, <1>4, RestoredType, RowType DEF Row
  <1> HIDE DEF old
  <1>6. row(r) \in Row
    BY <1>5 DEF Row, Version
  <1>7. old(r).link \in Link
    BY <1>5 DEF Version
  <1> HIDE DEF row
  <1>8. heap' = [heap EXCEPT ![r] = row(r)] \/ heap' = heap
    BY <1>2
  <1>9. DOMAIN heap' = DOMAIN heap
    BY <1>8
  <1>10. undo_link' \in [Rid -> Link]
    BY <1>2, <1>5, <1>7 DEF TypeOK
  <1>11. UNCHANGED <<index, txn_map, Others, program>>
    BY DEF RestoreRow
  <1>12. PICK new : new = row(r)
    OBVIOUS
  <1> QED
    BY <1>2, <1>3, <1>4, <1>6, <1>8, <1>9, <1>10, <1>11, <1>12, RowStep

LEMMA ReadsAreNat ==
    ASSUME TypeOK, WatermarkCounts
    PROVE  DOMAIN running_txns.reads \subseteq Nat
  BY TransactionFields DEF WatermarkCounts, ActiveTxns

LEMMA BeginType ==
    ASSUME TypeOK, RowsKnown, WatermarkInv, NEW t \in Txn, Begin(t)
    PROVE  TypeOK' /\ RowsKnown'
  <1> DEFINE new == [state |-> "RUNNING", isolation_level |-> program[t].level,
                     read_ts |-> last_commit_ts, commit_ts |-> 0, undo_logs |-> <<>>,
                     write_set |-> {}, scan_predicates |-> {}]
  <1>1. new \in Transaction
    <2>1. program[t].level \in Level /\ last_commit_ts \in Nat /\ <<>> \in Seq(UndoLog)
      BY DEF TypeOK
    <2> QED
      BY <2>1 DEF Transaction
  <1>2. /\ DOMAIN txn_map' = DOMAIN txn_map \cup {t}
        /\ \A u \in DOMAIN txn_map' : txn_map'[u] = IF u = t THEN new ELSE txn_map[u]
        /\ t = next_txn_id /\ next_txn_id' = t + 1
        /\ running_txns' = AddTxn(last_commit_ts)
        /\ UNCHANGED <<heap, undo_link, index, last_commit_ts, commit_mutex, at, program>>
    BY DEF Begin, table
  <1>3. new.write_set = {}
    OBVIOUS
  <1> HIDE DEF new
  <1>4. \A u \in DOMAIN txn_map' :
           txn_map'[u] \in Transaction /\ txn_map'[u].write_set \subseteq DOMAIN heap
    BY <1>1, <1>2, <1>3 DEF TypeOK, RowsKnown
  <1>5. next_txn_id' \in TxnStart + 1 .. TxnStart + MaxTxns + 1
    BY <1>2, TxnFacts DEF Txn
  <1>6. running_txns'.commit_ts \in Nat /\ running_txns'.watermark \in Nat
    <2> DEFINE S == DOMAIN running_txns.reads \cup {last_commit_ts}
    <2>1. running_txns'.commit_ts = running_txns.commit_ts /\ running_txns'.watermark = Least(S)
      BY <1>2 DEF AddTxn
    <2>2. S \in SUBSET Nat /\ S # {}
      BY ReadsAreNat DEF TypeOK, WatermarkInv
    <2> HIDE DEF S
    <2>3. Least(S) \in Nat
      BY <2>2, LeastNat
    <2> QED
      BY <2>1, <2>3 DEF TypeOK
  <1>7. TypeOK'
    BY <1>2, <1>4, <1>5, <1>6 DEF TypeOK
  <1>8. RowsKnown'
    BY <1>2, <1>4 DEF RowsKnown, StepRows
  <1> QED
    BY <1>7, <1>8

\* RemoveTxn leaves a watermark: the new commit timestamp, or the least that is left.
LEMMA RemoveType ==
    ASSUME TypeOK, WatermarkCounts, NEW ts, NEW commit \in Nat
    PROVE  RemoveTxn(ts, commit).commit_ts \in Nat /\ RemoveTxn(ts, commit).watermark \in Nat
  <1> DEFINE left == {x \in DOMAIN running_txns.reads : x # ts \/ Counted(ts) > 1}
  <1>1. left \in SUBSET Nat
    BY ReadsAreNat
  <1>2. /\ RemoveTxn(ts, commit).commit_ts = commit
        /\ RemoveTxn(ts, commit).watermark = IF left = {} THEN commit ELSE Least(left)
    BY DEF RemoveTxn
  <1> HIDE DEF left
  <1>3. left # {} => Least(left) \in Nat
    BY <1>1, LeastNat
  <1> QED
    BY <1>2, <1>3

LEMMA EndType ==
    ASSUME TypeOK, RowsKnown, NEW t \in DOMAIN txn_map, NEW commit \in Nat,
           NEW state \in {"COMMITTED", "ABORTED"},
           \/ txn_map' = [txn_map EXCEPT ![t].state = state]
           \/ txn_map' = [txn_map EXCEPT ![t].state = state, ![t].commit_ts = commit],
           Goto(t, Idle), last_commit_ts' \in Nat, last_commit_ts' < TxnStart,
           commit_mutex' \in Txn \cup {NoTxn},
           running_txns'.commit_ts \in Nat, running_txns'.watermark \in Nat,
           UNCHANGED <<table, next_txn_id, program>>
    PROVE  TypeOK' /\ RowsKnown'
  <1>1. \A u \in DOMAIN txn_map :
           txn_map[u] \in Transaction /\ txn_map[u].write_set \subseteq DOMAIN heap
    BY DEF TypeOK, RowsKnown
  <1>2. /\ DOMAIN txn_map' = DOMAIN txn_map
        /\ \A u \in DOMAIN txn_map :
              txn_map'[u] \in Transaction /\ txn_map'[u].write_set \subseteq DOMAIN heap
    <2>1. CASE txn_map' = [txn_map EXCEPT ![t].state = state]
      BY <1>1, <2>1, ZenonT(40) DEF Transaction
    <2>2. CASE txn_map' = [txn_map EXCEPT ![t].state = state, ![t].commit_ts = commit]
      BY <1>1, <2>2, ZenonT(40) DEF Transaction
    <2> QED
      BY <2>1, <2>2
  <1>3. t \in Txn /\ Idle \in Step
    BY TransactionFields DEF Step
  <1>4. at' \in [Txn -> Step] /\ at'[t] = Idle /\ \A u \in Txn : u # t => at'[u] = at[u]
    BY <1>3, GotoMoves
  <1>5. TypeOK'
    BY <1>2, <1>4 DEF TypeOK, table
  <1>6. \A u \in Txn : StepRows(at'[u])
    <2>1. StepRows(Idle)
      BY DEF StepRows, Idle
    <2> QED
      BY <1>4, <2>1 DEF RowsKnown
  <1>7. \A u \in Txn : StepRows(at[u])'
    BY <1>6 DEF StepRows, table
  <1> QED
    BY <1>2, <1>5, <1>7 DEF RowsKnown, table

LEMMA EndCommitType ==
    ASSUME TypeOK, RowsKnown, WatermarkInv, NEW t \in Txn, EndCommit(t)
    PROVE  TypeOK' /\ RowsKnown'
  <1>1. t \in DOMAIN txn_map
    BY AtWork DEF EndCommit, WatermarkInv
  <1>2. PICK commit : commit = last_commit_ts + 1
    OBVIOUS
  <1>3. commit \in Nat /\ commit < TxnStart
    <2>1. commit \in Nat /\ last_commit_ts' = commit
      BY <1>2 DEF EndCommit, TypeOK
    <2>2. Cardinality(ActiveTxns)' \in Nat
      <3>1. ActiveTxns' \subseteq Txn
        BY DEF ActiveTxns, EndCommit, TypeOK
      <3> QED
        BY <3>1, TxnFacts, FS_Subset, FS_CardinalityType
    <2>3. TxnStart + commit + Cardinality(ActiveTxns)' <= next_txn_id
      BY <2>1, EndCommitWatermark DEF WatermarkInv, CommitsCounted, EndCommit
    <2> QED
      BY <2>1, <2>2, <2>3, BoundsAssumption DEF TypeOK
  <1>4. /\ last_commit_ts' = commit
        /\ txn_map' = [txn_map EXCEPT ![t].state = "COMMITTED", ![t].commit_ts = commit]
        /\ running_txns' = RemoveTxn(txn_map[t].read_ts, commit)
        /\ commit_mutex' = NoTxn
        /\ Goto(t, Idle)
        /\ UNCHANGED <<table, next_txn_id, program>>
    BY <1>2 DEF EndCommit
  <1>5. PICK ts : ts = txn_map[t].read_ts
    OBVIOUS
  <1>6. RemoveTxn(ts, commit).commit_ts \in Nat /\ RemoveTxn(ts, commit).watermark \in Nat
    BY <1>3, RemoveType DEF WatermarkInv
  <1>7. running_txns'.commit_ts \in Nat /\ running_txns'.watermark \in Nat
    BY <1>4, <1>5, <1>6
  <1> QED
    BY <1>1, <1>3, <1>4, <1>7, EndType

LEMMA EndAbortType ==
    ASSUME TypeOK, RowsKnown, WatermarkInv, NEW t \in Txn, EndAbort(t)
    PROVE  TypeOK' /\ RowsKnown'
  <1>1. t \in DOMAIN txn_map
    BY AtWork DEF EndAbort, WatermarkInv
  <1>2. PICK commit, ts : commit = running_txns.commit_ts /\ ts = txn_map[t].read_ts
    OBVIOUS
  <1>3. commit \in Nat
    BY <1>2 DEF TypeOK
  <1>4. RemoveTxn(ts, commit).commit_ts \in Nat /\ RemoveTxn(ts, commit).watermark \in Nat
    BY <1>3, RemoveType DEF WatermarkInv
  <1>5. running_txns'.commit_ts \in Nat /\ running_txns'.watermark \in Nat
    BY <1>2, <1>4 DEF EndAbort
  <1>6. last_commit_ts' \in Nat /\ last_commit_ts' < TxnStart /\ commit_mutex' \in Txn \cup {NoTxn}
    BY DEF EndAbort, TypeOK
  <1> QED
    BY <1>1, <1>3, <1>5, <1>6, EndType DEF EndAbort

LEMMA CollectionType ==
    ASSUME TypeOK, RowsKnown, GarbageCollection
    PROVE  TypeOK' /\ RowsKnown'
  <1>1. /\ DOMAIN txn_map' = DOMAIN txn_map \ Garbage
        /\ \A u \in DOMAIN txn_map \ Garbage : txn_map'[u] = txn_map[u]
        /\ UNCHANGED <<heap, undo_link, index, next_txn_id, last_commit_ts, commit_mutex,
                       running_txns, at, program>>
    BY DEF GarbageCollection, Others, table
  <1>2. TypeOK'
    BY <1>1 DEF TypeOK
  <1>3. RowsKnown'
    BY <1>1 DEF RowsKnown, StepRows
  <1> QED
    BY <1>2, <1>3

-----------------------------------------------------------------------------
(* Version chains. *)

LEMMA InitChains ==
    ASSUME Init
    PROVE  TypeOK /\ RowsKnown /\ ChainInv
  <1>1. heap \in Seq([tuple : Tuple, ts : Nat, deleted : BOOLEAN]) /\ Len(heap) = Len(Loaded)
        /\ DOMAIN heap = DOMAIN Loaded
    <2>1. Len(Loaded) \in Nat /\ DOMAIN Loaded = 1..Len(Loaded)
      BY BoundsAssumption, LenProperties
    <2>2. \A r \in 1..Len(Loaded) : Loaded[r] \in Tuple
      BY BoundsAssumption, ElementOfSeq
    <2>3. heap \in [1..Len(Loaded) -> [tuple : Tuple, ts : Nat, deleted : BOOLEAN]]
      BY <2>1, <2>2 DEF Init
    <2>4. heap \in Seq([tuple : Tuple, ts : Nat, deleted : BOOLEAN])
      BY <2>1, <2>3, SeqDef
    <2> QED
      BY <2>1, <2>3, <2>4, LenProperties
  <1>2. InvalidLink \in Link /\ InvalidLink.txn = NoTxn
    BY DEF InvalidLink, Link
  <1>3. undo_link \in [Rid -> Link]
    BY <1>2 DEF Init
  <1>4. index \in [Key -> {NoRid} \cup DOMAIN heap]
    BY <1>1 DEF Init
  <1>5. at \in [Txn -> Step] /\ \A t \in Txn : at[t] = Idle
    BY DEF Init, Step
  <1>6. program \in [Txn -> [level : Level, todo : Seq(Command)]]
    <2>1. PICK w \in Workloads :
             program = [t \in Txn |-> IF t - TxnStart \in DOMAIN w THEN w[t - TxnStart]
                                      ELSE [level |-> "SNAPSHOT_ISOLATION", todo |-> <<>>]]
      BY DEF Init
    <2>2. [level |-> "SNAPSHOT_ISOLATION", todo |-> <<>>] \in [level : Level, todo : Seq(Command)]
      BY DEF Level
    <2> QED
      BY <2>1, <2>2, WorkloadsAssumption
  <1>7. txn_map = <<>> /\ DOMAIN txn_map = {}
    BY DEF Init
  <1>8. TypeOK
    <2>1. next_txn_id \in TxnStart + 1 .. TxnStart + MaxTxns + 1
      BY BoundsAssumption DEF Init
    <2>2. last_commit_ts \in Nat /\ last_commit_ts < TxnStart
      BY BoundsAssumption DEF Init
    <2>3. /\ commit_mutex \in Txn \cup {NoTxn}
          /\ running_txns.commit_ts \in Nat /\ running_txns.watermark \in Nat
      BY DEF Init
    <2>4. Len(heap) <= MaxRows
      BY <1>1, BoundsAssumption
    <2> QED
      BY <1>1, <1>3, <1>4, <1>5, <1>6, <1>7, <2>1, <2>2, <2>3, <2>4 DEF TypeOK
  <1>9. RowsKnown
    BY <1>5, <1>7 DEF RowsKnown, StepRows, Idle
  <1>10. \A r \in Rid : undo_link[r] = InvalidLink
    BY DEF Init
  <1>11. LinksKnown
    BY <1>2, <1>7, <1>10 DEF LinksKnown, Known
  <1>12. OwnLinks
    BY <1>8, <1>10, HeapDomain DEF OwnLinks
  <1>13. VersionsOrdered
    BY <1>7 DEF VersionsOrdered, Exists
  <1> QED
    BY <1>8, <1>9, <1>11, <1>12, <1>13 DEF ChainInv

\* Steps that write no row and no log: transactions may end and be erased, and
\* the last commit may advance.
StillChains ==
    /\ UNCHANGED <<heap, undo_link, next_txn_id>>
    /\ last_commit_ts' \in Nat /\ last_commit_ts <= last_commit_ts'
    /\ DOMAIN txn_map' \subseteq DOMAIN txn_map
    /\ \A u \in DOMAIN txn_map' : txn_map'[u].undo_logs = txn_map[u].undo_logs

LEMMA StillChainsKeep ==
    ASSUME TypeOK, ChainInv, StillChains
    PROVE  ChainInv'
  <1>1. \A link : Known(link) => Known(link)'
    BY DEF StillChains, Known, Exists
  <1>3. LinksKnown'
    BY <1>1 DEF StillChains, ChainInv, LinksKnown
  <1>4. OwnLinks'
    BY DEF StillChains, ChainInv, OwnLinks
  <1>5. VersionsOrdered'
    <2>1. \A r \in DOMAIN heap' :
             Exists(undo_link[r])' => LogAt(undo_link[r])'.ts < heap'[r].ts
      BY DEF StillChains, ChainInv, VersionsOrdered, Exists, LogAt
    <2>2. ASSUME NEW u \in DOMAIN txn_map', NEW i \in DOMAIN txn_map'[u].undo_logs
          PROVE  LET log == txn_map'[u].undo_logs[i] IN
                 /\ log.ts <= last_commit_ts'
                 /\ log.prev_version.txn \in DOMAIN txn_map' =>
                       txn_map'[log.prev_version.txn].undo_logs[log.prev_version.idx].ts < log.ts
      <3>1. PICK log : log = txn_map[u].undo_logs[i]
        OBVIOUS
      <3>2. /\ u \in DOMAIN txn_map /\ i \in DOMAIN txn_map[u].undo_logs
            /\ txn_map'[u].undo_logs[i] = log
        BY <3>1 DEF StillChains
      <3>3. /\ log.ts <= last_commit_ts
            /\ Exists(log.prev_version) => LogAt(log.prev_version).ts < log.ts
        BY <3>1, <3>2 DEF ChainInv, VersionsOrdered
      <3>4. log.ts \in Nat /\ last_commit_ts \in Nat
        <4>1. log \in UndoLog
          BY <3>1, <3>2, TransactionFields, LenProperties, ElementOfSeq
        <4> QED
          BY <4>1 DEF UndoLog, TypeOK
      <3>5. log.ts <= last_commit_ts'
        BY <3>3, <3>4 DEF StillChains
      <3>6. log.prev_version.txn \in DOMAIN txn_map' =>
               txn_map'[log.prev_version.txn].undo_logs[log.prev_version.idx].ts < log.ts
        BY <3>3 DEF StillChains, Exists, LogAt
      <3> QED
        BY <3>2, <3>5, <3>6
    <2> QED
      BY <2>1, <2>2 DEF VersionsOrdered, Exists, LogAt
  <1> QED
    BY <1>3, <1>4, <1>5 DEF ChainInv

LEMMA KnownLinks ==
    ASSUME TypeOK, LinksKnown
    PROVE  /\ \A r \in DOMAIN heap : Known(undo_link[r]) /\ undo_link[r] \in Link
           /\ \A u \in DOMAIN txn_map : \A i \in DOMAIN txn_map[u].undo_logs :
                 LET log == txn_map[u].undo_logs[i] IN
                 log \in UndoLog /\ log.ts \in Nat /\ log.prev_version \in Link
                 /\ Known(log.prev_version)
  <1>1. \A r \in DOMAIN heap : Known(undo_link[r]) /\ undo_link[r] \in Link
    BY RowType DEF LinksKnown
  <1>2. ASSUME NEW u \in DOMAIN txn_map, NEW i \in DOMAIN txn_map[u].undo_logs
        PROVE  txn_map[u].undo_logs[i] \in UndoLog
    BY TransactionFields, LenProperties, ElementOfSeq
  <1>3. \A log \in UndoLog : log.ts \in Nat /\ log.prev_version \in Link
    BY DEF UndoLog
  <1> QED
    BY <1>1, <1>2, <1>3 DEF LinksKnown

\* An id that has not been given out is in no link.
LEMMA BeginChains ==
    ASSUME TypeOK, ChainInv, IdsIssued, NEW t \in Txn, Begin(t)
    PROVE  ChainInv'
  <1>1. /\ t = next_txn_id /\ next_txn_id' = t + 1 /\ t \in Nat /\ t # NoTxn
        /\ DOMAIN txn_map' = DOMAIN txn_map \cup {t}
        /\ txn_map'[t].undo_logs = <<>>
        /\ \A u \in DOMAIN txn_map \ {t} : txn_map'[u] = txn_map[u]
        /\ UNCHANGED <<heap, undo_link, last_commit_ts>>
    BY TxnFacts DEF Begin, table, NoTxn
  <1>2. t \notin DOMAIN txn_map
    BY <1>1, TransactionFields DEF IdsIssued
  <1>3. \A link : Known(link) => link.txn # t
    BY <1>1, <1>2 DEF Known
  <1>4. \A link \in Link : Known(link) => Known(link)'
    BY <1>1, <1>2, <1>3, TxnFacts DEF Known, Exists, Link, NoTxn
  <1>5. LinksKnown'
    <2>1. \A r \in Rid : undo_link'[r] = undo_link[r] /\ undo_link[r] \in Link
      BY <1>1 DEF TypeOK
    <2>2. \A r \in Rid : Known(undo_link[r])'
      BY <1>1, <1>4, <2>1 DEF ChainInv, LinksKnown, Known, Exists
    <2>3. \A r \in Rid \ DOMAIN heap' : undo_link'[r] = InvalidLink
      BY <1>1 DEF ChainInv, LinksKnown
    <2>4. ASSUME NEW u \in DOMAIN txn_map', NEW i \in DOMAIN txn_map'[u].undo_logs
          PROVE  Known(txn_map[u].undo_logs[i].prev_version)'
      <3>1. u # t
        BY <1>1, <2>4
      <3>2. PICK link : link = txn_map[u].undo_logs[i].prev_version
        OBVIOUS
      <3>3. link \in Link /\ Known(link) /\ txn_map'[u].undo_logs[i].prev_version = link
        BY <1>1, <2>4, <3>1, <3>2, KnownLinks DEF ChainInv
      <3>4. Known(link)'
        BY <1>4, <3>3
      <3> QED
        BY <3>3, <3>4
    <2> QED
      BY <2>2, <2>3, <2>4 DEF LinksKnown
  <1>6. OwnLinks'
    BY <1>1 DEF ChainInv, OwnLinks
  <1>7. VersionsOrdered'
    <2>1. \A link : Known(link) /\ link.txn \in DOMAIN txn_map' =>
             link.txn \in DOMAIN txn_map /\ txn_map'[link.txn] = txn_map[link.txn]
      BY <1>1, <1>3
    <2>2. ASSUME NEW r \in DOMAIN heap', Exists(undo_link[r])'
          PROVE  LogAt(undo_link[r])'.ts < heap'[r].ts
      <3>1. Known(undo_link[r]) /\ undo_link' = undo_link /\ heap' = heap
        BY <1>1, <2>2, KnownLinks DEF ChainInv
      <3>2. Exists(undo_link[r]) /\ LogAt(undo_link[r])' = LogAt(undo_link[r])
        BY <2>1, <2>2, <3>1 DEF Exists, LogAt
      <3> QED
        BY <3>1, <3>2 DEF ChainInv, VersionsOrdered
    <2>3. ASSUME NEW u \in DOMAIN txn_map', NEW i \in DOMAIN txn_map'[u].undo_logs
          PROVE  LET log == txn_map'[u].undo_logs[i] IN
                 /\ log.ts <= last_commit_ts'
                 /\ log.prev_version.txn \in DOMAIN txn_map' =>
                       txn_map'[log.prev_version.txn].undo_logs[log.prev_version.idx].ts < log.ts
      <3>1. u # t
        BY <1>1, <2>3
      <3>2. PICK log : log = txn_map[u].undo_logs[i]
        OBVIOUS
      <3>3. /\ u \in DOMAIN txn_map /\ i \in DOMAIN txn_map[u].undo_logs
            /\ txn_map'[u].undo_logs[i] = log
        BY <1>1, <2>3, <3>1, <3>2
      <3>4. /\ log.ts <= last_commit_ts
            /\ Exists(log.prev_version) => LogAt(log.prev_version).ts < log.ts
        BY <3>2, <3>3 DEF ChainInv, VersionsOrdered
      <3>5. Known(log.prev_version)
        BY <3>2, <3>3 DEF ChainInv, LinksKnown
      <3>6. log.prev_version.txn \in DOMAIN txn_map' =>
               txn_map'[log.prev_version.txn].undo_logs[log.prev_version.idx].ts < log.ts
        BY <2>1, <3>4, <3>5 DEF Exists, LogAt
      <3> QED
        BY <1>1, <3>3, <3>4, <3>6
    <2> QED
      BY <2>2, <2>3 DEF VersionsOrdered, Exists, LogAt
  <1> QED
    BY <1>5, <1>6, <1>7 DEF ChainInv

-----------------------------------------------------------------------------
(* Steps that write rows. *)

\* Rows may change as long as each is newer than the head of its chain.
LEMMA RowChains ==
    ASSUME TypeOK, ChainInv,
           DOMAIN txn_map' = DOMAIN txn_map,
           \A u \in DOMAIN txn_map : txn_map'[u].undo_logs = txn_map[u].undo_logs,
           UNCHANGED <<next_txn_id, last_commit_ts>>,
           \A r \in Rid : Known(undo_link'[r]),
           \A r \in Rid \ DOMAIN heap' : undo_link'[r] = InvalidLink,
           \A r \in DOMAIN heap' : heap'[r].ts \in Txn =>
              undo_link'[r] = InvalidLink \/ undo_link'[r].txn = heap'[r].ts,
           \A r \in DOMAIN heap' : Exists(undo_link'[r]) => LogAt(undo_link'[r]).ts < heap'[r].ts
    PROVE  ChainInv'
  <1>1. LinksKnown'
    BY SMTT(30) DEF ChainInv, LinksKnown, Known, Exists
  <1>2. OwnLinks'
    BY DEF OwnLinks, InvalidLink
  <1>3. VersionsOrdered'
    <2>1. \A r \in DOMAIN heap' : Exists(undo_link[r])' => LogAt(undo_link[r])'.ts < heap'[r].ts
      BY SMTT(30) DEF Exists, LogAt
    <2>2. \A u \in DOMAIN txn_map : \A i \in DOMAIN txn_map[u].undo_logs :
             LET log == txn_map[u].undo_logs[i] IN
             /\ log.ts <= last_commit_ts
             /\ log.prev_version.txn \in DOMAIN txn_map =>
                   txn_map[log.prev_version.txn].undo_logs[log.prev_version.idx].ts < log.ts
      BY DEF ChainInv, VersionsOrdered, Exists, LogAt
    <2>3. ASSUME NEW u \in DOMAIN txn_map', NEW i \in DOMAIN txn_map'[u].undo_logs
          PROVE  LET log == txn_map'[u].undo_logs[i] IN
                 /\ log.ts <= last_commit_ts'
                 /\ log.prev_version.txn \in DOMAIN txn_map' =>
                       txn_map'[log.prev_version.txn].undo_logs[log.prev_version.idx].ts < log.ts
      <3>1. PICK log : log = txn_map[u].undo_logs[i]
        OBVIOUS
      <3>2. /\ u \in DOMAIN txn_map /\ i \in DOMAIN txn_map[u].undo_logs
            /\ txn_map'[u].undo_logs[i] = log
        BY <3>1
      <3>3. log.ts <= last_commit_ts'
        BY <2>2, <3>1, <3>2
      <3>4. log.prev_version.txn \in DOMAIN txn_map' =>
               txn_map'[log.prev_version.txn].undo_logs[log.prev_version.idx].ts < log.ts
        BY <2>2, <3>1, <3>2
      <3> QED
        BY <3>2, <3>3, <3>4
    <2> QED
      BY <2>1, <2>3 DEF VersionsOrdered, Exists, LogAt
  <1> QED
    BY <1>1, <1>2, <1>3 DEF ChainInv

LEMMA AppendRowChains ==
    ASSUME TypeOK, ChainInv, BusyActive, NEW t \in Txn, AppendRow(t)
    PROVE  ChainInv'
  <1> DEFINE new == Len(heap) + 1
  <1>1. t \in DOMAIN txn_map
    BY AtWork DEF AppendRow
  <1>2. /\ DOMAIN heap = 1..Len(heap) /\ Len(heap) \in Nat /\ heap \in Seq(Row)
    BY HeapDomain DEF TypeOK, Row
  <1>3. PICK row : row = [tuple |-> Head(at[t].rows), ts |-> t, deleted |-> FALSE]
    OBVIOUS
  <1>4. heap' = Append(heap, row) /\ row.ts = t /\ Len(heap) < MaxRows
    BY <1>3 DEF AppendRow
  <1>5. /\ DOMAIN heap' = DOMAIN heap \cup {new} /\ new \notin DOMAIN heap /\ new \in Rid
        /\ heap'[new] = row
        /\ \A r \in DOMAIN heap : heap'[r] = heap[r]
    BY <1>2, <1>4, BoundsAssumption DEF Rid
  <1>6. undo_link' = undo_link /\ undo_link[new] = InvalidLink
    BY <1>5 DEF AppendRow, ChainInv, LinksKnown
  <1>7. ~Exists(undo_link[new])
    BY <1>6, TransactionFields, TxnFacts DEF Exists, InvalidLink
  <1>8. /\ DOMAIN txn_map' = DOMAIN txn_map
        /\ \A u \in DOMAIN txn_map : txn_map'[u].undo_logs = txn_map[u].undo_logs
    <2>1. \A u \in DOMAIN txn_map : txn_map[u] \in Transaction
      BY DEF TypeOK
    <2> QED
      BY <1>1, <2>1 DEF AppendRow, Transaction
  <1>9. UNCHANGED <<next_txn_id, last_commit_ts>>
    BY DEF AppendRow, Others
  <1> HIDE DEF new
  <1>10. \A r \in Rid : Known(undo_link'[r])
    BY <1>6 DEF ChainInv, LinksKnown
  <1>11. \A r \in Rid \ DOMAIN heap' : undo_link'[r] = InvalidLink
    BY <1>5, <1>6 DEF ChainInv, LinksKnown
  <1>12. \A r \in DOMAIN heap' : heap'[r].ts \in Txn =>
            undo_link'[r] = InvalidLink \/ undo_link'[r].txn = heap'[r].ts
    BY <1>5, <1>6 DEF ChainInv, OwnLinks
  <1>13. \A r \in DOMAIN heap' :
            Exists(undo_link'[r]) => LogAt(undo_link'[r]).ts < heap'[r].ts
    BY <1>5, <1>6, <1>7 DEF ChainInv, VersionsOrdered
  <1> QED
    BY <1>8, <1>9, <1>10, <1>11, <1>12, <1>13, RowChains

LEMMA StampRowChains ==
    ASSUME TypeOK, RowsKnown, ChainInv, NEW t \in Txn, StampRow(t)
    PROVE  ChainInv'
  <1>1. PICK r \in at[t].todo :
           heap' = IF heap[r].ts = t THEN [heap EXCEPT ![r].ts = last_commit_ts + 1] ELSE heap
    BY DEF StampRow
  <1>2. r \in DOMAIN heap /\ r \in Rid
    BY RowType DEF StampRow, RowsKnown, StepRows
  <1>3. /\ DOMAIN heap' = DOMAIN heap
        /\ \A s \in DOMAIN heap : heap'[s].ts = heap[s].ts \/ heap'[s].ts = last_commit_ts + 1
    <2>1. \A s \in DOMAIN heap : heap[s] \in [tuple : Tuple, ts : Nat, deleted : BOOLEAN]
      BY RowType
    <2> QED
      BY <1>1, <1>2, <2>1
  <1>4. last_commit_ts + 1 \notin Txn /\ last_commit_ts \in Nat
    BY TxnFacts DEF TypeOK
  <1>5. ASSUME NEW s \in DOMAIN heap, Exists(undo_link[s])
        PROVE  LogAt(undo_link[s]).ts < heap'[s].ts
    <2>1. LogAt(undo_link[s]).ts < heap[s].ts
      BY <1>5 DEF ChainInv, VersionsOrdered
    <2>2. LogAt(undo_link[s]).ts <= last_commit_ts /\ LogAt(undo_link[s]).ts \in Nat
      <3>1. Known(undo_link[s]) /\ undo_link[s].txn # NoTxn
        BY <1>5, KnownLinks, TransactionFields, TxnFacts DEF ChainInv, Exists
      <3>2. undo_link[s].txn \in DOMAIN txn_map
            /\ undo_link[s].idx \in DOMAIN txn_map[undo_link[s].txn].undo_logs
        BY <1>5, <3>1 DEF Known, Exists
      <3> QED
        BY <3>2, KnownLinks DEF ChainInv, VersionsOrdered, LogAt
    <2> QED
      BY <1>3, <1>4, <2>1, <2>2
  <1>6. UNCHANGED <<undo_link, txn_map, next_txn_id, last_commit_ts>>
    BY DEF StampRow, Others
  <1>7. \A s \in Rid : Known(undo_link'[s])
    BY <1>6 DEF ChainInv, LinksKnown
  <1>8. \A s \in Rid \ DOMAIN heap' : undo_link'[s] = InvalidLink
    BY <1>3, <1>6 DEF ChainInv, LinksKnown
  <1>9. \A s \in DOMAIN heap' : heap'[s].ts \in Txn =>
           undo_link'[s] = InvalidLink \/ undo_link'[s].txn = heap'[s].ts
    BY <1>3, <1>4, <1>6 DEF ChainInv, OwnLinks
  <1>10. \A s \in DOMAIN heap' :
            Exists(undo_link'[s]) => LogAt(undo_link'[s]).ts < heap'[s].ts
    BY <1>3, <1>5, <1>6
  <1> QED
    BY <1>6, <1>7, <1>8, <1>9, <1>10, RowChains

LEMMA RestoreRowChains ==
    ASSUME TypeOK, RowsKnown, ChainInv, BusyActive, NEW t \in Txn, RestoreRow(t)
    PROVE  ChainInv'
  <1>1. t \in DOMAIN txn_map
    BY AtWork DEF RestoreRow
  <1> DEFINE old(r) == Restored(t, Base(r))
  <1>2. PICK r \in at[t].todo :
           \/ UNCHANGED <<heap, undo_link>>
           \/ /\ heap[r].ts = t
              /\ heap' = [heap EXCEPT ![r] =
                    [tuple |-> IF old(r).deleted THEN heap[r].tuple ELSE old(r).tuple,
                     ts |-> old(r).ts, deleted |-> old(r).deleted]]
              /\ undo_link' = [undo_link EXCEPT ![r] = old(r).link]
    BY DEF RestoreRow
  <1>3. r \in DOMAIN heap /\ r \in Rid
    BY RowType DEF RestoreRow, RowsKnown, StepRows
  <1>4. UNCHANGED <<txn_map, next_txn_id, last_commit_ts>>
    BY DEF RestoreRow, Others
  <1>5. CASE UNCHANGED <<heap, undo_link>>
    <2>1. StillChains
      BY <1>4, <1>5 DEF StillChains, TypeOK
    <2> QED
      BY <2>1, StillChainsKeep
  <1>6. CASE heap[r].ts = t /\ ~UNCHANGED <<heap, undo_link>>
    <2>1. PICK ver : ver = old(r)
      OBVIOUS
    <2>2. /\ undo_link[r].txn = t =>
                /\ undo_link[r].idx \in DOMAIN txn_map[t].undo_logs
                /\ ver.ts = LogAt(undo_link[r]).ts
                /\ ver.link = LogAt(undo_link[r]).prev_version
          /\ undo_link[r].txn # t => ver.ts = 0 /\ ver.link = undo_link[r]
      BY <1>1, <1>3, <2>1, RestoredType DEF ChainInv
    <2>3. /\ DOMAIN heap' = DOMAIN heap /\ heap'[r].ts = ver.ts
          /\ \A s \in DOMAIN heap : s # r => heap'[s] = heap[s]
          /\ undo_link'[r] = ver.link
          /\ \A s \in Rid : s # r => undo_link'[s] = undo_link[s]
      BY <1>2, <1>3, <1>6, <2>1 DEF TypeOK
    <2>4. ver.ts \notin Txn /\ Known(ver.link) /\ (Exists(ver.link) => LogAt(ver.link).ts < ver.ts)
      <3>1. CASE undo_link[r].txn = t
        <4>1. PICK i : i = undo_link[r].idx
          OBVIOUS
        <4>2. /\ i \in DOMAIN txn_map[t].undo_logs
              /\ ver.ts = txn_map[t].undo_logs[i].ts
              /\ ver.link = txn_map[t].undo_logs[i].prev_version
          BY <2>2, <3>1, <4>1 DEF LogAt
        <4>3. Known(ver.link) /\ ver.ts \in Nat
          BY <1>1, <4>2, KnownLinks DEF ChainInv
        <4>4. ver.ts <= last_commit_ts /\ (Exists(ver.link) => LogAt(ver.link).ts < ver.ts)
          BY <1>1, <4>2 DEF ChainInv, VersionsOrdered
        <4> QED
          BY <4>3, <4>4, TxnFacts DEF TypeOK
      <3>2. CASE undo_link[r].txn # t
        <4>1. undo_link[r] = InvalidLink
          BY <1>3, <1>6, <3>2 DEF ChainInv, OwnLinks
        <4>2. ~Exists(ver.link) /\ Known(ver.link) /\ ver.ts = 0
          BY <2>2, <3>2, <4>1, TransactionFields, TxnFacts DEF Exists, Known, InvalidLink
        <4> QED
          BY <4>2, TxnFacts
      <3> QED
        BY <3>1, <3>2
    <2>5. \A s \in Rid : Known(undo_link'[s])
      BY <2>3, <2>4 DEF ChainInv, LinksKnown
    <2>6. \A s \in Rid \ DOMAIN heap' : undo_link'[s] = InvalidLink
      BY <1>3, <2>3 DEF ChainInv, LinksKnown
    <2>7. \A s \in DOMAIN heap' : heap'[s].ts \in Txn =>
             undo_link'[s] = InvalidLink \/ undo_link'[s].txn = heap'[s].ts
      BY <2>3, <2>4, HeapDomain DEF ChainInv, OwnLinks
    <2>8. \A s \in DOMAIN heap' :
             Exists(undo_link'[s]) => LogAt(undo_link'[s]).ts < heap'[s].ts
      BY <2>3, <2>4, HeapDomain DEF ChainInv, VersionsOrdered
    <2> QED
      BY <1>4, <2>5, <2>6, <2>7, <2>8, RowChains
  <1> QED
    BY <1>2, <1>5, <1>6

\* A write that is not a conflict: the version it replaces is its own, or was
\* committed no later than the snapshot of the writer.
LEMMA ModifyTupleChains ==
    ASSUME TypeOK, RowsKnown, ChainInv, SnapshotsPast, IdsIssued,
           NEW t \in DOMAIN txn_map, NEW r \in DOMAIN heap, NEW target, NEW dead, NEW next,
           ModifyTuple(t, r, target, dead, next), ~Conflicts(t, r, dead),
           UNCHANGED <<next_txn_id, last_commit_ts>>
    PROVE  ChainInv'
  <1>1. PICK old, new, n : /\ old = txn_map[t].undo_logs /\ new = Logged(t, r, target)
                           /\ n = Len(old) + 1
    OBVIOUS
  <1>2. /\ \A i \in DOMAIN old : /\ i \in DOMAIN new.logs
                                 /\ new.logs[i].ts = old[i].ts
                                 /\ new.logs[i].prev_version = old[i].prev_version
        /\ heap[r].ts = t => DOMAIN new.logs = DOMAIN old /\ new.link = undo_link[r]
        /\ heap[r].ts # t =>
              /\ DOMAIN new.logs = DOMAIN old \cup {n} /\ n \notin DOMAIN old
              /\ new.link = [txn |-> t, idx |-> n]
              /\ new.logs[n].ts = heap[r].ts
              /\ new.logs[n].prev_version = undo_link[r]
    BY <1>1, LoggedLogs DEF ChainInv
  <1>3. /\ DOMAIN heap' = DOMAIN heap /\ heap'[r].ts = t
        /\ \A s \in DOMAIN heap : s # r => heap'[s] = heap[s]
        /\ r \in Rid /\ DOMAIN heap \subseteq Rid
        /\ undo_link'[r] = new.link
        /\ \A s \in Rid : s # r => undo_link'[s] = undo_link[s]
    BY <1>1, RowType, HeapDomain DEF ModifyTuple, TypeOK
  <1>4. /\ DOMAIN txn_map' = DOMAIN txn_map
        /\ txn_map'[t].undo_logs = new.logs
        /\ \A u \in DOMAIN txn_map : u # t => txn_map'[u].undo_logs = txn_map[u].undo_logs
    <2>1. txn_map[t] \in Transaction
      BY TransactionFields
    <2>2. txn_map' = [txn_map EXCEPT ![t].undo_logs = new.logs, ![t].write_set = @ \cup {r}]
      BY <1>1 DEF ModifyTuple
    <2> QED
      BY <2>1, <2>2 DEF Transaction
  <1>5. t \in Txn /\ t \in Nat /\ t > TxnStart /\ t # NoTxn /\ last_commit_ts \in Nat
        /\ last_commit_ts < TxnStart /\ TxnStart \in Nat
    BY TransactionFields, TxnFacts DEF TypeOK
  <1>6. heap[r].ts # t => heap[r].ts <= last_commit_ts
    <2>1. heap[r].ts \in Nat /\ txn_map[t].read_ts \in Nat
      BY RowType, TransactionFields
    <2> QED
      BY <1>5, <2>1 DEF Conflicts, SnapshotsPast
  <1>7. \A link : Known(link) => Known(link)'
    BY <1>1, <1>2, <1>4 DEF Known, Exists
  <1>8. \A link : Known(link) /\ link.txn # NoTxn /\ link.txn \in DOMAIN txn_map =>
           txn_map'[link.txn].undo_logs[link.idx].ts = txn_map[link.txn].undo_logs[link.idx].ts
    BY <1>1, <1>2, <1>4 DEF Known, Exists
  <1>9. NoTxn \notin DOMAIN txn_map
    BY TransactionFields, TxnFacts
  <1>10. t < next_txn_id
    BY DEF IdsIssued
  <1>11. LinksKnown'
    <2>1. Known(new.link)'
      <3>1. CASE heap[r].ts = t
        BY <1>2, <1>7, <3>1, KnownLinks DEF ChainInv
      <3>2. CASE heap[r].ts # t
        BY <1>2, <1>4, <1>10, <3>2 DEF Known, Exists
      <3> QED
        BY <3>1, <3>2
    <2>2. \A s \in Rid : Known(undo_link[s])'
      <3>1. \A s \in Rid : s # r => Known(undo_link[s])
        BY DEF ChainInv, LinksKnown
      <3> QED
        BY <1>3, <1>7, <2>1, <3>1 DEF Known, Exists
    <2>3. \A s \in Rid \ DOMAIN heap' : undo_link'[s] = InvalidLink
      BY <1>3 DEF ChainInv, LinksKnown
    <2>4. ASSUME NEW u \in DOMAIN txn_map', NEW i \in DOMAIN txn_map'[u].undo_logs
          PROVE  Known(txn_map[u].undo_logs[i].prev_version)'
      <3>1. PICK link : link = txn_map'[u].undo_logs[i].prev_version
        OBVIOUS
      <3>2. Known(link)
        <4>1. CASE u # t
          BY <1>4, <2>4, <3>1, <4>1 DEF ChainInv, LinksKnown
        <4>2. CASE u = t /\ i \in DOMAIN old
          BY <1>1, <1>2, <1>4, <3>1, <4>2 DEF ChainInv, LinksKnown
        <4>3. CASE u = t /\ i \notin DOMAIN old
          <5>1. heap[r].ts # t /\ i = n /\ link = undo_link[r]
            BY <1>2, <1>4, <2>4, <3>1, <4>3
          <5> QED
            BY <5>1, KnownLinks DEF ChainInv
        <4> QED
          BY <4>1, <4>2, <4>3
      <3>3. Known(link)'
        BY <1>7, <3>2
      <3> QED
        BY <3>1, <3>3
    <2> QED
      BY <2>2, <2>3, <2>4 DEF LinksKnown
  <1>12. OwnLinks'
    <2>1. new.link = InvalidLink \/ new.link.txn = t
      BY <1>2, <1>5 DEF ChainInv, OwnLinks
    <2>2. \A s \in DOMAIN heap' : heap'[s].ts \in Txn =>
             undo_link'[s] = InvalidLink \/ undo_link'[s].txn = heap'[s].ts
      BY <1>3, <2>1, SMTT(30) DEF ChainInv, OwnLinks
    <2> QED
      BY <2>2 DEF OwnLinks, InvalidLink
  <1>13. VersionsOrdered'
    <2>1. ASSUME NEW s \in DOMAIN heap', undo_link'[s].txn \in DOMAIN txn_map'
          PROVE  txn_map'[undo_link'[s].txn].undo_logs[undo_link'[s].idx].ts < heap'[s].ts
      <3>1. CASE s # r
        <4>1. PICK link : link = undo_link[s]
          OBVIOUS
        <4>2. /\ s \in DOMAIN heap /\ undo_link'[s] = link /\ heap'[s] = heap[s]
              /\ Known(link) /\ link.txn \in DOMAIN txn_map
          BY <1>3, <1>4, <2>1, <3>1, <4>1, KnownLinks DEF ChainInv
        <4>3. txn_map[link.txn].undo_logs[link.idx].ts < heap[s].ts
          BY <4>1, <4>2 DEF ChainInv, VersionsOrdered, Exists, LogAt
        <4> QED
          BY <1>8, <1>9, <4>2, <4>3
      <3>2. CASE s = r /\ heap[r].ts = t
        <4>1. PICK link : link = undo_link[r]
          OBVIOUS
        <4>2. /\ undo_link'[r] = link /\ heap'[r].ts = heap[r].ts
              /\ Known(link) /\ link.txn \in DOMAIN txn_map
          BY <1>2, <1>3, <1>4, <2>1, <3>2, <4>1, KnownLinks DEF ChainInv
        <4>3. txn_map[link.txn].undo_logs[link.idx].ts < heap[r].ts
          BY <4>1, <4>2 DEF ChainInv, VersionsOrdered, Exists, LogAt
        <4> QED
          BY <1>8, <1>9, <3>2, <4>2, <4>3
      <3>3. CASE s = r /\ heap[r].ts # t
        <4>1. undo_link'[s].txn = t /\ undo_link'[s].idx = n /\ new.logs[n].ts = heap[r].ts
          BY <1>2, <1>3, <3>3
        <4>2. heap[r].ts < t
          BY <1>5, <1>6, <3>3, RowType, SMTT(30)
        <4> QED
          BY <1>3, <1>4, <3>3, <4>1, <4>2
      <3> QED
        BY <3>1, <3>2, <3>3
    <2>2. ASSUME NEW u \in DOMAIN txn_map', NEW i \in DOMAIN txn_map'[u].undo_logs
          PROVE  LET log == txn_map'[u].undo_logs[i] IN
                 /\ log.ts <= last_commit_ts'
                 /\ log.prev_version.txn \in DOMAIN txn_map' =>
                       txn_map'[log.prev_version.txn].undo_logs[log.prev_version.idx].ts < log.ts
      <3>1. PICK ts, link : /\ ts = txn_map'[u].undo_logs[i].ts
                            /\ link = txn_map'[u].undo_logs[i].prev_version
        OBVIOUS
      <3>2. /\ Known(link) /\ ts <= last_commit_ts
            /\ link.txn \in DOMAIN txn_map => txn_map[link.txn].undo_logs[link.idx].ts < ts
        <4>1. CASE u # t
          BY <1>4, <2>2, <3>1, <4>1 DEF ChainInv, LinksKnown, VersionsOrdered, Exists, LogAt
        <4>2. CASE u = t /\ i \in DOMAIN old
          <5>1. /\ i \in DOMAIN txn_map[t].undo_logs
                /\ ts = txn_map[t].undo_logs[i].ts
                /\ link = txn_map[t].undo_logs[i].prev_version
            BY <1>1, <1>2, <1>4, <3>1, <4>2
          <5>2. Known(link)
            BY <5>1 DEF ChainInv, LinksKnown
          <5>3. ts <= last_commit_ts /\ (Exists(link) => LogAt(link).ts < ts)
            BY <5>1 DEF ChainInv, VersionsOrdered
          <5> QED
            BY <5>2, <5>3 DEF Exists, LogAt
        <4>3. CASE u = t /\ i \notin DOMAIN old
          <5>1. heap[r].ts # t /\ ts = heap[r].ts /\ link = undo_link[r]
            BY <1>2, <1>4, <2>2, <3>1, <4>3
          <5>2. Known(link) /\ ts <= last_commit_ts
            BY <1>6, <5>1, KnownLinks DEF ChainInv
          <5> QED
            BY <5>1, <5>2 DEF ChainInv, VersionsOrdered, Exists, LogAt
        <4> QED
          BY <4>1, <4>2, <4>3, SMTT(30)
      <3> QED
        BY <1>4, <1>8, <1>9, <3>1, <3>2
    <2>3. \A s \in DOMAIN heap' : Exists(undo_link[s])' => LogAt(undo_link[s])'.ts < heap'[s].ts
      BY <2>1 DEF Exists, LogAt
    <2> QED
      BY <2>2, <2>3 DEF VersionsOrdered, Exists, LogAt
  <1> QED
    BY <1>11, <1>12, <1>13 DEF ChainInv

\* The steps that change no undo log.
LEMMA SameLogs ==
    ASSUME TypeOK, NEW t \in DOMAIN txn_map,
           \/ UNCHANGED txn_map
           \/ \E x : txn_map' = [txn_map EXCEPT ![t].state = x]
           \/ \E x, y : txn_map' = [txn_map EXCEPT ![t].state = x, ![t].commit_ts = y]
           \/ \E x : txn_map' = [txn_map EXCEPT ![t].scan_predicates = x]
    PROVE  /\ DOMAIN txn_map' = DOMAIN txn_map
           /\ \A u \in DOMAIN txn_map : txn_map'[u].undo_logs = txn_map[u].undo_logs
  <1>1. \A u \in DOMAIN txn_map : txn_map[u] \in Transaction
    BY DEF TypeOK
  <1>2. CASE UNCHANGED txn_map
    BY <1>2
  <1>3. CASE \E x : txn_map' = [txn_map EXCEPT ![t].state = x]
    <2>1. PICK x : txn_map' = [txn_map EXCEPT ![t].state = x]
      BY <1>3
    <2> QED
      BY <1>1, <2>1 DEF Transaction
  <1>4. CASE \E x, y : txn_map' = [txn_map EXCEPT ![t].state = x, ![t].commit_ts = y]
    <2>1. PICK x, y : txn_map' = [txn_map EXCEPT ![t].state = x, ![t].commit_ts = y]
      BY <1>4
    <2> QED
      BY <1>1, <2>1 DEF Transaction
  <1>5. CASE \E x : txn_map' = [txn_map EXCEPT ![t].scan_predicates = x]
    <2>1. PICK x : txn_map' = [txn_map EXCEPT ![t].scan_predicates = x]
      BY <1>5
    <2> QED
      BY <1>1, <2>1 DEF Transaction
  <1> QED
    BY <1>2, <1>3, <1>4, <1>5

LEMMA StillStep ==
    ASSUME TypeOK, DOMAIN txn_map' = DOMAIN txn_map,
           \A u \in DOMAIN txn_map : txn_map'[u].undo_logs = txn_map[u].undo_logs,
           UNCHANGED <<heap, undo_link, next_txn_id>>,
           last_commit_ts' = last_commit_ts \/ last_commit_ts' = last_commit_ts + 1
    PROVE  StillChains
  BY DEF TypeOK, StillChains

LEMMA UnchangedChains ==
    ASSUME TypeOK, UNCHANGED <<heap, undo_link, txn_map, next_txn_id, last_commit_ts>>
    PROVE  StillChains
  BY DEF TypeOK, StillChains

LEMMA StatementStill ==
    ASSUME TypeOK, NEW t \in Txn, Statement(t)
    PROVE  StillChains
  <1>1. CASE StartScan(t)
    <2>1. t \in DOMAIN txn_map
      BY <1>1, RunsIsActive DEF StartScan
    <2>2. \E x : txn_map' = [txn_map EXCEPT ![t].scan_predicates = x]
      <3>1. txn_map' = [txn_map EXCEPT ![t].scan_predicates =
                            @ \cup {Head(program[t].todo).where}]
        BY <1>1 DEF StartScan
      <3>2. txn_map' = [txn_map EXCEPT ![t].scan_predicates =
                            txn_map[t].scan_predicates \cup {Head(program[t].todo).where}]
        BY <3>1, <2>1, TransactionFields DEF Transaction
      <3> QED
        BY <3>2
    <2>3. UNCHANGED <<heap, undo_link, next_txn_id, last_commit_ts>>
      BY <1>1 DEF StartScan, table, Others
    <2> QED
      BY <2>1, <2>2, <2>3, SameLogs, StillStep
  <1>2. CASE Visit(t)
    BY <1>2, UnchangedChains DEF Visit, table, Others
  <1>3. CASE Collect(t)
    BY <1>3, UnchangedChains DEF Collect, table, Others
  <1>4. CASE EndScan(t)
    BY <1>4, UnchangedChains DEF EndScan, table, Others
  <1>5. CASE StartInsert(t)
    BY <1>5, UnchangedChains DEF StartInsert, table, Others
  <1> QED
    BY <1>1, <1>2, <1>3, <1>4, <1>5 DEF Statement

LEMMA JoinStill ==
    ASSUME TypeOK, NEW t \in Txn, Join(t)
    PROVE  StillChains
  <1>1. UNCHANGED <<heap, undo_link, txn_map, next_txn_id, last_commit_ts>>
    BY DEF Join, StartJoin, JoinRead, EndJoin, table, Others
  <1> QED
    BY <1>1, UnchangedChains

LEMMA ConflictStill ==
    ASSUME TypeOK, NEW t \in DOMAIN txn_map, ThrowWriteConflict(t), UNCHANGED Others
    PROVE  StillChains
  <1>1. \E x : txn_map' = [txn_map EXCEPT ![t].state = x]
    BY DEF ThrowWriteConflict
  <1>2. UNCHANGED <<heap, undo_link, next_txn_id, last_commit_ts>>
    BY DEF ThrowWriteConflict, table, Others
  <1> QED
    BY <1>1, <1>2, SameLogs, StillStep

LEMMA WriteChains ==
    ASSUME IInv, NEW t \in Txn, Write(t)
    PROVE  ChainInv'
  <1> USE DEF IInv, WatermarkInv
  <1>1. CASE Modify(t)
    <2>1. t \in DOMAIN txn_map /\ at[t].do = "modify" /\ at[t].mods # <<>>
      BY <1>1, AtWork DEF Modify
    <2>2. PICK m, next : /\ m = Head(at[t].mods)
                         /\ ModifyTuple(t, m.rid, m.target, FALSE, next)
      BY <1>1 DEF Modify
    <2>3. m.rid \in DOMAIN heap
      <3>1. PICK mods : mods = at[t].mods
        OBVIOUS
      <3>2. mods \in Seq(Change) /\ \A i \in DOMAIN mods : mods[i].rid \in DOMAIN heap
        <4>1. at[t] \in Apply
          BY <2>1, StepFields DEF TypeOK
        <4> QED
          BY <2>1, <3>1, <4>1 DEF Apply, Change, RowsKnown, StepRows
      <3>3. 1 \in DOMAIN mods /\ m = mods[1]
        <4>1. Len(mods) \in Nat /\ Len(mods) > 0 /\ DOMAIN mods = 1..Len(mods)
          BY <2>1, <3>1, <3>2, LenProperties, EmptySeq
        <4> QED
          BY <2>2, <3>1, <3>2, <4>1
      <3> QED
        BY <3>2, <3>3
    <2>4. PICK r, target : r = m.rid /\ target = m.target
      OBVIOUS
    <2>5. UNCHANGED Others
      BY <1>1 DEF Modify
    <2>6. CASE Conflicts(t, r, FALSE)
      BY <2>1, <2>2, <2>4, <2>5, <2>6, ConflictStill, StillChainsKeep DEF ModifyTuple
    <2>7. CASE ~Conflicts(t, r, FALSE)
      BY <2>1, <2>2, <2>3, <2>4, <2>5, <2>7, ModifyTupleChains DEF Others
    <2> QED
      BY <2>6, <2>7
  <1>2. CASE LookUpKey(t)
    BY <1>2, UnchangedChains, StillChainsKeep DEF LookUpKey, table, Others
  <1>3. CASE Revive(t)
    <2>1. t \in DOMAIN txn_map /\ at[t].do = "revive"
      BY <1>3, AtWork DEF Revive
    <2>2. PICK r, target, next : r = at[t].rid /\ ModifyTuple(t, r, target, TRUE, next)
      BY <1>3 DEF Revive
    <2>3. r \in DOMAIN heap
      BY <2>1, <2>2 DEF RowsKnown, StepRows
    <2>4. UNCHANGED Others
      BY <1>3 DEF Revive
    <2>5. CASE Conflicts(t, r, TRUE)
      BY <2>1, <2>2, <2>4, <2>5, ConflictStill, StillChainsKeep DEF ModifyTuple
    <2>6. CASE ~Conflicts(t, r, TRUE)
      BY <2>1, <2>2, <2>3, <2>4, <2>6, ModifyTupleChains DEF Others
    <2> QED
      BY <2>5, <2>6
  <1>4. CASE AppendRow(t)
    BY <1>4, AppendRowChains
  <1>5. CASE EnterKey(t)
    <2>1. t \in DOMAIN txn_map
      BY <1>5, AtWork DEF EnterKey
    <2>2. CASE ThrowWriteConflict(t)
      BY <1>5, <2>1, <2>2, ConflictStill, StillChainsKeep DEF EnterKey
    <2>3. CASE UNCHANGED <<heap, undo_link, txn_map>>
      BY <1>5, <2>3, UnchangedChains, StillChainsKeep DEF EnterKey, Others
    <2> QED
      BY <1>5, <2>2, <2>3 DEF EnterKey
  <1> QED
    BY <1>1, <1>2, <1>3, <1>4, <1>5 DEF Write

LEMMA CommitChains ==
    ASSUME IInv, NEW t \in Txn, Commit(t)
    PROVE  ChainInv'
  <1> USE DEF IInv, WatermarkInv
  <1>1. CASE StartCommit(t)
    BY <1>1, UnchangedChains, StillChainsKeep DEF StartCommit, table
  <1>2. CASE Fetch(t)
    BY <1>2, UnchangedChains, StillChainsKeep DEF Fetch, table, Others
  <1>3. CASE VerifyRow(t)
    BY <1>3, UnchangedChains, StillChainsKeep DEF VerifyRow, table
  <1>4. CASE StampRow(t)
    BY <1>4, StampRowChains
  <1>5. CASE EndCommit(t)
    <2>1. t \in DOMAIN txn_map
      BY <1>5, AtWork DEF EndCommit
    <2>2. \E x, y : txn_map' = [txn_map EXCEPT ![t].state = x, ![t].commit_ts = y]
      BY <1>5 DEF EndCommit
    <2>3. UNCHANGED <<heap, undo_link, next_txn_id>> /\ last_commit_ts' = last_commit_ts + 1
      BY <1>5 DEF EndCommit, table
    <2> QED
      BY <2>1, <2>2, <2>3, SameLogs, StillStep, StillChainsKeep
  <1> QED
    BY <1>1, <1>2, <1>3, <1>4, <1>5 DEF Commit

LEMMA AbortChains ==
    ASSUME IInv, NEW t \in Txn, Abort(t)
    PROVE  ChainInv'
  <1> USE DEF IInv, WatermarkInv
  <1>1. CASE StartAbort(t)
    BY <1>1, UnchangedChains, StillChainsKeep DEF StartAbort, table, Others
  <1>2. CASE RestoreRow(t)
    BY <1>2, RestoreRowChains
  <1>3. CASE EndAbort(t)
    <2>1. t \in DOMAIN txn_map
      BY <1>3, AtWork DEF EndAbort
    <2>2. \E x : txn_map' = [txn_map EXCEPT ![t].state = x]
      BY <1>3 DEF EndAbort
    <2>3. UNCHANGED <<heap, undo_link, next_txn_id, last_commit_ts>>
      BY <1>3 DEF EndAbort, table
    <2> QED
      BY <2>1, <2>2, <2>3, SameLogs, StillStep, StillChainsKeep
  <1> QED
    BY <1>1, <1>2, <1>3 DEF Abort

\* Garbage collection erases logs; a link to one of them is a link to nothing.
LEMMA CollectionChains ==
    ASSUME TypeOK, ChainInv, GarbageCollection
    PROVE  ChainInv'
  <1>1. /\ DOMAIN txn_map' = DOMAIN txn_map \ Garbage
        /\ \A u \in DOMAIN txn_map \ Garbage : txn_map'[u] = txn_map[u]
        /\ UNCHANGED <<heap, undo_link, next_txn_id, last_commit_ts>>
    BY DEF GarbageCollection, table, Others
  <1>2. StillChains
    BY <1>1 DEF StillChains, TypeOK
  <1> QED
    BY <1>2, StillChainsKeep

LEMMA ChainsStep ==
    ASSUME IInv, [Next]_vars
    PROVE  ChainInv'
  <1>1. TypeOK /\ ChainInv /\ IdsIssued
    BY DEF IInv, WatermarkInv
  <1>2. ASSUME NEW t \in Txn,
               Begin(t) \/ Statement(t) \/ Write(t) \/ Join(t) \/ Commit(t) \/ Abort(t)
        PROVE  ChainInv'
    <2>1. CASE Begin(t)
      BY <1>1, <2>1, BeginChains
    <2>2. CASE Statement(t)
      BY <1>1, <2>2, StatementStill, StillChainsKeep
    <2>3. CASE Write(t)
      BY <2>3, WriteChains
    <2>4. CASE Join(t)
      BY <1>1, <2>4, JoinStill, StillChainsKeep
    <2>5. CASE Commit(t)
      BY <2>5, CommitChains
    <2>6. CASE Abort(t)
      BY <2>6, AbortChains
    <2> QED
      BY <1>2, <2>1, <2>2, <2>3, <2>4, <2>5, <2>6
  <1>3. CASE GarbageCollection
    BY <1>1, <1>3, CollectionChains
  <1>4. CASE UNCHANGED vars
    BY <1>1, <1>4, UnchangedChains, StillChainsKeep DEF vars, table
  <1> QED
    BY <1>2, <1>3, <1>4 DEF Next

-----------------------------------------------------------------------------
(* The theorems. *)

LEMMA TypeStep ==
    ASSUME IInv, [Next]_vars
    PROVE  TypeOK' /\ RowsKnown'
  <1>1. TypeOK /\ RowsKnown /\ WatermarkInv /\ BusyActive /\ LinksKnown
    BY DEF IInv, WatermarkInv, ChainInv
  <1>2. ASSUME NEW t \in Txn,
               Begin(t) \/ Statement(t) \/ Write(t) \/ Join(t) \/ Commit(t) \/ Abort(t)
        PROVE  TypeOK' /\ RowsKnown'
    <2>1. CASE Begin(t)
      BY <1>1, <2>1, BeginType
    <2>2. CASE Statement(t)
      BY <1>1, <2>2, StartScanType, VisitType, CollectType, EndScanType, StartInsertType
         DEF Statement
    <2>3. CASE Write(t)
      BY <1>1, <2>3, ModifyType, LookUpKeyType, ReviveType, AppendRowType, EnterKeyType
         DEF Write
    <2>4. CASE Join(t)
      BY <1>1, <2>4, JoinType
    <2>5. CASE Commit(t)
      BY <1>1, <2>5, StartCommitType, FetchType, VerifyRowType, StampRowType, EndCommitType
         DEF Commit
    <2>6. CASE Abort(t)
      BY <1>1, <2>6, StartAbortType, RestoreRowType, EndAbortType DEF Abort
    <2> QED
      BY <1>2, <2>1, <2>2, <2>3, <2>4, <2>5, <2>6
  <1>3. CASE GarbageCollection
    BY <1>1, <1>3, CollectionType
  <1>4. CASE UNCHANGED vars
    <2>1. UNCHANGED <<heap, undo_link, index, txn_map, next_txn_id, last_commit_ts,
                      commit_mutex, running_txns, at, program>>
      BY <1>4 DEF vars, table
    <2>2. TypeOK'
      BY <1>1, <2>1 DEF TypeOK
    <2>3. RowsKnown'
      BY <1>1, <2>1 DEF RowsKnown, StepRows
    <2> QED
      BY <2>2, <2>3
  <1> QED
    BY <1>2, <1>3, <1>4 DEF Next

\* The inductive invariant holds of every transaction manager, with any number of
\* transactions in any order of begin, scan, write, commit, abort and collection.
THEOREM MvccInvariant == Spec => []IInv
  <1>1. Init => IInv
    BY InitWatermark, InitChains DEF IInv, WatermarkInv
  <1>2. IInv /\ [Next]_vars => IInv'
    <2> SUFFICES ASSUME IInv, [Next]_vars PROVE IInv'
      OBVIOUS
    <2>1. TypeOK' /\ RowsKnown'
      BY TypeStep
    <2>2. WatermarkInv'
      BY WatermarkStep DEF IInv
    <2>3. ChainInv'
      BY ChainsStep
    <2> QED
      BY <2>1, <2>2, <2>3 DEF IInv
  <1> QED
    BY <1>1, <1>2, PTL DEF Spec

\* The heap, the transaction map, the threads and the watermark keep their types;
\* last_commit_ts_ never reaches the ids of transactions, with which it shares the
\* timestamp field of a tuple.
THEOREM MvccTypeOK == Spec => []TypeOK
  <1>1. IInv => TypeOK
    BY DEF IInv
  <1> QED
    BY <1>1, MvccInvariant, PTL

\* Watermark::AddTxn and RemoveTxn, called as transactions begin, commit and abort in
\* any order, keep GetWatermark at the oldest read timestamp in use, and at the last
\* commit when nobody reads.
THEOREM MvccWatermark == Spec => []WatermarkIsOldestReader
  <1>1. IInv => WatermarkIsOldestReader
    <2> SUFFICES ASSUME IInv PROVE WatermarkIsOldestReader
      OBVIOUS
    <2>1. PICK used : used = {txn_map[t].read_ts : t \in ActiveTxns}
      OBVIOUS
    <2>2. GetWatermark = IF used = {} THEN last_commit_ts ELSE Least(used)
      BY <2>1 DEF IInv, WatermarkInv, WatermarkCounts, GetWatermark
    <2> QED
      BY <2>1, <2>2 DEF WatermarkIsOldestReader, ActiveTxns
  <1> QED
    BY <1>1, MvccInvariant, PTL

\* Writes, stamps of a commit, the rollback of an abort and garbage collection keep
\* every version chain ordered by time: an undo log restores a version older than the
\* one it undoes, and only the version in the heap may be uncommitted.
THEOREM MvccVersionsOrdered == Spec => []VersionsOrdered
  <1>1. IInv => VersionsOrdered
    BY DEF IInv, ChainInv
  <1> QED
    BY <1>1, MvccInvariant, PTL

-----------------------------------------------------------------------------
(* Garbage collection against the readers. *)

\* S is a set of undo logs that exist, and has every log that a version newer than
\* the watermark needs, in the heap or restored from a log of S.  Nothing is said of
\* how long a chain is.
Kept(S) ==
    /\ \A l \in S : /\ l \in Link /\ l.txn \in DOMAIN txn_map
                    /\ l.idx \in DOMAIN txn_map[l.txn].undo_logs
    /\ \A r \in DOMAIN heap :
          heap[r].ts > GetWatermark /\ IsValid(undo_link[r]) => undo_link[r] \in S
    /\ \A l \in S :
          LogAt(l).ts > GetWatermark /\ IsValid(LogAt(l).prev_version)
             => LogAt(l).prev_version \in S

ChainsKept == GetWatermark >= 1 /\ \E S : Kept(S)

-----------------------------------------------------------------------------
(* The watermark only grows. *)

\* GetWatermark is the last commit or a snapshot in use, and none is older.
WatermarkLeast ==
    /\ GetWatermark \in Nat
    /\ GetWatermark <= last_commit_ts
    /\ \A u \in ActiveTxns : GetWatermark <= txn_map[u].read_ts
    /\ GetWatermark = last_commit_ts \/ \E u \in ActiveTxns : GetWatermark = txn_map[u].read_ts

LEMMA WatermarkIs == TypeOK /\ WatermarkInv => WatermarkLeast
  <1> SUFFICES ASSUME TypeOK, WatermarkInv PROVE WatermarkLeast
    OBVIOUS
  <1>1. PICK used : used = {txn_map[u].read_ts : u \in ActiveTxns}
    OBVIOUS
  <1>2. GetWatermark = IF used = {} THEN last_commit_ts ELSE Least(used)
    BY <1>1 DEF WatermarkInv, WatermarkCounts, GetWatermark
  <1>3. used \in SUBSET Nat /\ last_commit_ts \in Nat
        /\ \A ts \in used : ts <= last_commit_ts
    BY <1>1, TransactionFields DEF ActiveTxns, TypeOK, WatermarkInv, SnapshotsPast
  <1>4. used # {} => Least(used) \in used /\ \A ts \in used : Least(used) <= ts
    BY <1>3, LeastNat
  <1>5. \A u \in ActiveTxns : txn_map[u].read_ts \in used
    BY <1>1
  <1>6. \A ts \in used : \E u \in ActiveTxns : ts = txn_map[u].read_ts
    BY <1>1
  <1>7. CASE used = {}
    BY <1>2, <1>3, <1>5, <1>7 DEF WatermarkLeast
  <1>8. CASE used # {}
    <2>1. GetWatermark \in used /\ \A ts \in used : GetWatermark <= ts
      BY <1>2, <1>4, <1>8
    <2> HIDE DEF GetWatermark
    <2> QED
      BY <1>3, <1>5, <1>6, <2>1 DEF WatermarkLeast
  <1> QED
    BY <1>7, <1>8

\* Who reads after a step read before it, or has begun at the last commit.
LEMMA WatermarkOn ==
    ASSUME TypeOK, TypeOK', WatermarkInv, WatermarkInv',
           last_commit_ts <= last_commit_ts',
           \A u \in ActiveTxns' :
              \/ txn_map'[u].read_ts = last_commit_ts
              \/ u \in ActiveTxns /\ txn_map'[u].read_ts = txn_map[u].read_ts
    PROVE  GetWatermark \in Nat /\ GetWatermark' \in Nat /\ GetWatermark <= GetWatermark'
  <1>1. /\ GetWatermark \in Nat /\ GetWatermark <= last_commit_ts
        /\ \A u \in ActiveTxns : GetWatermark <= txn_map[u].read_ts
    BY WatermarkIs DEF WatermarkLeast
  <1>2. /\ GetWatermark' \in Nat
        /\ GetWatermark' = last_commit_ts'
           \/ \E u \in ActiveTxns' : GetWatermark' = txn_map'[u].read_ts
    <2>1. WatermarkLeast'
      BY WatermarkIs, PTL
    <2> QED
      BY <2>1 DEF WatermarkLeast
  <1>3. last_commit_ts \in Nat /\ last_commit_ts' \in Nat
    BY DEF TypeOK
  <1>4. CASE GetWatermark' = last_commit_ts'
    BY <1>1, <1>2, <1>3, <1>4
  <1>5. CASE \E u \in ActiveTxns' : GetWatermark' = txn_map'[u].read_ts
    <2>1. PICK u \in ActiveTxns' : GetWatermark' = txn_map'[u].read_ts
      BY <1>5
    <2>2. GetWatermark <= txn_map'[u].read_ts
      BY <1>1
    <2> QED
      BY <1>1, <1>2, <2>1, <2>2
  <1> QED
    BY <1>1, <1>2, <1>4, <1>5

LEMMA WatermarkGrows ==
    ASSUME IInv, IInv', [Next]_vars
    PROVE  GetWatermark \in Nat /\ GetWatermark' \in Nat /\ GetWatermark <= GetWatermark'
  <1>1. /\ TypeOK /\ TypeOK' /\ WatermarkInv /\ WatermarkInv' /\ BusyActive
        /\ last_commit_ts \in Nat
    BY DEF IInv, WatermarkInv, TypeOK
  <1> DEFINE On == /\ last_commit_ts <= last_commit_ts'
                   /\ \A u \in ActiveTxns' :
                         \/ txn_map'[u].read_ts = last_commit_ts
                         \/ u \in ActiveTxns /\ txn_map'[u].read_ts = txn_map[u].read_ts
  <1> SUFFICES On
    BY <1>1, WatermarkOn
  <1>2. Quiet => On
    BY <1>1 DEF Quiet, ActiveTxns
  <1>3. ASSUME NEW t \in Txn,
               Begin(t) \/ Statement(t) \/ Write(t) \/ Join(t) \/ Commit(t) \/ Abort(t)
        PROVE  On
    <2>1. CASE Begin(t)
      <3>1. /\ DOMAIN txn_map' = DOMAIN txn_map \cup {t}
            /\ txn_map'[t].read_ts = last_commit_ts
            /\ \A u \in DOMAIN txn_map \ {t} : txn_map'[u] = txn_map[u]
            /\ last_commit_ts' = last_commit_ts
        BY <2>1 DEF Begin
      <3> QED
        BY <1>1, <3>1 DEF ActiveTxns, Active
    <2>2. CASE Statement(t)
      BY <1>1, <1>2, <2>2, StatementQuiet
    <2>3. CASE Write(t)
      BY <1>1, <1>2, <2>3, WriteQuiet
    <2>4. CASE Join(t)
      BY <1>1, <1>2, <2>4, JoinQuiet
    <2>5. CASE EndCommit(t)
      <3>1. t \in DOMAIN txn_map /\ txn_map[t] \in Transaction
        BY <1>1, <2>5, AtWork, TransactionFields DEF EndCommit
      <3>2. /\ DOMAIN txn_map' = DOMAIN txn_map
            /\ txn_map'[t].state = "COMMITTED"
            /\ \A u \in DOMAIN txn_map \ {t} : txn_map'[u] = txn_map[u]
            /\ last_commit_ts' = last_commit_ts + 1
        BY <2>5, <3>1 DEF EndCommit, Transaction
      <3> QED
        BY <1>1, <3>2 DEF ActiveTxns, Active
    <2>6. CASE EndAbort(t)
      <3>1. t \in DOMAIN txn_map /\ txn_map[t] \in Transaction
        BY <1>1, <2>6, AtWork, TransactionFields DEF EndAbort
      <3>2. /\ DOMAIN txn_map' = DOMAIN txn_map
            /\ txn_map'[t].state = "ABORTED"
            /\ \A u \in DOMAIN txn_map \ {t} : txn_map'[u] = txn_map[u]
            /\ last_commit_ts' = last_commit_ts
        BY <2>6, <3>1 DEF EndAbort, Transaction
      <3> QED
        BY <1>1, <3>2 DEF ActiveTxns, Active
    <2>7. CASE Commit(t) /\ ~EndCommit(t)
      BY <1>1, <1>2, <2>7, CommitQuiet DEF Commit
    <2>8. CASE Abort(t) /\ ~EndAbort(t)
      BY <1>1, <1>2, <2>8, AbortQuiet DEF Abort
    <2> QED
      BY <1>3, <2>1, <2>2, <2>3, <2>4, <2>5, <2>6, <2>7, <2>8
  <1>4. CASE GarbageCollection
    <2>1. /\ DOMAIN txn_map' \subseteq DOMAIN txn_map
          /\ \A u \in DOMAIN txn_map' : txn_map'[u] = txn_map[u]
          /\ last_commit_ts' = last_commit_ts
      BY <1>4 DEF GarbageCollection, Others
    <2>2. \A u \in ActiveTxns' : u \in ActiveTxns
      BY <2>1 DEF ActiveTxns, Active
    <2>3. \A u \in ActiveTxns' : txn_map'[u].read_ts = txn_map[u].read_ts
      BY <2>1 DEF ActiveTxns
    <2> QED
      BY <1>1, <2>1, <2>2, <2>3
  <1> HIDE DEF On
  <1>5. CASE UNCHANGED vars
    BY <1>2, <1>5, StutterQuiet
  <1> QED
    BY <1>3, <1>4, <1>5 DEF Next

-----------------------------------------------------------------------------
(* Steps keep the logs that readers need. *)

\* What a link of a kept set leads to.
LEMMA KeptLog ==
    ASSUME TypeOK, LinksKnown, NEW S, Kept(S), NEW l \in S
    PROVE  /\ LogAt(l) \in UndoLog /\ LogAt(l).ts \in Nat
           /\ LogAt(l).prev_version \in Link
  BY KnownLinks DEF Kept, LogAt

\* A step keeps the logs that were kept, and adds logs whose links are kept.
LEMMA KeptOn ==
    ASSUME TypeOK, LinksKnown, NEW S, Kept(S), NEW T, S \subseteq T,
           GetWatermark \in Nat, GetWatermark' \in Nat, GetWatermark <= GetWatermark',
           \A l \in T : /\ l \in Link /\ l.txn \in DOMAIN txn_map'
                        /\ l.idx \in DOMAIN txn_map'[l.txn].undo_logs,
           \A l \in S :
              LogAt(l)'.ts = LogAt(l).ts /\ LogAt(l)'.prev_version = LogAt(l).prev_version,
           \A l \in T \ S : LogAt(l)'.ts > GetWatermark /\ IsValid(LogAt(l)'.prev_version)
              => LogAt(l)'.prev_version \in S,
           \A l \in T : LogAt(l)'.ts \in Nat,
           \A r \in DOMAIN heap' :
              heap'[r].ts > GetWatermark' /\ IsValid(undo_link'[r]) => undo_link'[r] \in T
    PROVE  Kept(T)'
  <1>1. ASSUME NEW l \in T, LogAt(l)'.ts > GetWatermark', IsValid(LogAt(l)'.prev_version)
        PROVE  LogAt(l)'.prev_version \in T
    <2>1. LogAt(l)'.ts > GetWatermark
      BY <1>1
    <2>2. CASE l \in S
      <3>1. LogAt(l).ts > GetWatermark /\ IsValid(LogAt(l).prev_version)
        BY <1>1, <2>1, <2>2
      <3>2. LogAt(l).prev_version \in S
        BY <2>2, <3>1 DEF Kept
      <3> QED
        BY <2>2, <3>2
    <2>3. CASE l \notin S
      BY <1>1, <2>1, <2>3
    <2> QED
      BY <2>2, <2>3
  <1> QED
    BY <1>1 DEF Kept, IsValid, NoTxn

\* Steps that write rows and no log.
LEMMA KeptRows ==
    ASSUME TypeOK, LinksKnown, NEW S, Kept(S),
           DOMAIN txn_map \subseteq DOMAIN txn_map',
           \A u \in DOMAIN txn_map : txn_map'[u].undo_logs = txn_map[u].undo_logs,
           GetWatermark \in Nat, GetWatermark' \in Nat, GetWatermark <= GetWatermark',
           \A r \in DOMAIN heap' :
              heap'[r].ts > GetWatermark' /\ IsValid(undo_link'[r]) => undo_link'[r] \in S
    PROVE  Kept(S)'
  <1>1. \A l \in S : LogAt(l)' = LogAt(l) /\ LogAt(l).ts \in Nat
    BY KeptLog DEF Kept, LogAt
  <1>2. \A l \in S : /\ l \in Link /\ l.txn \in DOMAIN txn_map'
                     /\ l.idx \in DOMAIN txn_map'[l.txn].undo_logs
    BY DEF Kept
  <1> QED
    BY <1>1, <1>2, KeptOn

\* Steps that write neither rows nor logs.
LEMMA KeptStill ==
    ASSUME TypeOK, LinksKnown, NEW S, Kept(S), UNCHANGED <<heap, undo_link>>,
           DOMAIN txn_map \subseteq DOMAIN txn_map',
           \A u \in DOMAIN txn_map : txn_map'[u].undo_logs = txn_map[u].undo_logs,
           GetWatermark \in Nat, GetWatermark' \in Nat, GetWatermark <= GetWatermark'
    PROVE  Kept(S)'
  <1>1. ASSUME NEW r \in DOMAIN heap', heap'[r].ts > GetWatermark', IsValid(undo_link'[r])
        PROVE  undo_link'[r] \in S
    <2>1. heap[r].ts > GetWatermark
      BY <1>1, RowType
    <2> QED
      BY <1>1, <2>1 DEF Kept
  <1> QED
    BY <1>1, KeptRows

LEMMA BeginKept ==
    ASSUME TypeOK, ChainInv, IdsIssued, NEW S, Kept(S), NEW t \in Txn, Begin(t),
           GetWatermark \in Nat, GetWatermark' \in Nat, GetWatermark <= GetWatermark'
    PROVE  Kept(S)'
  <1>1. /\ t = next_txn_id /\ t \in Nat
        /\ DOMAIN txn_map' = DOMAIN txn_map \cup {t}
        /\ \A u \in DOMAIN txn_map \ {t} : txn_map'[u] = txn_map[u]
        /\ UNCHANGED <<heap, undo_link>>
    BY TxnFacts DEF Begin, table
  <1>2. t \notin DOMAIN txn_map
    BY <1>1, TransactionFields, TxnFacts DEF IdsIssued
  <1> QED
    BY <1>1, <1>2, KeptStill DEF ChainInv

LEMMA AppendRowKept ==
    ASSUME TypeOK, ChainInv, BusyActive, NEW S, Kept(S), NEW t \in Txn, AppendRow(t),
           GetWatermark \in Nat, GetWatermark' \in Nat, GetWatermark <= GetWatermark'
    PROVE  Kept(S)'
  <1> DEFINE new == Len(heap) + 1
  <1>1. t \in DOMAIN txn_map
    BY AtWork DEF AppendRow
  <1>2. /\ DOMAIN heap = 1..Len(heap) /\ Len(heap) \in Nat /\ heap \in Seq(Row)
    BY HeapDomain DEF TypeOK, Row
  <1>3. PICK row : row = [tuple |-> Head(at[t].rows), ts |-> t, deleted |-> FALSE]
    OBVIOUS
  <1>4. heap' = Append(heap, row) /\ Len(heap) < MaxRows
    BY <1>3 DEF AppendRow
  <1>5. /\ DOMAIN heap' = DOMAIN heap \cup {new} /\ new \notin DOMAIN heap /\ new \in Rid
        /\ \A r \in DOMAIN heap : heap'[r] = heap[r]
    BY <1>2, <1>4, BoundsAssumption DEF Rid
  <1>6. undo_link' = undo_link /\ undo_link[new] = InvalidLink
    BY <1>5 DEF AppendRow, ChainInv, LinksKnown
  <1>7. /\ DOMAIN txn_map' = DOMAIN txn_map
        /\ \A u \in DOMAIN txn_map : txn_map'[u].undo_logs = txn_map[u].undo_logs
    <2>1. \A u \in DOMAIN txn_map : txn_map[u] \in Transaction
      BY DEF TypeOK
    <2> QED
      BY <1>1, <2>1 DEF AppendRow, Transaction
  <1> HIDE DEF new
  <1>8. ASSUME NEW r \in DOMAIN heap', heap'[r].ts > GetWatermark', IsValid(undo_link'[r])
        PROVE  undo_link'[r] \in S
    <2>1. r \in DOMAIN heap
      BY <1>5, <1>6, <1>8 DEF IsValid, InvalidLink
    <2>2. heap[r].ts > GetWatermark
      BY <1>5, <1>8, <2>1, RowType
    <2> QED
      BY <1>6, <1>8, <2>1, <2>2 DEF Kept
  <1> QED
    BY <1>7, <1>8, KeptRows DEF ChainInv

\* A stamp gives an uncommitted row the timestamp of its commit.
LEMMA StampRowKept ==
    ASSUME TypeOK, WatermarkInv, RowsKnown, ChainInv, NEW S, Kept(S), NEW t \in Txn, StampRow(t),
           GetWatermark \in Nat, GetWatermark' \in Nat, GetWatermark <= GetWatermark'
    PROVE  Kept(S)'
  <1>1. PICK r \in at[t].todo :
           heap' = IF heap[r].ts = t THEN [heap EXCEPT ![r].ts = last_commit_ts + 1] ELSE heap
    BY DEF StampRow
  <1>2. r \in DOMAIN heap
    BY <1>1 DEF StampRow, RowsKnown, StepRows
  <1>3. /\ DOMAIN heap' = DOMAIN heap
        /\ \A s \in DOMAIN heap : heap'[s].ts = heap[s].ts \/ heap[s].ts = t
    <2>1. \A s \in DOMAIN heap : heap[s] \in [tuple : Tuple, ts : Nat, deleted : BOOLEAN]
      BY RowType
    <2> QED
      BY <1>1, <1>2, <2>1
  <1>4. t > GetWatermark
    <2>1. GetWatermark <= last_commit_ts
      BY WatermarkIs DEF WatermarkLeast
    <2> QED
      BY <2>1, TxnFacts DEF TypeOK
  <1>5. UNCHANGED <<undo_link, txn_map>>
    BY DEF StampRow
  <1>6. ASSUME NEW s \in DOMAIN heap', heap'[s].ts > GetWatermark', IsValid(undo_link'[s])
        PROVE  undo_link'[s] \in S
    <2>1. heap[s].ts > GetWatermark
      BY <1>3, <1>4, <1>6, RowType
    <2> QED
      BY <1>3, <1>5, <1>6, <2>1 DEF Kept
  <1> QED
    BY <1>5, <1>6, KeptRows DEF ChainInv

\* An abort goes back to the log before, which is kept for the version it restores.
LEMMA RestoreRowKept ==
    ASSUME TypeOK, WatermarkInv, RowsKnown, ChainInv, NEW S, Kept(S),
           NEW t \in Txn, RestoreRow(t),
           GetWatermark \in Nat, GetWatermark' \in Nat, GetWatermark <= GetWatermark'
    PROVE  Kept(S)'
  <1>1. t \in DOMAIN txn_map
    BY AtWork DEF RestoreRow, WatermarkInv
  <1> DEFINE old(r) == Restored(t, Base(r))
  <1>2. PICK r \in at[t].todo :
           \/ UNCHANGED <<heap, undo_link>>
           \/ /\ heap[r].ts = t
              /\ heap' = [heap EXCEPT ![r] =
                    [tuple |-> IF old(r).deleted THEN heap[r].tuple ELSE old(r).tuple,
                     ts |-> old(r).ts, deleted |-> old(r).deleted]]
              /\ undo_link' = [undo_link EXCEPT ![r] = old(r).link]
    BY DEF RestoreRow
  <1>3. r \in DOMAIN heap /\ r \in Rid
    BY RowType DEF RestoreRow, RowsKnown, StepRows
  <1>4. txn_map' = txn_map
    BY DEF RestoreRow
  <1>5. CASE UNCHANGED <<heap, undo_link>>
    BY <1>4, <1>5, KeptStill DEF ChainInv
  <1>6. CASE heap[r].ts = t /\ ~UNCHANGED <<heap, undo_link>>
    <2>1. PICK ver, link : ver = old(r) /\ link = undo_link[r]
      OBVIOUS
    <2>2. /\ link.txn = t => ver.ts = LogAt(link).ts /\ ver.link = LogAt(link).prev_version
          /\ link.txn # t => ver.ts = 0 /\ ver.link = link
      BY <1>1, <1>3, <2>1, RestoredType DEF ChainInv
    <2>3. /\ DOMAIN heap' = DOMAIN heap /\ heap'[r].ts = ver.ts
          /\ \A s \in DOMAIN heap : s # r => heap'[s] = heap[s]
          /\ undo_link'[r] = ver.link
          /\ \A s \in DOMAIN heap : s # r => undo_link'[s] = undo_link[s]
      BY <1>2, <1>3, <1>6, <2>1, HeapDomain, SMTT(30) DEF TypeOK
    <2>4. GetWatermark < t
      <3>1. GetWatermark <= last_commit_ts
        BY WatermarkIs DEF WatermarkLeast
      <3> QED
        BY <3>1, TxnFacts DEF TypeOK
    <2>5. ASSUME ver.ts > GetWatermark', IsValid(ver.link) PROVE ver.link \in S
      <3>1. link.txn = t
        BY <2>2, <2>5
      <3>2. link \in S
        BY <1>3, <1>6, <2>1, <2>4, <3>1, TxnFacts DEF Kept, IsValid
      <3>3. ver.ts > GetWatermark
        BY <2>2, <2>5, <3>1, <3>2, KeptLog DEF ChainInv
      <3> QED
        BY <2>2, <2>5, <3>1, <3>2, <3>3 DEF Kept
    <2>6. ASSUME NEW s \in DOMAIN heap', heap'[s].ts > GetWatermark', IsValid(undo_link'[s])
          PROVE  undo_link'[s] \in S
      <3>1. CASE s = r
        BY <2>3, <2>5, <2>6, <3>1
      <3>2. CASE s # r
        <4>1. heap[s].ts > GetWatermark
          BY <2>3, <2>6, <3>2, RowType
        <4> QED
          BY <2>3, <2>6, <3>2, <4>1 DEF Kept
      <3> QED
        BY <3>1, <3>2
    <2> QED
      BY <1>4, <2>6, KeptRows DEF ChainInv
  <1> QED
    BY <1>2, <1>5, <1>6

\* A write adds one log, for the version it replaces, or none.
LEMMA ModifyTupleKept ==
    ASSUME TypeOK, WatermarkInv, RowsKnown, ChainInv, NEW S, Kept(S),
           NEW t \in DOMAIN txn_map, NEW r \in DOMAIN heap, NEW target, NEW dead, NEW next,
           ModifyTuple(t, r, target, dead, next), ~Conflicts(t, r, dead),
           GetWatermark \in Nat, GetWatermark' \in Nat, GetWatermark <= GetWatermark'
    PROVE  \E T : Kept(T)'
  <1>1. PICK old, new, n, prev : /\ old = txn_map[t].undo_logs /\ new = Logged(t, r, target)
                                 /\ n = Len(old) + 1 /\ prev = undo_link[r]
    OBVIOUS
  <1>2. /\ \A i \in DOMAIN old : /\ i \in DOMAIN new.logs
                                 /\ new.logs[i].ts = old[i].ts
                                 /\ new.logs[i].prev_version = old[i].prev_version
        /\ heap[r].ts = t => new.link = prev
        /\ heap[r].ts # t =>
              /\ n \in DOMAIN new.logs /\ n \notin DOMAIN old
              /\ new.link = [txn |-> t, idx |-> n]
              /\ new.logs[n].ts = heap[r].ts
              /\ new.logs[n].prev_version = prev
        /\ new.link \in Link
    BY <1>1, LoggedLogs DEF ChainInv
  <1>3. /\ DOMAIN heap' = DOMAIN heap
        /\ \A s \in DOMAIN heap : s # r => heap'[s] = heap[s]
        /\ undo_link'[r] = new.link
        /\ \A s \in DOMAIN heap : s # r => undo_link'[s] = undo_link[s]
    BY <1>1, RowType, HeapDomain DEF ModifyTuple, TypeOK
  <1>4. /\ DOMAIN txn_map' = DOMAIN txn_map
        /\ txn_map'[t].undo_logs = new.logs
        /\ \A u \in DOMAIN txn_map : u # t => txn_map'[u].undo_logs = txn_map[u].undo_logs
    <2>1. txn_map[t] \in Transaction
      BY TransactionFields
    <2>2. txn_map' = [txn_map EXCEPT ![t].undo_logs = new.logs, ![t].write_set = @ \cup {r}]
      BY <1>1 DEF ModifyTuple
    <2> QED
      BY <2>1, <2>2 DEF Transaction
  <1>5. GetWatermark < t
    <2>1. GetWatermark <= last_commit_ts
      BY WatermarkIs DEF WatermarkLeast
    <2> QED
      BY <2>1, TransactionFields, TxnFacts DEF TypeOK
  <1>6. (heap[r].ts > GetWatermark /\ IsValid(prev) => prev \in S) /\ heap[r].ts \in Nat
    BY <1>1, RowType DEF Kept
  <1>7. PICK T : T = IF heap[r].ts = t THEN S ELSE S \cup {new.link}
    OBVIOUS
  <1>8. ASSUME NEW l \in S
        PROVE  /\ l \in Link /\ l.txn \in DOMAIN txn_map'
               /\ l.idx \in DOMAIN txn_map'[l.txn].undo_logs
               /\ LogAt(l)'.ts = LogAt(l).ts /\ LogAt(l)'.prev_version = LogAt(l).prev_version
               /\ LogAt(l)'.ts \in Nat
    <2>1. /\ l \in Link /\ l.txn \in DOMAIN txn_map
          /\ l.idx \in DOMAIN txn_map[l.txn].undo_logs
      BY DEF Kept
    <2>2. LogAt(l).ts \in Nat
      BY KeptLog DEF ChainInv
    <2> QED
      BY <1>1, <1>2, <1>4, <2>1, <2>2 DEF LogAt
  <1>9. ASSUME NEW l \in T \ S
        PROVE  /\ l \in Link /\ l.txn \in DOMAIN txn_map'
               /\ l.idx \in DOMAIN txn_map'[l.txn].undo_logs
               /\ LogAt(l)'.ts \in Nat
               /\ LogAt(l)'.ts > GetWatermark /\ IsValid(LogAt(l)'.prev_version)
                     => LogAt(l)'.prev_version \in S
    <2>1. heap[r].ts # t /\ l = new.link /\ l = [txn |-> t, idx |-> n]
      BY <1>2, <1>7
    <2>2. l.txn = t /\ l.idx = n
      BY <2>1
    <2>3. LogAt(l)'.ts = heap[r].ts /\ LogAt(l)'.prev_version = prev
      BY <1>2, <1>4, <2>1, <2>2 DEF LogAt
    <2> QED
      BY <1>2, <1>4, <1>6, <2>1, <2>2, <2>3
  <1>10. ASSUME NEW s \in DOMAIN heap', heap'[s].ts > GetWatermark', IsValid(undo_link'[s])
         PROVE  undo_link'[s] \in T
    <2>1. CASE s # r
      <3>1. s \in DOMAIN heap /\ heap[s].ts > GetWatermark /\ undo_link'[s] = undo_link[s]
        BY <1>3, <1>10, <2>1, RowType
      <3> QED
        BY <1>7, <1>10, <3>1 DEF Kept
    <2>2. CASE s = r /\ heap[r].ts # t
      BY <1>3, <1>7, <2>2
    <2>3. CASE s = r /\ heap[r].ts = t
      <3>1. undo_link'[s] = prev /\ IsValid(prev)
        BY <1>2, <1>3, <1>10, <2>3
      <3> QED
        BY <1>5, <1>6, <1>7, <2>3, <3>1
    <2> QED
      BY <2>1, <2>2, <2>3
  <1>11. S \subseteq T
    BY <1>7
  <1>12. Kept(T)'
    BY <1>8, <1>9, <1>10, <1>11, KeptOn DEF ChainInv
  <1> QED
    BY <1>12

-----------------------------------------------------------------------------
(* The version chain of a row. *)

LEMMA Induction ==
    ASSUME NEW S, 0 \in S, \A n \in Nat : n \in S => n + 1 \in S
    PROVE  \A n \in Nat : n \in S
  <1> DEFINE out == Nat \ S
  <1> SUFFICES ASSUME out # {} PROVE FALSE
    OBVIOUS
  <1>1. Least(out) \in out /\ \A y \in out : Least(out) <= y
    BY LeastNat
  <1>2. PICK x \in out : \A y \in out : x <= y
    BY <1>1
  <1>3. x \in Nat /\ x \notin S /\ x # 0
    BY <1>2
  <1>4. x - 1 \in Nat /\ ~(x <= x - 1) /\ (x - 1) + 1 = x
    BY <1>3
  <1>5. x - 1 \in S
    BY <1>2, <1>4
  <1> QED
    BY <1>3, <1>4, <1>5

\* The versions one undo log before those of a set.
Before(X) ==
    {Undone(x, LogAt(x.link)) : x \in {y \in X : IsValid(y.link) /\ Exists(y.link)}}

\* f lists the versions 0 to m logs before ver.
Backs(ver, m, f) == f = [n \in 0..m |-> IF n = 0 THEN {ver} ELSE Before(f[n - 1])]

LEMMA BacksExist == ASSUME NEW ver, NEW m \in Nat PROVE \E f : Backs(ver, m, f)
  <1> DEFINE S == {n \in Nat : \E f : Backs(ver, n, f)}
  <1>1. 0 \in S
    <2> DEFINE g == [n \in 0..0 |-> {ver}]
    <2>1. \A n \in 0..0 : n = 0
      OBVIOUS
    <2>2. Backs(ver, 0, g)
      BY <2>1 DEF Backs
    <2> QED
      BY <2>2
  <1>2. ASSUME NEW n \in Nat, n \in S PROVE n + 1 \in S
    <2>1. PICK f : Backs(ver, n, f)
      BY <1>2
    <2> DEFINE g == [i \in 0..n + 1 |-> IF i = n + 1 THEN Before(f[n]) ELSE f[i]]
               h == [i \in 0..n + 1 |-> IF i = 0 THEN {ver} ELSE Before(g[i - 1])]
    <2>2. \A i \in 0..n : f[i] = IF i = 0 THEN {ver} ELSE Before(f[i - 1])
      BY <2>1 DEF Backs
    <2>3. \A i \in 0..n : g[i] = f[i]
      OBVIOUS
    <2>4. ASSUME NEW i \in 0..n + 1 PROVE g[i] = h[i]
      <3>1. CASE i = n + 1
        <4>1. g[i] = Before(f[n]) /\ i # 0 /\ i - 1 = n /\ n \in 0..n
          BY <3>1
        <4>2. g[i - 1] = f[n]
          BY <2>3, <4>1
        <4>3. h[i] = Before(g[i - 1])
          BY <4>1
        <4> QED
          BY <4>1, <4>2, <4>3
      <3>2. CASE i # n + 1 /\ i # 0
        <4>1. i \in 0..n /\ i - 1 \in 0..n
          BY <3>2
        <4>2. g[i] = Before(f[i - 1]) /\ g[i - 1] = f[i - 1]
          BY <2>2, <2>3, <3>2, <4>1
        <4>3. h[i] = Before(g[i - 1])
          BY <3>2
        <4> QED
          BY <4>2, <4>3
      <3>3. CASE i = 0
        BY <2>2, <2>3, <3>3
      <3> QED
        BY <3>1, <3>2, <3>3
    <2>5. g = h
      <3>1. /\ g = [i \in 0..n + 1 |-> g[i]]
            /\ h = [i \in 0..n + 1 |-> h[i]]
        OBVIOUS
      <3> HIDE DEF g, h
      <3> QED
        BY <2>4, <3>1
    <2>6. Backs(ver, n + 1, g)
      BY <2>5 DEF Backs
    <2> QED
      BY <2>6
  <1> HIDE DEF S
  <1>3. m \in S
    BY <1>1, <1>2, Induction
  <1> QED
    BY <1>3 DEF S

LEMMA OlderIs ==
    ASSUME NEW ver
    PROVE  /\ Older(ver)[0] = {ver}
           /\ \A n \in 0..MaxTxns : Older(ver)[n + 1] = Before(Older(ver)[n])
  <1>1. MaxTxns + 1 \in Nat /\ MaxTxns \in Nat
    BY TxnFacts
  <1>2. \E f : Backs(ver, MaxTxns + 1, f)
    BY <1>1, BacksExist
  <1>3. Older(ver) = CHOOSE f : Backs(ver, MaxTxns + 1, f)
    BY DEF Older, Backs, Before
  <1>4. PICK f : f = Older(ver) /\ Backs(ver, MaxTxns + 1, f)
    BY <1>2, <1>3
  <1>5. \A n \in 0..MaxTxns + 1 : f[n] = IF n = 0 THEN {ver} ELSE Before(f[n - 1])
    BY <1>4 DEF Backs
  <1>6. f[0] = {ver}
    BY <1>1, <1>5
  <1>7. ASSUME NEW n \in 0..MaxTxns PROVE f[n + 1] = Before(f[n])
    <2>1. n + 1 \in 0..MaxTxns + 1 /\ n + 1 # 0 /\ (n + 1) - 1 = n
      BY <1>1
    <2> QED
      BY <1>5, <2>1
  <1> QED
    BY <1>4, <1>6, <1>7

\* A version of the chain of row r, n logs before the one in the heap: it is older by
\* at least a commit than the one it was restored after, but for the first.
ChainVersion(r, n, x) ==
    /\ x.ts \in Nat /\ x.link \in Link /\ Known(x.link)
    /\ Exists(x.link) => LogAt(x.link).ts < x.ts
    /\ n = 0 => x = Base(r)
    /\ n # 0 => x.ts + n <= last_commit_ts + 1

LEMMA ChainVersions ==
    ASSUME TypeOK, ChainInv, NEW r \in DOMAIN heap
    PROVE  \A n \in 0..MaxTxns + 1 : \A x \in Older(Base(r))[n] : ChainVersion(r, n, x)
  <1> DEFINE back == Older(Base(r))
             S == {n \in Nat : n \in 0..MaxTxns + 1 =>
                      \A x \in back[n] : ChainVersion(r, n, x)}
  <1>1. back[0] = {Base(r)} /\ \A n \in 0..MaxTxns : back[n + 1] = Before(back[n])
    BY OlderIs
  <1> HIDE DEF back
  <1>2. 0 \in S
    <2>1. /\ Base(r).ts = heap[r].ts /\ heap[r].ts \in Nat
          /\ Base(r).link = undo_link[r] /\ undo_link[r] \in Link
      BY RowType
    <2>2. Known(undo_link[r]) /\ (Exists(undo_link[r]) => LogAt(undo_link[r]).ts < heap[r].ts)
      BY KnownLinks DEF ChainInv, VersionsOrdered
    <2>3. ChainVersion(r, 0, Base(r))
      BY <2>1, <2>2 DEF ChainVersion
    <2> QED
      BY <1>1, <2>3
  <1>3. ASSUME NEW n \in Nat, n \in S PROVE n + 1 \in S
    <2> SUFFICES ASSUME n + 1 \in 0..MaxTxns + 1, NEW x \in back[n + 1]
                 PROVE  ChainVersion(r, n + 1, x)
      OBVIOUS
    <2>1. n \in 0..MaxTxns /\ n \in 0..MaxTxns + 1 /\ n + 1 # 0
      BY TxnFacts
    <2>2. x \in Before(back[n])
      BY <1>1, <2>1
    <2>3. PICK y \in back[n] : IsValid(y.link) /\ Exists(y.link) /\ x = Undone(y, LogAt(y.link))
      BY <2>2 DEF Before
    <2>4. ChainVersion(r, n, y)
      BY <1>3, <2>1
    <2>5. PICK l, log : l = y.link /\ log = LogAt(l)
      OBVIOUS
    <2>6. x.ts = log.ts /\ x.link = log.prev_version
      BY <2>3, <2>5 DEF Undone
    <2>7. l.txn \in DOMAIN txn_map /\ l.txn # NoTxn /\ l.idx \in DOMAIN txn_map[l.txn].undo_logs
      BY <2>3, <2>4, <2>5 DEF ChainVersion, Known, Exists, IsValid
    <2>8. log.ts \in Nat /\ log.prev_version \in Link /\ Known(log.prev_version)
      BY <2>5, <2>7, KnownLinks, SMTT(30) DEF LogAt, ChainInv
    <2>9. /\ log.ts <= last_commit_ts
          /\ Exists(log.prev_version) => LogAt(log.prev_version).ts < log.ts
      BY <2>5, <2>7 DEF ChainInv, VersionsOrdered, LogAt
    <2>10. log.ts < y.ts /\ y.ts \in Nat /\ (n # 0 => y.ts + n <= last_commit_ts + 1)
      BY <2>3, <2>4, <2>5 DEF ChainVersion
    <2>11. log.ts + (n + 1) <= last_commit_ts + 1
      <3>1. last_commit_ts \in Nat
        BY DEF TypeOK
      <3> QED
        BY <2>8, <2>9, <2>10, <3>1
    <2> QED
      BY <2>1, <2>6, <2>8, <2>9, <2>11 DEF ChainVersion
  <1> HIDE DEF S
  <1>4. \A n \in Nat : n \in S
    BY <1>2, <1>3, Induction
  <1> QED
    BY <1>4, TxnFacts DEF S, back

\* The log that a version of the chain needs is kept, if it is newer than the watermark.
LEMMA ChainKept ==
    ASSUME TypeOK, WatermarkInv, ChainInv, NEW S, Kept(S), NEW r \in DOMAIN heap
    PROVE  \A n \in 0..MaxTxns + 1 : \A x \in Older(Base(r))[n] :
              x.ts > GetWatermark /\ IsValid(x.link) => x.link \in S
  <1> DEFINE back == Older(Base(r))
             I == {n \in Nat : n \in 0..MaxTxns + 1 =>
                      \A x \in back[n] : x.ts > GetWatermark /\ IsValid(x.link) => x.link \in S}
  <1>1. back[0] = {Base(r)} /\ \A n \in 0..MaxTxns : back[n + 1] = Before(back[n])
    BY OlderIs
  <1>2. \A n \in 0..MaxTxns + 1 : \A x \in back[n] : ChainVersion(r, n, x)
    BY ChainVersions
  <1>3. GetWatermark \in Nat
    BY WatermarkIs DEF WatermarkLeast
  <1> HIDE DEF back
  <1>4. 0 \in I
    <2>1. Base(r).ts = heap[r].ts /\ Base(r).link = undo_link[r]
      BY RowType
    <2> QED
      BY <1>1, <2>1 DEF Kept
  <1>5. ASSUME NEW n \in Nat, n \in I PROVE n + 1 \in I
    <2> SUFFICES ASSUME n + 1 \in 0..MaxTxns + 1, NEW x \in back[n + 1],
                        x.ts > GetWatermark, IsValid(x.link)
                 PROVE  x.link \in S
      OBVIOUS
    <2>1. n \in 0..MaxTxns /\ n \in 0..MaxTxns + 1
      BY TxnFacts
    <2>2. x \in Before(back[n])
      BY <1>1, <2>1
    <2>3. PICK y \in back[n] : IsValid(y.link) /\ Exists(y.link) /\ x = Undone(y, LogAt(y.link))
      BY <2>2 DEF Before
    <2>4. PICK l, log : l = y.link /\ log = LogAt(l)
      OBVIOUS
    <2>5. x.ts = log.ts /\ x.link = log.prev_version
      BY <2>3, <2>4 DEF Undone
    <2>6. log.ts < y.ts /\ y.ts \in Nat /\ x.ts \in Nat
      BY <1>2, <2>1, <2>3, <2>4 DEF ChainVersion
    <2>7. y.ts > GetWatermark
      BY <1>3, <2>5, <2>6
    <2>8. l \in S
      BY <1>5, <2>1, <2>3, <2>4, <2>7
    <2> QED
      BY <2>4, <2>5, <2>8 DEF Kept
  <1> HIDE DEF I
  <1>6. \A n \in Nat : n \in I
    BY <1>4, <1>5, Induction
  <1> QED
    BY <1>6, TxnFacts DEF I, back

-----------------------------------------------------------------------------
(* Garbage collection, and every other step. *)

\* The versions after MaxTxns undo logs are not newer than the first commit.
LEMMA ChainEnds ==
    ASSUME TypeOK, WatermarkInv, ChainInv, NEW r \in DOMAIN heap,
           NEW x \in Older(Base(r))[MaxTxns + 1]
    PROVE  x.ts \in Nat /\ x.ts <= 1
  <1>1. x.ts \in Nat /\ x.ts + (MaxTxns + 1) <= last_commit_ts + 1
    <2>1. MaxTxns + 1 \in 0..MaxTxns + 1 /\ MaxTxns + 1 # 0
      BY TxnFacts
    <2>2. ChainVersion(r, MaxTxns + 1, x)
      BY <2>1, ChainVersions
    <2> QED
      BY <2>1, <2>2 DEF ChainVersion
  <1>2. last_commit_ts \in Nat /\ last_commit_ts <= MaxTxns + 1
    <2>1. Cardinality(ActiveTxns) \in Nat
      BY ActiveIsTxn, FS_CardinalityType
    <2> QED
      BY <2>1, TxnFacts DEF TypeOK, WatermarkInv, CommitsCounted
  <1> QED
    BY <1>1, <1>2, TxnFacts

\* Of a kept set, garbage collection leaves the logs that the rows still need.
LEMMA CollectionNeeds ==
    ASSUME TypeOK, WatermarkInv, ChainInv, GetWatermark >= 1, NEW S, Kept(S), GarbageCollection
    PROVE  \E T \in SUBSET S :
              /\ Kept(T)'
              /\ \A l \in T : /\ l.txn \in DOMAIN txn_map'
                             /\ l.idx \in DOMAIN txn_map'[l.txn].undo_logs
                             /\ LogAt(l)' = LogAt(l)
  <1>1. /\ DOMAIN txn_map' = DOMAIN txn_map \ Garbage
        /\ \A u \in DOMAIN txn_map \ Garbage : txn_map'[u] = txn_map[u]
        /\ UNCHANGED <<heap, undo_link, running_txns>>
    BY DEF GarbageCollection, table, Others
  <1>2. GetWatermark' = GetWatermark /\ GetWatermark \in Nat /\ GetWatermark >= 1
    BY <1>1, WatermarkIs DEF GetWatermark, WatermarkLeast
  <1> DEFINE Needs(r) == {x \in UNION {Older(Base(r))[n] : n \in 0..MaxTxns} :
                             x.ts > GetWatermark /\ IsValid(x.link)}
  <1>4. PICK T : T = UNION {{x.link : x \in Needs(r)} : r \in DOMAIN heap}
    OBVIOUS
  <1>5. ASSUME NEW r \in DOMAIN heap, NEW n \in 0..MaxTxns, NEW x \in Older(Base(r))[n],
               x.ts > GetWatermark, IsValid(x.link)
        PROVE  x.link \in T
    BY <1>4, <1>5
  <1>6. ASSUME NEW l \in T
        PROVE  \E r \in DOMAIN heap : \E n \in 0..MaxTxns : \E x \in Older(Base(r))[n] :
                  x.ts > GetWatermark /\ IsValid(x.link) /\ l = x.link
    BY <1>4
  <1> HIDE DEF Needs
  <1>7. ASSUME NEW l \in T
        PROVE  /\ l \in S /\ l.txn \notin Garbage
               /\ l.txn \in DOMAIN txn_map'
               /\ l.idx \in DOMAIN txn_map'[l.txn].undo_logs
               /\ LogAt(l)' = LogAt(l)
    <2>1. PICK r \in DOMAIN heap, n \in 0..MaxTxns :
             \E x \in Older(Base(r))[n] : x.ts > GetWatermark /\ IsValid(x.link) /\ l = x.link
      BY <1>6
    <2>2. PICK x \in Older(Base(r))[n] : x.ts > GetWatermark /\ IsValid(x.link) /\ l = x.link
      BY <2>1
    <2>3. n \in 0..MaxTxns + 1
      BY TxnFacts
    <2>4. l \in S
      BY <2>2, <2>3, ChainKept
    <2>5. l.txn \in DOMAIN txn_map /\ l.idx \in DOMAIN txn_map[l.txn].undo_logs
      BY <2>4 DEF Kept
    <2>6. l.txn \in NeededBy(r)
      <3>1. x \in UNION {Older(Base(r))[m] : m \in 0..MaxTxns}
        OBVIOUS
      <3> QED
        BY <2>2, <2>5, <3>1 DEF NeededBy, Exists
    <2>7. l.txn \notin Garbage
      BY <2>6 DEF Garbage
    <2> QED
      BY <1>1, <2>4, <2>5, <2>7 DEF LogAt
  <1>8. ASSUME NEW r \in DOMAIN heap', heap'[r].ts > GetWatermark', IsValid(undo_link'[r])
        PROVE  undo_link'[r] \in T
    <2>1. Base(r).ts = heap[r].ts /\ Base(r).link = undo_link[r]
      BY <1>1, RowType
    <2>2. Base(r) \in Older(Base(r))[0] /\ 0 \in 0..MaxTxns
      BY OlderIs, TxnFacts
    <2> QED
      BY <1>1, <1>2, <1>5, <1>8, <2>1, <2>2
  <1>9. ASSUME NEW l \in T, LogAt(l).ts > GetWatermark, IsValid(LogAt(l).prev_version)
        PROVE  LogAt(l).prev_version \in T
    <2>1. PICK r \in DOMAIN heap, n \in 0..MaxTxns :
             \E x \in Older(Base(r))[n] : x.ts > GetWatermark /\ IsValid(x.link) /\ l = x.link
      BY <1>6
    <2>2. PICK x \in Older(Base(r))[n] : x.ts > GetWatermark /\ IsValid(x.link) /\ l = x.link
      BY <2>1
    <2>3. Exists(x.link)
      BY <1>1, <1>7, <2>2 DEF Exists
    <2>4. PICK y : y = Undone(x, LogAt(l))
      OBVIOUS
    <2>5. y \in Older(Base(r))[n + 1]
      BY <2>2, <2>3, <2>4, OlderIs DEF Before
    <2>6. y.ts = LogAt(l).ts /\ y.link = LogAt(l).prev_version
      BY <2>4 DEF Undone
    <2>7. n # MaxTxns
      BY <1>2, <1>9, <2>5, <2>6, ChainEnds
    <2>8. n + 1 \in 0..MaxTxns
      BY <2>7, TxnFacts
    <2> QED
      BY <1>5, <1>9, <2>5, <2>6, <2>8
  <1>10. \A l \in T : l \in Link
    BY <1>7 DEF Kept
  <1>11. \A l \in T : LogAt(l)'.ts > GetWatermark' /\ IsValid(LogAt(l)'.prev_version)
            => LogAt(l)'.prev_version \in T
    BY <1>2, <1>7, <1>9
  <1>12. Kept(T)'
    BY <1>7, <1>8, <1>10, <1>11 DEF Kept, IsValid, NoTxn
  <1>13. T \in SUBSET S
    BY <1>7
  <1> QED
    BY <1>7, <1>12, <1>13

LEMMA CollectionKept ==
    ASSUME TypeOK, WatermarkInv, ChainInv, ChainsKept, GarbageCollection
    PROVE  ChainsKept'
  <1>1. GetWatermark' = GetWatermark
    BY DEF GarbageCollection, Others, GetWatermark
  <1>2. PICK S : Kept(S)
    BY DEF ChainsKept
  <1>3. \E T \in SUBSET S : Kept(T)'
    BY <1>2, CollectionNeeds DEF ChainsKept
  <1> QED
    BY <1>1, <1>3 DEF ChainsKept

LEMMA StillKept ==
    ASSUME TypeOK, ChainInv, NEW S, Kept(S), StillChains, DOMAIN txn_map' = DOMAIN txn_map,
           GetWatermark \in Nat, GetWatermark' \in Nat, GetWatermark <= GetWatermark'
    PROVE  \E T : Kept(T)'
  <1>1. Kept(S)'
    BY KeptStill DEF StillChains, ChainInv
  <1> QED
    BY <1>1

LEMMA WriteKept ==
    ASSUME IInv, NEW S, Kept(S), NEW t \in Txn, Write(t),
           GetWatermark \in Nat, GetWatermark' \in Nat, GetWatermark <= GetWatermark'
    PROVE  \E T : Kept(T)'
  <1> USE DEF IInv, WatermarkInv
  <1>1. DOMAIN txn_map' = DOMAIN txn_map
    BY WriteQuiet DEF Quiet
  <1>2. CASE Modify(t)
    <2>1. t \in DOMAIN txn_map /\ at[t].do = "modify" /\ at[t].mods # <<>>
      BY <1>2, AtWork DEF Modify
    <2>2. PICK m, next : /\ m = Head(at[t].mods)
                         /\ ModifyTuple(t, m.rid, m.target, FALSE, next)
      BY <1>2 DEF Modify
    <2>3. m.rid \in DOMAIN heap
      <3>1. PICK mods : mods = at[t].mods
        OBVIOUS
      <3>2. mods \in Seq(Change) /\ \A i \in DOMAIN mods : mods[i].rid \in DOMAIN heap
        <4>1. at[t] \in Apply
          BY <2>1, StepFields DEF TypeOK
        <4> QED
          BY <2>1, <3>1, <4>1 DEF Apply, Change, RowsKnown, StepRows
      <3>3. 1 \in DOMAIN mods /\ m = mods[1]
        <4>1. Len(mods) \in Nat /\ Len(mods) > 0 /\ DOMAIN mods = 1..Len(mods)
          BY <2>1, <3>1, <3>2, LenProperties, EmptySeq
        <4> QED
          BY <2>2, <3>1, <3>2, <4>1
      <3> QED
        BY <3>2, <3>3
    <2>4. PICK r, target : r = m.rid /\ target = m.target
      OBVIOUS
    <2>5. UNCHANGED Others
      BY <1>2 DEF Modify
    <2>6. CASE Conflicts(t, r, FALSE)
      BY <1>1, <2>1, <2>2, <2>4, <2>5, <2>6, ConflictStill, StillKept DEF ModifyTuple
    <2>7. CASE ~Conflicts(t, r, FALSE)
      BY <2>1, <2>2, <2>3, <2>4, <2>7, ModifyTupleKept
    <2> QED
      BY <2>6, <2>7
  <1>3. CASE LookUpKey(t)
    BY <1>1, <1>3, UnchangedChains, StillKept DEF LookUpKey, table, Others
  <1>4. CASE Revive(t)
    <2>1. t \in DOMAIN txn_map /\ at[t].do = "revive"
      BY <1>4, AtWork DEF Revive
    <2>2. PICK r, target, next : r = at[t].rid /\ ModifyTuple(t, r, target, TRUE, next)
      BY <1>4 DEF Revive
    <2>3. r \in DOMAIN heap
      BY <2>1, <2>2 DEF RowsKnown, StepRows
    <2>4. UNCHANGED Others
      BY <1>4 DEF Revive
    <2>5. CASE Conflicts(t, r, TRUE)
      BY <1>1, <2>1, <2>2, <2>4, <2>5, ConflictStill, StillKept DEF ModifyTuple
    <2>6. CASE ~Conflicts(t, r, TRUE)
      BY <2>1, <2>2, <2>3, <2>6, ModifyTupleKept
    <2> QED
      BY <2>5, <2>6
  <1>5. CASE AppendRow(t)
    <2>1. Kept(S)'
      BY <1>5, AppendRowKept
    <2> QED
      BY <2>1
  <1>6. CASE EnterKey(t)
    <2>1. t \in DOMAIN txn_map
      BY <1>6, AtWork DEF EnterKey
    <2>2. CASE ThrowWriteConflict(t)
      BY <1>1, <1>6, <2>1, <2>2, ConflictStill, StillKept DEF EnterKey
    <2>3. CASE UNCHANGED <<heap, undo_link, txn_map>>
      BY <1>1, <1>6, <2>3, UnchangedChains, StillKept DEF EnterKey, Others
    <2> QED
      BY <1>6, <2>2, <2>3 DEF EnterKey
  <1> QED
    BY <1>2, <1>3, <1>4, <1>5, <1>6 DEF Write

LEMMA CommitKept ==
    ASSUME IInv, NEW S, Kept(S), NEW t \in Txn, Commit(t),
           GetWatermark \in Nat, GetWatermark' \in Nat, GetWatermark <= GetWatermark'
    PROVE  \E T : Kept(T)'
  <1> USE DEF IInv, WatermarkInv
  <1>1. CASE StartCommit(t)
    BY <1>1, UnchangedChains, StillKept DEF StartCommit, table
  <1>2. CASE Fetch(t)
    BY <1>2, UnchangedChains, StillKept DEF Fetch, table, Others
  <1>3. CASE VerifyRow(t)
    BY <1>3, UnchangedChains, StillKept DEF VerifyRow, table
  <1>4. CASE StampRow(t)
    <2>1. Kept(S)'
      BY <1>4, StampRowKept
    <2> QED
      BY <2>1
  <1>5. CASE EndCommit(t)
    <2>1. t \in DOMAIN txn_map
      BY <1>5, AtWork DEF EndCommit
    <2>2. \E x, y : txn_map' = [txn_map EXCEPT ![t].state = x, ![t].commit_ts = y]
      BY <1>5 DEF EndCommit
    <2>3. UNCHANGED <<heap, undo_link, next_txn_id>> /\ last_commit_ts' = last_commit_ts + 1
      BY <1>5 DEF EndCommit, table
    <2> QED
      BY <2>1, <2>2, <2>3, SameLogs, StillStep, StillKept
  <1> QED
    BY <1>1, <1>2, <1>3, <1>4, <1>5 DEF Commit

LEMMA AbortKept ==
    ASSUME IInv, NEW S, Kept(S), NEW t \in Txn, Abort(t),
           GetWatermark \in Nat, GetWatermark' \in Nat, GetWatermark <= GetWatermark'
    PROVE  \E T : Kept(T)'
  <1> USE DEF IInv, WatermarkInv
  <1>1. CASE StartAbort(t)
    BY <1>1, UnchangedChains, StillKept DEF StartAbort, table, Others
  <1>2. CASE RestoreRow(t)
    <2>1. Kept(S)'
      BY <1>2, RestoreRowKept
    <2> QED
      BY <2>1
  <1>3. CASE EndAbort(t)
    <2>1. t \in DOMAIN txn_map
      BY <1>3, AtWork DEF EndAbort
    <2>2. \E x : txn_map' = [txn_map EXCEPT ![t].state = x]
      BY <1>3 DEF EndAbort
    <2>3. UNCHANGED <<heap, undo_link, next_txn_id, last_commit_ts>>
      BY <1>3 DEF EndAbort, table
    <2> QED
      BY <2>1, <2>2, <2>3, SameLogs, StillStep, StillKept
  <1> QED
    BY <1>1, <1>2, <1>3 DEF Abort

LEMMA KeptStep ==
    ASSUME IInv, IInv', ChainsKept, [Next]_vars
    PROVE  ChainsKept'
  <1>1. /\ TypeOK /\ ChainInv /\ IdsIssued /\ BusyActive /\ WatermarkInv
    BY DEF IInv, WatermarkInv
  <1>2. GetWatermark \in Nat /\ GetWatermark' \in Nat /\ GetWatermark <= GetWatermark'
    BY WatermarkGrows
  <1>3. GetWatermark' >= 1
    BY <1>2 DEF ChainsKept
  <1>4. PICK S : Kept(S)
    BY DEF ChainsKept
  <1>5. ASSUME NEW t \in Txn,
               Begin(t) \/ Statement(t) \/ Write(t) \/ Join(t) \/ Commit(t) \/ Abort(t)
        PROVE  \E T : Kept(T)'
    <2>1. CASE Begin(t)
      <3>1. Kept(S)'
        BY <1>1, <1>2, <1>4, <2>1, BeginKept
      <3> QED
        BY <3>1
    <2>2. CASE Statement(t)
      <3>1. StillChains /\ DOMAIN txn_map' = DOMAIN txn_map
        BY <1>1, <2>2, StatementStill, StatementQuiet DEF Quiet
      <3> QED
        BY <1>1, <1>2, <1>4, <3>1, StillKept
    <2>3. CASE Write(t)
      BY <1>2, <1>4, <2>3, WriteKept
    <2>4. CASE Join(t)
      <3>1. StillChains /\ DOMAIN txn_map' = DOMAIN txn_map
        BY <1>1, <2>4, JoinStill, JoinQuiet DEF Quiet
      <3> QED
        BY <1>1, <1>2, <1>4, <3>1, StillKept
    <2>5. CASE Commit(t)
      BY <1>2, <1>4, <2>5, CommitKept
    <2>6. CASE Abort(t)
      BY <1>2, <1>4, <2>6, AbortKept
    <2> QED
      BY <1>5, <2>1, <2>2, <2>3, <2>4, <2>5, <2>6
  <1>6. CASE GarbageCollection
    BY <1>1, <1>6, CollectionKept
  <1>7. CASE UNCHANGED vars
    <2>1. StillChains /\ DOMAIN txn_map' = DOMAIN txn_map
      BY <1>1, <1>7, UnchangedChains DEF vars, table
    <2>2. \E T : Kept(T)'
      BY <1>1, <1>2, <1>4, <2>1, StillKept
    <2> QED
      BY <1>3, <2>2 DEF ChainsKept
  <1> QED
    BY <1>3, <1>5, <1>6, <1>7 DEF Next, ChainsKept

LEMMA InitKept == Init => ChainsKept
  <1> SUFFICES ASSUME Init PROVE ChainsKept
    OBVIOUS
  <1>1. GetWatermark = 1
    BY DEF Init, GetWatermark
  <1>2. \A r \in DOMAIN heap : heap[r].ts = 1
    BY DEF Init
  <1>3. Kept({})
    BY <1>1, <1>2 DEF Kept
  <1> QED
    BY <1>1, <1>3 DEF ChainsKept

-----------------------------------------------------------------------------
(* The theorem. *)

\* GarbageCollection runs between the statements of transactions in progress, with a
\* watermark that begins and ends of transactions move.  Whatever it erased, and
\* whoever wrote, committed or aborted since, a transaction in progress that follows the
\* undo logs of a row down to its read timestamp finds each of them.
THEOREM MvccUndoLogsKept == Spec => []UndoLogsKept
  <1>1. Init => ChainsKept
    BY InitKept
  <1>2. IInv /\ IInv' /\ ChainsKept /\ [Next]_vars => ChainsKept'
    BY KeptStep
  <1>3. IInv /\ ChainsKept => UndoLogsKept
    <2> SUFFICES ASSUME IInv, ChainsKept,
                        NEW t \in DOMAIN txn_map, NEW r \in DOMAIN heap, Active(t),
                        NEW n \in 0..MaxTxns, NEW x \in Older(Base(r))[n],
                        x.ts > txn_map[t].read_ts, IsValid(x.link)
                 PROVE  Exists(x.link)
      BY DEF UndoLogsKept
    <2>1. TypeOK /\ WatermarkInv /\ ChainInv /\ n \in 0..MaxTxns + 1
      BY TxnFacts DEF IInv
    <2>2. PICK S : Kept(S)
      BY DEF ChainsKept
    <2>3. GetWatermark \in Nat /\ GetWatermark <= txn_map[t].read_ts
      BY <2>1, WatermarkIs DEF WatermarkLeast, ActiveTxns
    <2>4. x.ts \in Nat /\ txn_map[t].read_ts \in Nat
      BY <2>1, ChainVersions, TransactionFields DEF ChainVersion
    <2>5. x.link \in S
      BY <2>1, <2>2, <2>3, <2>4, ChainKept
    <2> QED
      BY <2>2, <2>5 DEF Kept, Exists
  <1> QED
    BY <1>1, <1>2, <1>3, MvccInvariant, PTL DEF Spec

-----------------------------------------------------------------------------
(* What is read at a timestamp. *)

\* No version: the row was not there.
Nothing == [ts |-> 0, v |-> Absent]
\* The value before a log, when v is the value after it; a log that is not whole shows
\* through, so the value after it is not that of a deleted tuple.
Whole(log) == log.is_deleted \/ "v" \in DOMAIN log.fields
Restores(log, v) ==
    IF log.is_deleted THEN Absent ELSE IF "v" \in DOMAIN log.fields THEN log.fields["v"] ELSE v

\* N says of every undo log that a reader needs which row it is of, the value it
\* restores, and what is read from there on at every timestamp.
Leads(N, link, r, v) ==
    /\ link \in DOMAIN N
    /\ N[link].row = r
    /\ N[link].v = Restores(LogAt(link), v)
    /\ v = Absent => Whole(LogAt(link))

AnswerOf(N, at_ts, v, link, ts) ==
    IF at_ts <= ts THEN [ts |-> at_ts, v |-> v]
    ELSE IF IsValid(link) THEN N[link].past[ts] ELSE Nothing

Recorded(N, l) ==
    /\ N[l].row \in DOMAIN heap
    /\ N[l].v \in Value \cup {Absent} /\ (N[l].v = Absent <=> LogAt(l).is_deleted)
    /\ "id" \in DOMAIN LogAt(l).fields => LogAt(l).fields["id"] = heap[N[l].row].tuple.id
    /\ LogAt(l).ts > GetWatermark /\ IsValid(LogAt(l).prev_version)
          => Leads(N, LogAt(l).prev_version, N[l].row, N[l].v)
    /\ \A ts \in Nat : ts >= GetWatermark =>
          N[l].past[ts] = AnswerOf(N, LogAt(l).ts, N[l].v, LogAt(l).prev_version, ts)

RowLeads(N, r) ==
    heap[r].ts > GetWatermark /\ IsValid(undo_link[r])
       => Leads(N, undo_link[r], r, Content(heap[r]))

Told(N) ==
    /\ \A l \in DOMAIN N : /\ l \in Link /\ l.txn \in DOMAIN txn_map
                           /\ l.idx \in DOMAIN txn_map[l.txn].undo_logs
    /\ \A l \in DOMAIN N : Recorded(N, l)
    /\ \A r \in DOMAIN heap : RowLeads(N, r)

\* A version of row r from which a reader may go on.
Stands(N, r, x) ==
    /\ x \in Version /\ Known(x.link)
    /\ Exists(x.link) => LogAt(x.link).ts < x.ts
    /\ x.tuple.id = heap[r].tuple.id
    /\ x.ts > GetWatermark /\ IsValid(x.link) => Leads(N, x.link, r, Content(x))

-----------------------------------------------------------------------------
LEMMA ContentIs ==
    ASSUME NEW x \in Version
    PROVE  /\ Content(x) \in Value \cup {Absent}
           /\ Content(x) = Absent <=> x.deleted
           /\ ~x.deleted => Content(x) = x.tuple.v
  BY BoundsAssumption DEF Content, Version, Tuple

LEMMA UndoneContent ==
    ASSUME NEW x \in Version, NEW log \in UndoLog, x.deleted => Whole(log)
    PROVE  /\ Content(Undone(x, log)) = Restores(log, Content(x))
           /\ Undone(x, log).tuple.id =
                 IF "id" \in DOMAIN log.fields THEN log.fields["id"] ELSE x.tuple.id
  <1>1. x.tuple \in Tuple /\ log.fields \in Fields
    BY DEF Version, UndoLog
  <1>2. /\ Undone(x, log).tuple = Overlay(log.fields, x.tuple)
        /\ Undone(x, log).deleted = log.is_deleted
    BY DEF Undone
  <1>3. Overlay(log.fields, x.tuple) =
           [c \in {"id", "v"} |-> IF c \in DOMAIN log.fields THEN log.fields[c] ELSE x.tuple[c]]
    BY <1>1 DEF Overlay, Tuple
  <1>4. /\ Undone(x, log).tuple.id =
              IF "id" \in DOMAIN log.fields THEN log.fields["id"] ELSE x.tuple.id
        /\ Undone(x, log).tuple.v =
              IF "v" \in DOMAIN log.fields THEN log.fields["v"] ELSE x.tuple.v
    BY <1>2, <1>3
  <1>5. Content(Undone(x, log)) = IF log.is_deleted THEN Absent ELSE Undone(x, log).tuple.v
    BY <1>2 DEF Content
  <1>6. Content(x) = IF x.deleted THEN Absent ELSE x.tuple.v
    BY DEF Content
  <1> QED
    BY <1>4, <1>5, <1>6 DEF Restores, Whole

LEMMA ToldKept == ASSUME NEW N, Told(N) PROVE Kept(DOMAIN N)
  BY DEF Told, Kept, Recorded, RowLeads, Leads

LEMMA ToldLog ==
    ASSUME TypeOK, LinksKnown, NEW N, Told(N), NEW l \in DOMAIN N
    PROVE  LogAt(l) \in UndoLog /\ LogAt(l).ts \in Nat /\ LogAt(l).prev_version \in Link
           /\ Known(LogAt(l).prev_version) /\ IsValid(l) /\ Exists(l)
  <1>1. LogAt(l) \in UndoLog /\ LogAt(l).ts \in Nat /\ LogAt(l).prev_version \in Link
    BY ToldKept, KeptLog
  <1>2. l.txn \in DOMAIN txn_map /\ l.idx \in DOMAIN txn_map[l.txn].undo_logs
    BY DEF Told
  <1> QED
    BY <1>1, <1>2, TransactionFields, TxnFacts DEF LinksKnown, LogAt, IsValid, Exists

\* One log back.
LEMMA StepBack ==
    ASSUME TypeOK, ChainInv, NEW N, Told(N), NEW r, NEW x, Stands(N, r, x),
           GetWatermark \in Nat, x.ts > GetWatermark, IsValid(x.link)
    PROVE  LET y == Undone(x, LogAt(x.link)) IN
           /\ Exists(x.link) /\ Stands(N, r, y) /\ y.ts < x.ts
           /\ Content(y) = N[x.link].v
           /\ \A ts \in Nat : ts >= GetWatermark =>
                 N[x.link].past[ts] = AnswerOf(N, y.ts, Content(y), y.link, ts)
  <1>1. PICK l, log, y : l = x.link /\ log = LogAt(l) /\ y = Undone(x, log)
    OBVIOUS
  <1>2. Leads(N, l, r, Content(x)) /\ x \in Version /\ x.tuple.id = heap[r].tuple.id
    BY <1>1 DEF Stands
  <1>3. /\ l \in DOMAIN N /\ N[l].row = r /\ N[l].v = Restores(log, Content(x))
        /\ Content(x) = Absent => Whole(log)
    BY <1>1, <1>2 DEF Leads
  <1>4. log \in UndoLog /\ log.ts \in Nat /\ Known(log.prev_version) /\ Exists(l)
    BY <1>1, <1>3, ToldLog DEF ChainInv
  <1>5. y \in Version /\ y.ts = log.ts /\ y.link = log.prev_version
    BY <1>1, <1>2, <1>4, UndoneType
  <1>6. x.deleted => Whole(log)
    BY <1>2, <1>3, ContentIs
  <1>7. /\ Content(y) = N[l].v
        /\ y.tuple.id = IF "id" \in DOMAIN log.fields THEN log.fields["id"] ELSE x.tuple.id
    BY <1>1, <1>2, <1>3, <1>4, <1>6, UndoneContent
  <1>8. Recorded(N, l)
    BY <1>3 DEF Told
  <1>9. y.tuple.id = heap[r].tuple.id
    BY <1>1, <1>2, <1>3, <1>7, <1>8, SMTT(30) DEF Recorded
  <1>10. Exists(y.link) => LogAt(y.link).ts < y.ts
    <2>1. l.txn \in DOMAIN txn_map /\ l.idx \in DOMAIN txn_map[l.txn].undo_logs
      BY <1>3 DEF Told
    <2> QED
      BY <1>1, <1>5, <2>1 DEF ChainInv, VersionsOrdered, LogAt
  <1>11. y.ts > GetWatermark /\ IsValid(y.link) => Leads(N, y.link, r, Content(y))
    BY <1>1, <1>3, <1>5, <1>7, <1>8 DEF Recorded
  <1>12. \A ts \in Nat : ts >= GetWatermark =>
            N[l].past[ts] = AnswerOf(N, y.ts, Content(y), y.link, ts)
    BY <1>1, <1>5, <1>7, <1>8 DEF Recorded
  <1>13. Stands(N, r, y)
    BY <1>4, <1>5, <1>9, <1>10, <1>11 DEF Stands
  <1>14. y.ts < x.ts
    BY <1>1, <1>4, <1>5 DEF Stands
  <1> QED
    BY <1>1, <1>4, <1>7, <1>12, <1>13, <1>14

\* The first of the steps back that finds a version old enough.
LEMMA AsOfFirst ==
    ASSUME NEW x, NEW ts, NEW n \in 0..MaxTxns + 1, NEW y, Older(x)[n] = {y}, y.ts <= ts,
           \A m \in 0..MaxTxns + 1 : m < n => \A z \in Older(x)[m] : ~(z.ts <= ts)
    PROVE  AsOf(x, ts) = {y}
  <1> DEFINE old == {m \in 0..MaxTxns + 1 : \E z \in Older(x)[m] : z.ts <= ts}
  <1>1. n \in old /\ old \in SUBSET Nat
    BY TxnFacts
  <1>2. Least(old) \in old /\ \A m \in old : Least(old) <= m
    BY <1>1, LeastNat
  <1>3. Least(old) = n
    <2>1. PICK m \in old : m = Least(old) /\ m <= n
      BY <1>1, <1>2
    <2>2. m \in Nat /\ n \in Nat /\ ~(m < n)
      BY <1>1
    <2> QED
      BY <2>1, <2>2
  <1>4. AsOf(x, ts) = IF old = {} THEN {} ELSE Older(x)[Least(old)]
    BY DEF AsOf
  <1> QED
    BY <1>1, <1>3, <1>4

LEMMA AsOfNone ==
    ASSUME NEW x, NEW ts,
           \A m \in 0..MaxTxns + 1 : \A z \in Older(x)[m] : ~(z.ts <= ts)
    PROVE  AsOf(x, ts) = {}
  BY DEF AsOf

\* What a reader finds who goes back from a version x of row r.
Finds(N, r, x, ts) ==
    LET answer == AnswerOf(N, x.ts, Content(x), x.link, ts) IN
    \/ AsOf(x, ts) = {} /\ answer = Nothing
    \/ \E y \in Version : /\ AsOf(x, ts) = {y} /\ y.tuple.id = heap[r].tuple.id
                          /\ answer = [ts |-> y.ts, v |-> Content(y)]

\* The walk after n steps: over, or at a version that is too new.
WalkAt(N, r, x, ts, n) ==
    /\ \A m \in 0..MaxTxns + 1 : m <= n => \A z \in Older(x)[m] : ~(z.ts <= ts)
    /\ \/ Older(x)[n] = {} /\ AnswerOf(N, x.ts, Content(x), x.link, ts) = Nothing
       \/ \E y : /\ Older(x)[n] = {y} /\ Stands(N, r, y) /\ y.ts > ts
                 /\ n # 0 => y.ts + n <= last_commit_ts + 1
                 /\ AnswerOf(N, x.ts, Content(x), x.link, ts) =
                       AnswerOf(N, y.ts, Content(y), y.link, ts)

LEMMA WalkOn ==
    ASSUME TypeOK, ChainInv, NEW N, Told(N), NEW r, NEW x, Stands(N, r, x),
           NEW ts \in Nat, GetWatermark \in Nat, ts >= GetWatermark,
           NEW n \in 0..MaxTxns, WalkAt(N, r, x, ts, n)
    PROVE  Finds(N, r, x, ts) \/ WalkAt(N, r, x, ts, n + 1)
  <1> DEFINE answer == AnswerOf(N, x.ts, Content(x), x.link, ts)
             back == Older(x)
  <1>1. /\ n \in Nat /\ n \in 0..MaxTxns + 1 /\ n + 1 \in 0..MaxTxns + 1 /\ n + 1 # 0
        /\ back[n + 1] = Before(back[n])
    BY TxnFacts, OlderIs
  <1>2. \A m \in 0..MaxTxns + 1 : m <= n => \A z \in back[m] : ~(z.ts <= ts)
    BY DEF WalkAt
  <1>3. ASSUME \A z \in back[n + 1] : ~(z.ts <= ts)
        PROVE  \A m \in 0..MaxTxns + 1 : m <= n + 1 => \A z \in back[m] : ~(z.ts <= ts)
    <2> TAKE m \in 0..MaxTxns + 1
    <2>1. m <= n + 1 => m <= n \/ m = n + 1
      BY <1>1
    <2> QED
      BY <1>2, <1>3, <2>1
  <1> HIDE DEF back, answer
  <1>4. CASE back[n] = {} /\ answer = Nothing
    <2>1. back[n + 1] = {}
      BY <1>1, <1>4 DEF Before
    <2> QED
      BY <1>1, <1>3, <1>4, <2>1 DEF WalkAt, back, answer
  <1>5. ASSUME NEW y, back[n] = {y}, Stands(N, r, y), y.ts > ts,
               n # 0 => y.ts + n <= last_commit_ts + 1,
               answer = AnswerOf(N, y.ts, Content(y), y.link, ts)
        PROVE  Finds(N, r, x, ts) \/ WalkAt(N, r, x, ts, n + 1)
    <2>1. y \in Version /\ y.ts \in Nat /\ y.ts > GetWatermark
      BY <1>5 DEF Stands, Version
    <2>2. CASE ~IsValid(y.link)
      <3>1. back[n + 1] = {}
        BY <1>1, <1>5, <2>2 DEF Before
      <3>2. answer = Nothing
        BY <1>5, <2>1, <2>2 DEF AnswerOf
      <3> QED
        BY <1>1, <1>3, <3>1, <3>2 DEF WalkAt, back, answer
    <2>3. CASE IsValid(y.link)
      <3>1. PICK log, z : log = LogAt(y.link) /\ z = Undone(y, log)
        OBVIOUS
      <3>2. /\ Exists(y.link) /\ Stands(N, r, z) /\ z.ts < y.ts
            /\ N[y.link].past[ts] = AnswerOf(N, z.ts, Content(z), z.link, ts)
        BY <1>5, <2>1, <2>3, <3>1, StepBack
      <3>3. back[n + 1] = {z}
        BY <1>1, <1>5, <2>3, <3>1, <3>2 DEF Before
      <3>4. z \in Version /\ z.ts \in Nat /\ z.tuple.id = heap[r].tuple.id
        BY <3>2 DEF Stands, Version
      <3>5. answer = AnswerOf(N, z.ts, Content(z), z.link, ts)
        <4>1. answer = N[y.link].past[ts]
          BY <1>5, <2>1, <2>3 DEF AnswerOf
        <4> QED
          BY <3>2, <4>1
      <3>6. z.ts + (n + 1) <= last_commit_ts + 1
        <4>1. z.ts = log.ts
          BY <3>1 DEF Undone
        <4>2. y.link.txn \in DOMAIN txn_map /\ y.link.idx \in DOMAIN txn_map[y.link.txn].undo_logs
          BY <1>5, <2>3, <3>2, SMTT(30) DEF Stands, Known, Exists, IsValid
        <4>3. log.ts <= last_commit_ts
          BY <3>1, <4>2 DEF LogAt, ChainInv, VersionsOrdered
        <4>4. last_commit_ts \in Nat
          BY DEF TypeOK
        <4> QED
          BY <1>1, <1>5, <2>1, <3>2, <3>4, <4>1, <4>3, <4>4
      <3>7. CASE z.ts <= ts
        <4>1. \A m \in 0..MaxTxns + 1 : m < n + 1 => \A w \in back[m] : ~(w.ts <= ts)
          <5> TAKE m \in 0..MaxTxns + 1
          <5>1. m < n + 1 => m <= n
            BY <1>1
          <5> QED
            BY <1>2, <5>1
        <4>2. AsOf(x, ts) = {z}
          <5>1. PICK k \in 0..MaxTxns + 1 : k = n + 1
            BY <1>1
          <5>2. Older(x)[k] = {z} /\ z.ts <= ts
            BY <3>3, <3>7, <5>1 DEF back
          <5>3. \A m \in 0..MaxTxns + 1 : m < k => \A w \in Older(x)[m] : ~(w.ts <= ts)
            BY <4>1, <5>1 DEF back
          <5> QED
            BY <5>2, <5>3, AsOfFirst
        <4>3. answer = [ts |-> z.ts, v |-> Content(z)]
          BY <3>5, <3>7 DEF AnswerOf
        <4> QED
          BY <3>4, <4>2, <4>3 DEF Finds, answer
      <3>8. CASE ~(z.ts <= ts)
        <4>1. z.ts > ts
          BY <3>4, <3>8
        <4>2. \A m \in 0..MaxTxns + 1 : m <= n + 1 => \A w \in back[m] : ~(w.ts <= ts)
          BY <1>3, <3>3, <3>8
        <4>3. WalkAt(N, r, x, ts, n + 1)
          BY <3>2, <3>3, <3>5, <3>6, <4>1, <4>2 DEF WalkAt, back, answer
        <4> QED
          BY <4>3
      <3> QED
        BY <3>7, <3>8
    <2> QED
      BY <2>2, <2>3
  <1> QED
    BY <1>4, <1>5 DEF WalkAt, back, answer

LEMMA AsOfAnswer ==
    ASSUME TypeOK, WatermarkInv, ChainInv, GetWatermark >= 1, NEW N, Told(N),
           NEW r, NEW x, Stands(N, r, x), NEW ts \in Nat, ts >= GetWatermark
    PROVE  Finds(N, r, x, ts)
  <1> SUFFICES ASSUME ~Finds(N, r, x, ts) PROVE FALSE
    OBVIOUS
  <1>1. GetWatermark \in Nat
    BY WatermarkIs DEF WatermarkLeast
  <1>2. Older(x)[0] = {x} /\ x \in Version /\ x.ts \in Nat /\ x.tuple.id = heap[r].tuple.id
    BY OlderIs DEF Stands, Version
  <1> DEFINE S == {n \in Nat : n \in 0..MaxTxns + 1 => WalkAt(N, r, x, ts, n)}
  <1>3. 0 \in S
    <2>1. ~(x.ts <= ts)
      <3> SUFFICES ASSUME x.ts <= ts PROVE FALSE
        OBVIOUS
      <3>1. \A m \in 0..MaxTxns + 1 : ~(m < 0)
        BY TxnFacts
      <3>2. 0 \in 0..MaxTxns + 1
        BY TxnFacts
      <3>3. AsOf(x, ts) = {x}
        BY <1>2, <3>1, <3>2, AsOfFirst
      <3>4. AnswerOf(N, x.ts, Content(x), x.link, ts) = [ts |-> x.ts, v |-> Content(x)]
        BY DEF AnswerOf
      <3>5. Finds(N, r, x, ts)
        BY <1>2, <3>3, <3>4 DEF Finds
      <3> QED
        BY <3>5
    <2>2. x.ts > ts
      BY <1>2, <2>1
    <2>3. \A m \in 0..MaxTxns + 1 : m <= 0 => m = 0
      BY TxnFacts
    <2>4. \A m \in 0..MaxTxns + 1 : m <= 0 => \A z \in Older(x)[m] : ~(z.ts <= ts)
      BY <1>2, <2>1, <2>3
    <2>5. WalkAt(N, r, x, ts, 0)
      BY <1>2, <2>2, <2>4 DEF WalkAt
    <2> QED
      BY <2>5
  <1>4. ASSUME NEW n \in Nat, n \in S PROVE n + 1 \in S
    <2> SUFFICES ASSUME n + 1 \in 0..MaxTxns + 1 PROVE WalkAt(N, r, x, ts, n + 1)
      OBVIOUS
    <2>1. n \in 0..MaxTxns /\ n \in 0..MaxTxns + 1
      BY TxnFacts
    <2>2. WalkAt(N, r, x, ts, n)
      BY <1>4, <2>1
    <2> QED
      BY <1>1, <2>1, <2>2, WalkOn
  <1> HIDE DEF S
  <1>5. \A n \in Nat : n \in S
    BY <1>3, <1>4, Induction
  <1>6. PICK last : last = MaxTxns + 1 /\ last \in Nat /\ last \in 0..MaxTxns + 1 /\ last # 0
    BY TxnFacts
  <1>7. WalkAt(N, r, x, ts, last)
    BY <1>5, <1>6 DEF S
  <1>8. CASE Older(x)[last] = {} /\ AnswerOf(N, x.ts, Content(x), x.link, ts) = Nothing
    <2>1. \A m \in 0..MaxTxns + 1 : m <= last
      BY <1>6
    <2>2. AsOf(x, ts) = {}
      BY <1>7, <2>1, AsOfNone DEF WalkAt
    <2> QED
      BY <1>8, <2>2 DEF Finds
  <1>9. ASSUME NEW y, Stands(N, r, y), y.ts > ts, y.ts + last <= last_commit_ts + 1 PROVE FALSE
    <2>1. y.ts \in Nat
      BY <1>9 DEF Stands, Version
    <2>2. last_commit_ts \in Nat /\ last_commit_ts <= MaxTxns + 1
      <3>1. Cardinality(ActiveTxns) \in Nat
        BY ActiveIsTxn, FS_CardinalityType
      <3> QED
        BY <3>1, TxnFacts DEF TypeOK, WatermarkInv, CommitsCounted
    <2> QED
      BY <1>1, <1>6, <1>9, <2>1, <2>2, TxnFacts
  <1> QED
    BY <1>6, <1>7, <1>8, <1>9 DEF WalkAt

-----------------------------------------------------------------------------
(* What a transaction sees of a row. *)

Answer(N, r, ts) == AnswerOf(N, heap[r].ts, Content(heap[r]), undo_link[r], ts)
See(N, t, r) ==
    IF heap[r].ts = t THEN Content(heap[r]) ELSE Answer(N, r, txn_map[t].read_ts).v
Seen(N, t, r) == [id |-> heap[r].tuple.id, v |-> See(N, t, r)]

LEMMA BaseContent == ASSUME NEW r PROVE Content(Base(r)) = Content(heap[r])
  BY DEF Content, Base

LEMMA BaseStands ==
    ASSUME TypeOK, ChainInv, NEW N, Told(N), NEW r \in DOMAIN heap
    PROVE  Stands(N, r, Base(r))
  <1>1. /\ r \in Rid /\ Base(r) \in Version /\ Base(r).ts = heap[r].ts
        /\ Base(r).link = undo_link[r]
        /\ Base(r).tuple.id = heap[r].tuple.id /\ Content(Base(r)) = Content(heap[r])
    BY RowType, BaseContent DEF Base
  <1>2. Known(undo_link[r]) /\ (Exists(undo_link[r]) => LogAt(undo_link[r]).ts < heap[r].ts)
    BY <1>1, KnownLinks DEF ChainInv, VersionsOrdered
  <1>3. heap[r].ts > GetWatermark /\ IsValid(undo_link[r])
           => Leads(N, undo_link[r], r, Content(heap[r]))
    BY DEF Told, RowLeads
  <1> QED
    BY <1>1, <1>2, <1>3 DEF Stands

\* The version that a transaction gets by going back from x, as a tuple.
LEMMA FindsVisible ==
    ASSUME NEW N, NEW r, NEW x, NEW ts, Finds(N, r, x, ts), NEW a,
           a = AnswerOf(N, x.ts, Content(x), x.link, ts)
    PROVE  {y.tuple : y \in {z \in AsOf(x, ts) : ~z.deleted}} =
              IF a.v = Absent THEN {} ELSE {[id |-> heap[r].tuple.id, v |-> a.v]}
  <1>1. CASE AsOf(x, ts) = {} /\ a = Nothing
    BY <1>1 DEF Nothing
  <1>2. ASSUME NEW y \in Version, AsOf(x, ts) = {y}, y.tuple.id = heap[r].tuple.id,
               a = [ts |-> y.ts, v |-> Content(y)]
        PROVE  {w.tuple : w \in {z \in AsOf(x, ts) : ~z.deleted}} =
                  IF a.v = Absent THEN {} ELSE {[id |-> heap[r].tuple.id, v |-> a.v]}
    <2>1. a.v = Content(y)
      BY <1>2
    <2>2. (Content(y) = Absent <=> y.deleted) /\ (~y.deleted => Content(y) = y.tuple.v)
      BY ContentIs
    <2>3. y.tuple = [id |-> y.tuple.id, v |-> y.tuple.v]
      BY DEF Version, Tuple
    <2>4. CASE y.deleted
      BY <1>2, <2>1, <2>2, <2>4
    <2>5. CASE ~y.deleted
      <3>1. {w.tuple : w \in {z \in AsOf(x, ts) : ~z.deleted}} = {y.tuple}
        BY <1>2, <2>5
      <3> QED
        BY <1>2, <2>1, <2>2, <2>3, <2>5, <3>1
    <2> QED
      BY <2>4, <2>5
  <1> QED
    BY <1>1, <1>2 DEF Finds

LEMMA ReadersAbove ==
    ASSUME TypeOK, WatermarkInv, NEW t \in DOMAIN txn_map, Active(t)
    PROVE  txn_map[t].read_ts \in Nat /\ txn_map[t].read_ts >= GetWatermark
           /\ GetWatermark \in Nat /\ txn_map[t].read_ts <= last_commit_ts
  <1>1. GetWatermark <= txn_map[t].read_ts /\ GetWatermark \in Nat
    BY WatermarkIs DEF WatermarkLeast, ActiveTxns
  <1>2. txn_map[t].read_ts \in Nat
    BY TransactionFields
  <1> QED
    BY <1>1, <1>2 DEF WatermarkInv, SnapshotsPast

LEMMA VisibleIs ==
    ASSUME TypeOK, WatermarkInv, ChainInv, GetWatermark >= 1, NEW N, Told(N),
           NEW t \in DOMAIN txn_map, Active(t), NEW r \in DOMAIN heap
    PROVE  /\ Visible(t, Base(r)) =
                 IF See(N, t, r) = Absent THEN {} ELSE {Seen(N, t, r)}
  <1>1. /\ Base(r) \in Version /\ Base(r).ts = heap[r].ts /\ Base(r).link = undo_link[r]
        /\ Base(r).tuple.id = heap[r].tuple.id
    BY RowType DEF Base
  <1> USE BaseContent
  <1>2. CASE heap[r].ts = t
    <2>1. Visible(t, Base(r)) = {x.tuple : x \in {y \in {Base(r)} : ~y.deleted}}
      BY <1>1, <1>2 DEF Visible, Own
    <2>2. /\ Content(Base(r)) = Absent <=> Base(r).deleted
          /\ ~Base(r).deleted => Content(Base(r)) = Base(r).tuple.v
      BY <1>1, ContentIs
    <2>3. Base(r).tuple = [id |-> heap[r].tuple.id, v |-> Base(r).tuple.v]
      BY <1>1 DEF Version, Tuple
    <2>4. See(N, t, r) = Content(Base(r))
      BY <1>2 DEF See
    <2> QED
      BY <2>1, <2>2, <2>3, <2>4 DEF Seen
  <1>3. CASE heap[r].ts # t
    <2>1. PICK ts : ts = txn_map[t].read_ts /\ ts \in Nat /\ ts >= GetWatermark
      BY ReadersAbove
    <2>2. Finds(N, r, Base(r), ts)
      BY <2>1, BaseStands, AsOfAnswer
    <2>3. Visible(t, Base(r)) = {x.tuple : x \in {y \in AsOf(Base(r), ts) : ~y.deleted}}
      BY <1>1, <1>3, <2>1 DEF Visible, Own
    <2>4. See(N, t, r) = AnswerOf(N, Base(r).ts, Content(Base(r)), Base(r).link, ts).v
      BY <1>1, <1>3, <2>1 DEF See, Answer
    <2> QED
      BY <2>2, <2>3, <2>4, FindsVisible DEF Seen
  <1> QED
    BY <1>2, <1>3

\* The version of the property.
LEMMA StoreVersionIs ==
    ASSUME TypeOK, WatermarkInv, ChainInv, GetWatermark >= 1, NEW N, Told(N),
           NEW k \in Key, NEW ts \in Nat, ts >= GetWatermark
    PROVE  StoreVersion(k, ts) = IF index[k] = NoRid THEN Nothing ELSE Answer(N, index[k], ts)
  <1> DEFINE found == {[ts |-> y.ts, v |-> Content(y)] : y \in Committed(k, ts)}
  <1>1. StoreVersion(k, ts) =
           CHOOSE x \in IF found = {} THEN {Nothing} ELSE found : TRUE
    BY DEF StoreVersion, Nothing
  <1>2. CASE index[k] = NoRid
    <2>1. found = {}
      BY <1>2 DEF Committed
    <2> QED
      BY <1>1, <1>2, <2>1
  <1>3. CASE index[k] # NoRid
    <2>1. PICK r : r = index[k] /\ r \in DOMAIN heap
      BY <1>3 DEF TypeOK
    <2>2. /\ Base(r).ts = heap[r].ts /\ Base(r).link = undo_link[r]
          /\ Content(Base(r)) = Content(heap[r])
      BY <2>1, RowType, BaseContent
    <2>3. Finds(N, r, Base(r), ts)
      BY <2>1, BaseStands, AsOfAnswer
    <2>4. found = {[ts |-> y.ts, v |-> Content(y)] : y \in AsOf(Base(r), ts)}
      BY <1>3, <2>1 DEF Committed
    <2>5. CASE AsOf(Base(r), ts) = {} /\ Answer(N, r, ts) = Nothing
      <3>1. found = {}
        BY <2>4, <2>5
      <3> QED
        BY <1>1, <1>3, <2>1, <2>5, <3>1
    <2>6. ASSUME NEW y, AsOf(Base(r), ts) = {y}, Answer(N, r, ts) = [ts |-> y.ts, v |-> Content(y)]
          PROVE  StoreVersion(k, ts) = Answer(N, r, ts)
      <3>1. found = {Answer(N, r, ts)}
        BY <2>4, <2>6
      <3> HIDE DEF found
      <3> QED
        BY <1>1, <3>1
    <2> QED
      BY <1>3, <2>1, <2>2, <2>3, <2>5, <2>6 DEF Finds, Answer
  <1> QED
    BY <1>2, <1>3

-----------------------------------------------------------------------------
(* What a step changes of that: nothing for whoever reads. *)

\* Rows stay, and keep their keys.
SameRows ==
    \A r \in DOMAIN heap : r \in DOMAIN heap' /\ heap'[r].tuple.id = heap[r].tuple.id

\* Every undo log stays, and restores what it restored; a writer may complete its own.
Extends(N, M) ==
    \A l \in DOMAIN N :
        /\ l \in DOMAIN M /\ M[l] = N[l]
        /\ l.txn \in DOMAIN txn_map' /\ l.idx \in DOMAIN txn_map'[l.txn].undo_logs
        /\ LogAt(l)'.ts = LogAt(l).ts /\ LogAt(l)'.prev_version = LogAt(l).prev_version
        /\ LogAt(l)'.is_deleted = LogAt(l).is_deleted
        /\ "id" \in DOMAIN LogAt(l)'.fields =>
              LogAt(l)'.fields["id"] = heap[N[l].row].tuple.id
        /\ \A v : Leads(N, l, N[l].row, v) => Leads(M, l, N[l].row, v)'

\* A step goes on from N with M.
Goes(N, M) ==
    /\ Told(M)'
    /\ SameRows
    /\ \A r \in DOMAIN heap : \A ts \in Nat :
          ts >= GetWatermark' /\ ts <= last_commit_ts => Answer(M, r, ts)' = Answer(N, r, ts)
    /\ GarbageCollection \/ Extends(N, M)

LEMMA RowContent ==
    ASSUME TypeOK, NEW r \in DOMAIN heap
    PROVE  /\ Content(heap[r]) \in Value \cup {Absent}
           /\ Content(heap[r]) = Absent <=> heap[r].deleted
           /\ ~heap[r].deleted => Content(heap[r]) = heap[r].tuple.v
  <1>1. Base(r) \in Version /\ Base(r).deleted = heap[r].deleted /\ Base(r).tuple = heap[r].tuple
    BY RowType DEF Base
  <1> QED
    BY <1>1, ContentIs, BaseContent

LEMMA RecordedOn ==
    ASSUME TypeOK, LinksKnown, NEW N, Told(N), NEW M, Extends(N, M), SameRows,
           GetWatermark \in Nat, GetWatermark' \in Nat, GetWatermark <= GetWatermark',
           NEW l \in DOMAIN N
    PROVE  Recorded(M, l)'
  <1>1. PICK log, prev, entry, r, v : /\ log = LogAt(l) /\ prev = log.prev_version
                                      /\ entry = N[l] /\ r = entry.row /\ v = entry.v
    OBVIOUS
  <1>2. log \in UndoLog /\ log.ts \in Nat
    BY <1>1, ToldLog
  <1>3. PICK new : new = LogAt(l)'
    OBVIOUS
  <1>4. /\ M[l] = entry /\ new.ts = log.ts /\ new.prev_version = prev
        /\ new.is_deleted = log.is_deleted
        /\ "id" \in DOMAIN new.fields => new.fields["id"] = heap[r].tuple.id
    BY <1>1, <1>3 DEF Extends
  <1>5. /\ r \in DOMAIN heap /\ v \in Value \cup {Absent} /\ (v = Absent <=> log.is_deleted)
        /\ log.ts > GetWatermark /\ IsValid(prev) => Leads(N, prev, r, v)
        /\ \A ts \in Nat : ts >= GetWatermark =>
              entry.past[ts] = AnswerOf(N, log.ts, v, prev, ts)
    BY <1>1 DEF Told, Recorded
  <1>6. r \in DOMAIN heap' /\ heap'[r].tuple.id = heap[r].tuple.id
    BY <1>5 DEF SameRows
  <1>7. ASSUME log.ts > GetWatermark', IsValid(prev)
        PROVE  Leads(M, prev, r, v)'
    <2>1. Leads(N, prev, r, v)
      BY <1>2, <1>5, <1>7
    <2>2. prev \in DOMAIN N /\ N[prev].row = r
      BY <2>1 DEF Leads
    <2> QED
      BY <2>1, <2>2 DEF Extends
  <1>8. ASSUME NEW ts \in Nat, ts >= GetWatermark'
        PROVE  entry.past[ts] = AnswerOf(M, log.ts, v, prev, ts)
    <2>1. entry.past[ts] = AnswerOf(N, log.ts, v, prev, ts)
      BY <1>5, <1>8
    <2>2. CASE log.ts > ts /\ IsValid(prev)
      <3>1. Leads(N, prev, r, v)
        BY <1>2, <1>5, <1>8, <2>2
      <3>2. prev \in DOMAIN N
        BY <3>1 DEF Leads
      <3>3. M[prev] = N[prev]
        BY <3>2 DEF Extends
      <3> QED
        BY <2>1, <3>3 DEF AnswerOf
    <2>3. CASE ~(log.ts > ts /\ IsValid(prev))
      BY <1>2, <2>1, <2>3 DEF AnswerOf
    <2> QED
      BY <2>2, <2>3
  <1>9. Recorded(M, l)' <=>
           /\ M[l].row \in DOMAIN heap'
           /\ M[l].v \in Value \cup {Absent} /\ (M[l].v = Absent <=> new.is_deleted)
           /\ "id" \in DOMAIN new.fields => new.fields["id"] = heap'[M[l].row].tuple.id
           /\ new.ts > GetWatermark' /\ IsValid(new.prev_version)
                 => Leads(M, new.prev_version, M[l].row, M[l].v)'
           /\ \A ts \in Nat : ts >= GetWatermark' =>
                 M[l].past[ts] = AnswerOf(M, new.ts, M[l].v, new.prev_version, ts)
    BY <1>3 DEF Recorded, Leads, AnswerOf, IsValid, NoTxn, LogAt
  <1> QED
    BY <1>1, <1>4, <1>5, <1>6, <1>7, <1>8, <1>9

\* A row as it is after the step.
LEMMA RowLeadsNow ==
    ASSUME NEW M, NEW r, NEW link, NEW v, undo_link'[r] = link, Content(heap'[r]) = v,
           heap'[r].ts > GetWatermark' /\ IsValid(link) => Leads(M, link, r, v)'
    PROVE  RowLeads(M, r)'
  <1>1. RowLeads(M, r)' <=>
           (heap'[r].ts > GetWatermark' /\ IsValid(undo_link'[r])
              => Leads(M, link, r, v)')
    BY DEF RowLeads, Leads, LogAt, Content, IsValid, NoTxn
  <1> QED
    BY <1>1

LEMMA AnswerNow ==
    ASSUME NEW M, NEW r, NEW ts
    PROVE  Answer(M, r, ts)' = AnswerOf(M, heap'[r].ts, Content(heap'[r]), undo_link'[r], ts)
  BY DEF Answer, AnswerOf, Content, IsValid, NoTxn

LEMMA ToldOn ==
    ASSUME TypeOK, LinksKnown, NEW N, Told(N), NEW M, Extends(N, M), SameRows,
           GetWatermark \in Nat, GetWatermark' \in Nat, GetWatermark <= GetWatermark',
           \A l \in DOMAIN M \ DOMAIN N :
              /\ l \in Link /\ l.txn \in DOMAIN txn_map'
              /\ l.idx \in DOMAIN txn_map'[l.txn].undo_logs
              /\ Recorded(M, l)',
           \A r \in DOMAIN heap' : RowLeads(M, r)'
    PROVE  Told(M)'
  <1>1. ASSUME NEW l \in DOMAIN M
        PROVE  /\ l \in Link /\ l.txn \in DOMAIN txn_map'
               /\ l.idx \in DOMAIN txn_map'[l.txn].undo_logs
               /\ Recorded(M, l)'
    <2>1. CASE l \in DOMAIN N
      <3>1. l \in Link
        BY <2>1 DEF Told
      <3>2. l.txn \in DOMAIN txn_map' /\ l.idx \in DOMAIN txn_map'[l.txn].undo_logs
        BY <2>1 DEF Extends
      <3> QED
        BY <2>1, <3>1, <3>2, RecordedOn
    <2>2. CASE l \notin DOMAIN N
      BY <2>2
    <2> QED
      BY <2>1, <2>2
  <1> QED
    BY <1>1 DEF Told

\* The logs stay as they are.
LogsStay ==
    /\ DOMAIN txn_map \subseteq DOMAIN txn_map'
    /\ \A u \in DOMAIN txn_map : txn_map'[u].undo_logs = txn_map[u].undo_logs

LEMMA LogsExtend ==
    ASSUME LogsStay, NEW N, Told(N)
    PROVE  Extends(N, N)
  <1> SUFFICES ASSUME NEW l \in DOMAIN N
               PROVE  /\ l.txn \in DOMAIN txn_map' /\ l.idx \in DOMAIN txn_map'[l.txn].undo_logs
                      /\ LogAt(l)' = LogAt(l)
                      /\ "id" \in DOMAIN LogAt(l).fields =>
                            LogAt(l).fields["id"] = heap[N[l].row].tuple.id
                      /\ \A v : Leads(N, l, N[l].row, v) => Leads(N, l, N[l].row, v)'
    BY DEF Extends
  <1>1. l.txn \in DOMAIN txn_map /\ l.idx \in DOMAIN txn_map[l.txn].undo_logs
    BY DEF Told
  <1>2. /\ l.txn \in DOMAIN txn_map' /\ l.idx \in DOMAIN txn_map'[l.txn].undo_logs
        /\ LogAt(l)' = LogAt(l)
    BY <1>1 DEF LogsStay, LogAt
  <1>3. "id" \in DOMAIN LogAt(l).fields =>
           LogAt(l).fields["id"] = heap[N[l].row].tuple.id
    BY DEF Told, Recorded
  <1>4. \A v : Leads(N, l, N[l].row, v) => Leads(N, l, N[l].row, v)'
    BY <1>2 DEF Leads
  <1> QED
    BY <1>2, <1>3, <1>4

\* A row that stays as it is leads to the same answers.
LEMMA SameRow ==
    ASSUME TypeOK, LinksKnown, NEW N, Told(N), NEW M, Extends(N, M),
           GetWatermark \in Nat, GetWatermark' \in Nat, GetWatermark <= GetWatermark',
           NEW r \in DOMAIN heap, heap'[r] = heap[r], undo_link'[r] = undo_link[r]
    PROVE  /\ RowLeads(M, r)'
           /\ \A ts \in Nat : ts >= GetWatermark' => Answer(M, r, ts)' = Answer(N, r, ts)
  <1>1. PICK link, v : link = undo_link[r] /\ v = Content(heap[r])
    OBVIOUS
  <1>2. heap[r].ts > GetWatermark /\ IsValid(link) => Leads(N, link, r, v)
    BY <1>1 DEF Told, RowLeads
  <1>3. heap[r].ts > GetWatermark /\ IsValid(link) => link \in DOMAIN N /\ N[link].row = r
    BY <1>2 DEF Leads
  <1>4. heap[r].ts \in Nat
    BY RowType
  <1>5. heap'[r].ts > GetWatermark' /\ IsValid(link) => Leads(M, link, r, v)'
    <2> SUFFICES ASSUME heap'[r].ts > GetWatermark', IsValid(link) PROVE Leads(M, link, r, v)'
      OBVIOUS
    <2>1. heap[r].ts > GetWatermark
      BY <1>4
    <2> QED
      BY <1>2, <1>3, <2>1 DEF Extends
  <1>6. RowLeads(M, r)'
    BY <1>1, <1>5, RowLeadsNow
  <1>7. ASSUME NEW ts \in Nat, ts >= GetWatermark'
        PROVE  Answer(M, r, ts)' = Answer(N, r, ts)
    <2>1. /\ Answer(M, r, ts)' = AnswerOf(M, heap[r].ts, v, link, ts)
          /\ Answer(N, r, ts) = AnswerOf(N, heap[r].ts, v, link, ts)
      BY <1>1, AnswerNow DEF Answer
    <2>2. CASE heap[r].ts > ts /\ IsValid(link)
      <3>1. heap[r].ts > GetWatermark
        BY <1>4, <1>7, <2>2
      <3>2. M[link] = N[link]
        BY <1>3, <2>2, <3>1 DEF Extends
      <3> QED
        BY <2>1, <3>2 DEF AnswerOf
    <2>3. CASE ~(heap[r].ts > ts /\ IsValid(link))
      BY <1>4, <2>1, <2>3 DEF AnswerOf
    <2> QED
      BY <2>2, <2>3
  <1> QED
    BY <1>6, <1>7

\* Steps that change neither rows nor logs.
LEMMA StillGoes ==
    ASSUME TypeOK, LinksKnown, NEW N, Told(N), UNCHANGED <<heap, undo_link>>, LogsStay,
           GetWatermark \in Nat, GetWatermark' \in Nat, GetWatermark <= GetWatermark'
    PROVE  Goes(N, N)
  <1>1. Extends(N, N)
    BY LogsExtend
  <1>2. SameRows
    BY DEF SameRows
  <1>3. \A r \in DOMAIN heap : RowLeads(N, r)'
           /\ \A ts \in Nat : ts >= GetWatermark' => Answer(N, r, ts)' = Answer(N, r, ts)
    BY <1>1, SameRow
  <1>4. Told(N)'
    BY <1>1, <1>2, <1>3, ToldOn
  <1> QED
    BY <1>1, <1>2, <1>3, <1>4 DEF Goes

\* Steps that change one row, and no log.
LEMMA RowGoes ==
    ASSUME TypeOK, LinksKnown, NEW N, Told(N), LogsStay, NEW r,
           \A s \in DOMAIN heap : s # r => heap'[s] = heap[s] /\ undo_link'[s] = undo_link[s],
           DOMAIN heap' = DOMAIN heap,
           GetWatermark \in Nat, GetWatermark' \in Nat, GetWatermark <= GetWatermark',
           RowLeads(N, r)', heap'[r].tuple.id = heap[r].tuple.id,
           \A ts \in Nat : ts >= GetWatermark' /\ ts <= last_commit_ts =>
              Answer(N, r, ts)' = Answer(N, r, ts)
    PROVE  Goes(N, N)
  <1>1. Extends(N, N)
    BY LogsExtend
  <1>2. SameRows
    BY DEF SameRows
  <1>3. \A s \in DOMAIN heap : s # r =>
           RowLeads(N, s)'
           /\ \A ts \in Nat : ts >= GetWatermark' => Answer(N, s, ts)' = Answer(N, s, ts)
    BY <1>1, SameRow
  <1>4. \A s \in DOMAIN heap' : RowLeads(N, s)'
    BY <1>3
  <1>5. Told(N)'
    BY <1>1, <1>2, <1>4, ToldOn
  <1>6. \A s \in DOMAIN heap : \A ts \in Nat :
           ts >= GetWatermark' /\ ts <= last_commit_ts => Answer(N, s, ts)' = Answer(N, s, ts)
    BY <1>3
  <1> QED
    BY <1>1, <1>2, <1>5, <1>6 DEF Goes

-----------------------------------------------------------------------------
(* Steps that write no undo log. *)

LEMMA BeginGoes ==
    ASSUME TypeOK, ChainInv, IdsIssued, NEW N, Told(N), NEW t \in Txn, Begin(t),
           GetWatermark \in Nat, GetWatermark' \in Nat, GetWatermark <= GetWatermark'
    PROVE  Goes(N, N)
  <1>1. /\ t = next_txn_id /\ t \in Nat
        /\ DOMAIN txn_map' = DOMAIN txn_map \cup {t}
        /\ \A u \in DOMAIN txn_map \ {t} : txn_map'[u] = txn_map[u]
        /\ UNCHANGED <<heap, undo_link>>
    BY TxnFacts DEF Begin, table
  <1>2. t \notin DOMAIN txn_map
    BY <1>1, TransactionFields, TxnFacts DEF IdsIssued
  <1>3. LogsStay
    BY <1>1, <1>2 DEF LogsStay
  <1> QED
    BY <1>1, <1>3, StillGoes DEF ChainInv

\* A row that was appended.
LEMMA Appended ==
    ASSUME TypeOK, NEW t \in Txn, AppendRow(t), t \in DOMAIN txn_map
    PROVE  LET new == Len(heap) + 1 IN
           /\ DOMAIN heap' = DOMAIN heap \cup {new} /\ new \notin DOMAIN heap /\ new \in Rid
           /\ \A r \in DOMAIN heap : heap'[r] = heap[r]
           /\ heap'[new] = [tuple |-> Head(at[t].rows), ts |-> t, deleted |-> FALSE]
           /\ UNCHANGED <<undo_link, index>>
           /\ LogsStay
  <1> DEFINE new == Len(heap) + 1
  <1>1. /\ DOMAIN heap = 1..Len(heap) /\ Len(heap) \in Nat /\ heap \in Seq(Row)
    BY HeapDomain DEF TypeOK, Row
  <1>2. PICK row : row = [tuple |-> Head(at[t].rows), ts |-> t, deleted |-> FALSE]
    OBVIOUS
  <1>3. heap' = Append(heap, row) /\ Len(heap) < MaxRows
    BY <1>2 DEF AppendRow
  <1>4. /\ DOMAIN heap' = DOMAIN heap \cup {new} /\ new \notin DOMAIN heap /\ new \in Rid
        /\ \A r \in DOMAIN heap : heap'[r] = heap[r]
        /\ heap'[new] = row
    BY <1>1, <1>3, BoundsAssumption DEF Rid
  <1>5. /\ DOMAIN txn_map' = DOMAIN txn_map
        /\ \A u \in DOMAIN txn_map : txn_map'[u].undo_logs = txn_map[u].undo_logs
    <2>1. \A u \in DOMAIN txn_map : txn_map[u] \in Transaction
      BY DEF TypeOK
    <2> QED
      BY <2>1 DEF AppendRow, Transaction
  <1>6. UNCHANGED <<undo_link, index>>
    BY DEF AppendRow
  <1> HIDE DEF new
  <1> QED
    BY <1>2, <1>4, <1>5, <1>6 DEF LogsStay, new

LEMMA AppendRowGoes ==
    ASSUME TypeOK, ChainInv, BusyActive, NEW N, Told(N), NEW t \in Txn, AppendRow(t),
           GetWatermark \in Nat, GetWatermark' \in Nat, GetWatermark <= GetWatermark'
    PROVE  Goes(N, N)
  <1>1. t \in DOMAIN txn_map
    BY AtWork DEF AppendRow
  <1>2. PICK new : /\ DOMAIN heap' = DOMAIN heap \cup {new} /\ new \notin DOMAIN heap /\ new \in Rid
                   /\ \A r \in DOMAIN heap : heap'[r] = heap[r]
                   /\ UNCHANGED undo_link /\ LogsStay
    BY <1>1, Appended
  <1>3. ~IsValid(undo_link[new])
    BY <1>2 DEF ChainInv, LinksKnown, IsValid, InvalidLink
  <1>4. Extends(N, N)
    BY <1>2, LogsExtend
  <1>5. SameRows
    BY <1>2 DEF SameRows
  <1>6. \A r \in DOMAIN heap : RowLeads(N, r)'
           /\ \A ts \in Nat : ts >= GetWatermark' => Answer(N, r, ts)' = Answer(N, r, ts)
    BY <1>2, <1>4, SameRow DEF ChainInv
  <1>7. RowLeads(N, new)'
    <2>1. PICK link, v : link = undo_link[new] /\ v = Content(heap'[new])
      OBVIOUS
    <2> QED
      BY <1>2, <1>3, <2>1, RowLeadsNow
  <1>8. \A r \in DOMAIN heap' : RowLeads(N, r)'
    BY <1>2, <1>6, <1>7
  <1>9. Told(N)'
    BY <1>4, <1>5, <1>8, ToldOn DEF ChainInv
  <1> QED
    BY <1>4, <1>5, <1>6, <1>9 DEF Goes

\* The id of a transaction is larger than every timestamp of a reader.
LEMMA AboveReaders ==
    ASSUME TypeOK, WatermarkInv, NEW t \in Txn
    PROVE  /\ t \in Nat /\ GetWatermark \in Nat /\ GetWatermark < t /\ last_commit_ts < t
           /\ last_commit_ts \in Nat /\ GetWatermark <= last_commit_ts
  <1>1. GetWatermark <= last_commit_ts /\ GetWatermark \in Nat
    BY WatermarkIs DEF WatermarkLeast
  <1> QED
    BY <1>1, TxnFacts DEF TypeOK

LEMMA StampRowGoes ==
    ASSUME TypeOK, WatermarkInv, RowsKnown, ChainInv, NEW N, Told(N), NEW t \in Txn, StampRow(t),
           GetWatermark \in Nat, GetWatermark' \in Nat, GetWatermark <= GetWatermark'
    PROVE  Goes(N, N)
  <1>1. PICK r \in at[t].todo :
           heap' = IF heap[r].ts = t THEN [heap EXCEPT ![r].ts = last_commit_ts + 1] ELSE heap
    BY DEF StampRow
  <1>2. r \in DOMAIN heap /\ heap[r] \in [tuple : Tuple, ts : Nat, deleted : BOOLEAN]
    BY <1>1, RowType DEF StampRow, RowsKnown, StepRows
  <1>3. UNCHANGED <<undo_link, txn_map>> /\ LogsStay
    BY DEF StampRow, LogsStay
  <1>4. CASE heap[r].ts # t
    BY <1>1, <1>3, <1>4, StillGoes DEF ChainInv
  <1>5. CASE heap[r].ts = t
    <2>1. /\ DOMAIN heap' = DOMAIN heap
          /\ \A s \in DOMAIN heap : s # r => heap'[s] = heap[s]
          /\ heap'[r].ts = last_commit_ts + 1
          /\ heap'[r].tuple = heap[r].tuple /\ heap'[r].deleted = heap[r].deleted
      BY <1>1, <1>2, <1>5
    <2>2. PICK link, v : link = undo_link[r] /\ v = Content(heap[r])
      OBVIOUS
    <2>3. Content(heap'[r]) = v
      BY <2>1, <2>2 DEF Content
    <2>4. t \in Nat /\ GetWatermark < t /\ last_commit_ts < t /\ last_commit_ts \in Nat
      BY AboveReaders
    <2>5. IsValid(link) => Leads(N, link, r, v)
      BY <1>2, <1>5, <2>2, <2>4 DEF Told, RowLeads
    <2>6. RowLeads(N, r)'
      <3>1. Leads(N, link, r, v) => Leads(N, link, r, v)'
        BY <1>3 DEF Leads, LogAt
      <3> QED
        BY <1>3, <2>2, <2>3, <2>5, <3>1, RowLeadsNow
    <2>7. ASSUME NEW ts \in Nat, ts <= last_commit_ts
          PROVE  Answer(N, r, ts)' = Answer(N, r, ts)
      <3>1. Answer(N, r, ts)' = AnswerOf(N, last_commit_ts + 1, v, link, ts)
        BY <1>3, <2>1, <2>2, <2>3, AnswerNow
      <3>2. ~(last_commit_ts + 1 <= ts) /\ ~(t <= ts)
        BY <2>4, <2>7
      <3> QED
        BY <1>5, <2>2, <3>1, <3>2 DEF Answer, AnswerOf
    <2> QED
      BY <1>2, <1>3, <2>1, <2>6, <2>7, RowGoes DEF ChainInv
  <1> QED
    BY <1>4, <1>5

\* The changes of an abort to a row.
LEMMA RestoreRowGoes ==
    ASSUME TypeOK, WatermarkInv, RowsKnown, ChainInv, NEW N, Told(N),
           NEW t \in Txn, RestoreRow(t),
           GetWatermark \in Nat, GetWatermark' \in Nat, GetWatermark <= GetWatermark'
    PROVE  Goes(N, N)
  <1>1. t \in DOMAIN txn_map
    BY AtWork DEF RestoreRow, WatermarkInv
  <1> DEFINE old(r) == Restored(t, Base(r))
  <1>2. PICK r \in at[t].todo :
           \/ heap[r].ts # t /\ UNCHANGED <<heap, undo_link>>
           \/ /\ heap[r].ts = t
              /\ heap' = [heap EXCEPT ![r] =
                    [tuple |-> IF old(r).deleted THEN heap[r].tuple ELSE old(r).tuple,
                     ts |-> old(r).ts, deleted |-> old(r).deleted]]
              /\ undo_link' = [undo_link EXCEPT ![r] = old(r).link]
    BY DEF RestoreRow
  <1>3. r \in DOMAIN heap /\ r \in Rid /\ DOMAIN undo_link = Rid
    BY RowType DEF RestoreRow, RowsKnown, StepRows, TypeOK
  <1>4. UNCHANGED <<txn_map, last_commit_ts>> /\ LogsStay
    BY DEF RestoreRow, LogsStay, Others
  <1>5. CASE heap[r].ts # t
    BY <1>2, <1>4, <1>5, StillGoes DEF ChainInv
  <1>6. CASE heap[r].ts = t
    <2>1. PICK ver, link : ver = old(r) /\ link = undo_link[r]
      OBVIOUS
    <2>2. /\ DOMAIN heap' = DOMAIN heap
          /\ \A s \in DOMAIN heap : s # r => heap'[s] = heap[s] /\ undo_link'[s] = undo_link[s]
          /\ heap'[r] = [tuple |-> IF ver.deleted THEN heap[r].tuple ELSE ver.tuple,
                         ts |-> ver.ts, deleted |-> ver.deleted]
          /\ undo_link'[r] = ver.link
      BY <1>2, <1>3, <1>6, <2>1, RowType
    <2>3. Content(heap'[r]) = Content(ver)
      BY <2>2 DEF Content
    <2>4. t \in Nat /\ GetWatermark < t /\ last_commit_ts < t /\ last_commit_ts \in Nat
      BY AboveReaders
    <2>5. CASE link.txn = t
      <3>1. Stands(N, r, Base(r)) /\ Base(r).ts = t /\ Base(r).link = link
        BY <1>3, <1>6, <2>1, BaseStands, RowType
      <3>2. IsValid(link)
        BY <2>5, TxnFacts DEF IsValid
      <3>3. ver = Undone(Base(r), LogAt(link))
        BY <2>1, <2>5, <3>1 DEF Restored
      <3>4. /\ Stands(N, r, ver) /\ ver.ts < t
            /\ \A ts \in Nat : ts >= GetWatermark =>
                  N[link].past[ts] = AnswerOf(N, ver.ts, Content(ver), ver.link, ts)
        BY <2>4, <3>1, <3>2, <3>3, StepBack
      <3>5. ver.tuple.id = heap[r].tuple.id /\ ver.ts \in Nat
            /\ (ver.ts > GetWatermark /\ IsValid(ver.link) => Leads(N, ver.link, r, Content(ver)))
        BY <3>4 DEF Stands, Version
      <3>6. heap'[r].tuple.id = heap[r].tuple.id
        BY <2>2, <3>5
      <3>7. RowLeads(N, r)'
        <4>1. PICK v, prev : v = Content(ver) /\ prev = ver.link
          OBVIOUS
        <4>2. Leads(N, prev, r, v) => Leads(N, prev, r, v)'
          BY <1>4 DEF Leads, LogAt
        <4>3. heap'[r].ts > GetWatermark' => ver.ts > GetWatermark
          BY <2>2, <3>5
        <4>4. heap'[r].ts > GetWatermark' /\ IsValid(prev) => Leads(N, prev, r, v)'
          BY <3>5, <4>1, <4>2, <4>3
        <4> QED
          BY <2>2, <2>3, <4>1, <4>4, RowLeadsNow
      <3>8. ASSUME NEW ts \in Nat, ts >= GetWatermark', ts <= last_commit_ts
            PROVE  Answer(N, r, ts)' = Answer(N, r, ts)
        <4>1. Answer(N, r, ts)' = AnswerOf(N, ver.ts, Content(ver), ver.link, ts)
          BY <2>2, <2>3, AnswerNow
        <4>2. ts >= GetWatermark /\ ~(t <= ts)
          BY <2>4, <3>8
        <4>3. Answer(N, r, ts) = N[link].past[ts]
          BY <1>6, <2>1, <3>2, <4>2 DEF Answer, AnswerOf
        <4> QED
          BY <3>4, <4>1, <4>2, <4>3
      <3> QED
        BY <1>4, <2>2, <3>6, <3>7, <3>8, RowGoes DEF ChainInv
    <2>6. CASE link.txn # t
      <3>1. link = InvalidLink
        BY <1>3, <1>6, <2>1, <2>6 DEF ChainInv, OwnLinks
      <3>2. ~IsValid(link)
        BY <3>1 DEF IsValid, InvalidLink
      <3>3. ver.ts = 0 /\ ver.link = link /\ ver.deleted /\ ver.tuple = heap[r].tuple
        BY <2>1, <2>6 DEF Restored, Base
      <3>4. Content(ver) = Absent /\ heap'[r].tuple = heap[r].tuple
        BY <2>2, <3>3 DEF Content
      <3>5. RowLeads(N, r)'
        BY <2>2, <2>3, <3>2, <3>3, RowLeadsNow
      <3>6. ASSUME NEW ts \in Nat, ts <= last_commit_ts
            PROVE  Answer(N, r, ts)' = Answer(N, r, ts)
        <4>1. Answer(N, r, ts)' = AnswerOf(N, 0, Absent, link, ts)
          BY <2>2, <2>3, <3>3, <3>4, AnswerNow
        <4>2. ~(t <= ts) /\ 0 <= ts
          BY <2>4, <3>6
        <4> QED
          BY <1>6, <2>1, <3>2, <4>1, <4>2 DEF Answer, AnswerOf, Nothing
      <3> QED
        BY <1>4, <2>2, <3>4, <3>5, <3>6, RowGoes DEF ChainInv
    <2> QED
      BY <2>5, <2>6
  <1> QED
    BY <1>5, <1>6

-----------------------------------------------------------------------------
(* The undo log of a write restores the value before it. *)

\* The value of a row that is changed to target.
Becomes(target) == IF target = Deleted THEN Absent ELSE target.v

LEMMA TargetFacts ==
    ASSUME NEW target \in Tuple \cup {Deleted}
    PROVE  /\ target = Deleted \/ target \in Tuple
           /\ Becomes(target) = Absent <=> target = Deleted
  <1>1. \A x \in Tuple : x.v \in Value /\ x # Deleted
    BY BoundsAssumption DEF Tuple, Deleted
  <1> QED
    BY <1>1, BoundsAssumption DEF Becomes

LEMMA ChangedIs ==
    ASSUME NEW x \in Tuple, NEW target \in Tuple \cup {Deleted}
    PROVE  /\ Changed(x, target) \subseteq {"id", "v"}
           /\ target = Deleted => Changed(x, target) = {"id", "v"}
           /\ "v" \notin Changed(x, target) => target # Deleted /\ target.v = x.v
  BY TargetFacts DEF Changed, Column, Tuple

LEMMA NewLogRestores ==
    ASSUME NEW ver \in Version, NEW target \in Tuple \cup {Deleted},
           NEW log, log = GenerateNewUndoLog(ver, target)
    PROVE  /\ log.is_deleted = ver.deleted
           /\ Restores(log, Becomes(target)) = Content(ver)
           /\ Becomes(target) = Absent => Whole(log)
           /\ "id" \in DOMAIN log.fields => log.fields["id"] = ver.tuple.id
  <1>1. ver.tuple \in Tuple /\ ver.tuple = [id |-> ver.tuple.id, v |-> ver.tuple.v]
    BY DEF Version, Tuple
  <1>2. log.is_deleted = ver.deleted
        /\ log.fields = IF ver.deleted THEN <<>>
                        ELSE [c \in Changed(ver.tuple, target) |-> ver.tuple[c]]
    BY DEF GenerateNewUndoLog
  <1>3. CASE ver.deleted
    <2>1. DOMAIN log.fields = {}
      BY <1>2, <1>3
    <2> QED
      BY <1>2, <1>3, <2>1 DEF Restores, Content, Whole
  <1>4. CASE ~ver.deleted
    <2>1. /\ DOMAIN log.fields = Changed(ver.tuple, target)
          /\ "v" \in DOMAIN log.fields => log.fields["v"] = ver.tuple.v
          /\ "id" \in DOMAIN log.fields => log.fields["id"] = ver.tuple.id
      <3>1. \A c \in Changed(ver.tuple, target) : log.fields[c] = ver.tuple[c]
        BY <1>2, <1>4
      <3>2. DOMAIN log.fields = Changed(ver.tuple, target)
        BY <1>2, <1>4
      <3>3. ver.tuple["v"] = ver.tuple.v /\ ver.tuple["id"] = ver.tuple.id
        OBVIOUS
      <3> QED
        BY <3>1, <3>2, <3>3
    <2>2. Content(ver) = ver.tuple.v
      BY <1>4 DEF Content
    <2>3. Restores(log, Becomes(target)) = Content(ver)
      BY <1>1, <1>2, <1>4, <2>1, <2>2, ChangedIs DEF Restores, Becomes
    <2>4. Becomes(target) = Absent => Whole(log)
      BY <1>1, <2>1, ChangedIs, TargetFacts DEF Whole
    <2> QED
      BY <1>2, <2>1, <2>3, <2>4
  <1> QED
    BY <1>3, <1>4

LEMMA UpdatedLogRestores ==
    ASSUME NEW ver \in Version, NEW target \in Tuple \cup {Deleted}, NEW log \in UndoLog,
           Content(ver) = Absent => Whole(log),
           NEW new, new = GenerateUpdatedUndoLog(ver, target, log)
    PROVE  /\ new.is_deleted = log.is_deleted
           /\ Whole(log) => Whole(new)
           /\ \A v : Restores(log, v) = Restores(log, Content(ver)) =>
                        Restores(new, v) = Restores(log, Content(ver))
           /\ Restores(new, Becomes(target)) = Restores(log, Content(ver))
           /\ Becomes(target) = Absent => Whole(new)
           /\ "id" \in DOMAIN new.fields =>
                 \/ new.fields["id"] = ver.tuple.id
                 \/ "id" \in DOMAIN log.fields /\ new.fields["id"] = log.fields["id"]
  <1>1. ver.tuple \in Tuple /\ ver.tuple = [id |-> ver.tuple.id, v |-> ver.tuple.v]
    BY DEF Version, Tuple
  <1>2. (Content(ver) = Absent <=> ver.deleted) /\ (~ver.deleted => Content(ver) = ver.tuple.v)
    BY ContentIs
  <1>3. CASE log.is_deleted \/ ver.deleted
    <2>1. new = log
      BY <1>3 DEF GenerateUpdatedUndoLog
    <2>2. Whole(log)
      BY <1>2, <1>3 DEF Whole
    <2>3. \A v, w : Restores(log, v) = Restores(log, w)
      BY <2>2 DEF Restores, Whole
    <2>4. Restores(log, Becomes(target)) = Restores(log, Content(ver))
      BY <2>3
    <2>5. \A v : Restores(log, v) = Restores(log, Content(ver)) =>
                    Restores(new, v) = Restores(log, Content(ver))
      BY <2>1
    <2> QED
      BY <2>1, <2>2, <2>4, <2>5
  <1>4. CASE ~log.is_deleted /\ ~ver.deleted
    <2> DEFINE cols == DOMAIN log.fields \cup Changed(ver.tuple, target)
    <2>1. new.is_deleted = log.is_deleted
          /\ new.fields = [c \in cols |-> IF c \in DOMAIN log.fields THEN log.fields[c]
                                          ELSE ver.tuple[c]]
      BY <1>4 DEF GenerateUpdatedUndoLog, UndoLog
    <2>2. /\ DOMAIN new.fields = cols
          /\ "v" \in DOMAIN new.fields =>
                new.fields["v"] = IF "v" \in DOMAIN log.fields THEN log.fields["v"] ELSE ver.tuple.v
          /\ "id" \in DOMAIN new.fields =>
                new.fields["id"] =
                    IF "id" \in DOMAIN log.fields THEN log.fields["id"] ELSE ver.tuple.id
      <3>1. DOMAIN new.fields = cols
        BY <2>1
      <3>2. \A c \in cols : new.fields[c] = IF c \in DOMAIN log.fields THEN log.fields[c]
                                            ELSE ver.tuple[c]
        BY <2>1
      <3>3. ver.tuple["v"] = ver.tuple.v /\ ver.tuple["id"] = ver.tuple.id
        OBVIOUS
      <3> HIDE DEF cols
      <3> QED
        BY <3>1, <3>2, <3>3
    <2>3. /\ "v" \in DOMAIN log.fields => "v" \in DOMAIN new.fields
          /\ "v" \notin DOMAIN new.fields => target # Deleted /\ target.v = ver.tuple.v
      BY <1>1, <2>2, ChangedIs
    <2> HIDE DEF cols
    <2>4. Whole(log) => Whole(new)
      BY <2>1, <2>3 DEF Whole
    <2>5. Becomes(target) = Absent => Whole(new)
      BY <2>3, TargetFacts DEF Whole
    <2>6. PICK v0 : v0 = ver.tuple.v /\ Content(ver) = v0
      BY <1>2, <1>4
    <2>7. Restores(log, v0) = IF "v" \in DOMAIN log.fields THEN log.fields["v"] ELSE v0
      BY <1>4 DEF Restores
    <2>8. \A v : Restores(new, v) = IF "v" \in DOMAIN new.fields THEN new.fields["v"] ELSE v
      BY <1>4, <2>1 DEF Restores
    <2>9. \A v : Restores(log, v) = IF "v" \in DOMAIN log.fields THEN log.fields["v"] ELSE v
      BY <1>4 DEF Restores
    <2>10. \A v : Restores(log, v) = Restores(log, v0) => Restores(new, v) = Restores(log, v0)
      BY <2>2, <2>3, <2>6, <2>7, <2>8, <2>9
    <2>11. Restores(new, Becomes(target)) = Restores(log, v0)
      <3>1. "v" \notin DOMAIN new.fields => Becomes(target) = v0
        BY <2>3, <2>6 DEF Becomes
      <3> QED
        BY <2>2, <2>3, <2>6, <2>7, <2>8, <3>1
    <2> QED
      BY <2>1, <2>2, <2>4, <2>5, <2>6, <2>10, <2>11
  <1> QED
    BY <1>3, <1>4

\* What a write leaves.
LEMMA Modified ==
    ASSUME TypeOK, NEW t \in DOMAIN txn_map, NEW r \in DOMAIN heap,
           NEW target \in Tuple \cup {Deleted}, NEW dead, NEW next,
           ModifyTuple(t, r, target, dead, next), ~Conflicts(t, r, dead),
           target # Deleted => target.id = heap[r].tuple.id
    PROVE  /\ DOMAIN heap' = DOMAIN heap
           /\ \A s \in DOMAIN heap : s # r => heap'[s] = heap[s] /\ undo_link'[s] = undo_link[s]
           /\ heap'[r].ts = t /\ heap'[r].tuple.id = heap[r].tuple.id
           /\ Content(heap'[r]) = Becomes(target)
           /\ undo_link'[r] = Logged(t, r, target).link
           /\ DOMAIN txn_map' = DOMAIN txn_map
           /\ txn_map'[t].undo_logs = Logged(t, r, target).logs
           /\ \A u \in DOMAIN txn_map : u # t => txn_map'[u] = txn_map[u]
           /\ txn_map'[t].write_set = txn_map[t].write_set \cup {r}
           /\ txn_map'[t].state = txn_map[t].state /\ txn_map'[t].read_ts = txn_map[t].read_ts
           /\ UNCHANGED index /\ Goto(t, next)
  <1>1. PICK new : new = Logged(t, r, target)
    OBVIOUS
  <1>2. /\ heap' = [heap EXCEPT ![r] = [tuple |-> IF target = Deleted THEN heap[r].tuple ELSE target,
                                        ts |-> t, deleted |-> target = Deleted]]
        /\ undo_link' = [undo_link EXCEPT ![r] = new.link]
        /\ txn_map' = [txn_map EXCEPT ![t].undo_logs = new.logs,
                                      ![t].write_set = @ \cup {r}]
        /\ UNCHANGED index /\ Goto(t, next)
    BY <1>1 DEF ModifyTuple
  <1>3. r \in Rid /\ DOMAIN undo_link = Rid /\ DOMAIN heap \subseteq Rid
    BY RowType, HeapDomain DEF TypeOK
  <1>4. /\ DOMAIN heap' = DOMAIN heap
        /\ \A s \in DOMAIN heap : s # r => heap'[s] = heap[s] /\ undo_link'[s] = undo_link[s]
        /\ heap'[r] = [tuple |-> IF target = Deleted THEN heap[r].tuple ELSE target,
                       ts |-> t, deleted |-> target = Deleted]
        /\ undo_link'[r] = new.link
    BY <1>2, <1>3
  <1>5. heap'[r].tuple.id = heap[r].tuple.id /\ heap'[r].ts = t
        /\ Content(heap'[r]) = Becomes(target)
    <2>1. heap'[r].tuple = (IF target = Deleted THEN heap[r].tuple ELSE target) /\ heap'[r].ts = t
      BY <1>4
    <2>2. PICK gone : gone = (target = Deleted)
      OBVIOUS
    <2>3. heap'[r].deleted = gone
      BY <1>4, <2>2
    <2>4. heap'[r].deleted <=> target = Deleted
      BY <2>2, <2>3, Zenon
    <2> QED
      BY <2>1, <2>4 DEF Content, Becomes
  <1>6. /\ DOMAIN txn_map' = DOMAIN txn_map
        /\ \A u \in DOMAIN txn_map : u # t => txn_map'[u] = txn_map[u]
        /\ txn_map'[t].undo_logs = new.logs
        /\ txn_map'[t].write_set = txn_map[t].write_set \cup {r}
        /\ txn_map'[t].state = txn_map[t].state /\ txn_map'[t].read_ts = txn_map[t].read_ts
    <2>1. txn_map[t] \in Transaction
      BY TransactionFields
    <2> QED
      BY <1>2, <2>1 DEF Transaction
  <1> QED
    BY <1>1, <1>2, <1>4, <1>5, <1>6

\* The logs of t after a write.
LEMMA LoggedFresh ==
    ASSUME TypeOK, NEW t \in DOMAIN txn_map, NEW r \in DOMAIN heap, NEW target, heap[r].ts # t,
           NEW new, new = Logged(t, r, target), NEW old, old = txn_map[t].undo_logs
    PROVE  LET n == Len(old) + 1 IN
           /\ DOMAIN new.logs = DOMAIN old \cup {n} /\ n \notin DOMAIN old /\ n \in Nat
           /\ \A i \in DOMAIN old : new.logs[i] = old[i]
           /\ new.logs[n] = GenerateNewUndoLog(Base(r), target)
           /\ new.link = [txn |-> t, idx |-> n]
  <1>1. PICK n, log, logs : /\ n = Len(old) + 1 /\ log = GenerateNewUndoLog(Base(r), target)
                            /\ logs = Append(old, log)
    OBVIOUS
  <1>2. old \in Seq(UndoLog) /\ Len(old) \in Nat /\ DOMAIN old = 1..Len(old)
    BY TransactionFields
  <1>3. Base(r).ts = heap[r].ts
    BY RowType
  <1>4. new = [logs |-> logs, link |-> [txn |-> t, idx |-> n]]
    BY <1>1, <1>3 DEF Logged, Own
  <1>5. /\ DOMAIN logs = DOMAIN old \cup {n} /\ n \notin DOMAIN old /\ n \in Nat
        /\ \A i \in DOMAIN old : logs[i] = old[i]
        /\ logs[n] = log
    BY <1>1, <1>2
  <1> QED
    BY <1>1, <1>4, <1>5

LEMMA LoggedAgain ==
    ASSUME TypeOK, LinksKnown, NEW t \in DOMAIN txn_map, NEW r \in DOMAIN heap, NEW target,
           heap[r].ts = t, undo_link[r].txn = t,
           NEW new, new = Logged(t, r, target), NEW old, old = txn_map[t].undo_logs,
           NEW l, l = undo_link[r], NEW log, log = GenerateUpdatedUndoLog(Base(r), target, LogAt(l))
    PROVE  /\ DOMAIN new.logs = DOMAIN old /\ new.link = l /\ l.idx \in DOMAIN old
           /\ \A i \in DOMAIN old : i # l.idx => new.logs[i] = old[i]
           /\ new.logs[l.idx] = log
  <1>1. old \in Seq(UndoLog)
    BY TransactionFields
  <1>2. l.idx \in DOMAIN old
    BY KnownLinks, TransactionFields, TxnFacts DEF Known, Exists
  <1>3. Base(r).ts = heap[r].ts /\ Base(r).link = l
    BY RowType
  <1>4. LogAt(l) = old[l.idx]
    BY DEF LogAt
  <1>5. new = [logs |-> [old EXCEPT ![l.idx] = log], link |-> l]
    BY <1>3, <1>4 DEF Logged, Own
  <1> QED
    BY <1>1, <1>2, <1>5

LEMMA LoggedNone ==
    ASSUME TypeOK, NEW t, NEW r \in DOMAIN heap, NEW target, heap[r].ts = t, undo_link[r].txn # t
    PROVE  Logged(t, r, target) = [logs |-> txn_map[t].undo_logs, link |-> undo_link[r]]
  <1>1. Base(r).ts = heap[r].ts /\ Base(r).link = undo_link[r]
    BY RowType
  <1> QED
    BY <1>1 DEF Logged, Own

\* The first write of t to a row: a new log.
LEMMA FreshGoes ==
    ASSUME TypeOK, WatermarkInv, ChainInv, NEW N, Told(N),
           NEW t \in DOMAIN txn_map, NEW r \in DOMAIN heap,
           NEW target \in Tuple \cup {Deleted}, NEW dead, NEW next,
           ModifyTuple(t, r, target, dead, next), ~Conflicts(t, r, dead),
           target # Deleted => target.id = heap[r].tuple.id, heap[r].ts # t,
           GetWatermark \in Nat, GetWatermark' \in Nat, GetWatermark <= GetWatermark'
    PROVE  \E M : Goes(N, M)
  <1> DEFINE old == txn_map[t].undo_logs
             n == Len(old) + 1
  <1>1. PICK l : l = [txn |-> t, idx |-> n]
    OBVIOUS
  <1>2. PICK base, link, log : /\ base = Base(r) /\ link = undo_link[r]
                               /\ log = GenerateNewUndoLog(base, target)
    OBVIOUS
  <1>3. /\ base \in Version /\ base.ts = heap[r].ts /\ base.link = link /\ heap[r].ts \in Nat
        /\ base.tuple.id = heap[r].tuple.id /\ base.deleted = heap[r].deleted
        /\ Content(base) = Content(heap[r]) /\ t \in Txn
    BY <1>2, RowType, BaseContent, TransactionFields DEF Base
  <1>4. /\ log.is_deleted = base.deleted /\ log.ts = heap[r].ts /\ log.prev_version = link
        /\ Restores(log, Becomes(target)) = Content(base)
        /\ Becomes(target) = Absent => Whole(log)
        /\ "id" \in DOMAIN log.fields => log.fields["id"] = base.tuple.id
    BY <1>2, <1>3, NewLogType, NewLogRestores
  <1>5. /\ DOMAIN txn_map' = DOMAIN txn_map
        /\ \A u \in DOMAIN txn_map : u # t => txn_map'[u] = txn_map[u]
        /\ DOMAIN txn_map'[t].undo_logs = DOMAIN old \cup {n} /\ n \notin DOMAIN old /\ n \in Nat
        /\ \A i \in DOMAIN old : txn_map'[t].undo_logs[i] = old[i]
        /\ txn_map'[t].undo_logs[n] = log
        /\ undo_link'[r] = l
        /\ DOMAIN heap' = DOMAIN heap
        /\ \A s \in DOMAIN heap : s # r => heap'[s] = heap[s] /\ undo_link'[s] = undo_link[s]
        /\ heap'[r].ts = t /\ heap'[r].tuple.id = heap[r].tuple.id
        /\ Content(heap'[r]) = Becomes(target)
    BY <1>1, <1>2, Modified, LoggedFresh
  <1> HIDE DEF n
  <1>6. l \notin DOMAIN N /\ l.txn = t /\ l.idx = n /\ IsValid(l) /\ l \in Link
    BY <1>1, <1>3, <1>5, TxnFacts DEF Told, IsValid, Link
  <1> HIDE DEF old
  <1>7. PICK M : /\ DOMAIN M = DOMAIN N \cup {l}
                 /\ \A k \in DOMAIN N : M[k] = N[k]
                 /\ M[l].v = Content(heap[r]) /\ M[l].row = r
                 /\ \A ts \in Nat : M[l].past[ts] = Answer(N, r, ts)
    <2> DEFINE m == [v |-> Content(heap[r]), row |-> r, past |-> [ts \in Nat |-> Answer(N, r, ts)]]
               new == [k \in DOMAIN N \cup {l} |-> IF k = l THEN m ELSE N[k]]
    <2>1. /\ DOMAIN new = DOMAIN N \cup {l} /\ new[l] = m
          /\ \A k \in DOMAIN N : new[k] = N[k]
      BY <1>6
    <2>2. m.v = Content(heap[r]) /\ m.row = r /\ \A ts \in Nat : m.past[ts] = Answer(N, r, ts)
      OBVIOUS
    <2> HIDE DEF m, new
    <2> QED
      BY <2>1, <2>2
  <1>8. Extends(N, M)
    <2> SUFFICES ASSUME NEW k \in DOMAIN N
                 PROVE  /\ k.txn \in DOMAIN txn_map' /\ k.idx \in DOMAIN txn_map'[k.txn].undo_logs
                        /\ LogAt(k)' = LogAt(k)
                        /\ "id" \in DOMAIN LogAt(k).fields =>
                              LogAt(k).fields["id"] = heap[N[k].row].tuple.id
                        /\ \A v : Leads(N, k, N[k].row, v) => Leads(M, k, N[k].row, v)'
      BY <1>7 DEF Extends
    <2>1. k.txn \in DOMAIN txn_map /\ k.idx \in DOMAIN txn_map[k.txn].undo_logs
      BY DEF Told
    <2>2. /\ k.txn \in DOMAIN txn_map' /\ k.idx \in DOMAIN txn_map'[k.txn].undo_logs
          /\ LogAt(k)' = LogAt(k)
      BY <1>5, <2>1 DEF LogAt, old
    <2>3. "id" \in DOMAIN LogAt(k).fields =>
             LogAt(k).fields["id"] = heap[N[k].row].tuple.id
      BY DEF Told, Recorded
    <2>4. \A v : Leads(N, k, N[k].row, v) => Leads(M, k, N[k].row, v)'
      BY <1>7, <2>2 DEF Leads
    <2> QED
      BY <2>2, <2>3, <2>4
  <1>9. SameRows
    BY <1>5 DEF SameRows
  <1>10. LogAt(l)' = log
    BY <1>5, <1>6 DEF LogAt
  <1>11. heap[r].ts > GetWatermark /\ IsValid(link) => Leads(N, link, r, Content(heap[r]))
    BY <1>2 DEF Told, RowLeads
  <1>12. Recorded(M, l)'
    <2>1. M[l].row \in DOMAIN heap' /\ heap'[M[l].row].tuple.id = base.tuple.id
      BY <1>3, <1>5, <1>7
    <2>2. M[l].v \in Value \cup {Absent} /\ (M[l].v = Absent <=> log.is_deleted)
      BY <1>3, <1>4, <1>7, RowContent
    <2>3. heap[r].ts > GetWatermark' /\ IsValid(link) => Leads(M, link, r, M[l].v)'
      <3> SUFFICES ASSUME heap[r].ts > GetWatermark', IsValid(link)
                   PROVE  Leads(M, link, r, M[l].v)'
        OBVIOUS
      <3>1. Leads(N, link, r, Content(heap[r]))
        BY <1>3, <1>11
      <3>2. link \in DOMAIN N /\ N[link].row = r
        BY <3>1 DEF Leads
      <3>3. PICK v : v = Content(heap[r])
        OBVIOUS
      <3>4. Leads(M, link, r, v)'
        BY <1>8, <3>1, <3>2, <3>3 DEF Extends
      <3> QED
        BY <1>7, <3>3, <3>4
    <2>4. ASSUME NEW ts \in Nat, ts >= GetWatermark'
          PROVE  M[l].past[ts] = AnswerOf(M, heap[r].ts, M[l].v, link, ts)
      <3>1. M[l].past[ts] = AnswerOf(N, heap[r].ts, M[l].v, link, ts)
        BY <1>2, <1>7 DEF Answer
      <3>2. CASE heap[r].ts > ts /\ IsValid(link)
        <4>1. Leads(N, link, r, Content(heap[r]))
          BY <1>3, <1>11, <2>4, <3>2
        <4>2. M[link] = N[link]
          BY <1>7, <4>1 DEF Leads
        <4> QED
          BY <3>1, <4>2 DEF AnswerOf
      <3>3. CASE ~(heap[r].ts > ts /\ IsValid(link))
        BY <1>3, <3>1, <3>3 DEF AnswerOf
      <3> QED
        BY <3>2, <3>3
    <2>5. PICK m : m = M[l]
      OBVIOUS
    <2>6. Recorded(M, l)' <=>
             /\ m.row \in DOMAIN heap'
             /\ m.v \in Value \cup {Absent} /\ (m.v = Absent <=> log.is_deleted)
             /\ "id" \in DOMAIN log.fields => log.fields["id"] = heap'[m.row].tuple.id
             /\ log.ts > GetWatermark' /\ IsValid(log.prev_version)
                   => Leads(M, log.prev_version, m.row, m.v)'
             /\ \A ts \in Nat : ts >= GetWatermark' =>
                   m.past[ts] = AnswerOf(M, log.ts, m.v, log.prev_version, ts)
      BY <1>10, <2>5 DEF Recorded, Leads, AnswerOf, IsValid, NoTxn, LogAt
    <2>7. log.ts > GetWatermark' /\ IsValid(log.prev_version)
             => Leads(M, log.prev_version, m.row, m.v)'
      BY <1>4, <1>7, <2>3, <2>5
    <2>8. \A ts \in Nat : ts >= GetWatermark' =>
             m.past[ts] = AnswerOf(M, log.ts, m.v, log.prev_version, ts)
      BY <1>4, <2>4, <2>5
    <2> QED
      BY <1>4, <2>1, <2>2, <2>5, <2>6, <2>7, <2>8
  <1>13. RowLeads(M, r)'
    <2>1. PICK v : v = Becomes(target)
      OBVIOUS
    <2>2. l \in DOMAIN M /\ M[l].row = r /\ M[l].v = Restores(log, v) /\ (v = Absent => Whole(log))
      BY <1>3, <1>4, <1>7, <2>1
    <2>3. Leads(M, l, r, v)'
      BY <1>10, <2>2 DEF Leads
    <2> QED
      BY <1>5, <2>1, <2>3, RowLeadsNow
  <1>14. \A s \in DOMAIN heap : s # r =>
            RowLeads(M, s)'
            /\ \A ts \in Nat : ts >= GetWatermark' => Answer(M, s, ts)' = Answer(N, s, ts)
    BY <1>5, <1>8, SameRow DEF ChainInv
  <1>15. ASSUME NEW ts \in Nat, ts <= last_commit_ts PROVE Answer(M, r, ts)' = Answer(N, r, ts)
    <2>1. ~(t <= ts)
      BY <1>3, <1>15, AboveReaders
    <2>2. Answer(M, r, ts)' = AnswerOf(M, t, Content(heap'[r]), l, ts)
      BY <1>5, AnswerNow
    <2> QED
      BY <1>6, <1>7, <2>1, <2>2 DEF AnswerOf
  <1>16. \A s \in DOMAIN heap' : RowLeads(M, s)'
    BY <1>5, <1>13, <1>14
  <1>17. Told(M)'
    <2>1. l.txn \in DOMAIN txn_map' /\ l.idx \in DOMAIN txn_map'[l.txn].undo_logs
      BY <1>5, <1>6
    <2> QED
      BY <1>6, <1>7, <1>8, <1>9, <1>12, <1>16, <2>1, ToldOn DEF ChainInv
  <1>18. Goes(N, M)
    BY <1>8, <1>9, <1>14, <1>15, <1>17 DEF Goes
  <1> QED
    BY <1>18

\* A write after the first one completes the log, for the version it replaces.
LEMMA AgainGoes ==
    ASSUME TypeOK, WatermarkInv, ChainInv, NEW N, Told(N),
           NEW t \in DOMAIN txn_map, NEW r \in DOMAIN heap,
           NEW target \in Tuple \cup {Deleted}, NEW dead, NEW next,
           ModifyTuple(t, r, target, dead, next), ~Conflicts(t, r, dead),
           target # Deleted => target.id = heap[r].tuple.id, heap[r].ts = t, undo_link[r].txn = t,
           GetWatermark \in Nat, GetWatermark' \in Nat, GetWatermark <= GetWatermark'
    PROVE  Goes(N, N)
  <1> DEFINE old == txn_map[t].undo_logs
  <1>1. PICK l, base, log, new : /\ l = undo_link[r] /\ base = Base(r) /\ log = LogAt(l)
                                 /\ new = GenerateUpdatedUndoLog(base, target, log)
    OBVIOUS
  <1>2. /\ base \in Version /\ t \in Txn /\ base.tuple.id = heap[r].tuple.id
        /\ Content(base) = Content(heap[r]) /\ IsValid(l)
        /\ t \in Nat /\ GetWatermark < t /\ last_commit_ts < t /\ last_commit_ts \in Nat
    BY <1>1, RowType, BaseContent, TransactionFields, AboveReaders, TxnFacts DEF Base, IsValid
  <1>3. Leads(N, l, r, Content(base))
    BY <1>1, <1>2 DEF Told, RowLeads
  <1>4. /\ l \in DOMAIN N /\ N[l].row = r /\ N[l].v = Restores(log, Content(base))
        /\ Content(base) = Absent => Whole(log)
    BY <1>1, <1>3 DEF Leads
  <1>5. log \in UndoLog /\ Recorded(N, l)
    BY <1>1, <1>4, ToldLog DEF ChainInv, Told
  <1>6. /\ new.is_deleted = log.is_deleted
        /\ new.ts = log.ts /\ new.prev_version = log.prev_version
        /\ Whole(log) => Whole(new)
        /\ \A v : Restores(log, v) = N[l].v => Restores(new, v) = N[l].v
        /\ Restores(new, Becomes(target)) = N[l].v
        /\ Becomes(target) = Absent => Whole(new)
        /\ "id" \in DOMAIN new.fields => new.fields["id"] = heap[r].tuple.id
    <2>1. "id" \in DOMAIN log.fields => log.fields["id"] = heap[r].tuple.id
      BY <1>1, <1>4, <1>5 DEF Recorded
    <2>2. /\ new.is_deleted = log.is_deleted
          /\ Whole(log) => Whole(new)
          /\ \A v : Restores(log, v) = Restores(log, Content(base)) =>
                       Restores(new, v) = Restores(log, Content(base))
          /\ Restores(new, Becomes(target)) = Restores(log, Content(base))
          /\ Becomes(target) = Absent => Whole(new)
          /\ "id" \in DOMAIN new.fields =>
                \/ new.fields["id"] = base.tuple.id
                \/ "id" \in DOMAIN log.fields /\ new.fields["id"] = log.fields["id"]
      BY <1>1, <1>2, <1>4, <1>5, UpdatedLogRestores
    <2>3. new.ts = log.ts /\ new.prev_version = log.prev_version
      BY <1>1, <1>2, <1>5, UpdatedLogType
    <2> QED
      BY <1>2, <1>4, <2>1, <2>2, <2>3
  <1>7. /\ DOMAIN txn_map' = DOMAIN txn_map
        /\ \A u \in DOMAIN txn_map : u # t => txn_map'[u] = txn_map[u]
        /\ DOMAIN txn_map'[t].undo_logs = DOMAIN old
        /\ l.idx \in DOMAIN old /\ l.txn = t /\ l \in Link
        /\ \A i \in DOMAIN old : i # l.idx => txn_map'[t].undo_logs[i] = old[i]
        /\ txn_map'[t].undo_logs[l.idx] = new
        /\ undo_link'[r] = l
        /\ DOMAIN heap' = DOMAIN heap
        /\ \A s \in DOMAIN heap : s # r => heap'[s] = heap[s] /\ undo_link'[s] = undo_link[s]
        /\ heap'[r].ts = t /\ heap'[r].tuple.id = heap[r].tuple.id
        /\ Content(heap'[r]) = Becomes(target)
    <2>1. log = old[l.idx] /\ l.txn = t /\ l \in Link /\ LinksKnown
      BY <1>1, RowType DEF LogAt, ChainInv
    <2>2. PICK logs : logs = Logged(t, r, target)
      OBVIOUS
    <2>3. /\ DOMAIN logs.logs = DOMAIN old /\ logs.link = l /\ l.idx \in DOMAIN old
          /\ \A i \in DOMAIN old : i # l.idx => logs.logs[i] = old[i]
          /\ logs.logs[l.idx] = new
      <3>1. PICK o : o = old
        OBVIOUS
      <3>2. new = GenerateUpdatedUndoLog(Base(r), target, LogAt(l))
        BY <1>1
      <3>3. /\ DOMAIN logs.logs = DOMAIN o /\ logs.link = l /\ l.idx \in DOMAIN o
            /\ \A i \in DOMAIN o : i # l.idx => logs.logs[i] = o[i]
            /\ logs.logs[l.idx] = new
        <4>1. /\ o = txn_map[t].undo_logs /\ l = undo_link[r] /\ LinksKnown
              /\ heap[r].ts = t /\ undo_link[r].txn = t
          BY <1>1, <2>1, <3>1
        <4> HIDE DEF old
        <4> QED
          BY <2>2, <3>2, <4>1, LoggedAgain
      <3> QED
        BY <3>1, <3>3
    <2> HIDE DEF old
    <2>4. /\ DOMAIN txn_map' = DOMAIN txn_map
          /\ \A u \in DOMAIN txn_map : u # t => txn_map'[u] = txn_map[u]
          /\ txn_map'[t].undo_logs = logs.logs
          /\ undo_link'[r] = logs.link
          /\ DOMAIN heap' = DOMAIN heap
          /\ \A s \in DOMAIN heap : s # r => heap'[s] = heap[s] /\ undo_link'[s] = undo_link[s]
          /\ heap'[r].ts = t /\ heap'[r].tuple.id = heap[r].tuple.id
          /\ Content(heap'[r]) = Becomes(target)
      BY <2>2, Modified
    <2> QED
      BY <2>1, <2>2, <2>3, <2>4
  <1> HIDE DEF old
  <1>8. LogAt(l)' = new
    BY <1>7 DEF LogAt
  <1>9. Extends(N, N)
    <2> SUFFICES ASSUME NEW k \in DOMAIN N
                 PROVE  /\ k.txn \in DOMAIN txn_map' /\ k.idx \in DOMAIN txn_map'[k.txn].undo_logs
                        /\ LogAt(k)'.ts = LogAt(k).ts
                        /\ LogAt(k)'.prev_version = LogAt(k).prev_version
                        /\ LogAt(k)'.is_deleted = LogAt(k).is_deleted
                        /\ "id" \in DOMAIN LogAt(k)'.fields =>
                              LogAt(k)'.fields["id"] = heap[N[k].row].tuple.id
                        /\ \A v : Leads(N, k, N[k].row, v) => Leads(N, k, N[k].row, v)'
      BY DEF Extends
    <2>1. k \in Link /\ k.txn \in DOMAIN txn_map /\ k.idx \in DOMAIN txn_map[k.txn].undo_logs
      BY DEF Told
    <2>2. k.txn \in DOMAIN txn_map' /\ k.idx \in DOMAIN txn_map'[k.txn].undo_logs
      BY <1>7, <2>1 DEF old
    <2>3. CASE k = l
      <3>1. \A v : Leads(N, l, r, v) => Leads(N, l, r, v)'
        <4> SUFFICES ASSUME NEW v, Leads(N, l, r, v) PROVE Leads(N, l, r, v)'
          OBVIOUS
        <4>1. N[l].v = Restores(log, v) /\ (v = Absent => Whole(log))
          BY <1>1 DEF Leads
        <4>2. N[l].v = Restores(new, v) /\ (v = Absent => Whole(new))
          BY <1>6, <4>1
        <4> QED
          BY <1>4, <1>8, <4>2 DEF Leads
      <3>2. LogAt(k)' = new /\ LogAt(k) = log /\ N[k].row = r
        BY <1>1, <1>4, <1>8, <2>3
      <3> QED
        BY <1>6, <2>2, <2>3, <3>1, <3>2
    <2>4. CASE k # l
      <3>1. LogAt(k)' = LogAt(k)
        <4>1. k.txn # l.txn \/ k.idx # l.idx
          BY <1>7, <2>1, <2>4 DEF Link
        <4> QED
          BY <1>7, <2>1, <4>1 DEF LogAt, old
      <3>2. "id" \in DOMAIN LogAt(k).fields =>
               LogAt(k).fields["id"] = heap[N[k].row].tuple.id
        BY DEF Told, Recorded
      <3>3. \A v : Leads(N, k, N[k].row, v) => Leads(N, k, N[k].row, v)'
        BY <3>1 DEF Leads
      <3> QED
        BY <2>2, <3>1, <3>2, <3>3
    <2> QED
      BY <2>3, <2>4
  <1>10. SameRows
    BY <1>7 DEF SameRows
  <1>11. RowLeads(N, r)'
    <2>1. PICK v : v = Becomes(target)
      OBVIOUS
    <2>2. Leads(N, l, r, v)'
      BY <1>4, <1>6, <1>8, <2>1 DEF Leads
    <2> QED
      BY <1>7, <2>1, <2>2, RowLeadsNow
  <1>12. \A s \in DOMAIN heap : s # r =>
            RowLeads(N, s)'
            /\ \A ts \in Nat : ts >= GetWatermark' => Answer(N, s, ts)' = Answer(N, s, ts)
    BY <1>7, <1>9, SameRow DEF ChainInv
  <1>13. ASSUME NEW ts \in Nat, ts <= last_commit_ts PROVE Answer(N, r, ts)' = Answer(N, r, ts)
    <2>1. ~(t <= ts)
      BY <1>2, <1>13
    <2>2. Answer(N, r, ts)' = AnswerOf(N, t, Content(heap'[r]), l, ts)
      BY <1>7, AnswerNow
    <2> QED
      BY <1>1, <1>2, <2>1, <2>2 DEF Answer, AnswerOf
  <1>14. \A s \in DOMAIN heap' : RowLeads(N, s)'
    BY <1>7, <1>11, <1>12
  <1>15. Told(N)'
    BY <1>9, <1>10, <1>14, ToldOn DEF ChainInv
  <1> QED
    BY <1>9, <1>10, <1>12, <1>13, <1>15 DEF Goes

\* A write to a row that t appended: no log.
LEMMA OwnRowGoes ==
    ASSUME TypeOK, WatermarkInv, ChainInv, NEW N, Told(N),
           NEW t \in DOMAIN txn_map, NEW r \in DOMAIN heap,
           NEW target \in Tuple \cup {Deleted}, NEW dead, NEW next,
           ModifyTuple(t, r, target, dead, next), ~Conflicts(t, r, dead),
           target # Deleted => target.id = heap[r].tuple.id, heap[r].ts = t, undo_link[r].txn # t,
           GetWatermark \in Nat, GetWatermark' \in Nat, GetWatermark <= GetWatermark'
    PROVE  Goes(N, N)
  <1>1. PICK l : l = undo_link[r] /\ ~IsValid(l) /\ t \in Txn
    BY TransactionFields DEF ChainInv, OwnLinks, IsValid, InvalidLink
  <1>2. /\ DOMAIN txn_map' = DOMAIN txn_map
        /\ \A u \in DOMAIN txn_map : txn_map'[u].undo_logs = txn_map[u].undo_logs
        /\ undo_link'[r] = l
        /\ DOMAIN heap' = DOMAIN heap
        /\ \A s \in DOMAIN heap : s # r => heap'[s] = heap[s] /\ undo_link'[s] = undo_link[s]
        /\ heap'[r].ts = t /\ heap'[r].tuple.id = heap[r].tuple.id
    <2>1. PICK logs : /\ logs = Logged(t, r, target)
                      /\ logs.logs = txn_map[t].undo_logs /\ logs.link = l
      BY <1>1, LoggedNone
    <2>2. /\ DOMAIN txn_map' = DOMAIN txn_map
          /\ \A u \in DOMAIN txn_map : u # t => txn_map'[u] = txn_map[u]
          /\ txn_map'[t].undo_logs = logs.logs
          /\ undo_link'[r] = logs.link
          /\ DOMAIN heap' = DOMAIN heap
          /\ \A s \in DOMAIN heap : s # r => heap'[s] = heap[s] /\ undo_link'[s] = undo_link[s]
          /\ heap'[r].ts = t /\ heap'[r].tuple.id = heap[r].tuple.id
      BY <2>1, Modified
    <2> QED
      BY <2>1, <2>2
  <1>3. LogsStay
    BY <1>2 DEF LogsStay
  <1>4. RowLeads(N, r)'
    <2>1. PICK v : v = Content(heap'[r])
      OBVIOUS
    <2> QED
      BY <1>1, <1>2, <2>1, RowLeadsNow
  <1>5. ASSUME NEW ts \in Nat, ts <= last_commit_ts PROVE Answer(N, r, ts)' = Answer(N, r, ts)
    <2>1. ~(t <= ts)
      BY <1>1, <1>5, AboveReaders
    <2>2. Answer(N, r, ts)' = AnswerOf(N, t, Content(heap'[r]), l, ts)
      BY <1>2, AnswerNow
    <2> QED
      BY <1>1, <2>1, <2>2 DEF Answer, AnswerOf
  <1> QED
    BY <1>2, <1>3, <1>4, <1>5, RowGoes DEF ChainInv

LEMMA ModifyTupleGoes ==
    ASSUME TypeOK, WatermarkInv, ChainInv, NEW N, Told(N),
           NEW t \in DOMAIN txn_map, NEW r \in DOMAIN heap,
           NEW target \in Tuple \cup {Deleted}, NEW dead, NEW next,
           ModifyTuple(t, r, target, dead, next), ~Conflicts(t, r, dead),
           target # Deleted => target.id = heap[r].tuple.id,
           GetWatermark \in Nat, GetWatermark' \in Nat, GetWatermark <= GetWatermark'
    PROVE  \E M : Goes(N, M)
  <1>1. CASE heap[r].ts # t
    BY <1>1, FreshGoes
  <1>2. CASE heap[r].ts = t /\ undo_link[r].txn = t
    <2>1. Goes(N, N)
      BY <1>2, AgainGoes
    <2> QED
      BY <2>1
  <1>3. CASE heap[r].ts = t /\ undo_link[r].txn # t
    <2>1. Goes(N, N)
      BY <1>3, OwnRowGoes
    <2> QED
      BY <2>1
  <1> QED
    BY <1>1, <1>2, <1>3

-----------------------------------------------------------------------------
(* Garbage collection, and every other step. *)

LEMMA CollectionGoes ==
    ASSUME TypeOK, WatermarkInv, ChainInv, GetWatermark >= 1, NEW N, Told(N), GarbageCollection
    PROVE  \E M : Goes(N, M)
  <1>1. PICK T \in SUBSET DOMAIN N :
           /\ Kept(T)'
           /\ \A l \in T : /\ l.txn \in DOMAIN txn_map'
                           /\ l.idx \in DOMAIN txn_map'[l.txn].undo_logs
                           /\ LogAt(l)' = LogAt(l)
    BY ToldKept, CollectionNeeds
  <1>2. UNCHANGED <<heap, undo_link>> /\ GetWatermark' = GetWatermark /\ GetWatermark \in Nat
    BY WatermarkIs DEF GarbageCollection, table, Others, GetWatermark, WatermarkLeast
  <1>3. PICK M : M = [l \in T |-> N[l]]
    OBVIOUS
  <1>4. DOMAIN M = T /\ \A l \in T : M[l] = N[l] /\ l \in DOMAIN N
    BY <1>3
  <1>5. ASSUME NEW l \in T, NEW r, NEW v, Leads(N, l, r, v) PROVE Leads(M, l, r, v)'
    <2>1. LogAt(l)' = LogAt(l) /\ M[l] = N[l] /\ l \in DOMAIN M
      BY <1>1, <1>4
    <2> QED
      BY <1>5, <2>1 DEF Leads
  <1>6. ASSUME NEW l \in T PROVE Recorded(M, l)'
    <2>1. PICK log, prev, entry, r, v : /\ log = LogAt(l) /\ prev = log.prev_version
                                        /\ entry = N[l] /\ r = entry.row /\ v = entry.v
      OBVIOUS
    <2>2. log \in UndoLog /\ log.ts \in Nat
      BY <1>4, <2>1, ToldLog DEF ChainInv
    <2>3. /\ r \in DOMAIN heap /\ v \in Value \cup {Absent} /\ (v = Absent <=> log.is_deleted)
          /\ "id" \in DOMAIN log.fields => log.fields["id"] = heap[r].tuple.id
          /\ log.ts > GetWatermark /\ IsValid(prev) => Leads(N, prev, r, v)
          /\ \A ts \in Nat : ts >= GetWatermark =>
                entry.past[ts] = AnswerOf(N, log.ts, v, prev, ts)
      BY <1>4, <2>1 DEF Told, Recorded
    <2>4. log.ts > GetWatermark /\ IsValid(prev) => prev \in T
      <3>1. LogAt(l)' = log
        BY <1>1, <2>1
      <3>2. LogAt(l)'.ts > GetWatermark' /\ IsValid(LogAt(l)'.prev_version)
               => LogAt(l)'.prev_version \in T
        BY <1>1 DEF Kept, IsValid, NoTxn
      <3> QED
        BY <1>2, <2>1, <3>1, <3>2
    <2>5. ASSUME NEW ts \in Nat, ts >= GetWatermark
          PROVE  entry.past[ts] = AnswerOf(M, log.ts, v, prev, ts)
      <3>1. entry.past[ts] = AnswerOf(N, log.ts, v, prev, ts)
        BY <2>3, <2>5
      <3>2. log.ts > ts /\ IsValid(prev) => M[prev] = N[prev]
        BY <1>2, <1>4, <2>2, <2>4, <2>5
      <3> QED
        BY <2>2, <3>1, <3>2 DEF AnswerOf
    <2>6. log.ts > GetWatermark /\ IsValid(prev) => Leads(M, prev, r, v)'
      BY <1>5, <2>3, <2>4
    <2>7. Recorded(M, l)' <=>
             /\ M[l].row \in DOMAIN heap'
             /\ M[l].v \in Value \cup {Absent} /\ (M[l].v = Absent <=> log.is_deleted)
             /\ "id" \in DOMAIN log.fields => log.fields["id"] = heap'[M[l].row].tuple.id
             /\ log.ts > GetWatermark' /\ IsValid(prev)
                   => Leads(M, prev, M[l].row, M[l].v)'
             /\ \A ts \in Nat : ts >= GetWatermark' =>
                   M[l].past[ts] = AnswerOf(M, log.ts, M[l].v, prev, ts)
      <3>1. PICK new : new = LogAt(l)'
        OBVIOUS
      <3>2. Recorded(M, l)' <=>
               /\ M[l].row \in DOMAIN heap'
               /\ M[l].v \in Value \cup {Absent} /\ (M[l].v = Absent <=> new.is_deleted)
               /\ "id" \in DOMAIN new.fields => new.fields["id"] = heap'[M[l].row].tuple.id
               /\ new.ts > GetWatermark' /\ IsValid(new.prev_version)
                     => Leads(M, new.prev_version, M[l].row, M[l].v)'
               /\ \A ts \in Nat : ts >= GetWatermark' =>
                     M[l].past[ts] = AnswerOf(M, new.ts, M[l].v, new.prev_version, ts)
        BY <3>1 DEF Recorded, Leads, AnswerOf, IsValid, NoTxn, LogAt
      <3>3. new = log
        BY <1>1, <2>1, <3>1
      <3> QED
        BY <2>1, <3>2, <3>3
    <2>8. M[l] = entry
      BY <1>4, <2>1
    <2> QED
      BY <1>2, <2>1, <2>3, <2>5, <2>6, <2>7, <2>8
  <1>7. ASSUME NEW r \in DOMAIN heap
        PROVE  heap[r].ts > GetWatermark /\ IsValid(undo_link[r]) => undo_link[r] \in T
    <2>1. heap'[r].ts > GetWatermark' /\ IsValid(undo_link'[r]) => undo_link'[r] \in T
      BY <1>1, <1>2 DEF Kept, IsValid, NoTxn
    <2> QED
      BY <1>2, <2>1
  <1>8. ASSUME NEW r \in DOMAIN heap PROVE RowLeads(M, r)'
    <2>1. PICK link, v : link = undo_link[r] /\ v = Content(heap[r])
      OBVIOUS
    <2>2. heap[r].ts > GetWatermark /\ IsValid(link) => Leads(N, link, r, v)
      BY <2>1 DEF Told, RowLeads
    <2>3. heap'[r].ts > GetWatermark' /\ IsValid(link) => Leads(M, link, r, v)'
      BY <1>2, <1>5, <1>7, <2>1, <2>2
    <2> QED
      BY <1>2, <2>1, <2>3, RowLeadsNow
  <1>9. ASSUME NEW r \in DOMAIN heap, NEW ts \in Nat, ts >= GetWatermark'
        PROVE  Answer(M, r, ts)' = Answer(N, r, ts)
    <2>1. Answer(M, r, ts)' = AnswerOf(M, heap[r].ts, Content(heap[r]), undo_link[r], ts)
      BY <1>2, AnswerNow
    <2>2. heap[r].ts \in Nat
      BY RowType
    <2>3. ~(heap[r].ts <= ts) /\ IsValid(undo_link[r]) => M[undo_link[r]] = N[undo_link[r]]
      BY <1>2, <1>4, <1>7, <1>9, <2>2
    <2> QED
      BY <2>1, <2>3 DEF Answer, AnswerOf
  <1>10. Told(M)'
    <2>1. \A l \in DOMAIN M : l \in Link
      BY <1>4 DEF Told
    <2>2. \A l \in DOMAIN M : /\ l.txn \in DOMAIN txn_map'
                              /\ l.idx \in DOMAIN txn_map'[l.txn].undo_logs
      BY <1>1, <1>4
    <2>3. \A l \in DOMAIN M : Recorded(M, l)'
      BY <1>4, <1>6
    <2>4. \A r \in DOMAIN heap' : RowLeads(M, r)'
      BY <1>2, <1>8
    <2> QED
      BY <2>1, <2>2, <2>3, <2>4 DEF Told
  <1>11. SameRows
    BY <1>2 DEF SameRows
  <1>12. Goes(N, M)
    BY <1>9, <1>10, <1>11 DEF Goes
  <1> QED
    BY <1>12

-----------------------------------------------------------------------------
(* The index and the rows. *)

\* A thread that is not idle and does not abort is at work for a transaction that runs.
Works == \A t \in Txn : at[t].do \notin {"idle", "abort"} => Runs(t)

\* An uncommitted row belongs to a transaction in progress that will stamp or restore it.
Owners ==
    \A r \in DOMAIN heap : heap[r].ts \in Txn =>
        LET u == heap[r].ts IN
        /\ u \in DOMAIN txn_map /\ Active(u) /\ r \in txn_map[u].write_set
        /\ at[u].do \in {"stamp", "abort"} => r \in at[u].todo

\* A row is the one the index has for its key, or nobody sees it: its insertion was undone,
\* failed, or has not entered the key yet.
Indexed(r) == index[heap[r].tuple.id] = r

Unentered(r, u) ==
    /\ heap[r].ts = u /\ Active(u)
    /\ \/ txn_map[u].state = "TAINTED"
       \/ at[u].do = "enter" /\ at[u].rid = r

Orphan(r) ==
    /\ undo_link[r] = InvalidLink
    /\ \/ heap[r].ts = 0 /\ heap[r].deleted
       \/ \E u \in DOMAIN txn_map : Unentered(r, u)

IndexKeys == \A k \in Key : index[k] # NoRid => heap[index[k]].tuple.id = k
RowsIndexed == \A r \in DOMAIN heap : Indexed(r) \/ Orphan(r)

\* What a thread is about to write keeps the key of the row.
StepKeys(s) ==
    /\ s.do = "modify" =>
          \A i \in DOMAIN s.mods :
              /\ Indexed(s.mods[i].rid)
              /\ s.mods[i].target # Deleted =>
                    s.mods[i].target.id = heap[s.mods[i].rid].tuple.id
    /\ s.do = "revive" => index[Head(s.rows).id] = s.rid
    /\ s.do = "enter" => heap[s.rid].tuple.id = Head(s.rows).id

KeysInv == Works /\ Owners /\ IndexKeys /\ RowsIndexed /\ \A t \in Txn : StepKeys(at[t])

-----------------------------------------------------------------------------
LEMMA StillTold ==
    ASSUME TypeOK, ChainInv, NEW N, Told(N), StillChains, DOMAIN txn_map' = DOMAIN txn_map,
           GetWatermark \in Nat, GetWatermark' \in Nat, GetWatermark <= GetWatermark'
    PROVE  \E M : Goes(N, M)
  <1>1. Goes(N, N)
    BY StillGoes DEF StillChains, ChainInv, LogsStay
  <1> QED
    BY <1>1

\* The first change of a statement.
LEMMA FirstChange ==
    ASSUME TypeOK, RowsKnown, NEW t \in Txn, at[t].do = "modify", at[t].mods # <<>>,
           NEW m, m = Head(at[t].mods)
    PROVE  /\ at[t].mods \in Seq(Change) /\ 1 \in DOMAIN at[t].mods /\ m = at[t].mods[1]
           /\ m.rid \in DOMAIN heap /\ m.target \in Tuple \cup {Deleted}
  <1>1. PICK mods : mods = at[t].mods
    OBVIOUS
  <1>2. mods \in Seq(Change) /\ \A i \in DOMAIN mods : mods[i].rid \in DOMAIN heap
    <2>1. at[t] \in Apply
      BY StepFields DEF TypeOK
    <2> QED
      BY <1>1, <2>1 DEF Apply, Change, RowsKnown, StepRows
  <1>3. 1 \in DOMAIN mods /\ m = mods[1]
    <2>1. Len(mods) \in Nat /\ Len(mods) > 0 /\ DOMAIN mods = 1..Len(mods)
      BY <1>1, <1>2, LenProperties, EmptySeq
    <2> QED
      BY <1>1, <1>2, <2>1
  <1>4. m \in Change
    BY <1>2, <1>3, LenProperties, ElementOfSeq
  <1>5. m.target \in Tuple \cup {Deleted}
    BY <1>4 DEF Change
  <1> QED
    BY <1>1, <1>2, <1>3, <1>5

\* A row that an insertion brings back has its key.
LEMMA RevivedKey ==
    ASSUME TypeOK, RowsKnown, KeysInv, NEW t \in Txn, at[t].do = "revive"
    PROVE  Head(at[t].rows).id = heap[at[t].rid].tuple.id
  <1>1. index[Head(at[t].rows).id] = at[t].rid
    BY DEF KeysInv, StepKeys
  <1>2. at[t].rid \in DOMAIN heap /\ Head(at[t].rows).id \in Key
    BY PlaceFields DEF RowsKnown, StepRows
  <1>3. at[t].rid # NoRid
    BY <1>2, RowType DEF Rid, NoRid
  <1> QED
    BY <1>1, <1>2, <1>3 DEF KeysInv, IndexKeys

LEMMA WriteGoes ==
    ASSUME IInv, KeysInv, NEW N, Told(N), NEW t \in Txn, Write(t),
           GetWatermark \in Nat, GetWatermark' \in Nat, GetWatermark <= GetWatermark'
    PROVE  \E M : Goes(N, M)
  <1> USE DEF IInv, WatermarkInv
  <1>1. DOMAIN txn_map' = DOMAIN txn_map
    BY WriteQuiet DEF Quiet
  <1>2. CASE Modify(t)
    <2>1. t \in DOMAIN txn_map /\ at[t].do = "modify" /\ at[t].mods # <<>>
      BY <1>2, AtWork DEF Modify
    <2>2. PICK m, next : /\ m = Head(at[t].mods)
                         /\ ModifyTuple(t, m.rid, m.target, FALSE, next)
      BY <1>2 DEF Modify
    <2>3. /\ 1 \in DOMAIN at[t].mods /\ m = at[t].mods[1]
          /\ m.rid \in DOMAIN heap /\ m.target \in Tuple \cup {Deleted}
      BY <2>1, <2>2, FirstChange
    <2>4. PICK r, target : r = m.rid /\ target = m.target
      OBVIOUS
    <2>5. target # Deleted => target.id = heap[r].tuple.id
      BY <2>1, <2>3, <2>4 DEF KeysInv, StepKeys
    <2>6. UNCHANGED Others
      BY <1>2 DEF Modify
    <2>7. CASE Conflicts(t, r, FALSE)
      BY <1>1, <2>1, <2>2, <2>4, <2>6, <2>7, ConflictStill, StillTold DEF ModifyTuple
    <2>8. CASE ~Conflicts(t, r, FALSE)
      BY <2>1, <2>2, <2>3, <2>4, <2>5, <2>8, ModifyTupleGoes
    <2> QED
      BY <2>7, <2>8
  <1>3. CASE LookUpKey(t)
    BY <1>1, <1>3, UnchangedChains, StillTold DEF LookUpKey, table, Others
  <1>4. CASE Revive(t)
    <2>1. t \in DOMAIN txn_map /\ at[t].do = "revive"
      BY <1>4, AtWork DEF Revive
    <2>2. PICK r, target, next : /\ r = at[t].rid /\ target = Head(at[t].rows)
                                 /\ ModifyTuple(t, r, target, TRUE, next)
      BY <1>4 DEF Revive
    <2>3. r \in DOMAIN heap
      BY <2>1, <2>2 DEF RowsKnown, StepRows
    <2>4. target \in Tuple /\ target.id \in Key
      BY <2>1, <2>2, PlaceFields
    <2>5. target.id = heap[r].tuple.id
      BY <2>1, <2>2, RevivedKey
    <2>6. UNCHANGED Others
      BY <1>4 DEF Revive
    <2>7. CASE Conflicts(t, r, TRUE)
      BY <1>1, <2>1, <2>2, <2>6, <2>7, ConflictStill, StillTold DEF ModifyTuple
    <2>8. CASE ~Conflicts(t, r, TRUE)
      BY <2>1, <2>2, <2>3, <2>4, <2>5, <2>8, ModifyTupleGoes
    <2> QED
      BY <2>7, <2>8
  <1>5. CASE AppendRow(t)
    <2>1. Goes(N, N)
      BY <1>5, AppendRowGoes
    <2> QED
      BY <2>1
  <1>6. CASE EnterKey(t)
    <2>1. t \in DOMAIN txn_map
      BY <1>6, AtWork DEF EnterKey
    <2>2. CASE ThrowWriteConflict(t)
      BY <1>1, <1>6, <2>1, <2>2, ConflictStill, StillTold DEF EnterKey
    <2>3. CASE UNCHANGED <<heap, undo_link, txn_map>>
      BY <1>1, <1>6, <2>3, UnchangedChains, StillTold DEF EnterKey, Others
    <2> QED
      BY <1>6, <2>2, <2>3 DEF EnterKey
  <1> QED
    BY <1>2, <1>3, <1>4, <1>5, <1>6 DEF Write

LEMMA CommitGoes ==
    ASSUME IInv, NEW N, Told(N), NEW t \in Txn, Commit(t),
           GetWatermark \in Nat, GetWatermark' \in Nat, GetWatermark <= GetWatermark'
    PROVE  \E M : Goes(N, M)
  <1> USE DEF IInv, WatermarkInv
  <1>1. CASE StartCommit(t)
    BY <1>1, UnchangedChains, StillTold DEF StartCommit, table
  <1>2. CASE Fetch(t)
    BY <1>2, UnchangedChains, StillTold DEF Fetch, table, Others
  <1>3. CASE VerifyRow(t)
    BY <1>3, UnchangedChains, StillTold DEF VerifyRow, table
  <1>4. CASE StampRow(t)
    <2>1. Goes(N, N)
      BY <1>4, StampRowGoes
    <2> QED
      BY <2>1
  <1>5. CASE EndCommit(t)
    <2>1. t \in DOMAIN txn_map
      BY <1>5, AtWork DEF EndCommit
    <2>2. \E x, y : txn_map' = [txn_map EXCEPT ![t].state = x, ![t].commit_ts = y]
      BY <1>5 DEF EndCommit
    <2>3. UNCHANGED <<heap, undo_link, next_txn_id>> /\ last_commit_ts' = last_commit_ts + 1
      BY <1>5 DEF EndCommit, table
    <2> QED
      BY <2>1, <2>2, <2>3, SameLogs, StillStep, StillTold
  <1> QED
    BY <1>1, <1>2, <1>3, <1>4, <1>5 DEF Commit

LEMMA AbortGoes ==
    ASSUME IInv, NEW N, Told(N), NEW t \in Txn, Abort(t),
           GetWatermark \in Nat, GetWatermark' \in Nat, GetWatermark <= GetWatermark'
    PROVE  \E M : Goes(N, M)
  <1> USE DEF IInv, WatermarkInv
  <1>1. CASE StartAbort(t)
    BY <1>1, UnchangedChains, StillTold DEF StartAbort, table, Others
  <1>2. CASE RestoreRow(t)
    <2>1. Goes(N, N)
      BY <1>2, RestoreRowGoes
    <2> QED
      BY <2>1
  <1>3. CASE EndAbort(t)
    <2>1. t \in DOMAIN txn_map
      BY <1>3, AtWork DEF EndAbort
    <2>2. \E x : txn_map' = [txn_map EXCEPT ![t].state = x]
      BY <1>3 DEF EndAbort
    <2>3. UNCHANGED <<heap, undo_link, next_txn_id, last_commit_ts>>
      BY <1>3 DEF EndAbort, table
    <2> QED
      BY <2>1, <2>2, <2>3, SameLogs, StillStep, StillTold
  <1> QED
    BY <1>1, <1>2, <1>3 DEF Abort

LEMMA ToldStep ==
    ASSUME IInv, IInv', KeysInv, GetWatermark >= 1, NEW N, Told(N), [Next]_vars
    PROVE  \E M : Goes(N, M)
  <1>1. /\ TypeOK /\ ChainInv /\ IdsIssued /\ BusyActive /\ WatermarkInv
    BY DEF IInv, WatermarkInv
  <1>2. GetWatermark \in Nat /\ GetWatermark' \in Nat /\ GetWatermark <= GetWatermark'
    BY WatermarkGrows
  <1>3. ASSUME NEW t \in Txn,
               Begin(t) \/ Statement(t) \/ Write(t) \/ Join(t) \/ Commit(t) \/ Abort(t)
        PROVE  \E M : Goes(N, M)
    <2>1. CASE Begin(t)
      <3>1. Goes(N, N)
        BY <1>1, <1>2, <2>1, BeginGoes
      <3> QED
        BY <3>1
    <2>2. CASE Statement(t)
      <3>1. StillChains /\ DOMAIN txn_map' = DOMAIN txn_map
        BY <1>1, <2>2, StatementStill, StatementQuiet DEF Quiet
      <3> QED
        BY <1>1, <1>2, <3>1, StillTold
    <2>3. CASE Write(t)
      BY <1>2, <2>3, WriteGoes
    <2>4. CASE Join(t)
      <3>1. StillChains /\ DOMAIN txn_map' = DOMAIN txn_map
        BY <1>1, <2>4, JoinStill, JoinQuiet DEF Quiet
      <3> QED
        BY <1>1, <1>2, <3>1, StillTold
    <2>5. CASE Commit(t)
      BY <1>2, <2>5, CommitGoes
    <2>6. CASE Abort(t)
      BY <1>2, <2>6, AbortGoes
    <2> QED
      BY <1>3, <2>1, <2>2, <2>3, <2>4, <2>5, <2>6
  <1>4. CASE GarbageCollection
    BY <1>1, <1>4, CollectionGoes
  <1>5. CASE UNCHANGED vars
    <2>1. StillChains /\ DOMAIN txn_map' = DOMAIN txn_map
      BY <1>1, <1>5, UnchangedChains DEF vars, table
    <2> QED
      BY <1>1, <1>2, <2>1, StillTold
  <1> QED
    BY <1>3, <1>4, <1>5 DEF Next

-----------------------------------------------------------------------------
(* Who holds an uncommitted row. *)

Holders == Works /\ Owners

\* A step of t that leaves the rows and the states of the others alone.
LEMMA HoldersOn ==
    ASSUME TypeOK, Holders, NEW t \in Txn,
           DOMAIN txn_map \subseteq DOMAIN txn_map',
           \A u \in DOMAIN txn_map : u # t => txn_map'[u] = txn_map[u],
           \A u \in Txn : u # t => at'[u] = at[u],
           at'[t].do \notin {"idle", "abort"} => Runs(t)',
           \A r \in DOMAIN heap' : heap'[r].ts \in Txn /\ heap'[r].ts # t =>
              r \in DOMAIN heap /\ heap[r].ts = heap'[r].ts,
           \A r \in DOMAIN heap' : heap'[r].ts = t =>
              /\ t \in DOMAIN txn_map' /\ Active(t)' /\ r \in txn_map'[t].write_set
              /\ at'[t].do \in {"stamp", "abort"} => r \in at'[t].todo
    PROVE  Holders'
  <1>1. ASSUME NEW u \in Txn, at'[u].do \notin {"idle", "abort"}
        PROVE  Runs(u)'
    BY <1>1 DEF Runs, Holders, Works
  <1>2. ASSUME NEW r \in DOMAIN heap', heap'[r].ts \in Txn, heap'[r].ts # t, NEW u, u = heap'[r].ts
        PROVE  /\ u \in DOMAIN txn_map' /\ Active(u)' /\ r \in txn_map'[u].write_set
               /\ at'[u].do \in {"stamp", "abort"} => r \in at'[u].todo
    <2>1. r \in DOMAIN heap /\ heap[r].ts = u /\ u \in Txn /\ u # t
      BY <1>2
    <2>2. /\ u \in DOMAIN txn_map /\ Active(u) /\ r \in txn_map[u].write_set
          /\ at[u].do \in {"stamp", "abort"} => r \in at[u].todo
      BY <2>1 DEF Holders, Owners
    <2>3. u \in DOMAIN txn_map' /\ txn_map'[u] = txn_map[u] /\ at'[u] = at[u]
      BY <2>1, <2>2
    <2> QED
      BY <2>2, <2>3 DEF Active
  <1>3. Owners'
    BY <1>2 DEF Owners
  <1> QED
    BY <1>1, <1>3 DEF Holders, Works

\* The same, for a step that leaves the rows alone and what t wrote.
LEMMA HoldersStill ==
    ASSUME TypeOK, Holders, NEW t \in DOMAIN txn_map, NEW next, Goto(t, next),
           UNCHANGED heap, DOMAIN txn_map' = DOMAIN txn_map,
           \A u \in DOMAIN txn_map : u # t => txn_map'[u] = txn_map[u],
           txn_map'[t].write_set = txn_map[t].write_set, Active(t)',
           next.do \notin {"idle", "abort"} => Runs(t)',
           next.do \in {"stamp", "abort"} => next.todo = txn_map[t].write_set
    PROVE  Holders'
  <1>1. t \in Txn
    BY TransactionFields
  <1>2. at'[t] = next /\ \A u \in Txn : u # t => at'[u] = at[u]
    BY <1>1, GotoMoves
  <1>3. ASSUME NEW r \in DOMAIN heap', heap'[r].ts = t
        PROVE  r \in txn_map'[t].write_set
    BY <1>1, <1>3 DEF Holders, Owners
  <1> QED
    BY <1>1, <1>2, <1>3, HoldersOn

\* A step that only moves the thread of t on.
LEMMA HoldersGoto ==
    ASSUME TypeOK, BusyActive, Holders, NEW t \in Txn, at[t].do \notin {"idle", "abort"},
           NEW next, Goto(t, next), UNCHANGED <<heap, txn_map>>,
           next.do \in {"stamp", "abort"} => next.todo = txn_map[t].write_set
    PROVE  Holders'
  <1>1. t \in DOMAIN txn_map /\ Active(t) /\ Runs(t)
    BY AtWork DEF Holders, Works
  <1>2. Active(t)' /\ Runs(t)'
    BY <1>1 DEF Active, Runs
  <1> QED
    BY <1>1, <1>2, HoldersStill

LEMMA HoldersThrow ==
    ASSUME TypeOK, BusyActive, Holders, NEW t \in Txn, at[t].do # "idle", ThrowWriteConflict(t)
    PROVE  Holders'
  <1>1. t \in DOMAIN txn_map /\ txn_map[t] \in Transaction
    BY AtWork, TransactionFields
  <1>2. /\ Goto(t, Idle) /\ UNCHANGED heap /\ DOMAIN txn_map' = DOMAIN txn_map
        /\ \A u \in DOMAIN txn_map : u # t => txn_map'[u] = txn_map[u]
        /\ txn_map'[t].write_set = txn_map[t].write_set /\ txn_map'[t].state = "TAINTED"
    BY <1>1 DEF ThrowWriteConflict, table, Transaction
  <1>3. Active(t)' /\ Idle.do = "idle"
    BY <1>1, <1>2 DEF Active, Idle
  <1> QED
    BY <1>1, <1>2, <1>3, HoldersStill

LEMMA BeginHolders ==
    ASSUME TypeOK, BusyActive, IdsIssued, Holders, NEW t \in Txn, Begin(t)
    PROVE  Holders'
  <1>1. /\ t = next_txn_id /\ t \in Nat
        /\ DOMAIN txn_map' = DOMAIN txn_map \cup {t}
        /\ \A u \in DOMAIN txn_map \ {t} : txn_map'[u] = txn_map[u]
        /\ UNCHANGED <<heap, at>>
    BY TxnFacts DEF Begin, table
  <1>2. t \notin DOMAIN txn_map
    BY <1>1, TransactionFields, TxnFacts DEF IdsIssued
  <1>3. \A r \in DOMAIN heap : heap[r].ts # t
    BY <1>2 DEF Holders, Owners
  <1>4. at[t].do = "idle"
    BY <1>2, AtWork
  <1> QED
    BY <1>1, <1>3, <1>4, HoldersOn

LEMMA StatementHolders ==
    ASSUME TypeOK, BusyActive, Holders, NEW t \in Txn, Statement(t)
    PROVE  Holders'
  <1>1. CASE StartScan(t)
    <2>1. t \in DOMAIN txn_map /\ txn_map[t] \in Transaction /\ Runs(t)
      BY <1>1, RunsIsActive, TransactionFields DEF StartScan
    <2>2. PICK p, next :
             /\ txn_map' = [txn_map EXCEPT ![t].scan_predicates = p]
             /\ Goto(t, next) /\ next.do = "scan" /\ UNCHANGED heap
      <3>1. PICK todo : Goto(t, [do |-> "scan", stmt |-> Head(program[t].todo), todo |-> todo,
                                 got |-> <<>>, rows |-> <<>>])
        BY <1>1 DEF StartScan
      <3>2. txn_map' = [txn_map EXCEPT ![t].scan_predicates =
                           txn_map[t].scan_predicates \cup {Head(program[t].todo).where}]
        BY <1>1 DEF StartScan
      <3>3. UNCHANGED heap
        BY <1>1 DEF StartScan, table
      <3> QED
        BY <3>1, <3>2, <3>3
    <2>3. /\ DOMAIN txn_map' = DOMAIN txn_map
          /\ \A u \in DOMAIN txn_map : u # t => txn_map'[u] = txn_map[u]
          /\ txn_map'[t].write_set = txn_map[t].write_set /\ txn_map'[t].state = txn_map[t].state
      BY <2>1, <2>2 DEF Transaction
    <2>4. Active(t)' /\ Runs(t)'
      BY <2>1, <2>3 DEF Active, Runs
    <2> QED
      BY <2>1, <2>2, <2>3, <2>4, HoldersStill
  <1>2. CASE Visit(t) \/ Collect(t)
    <2>1. PICK next : Goto(t, next) /\ next.do = at[t].do /\ UNCHANGED <<heap, txn_map>>
                      /\ at[t].do = "scan"
      <3>1. at[t].do = "scan" => "do" \in DOMAIN at[t]
        BY StepFields DEF TypeOK, Scan
      <3>2. CASE Visit(t)
        BY <3>1, <3>2 DEF Visit, table
      <3>3. CASE Collect(t)
        BY <3>1, <3>3 DEF Collect, table
      <3> QED
        BY <1>2, <3>2, <3>3
    <2> QED
      BY <2>1, HoldersGoto
  <1>3. CASE EndScan(t)
    <2>1. PICK mods, rows : Goto(t, Rest(mods, rows)) /\ UNCHANGED <<heap, txn_map>>
                            /\ at[t].do = "scan"
      BY <1>3 DEF EndScan, Drained, table
    <2> QED
      BY <2>1, HoldersGoto DEF Rest, Idle
  <1>4. CASE StartInsert(t)
    <2>1. t \in DOMAIN txn_map /\ Runs(t) /\ UNCHANGED <<heap, txn_map>>
      BY <1>4, RunsIsActive DEF StartInsert, table
    <2>2. PICK next : Goto(t, next) /\ next.do \notin {"stamp", "abort"}
      BY <1>4 DEF StartInsert, Rest, Idle
    <2>3. Runs(t)' /\ Active(t)'
      BY <2>1, RunsIsActive DEF Runs, Active
    <2> QED
      BY <2>1, <2>2, <2>3, HoldersStill
  <1> QED
    BY <1>1, <1>2, <1>3, <1>4 DEF Statement

\* Commit timestamps are not ids.
LEMMA CommitIsNoTxn ==
    ASSUME TypeOK, NEW ts \in Nat, ts <= last_commit_ts + 1
    PROVE  ts \notin Txn
  <1>1. last_commit_ts \in Nat /\ last_commit_ts < TxnStart
    BY DEF TypeOK
  <1> QED
    BY <1>1, TxnFacts

\* What a stamp changes.
LEMMA Stamped ==
    ASSUME TypeOK, RowsKnown, NEW t \in Txn, StampRow(t)
    PROVE  \E r, next :
              /\ r \in DOMAIN heap
              /\ Goto(t, next) /\ next.do = "stamp" /\ next.todo = at[t].todo \ {r}
              /\ UNCHANGED <<undo_link, index, txn_map>> /\ DOMAIN heap' = DOMAIN heap
              /\ \A s \in DOMAIN heap : s # r \/ heap[s].ts # t => heap'[s] = heap[s]
              /\ heap[r].ts = t => heap'[r].ts = last_commit_ts + 1
  <1>1. PICK r \in at[t].todo :
           /\ heap' = IF heap[r].ts = t THEN [heap EXCEPT ![r].ts = last_commit_ts + 1] ELSE heap
           /\ Goto(t, [at[t] EXCEPT !.todo = @ \ {r}])
    BY DEF StampRow
  <1>2. PICK next : next = [at[t] EXCEPT !.todo = @ \ {r}]
    OBVIOUS
  <1>3. r \in DOMAIN heap /\ heap[r] \in [tuple : Tuple, ts : Nat, deleted : BOOLEAN]
    BY <1>1, RowType DEF StampRow, RowsKnown, StepRows
  <1>4. next.do = "stamp" /\ next.todo = at[t].todo \ {r}
    <2>1. at[t] \in Sweep /\ at[t].do = "stamp"
      BY StepFields DEF TypeOK, StampRow
    <2> QED
      BY <1>2, <2>1 DEF Sweep
  <1>5. /\ DOMAIN heap' = DOMAIN heap
        /\ \A s \in DOMAIN heap : s # r \/ heap[s].ts # t => heap'[s] = heap[s]
        /\ heap[r].ts = t => heap'[r].ts = last_commit_ts + 1
    BY <1>1, <1>3
  <1>6. UNCHANGED <<undo_link, index, txn_map>>
    BY DEF StampRow
  <1> QED
    BY <1>1, <1>2, <1>3, <1>4, <1>5, <1>6

\* What an abort changes of a row.
LEMMA Unwritten ==
    ASSUME TypeOK, RowsKnown, ChainInv, BusyActive, NEW t \in Txn, RestoreRow(t)
    PROVE  \E r, next :
              /\ r \in DOMAIN heap
              /\ Goto(t, next) /\ next.do = "abort" /\ next.todo = at[t].todo \ {r}
              /\ UNCHANGED <<index, txn_map>> /\ DOMAIN heap' = DOMAIN heap
              /\ \A s \in DOMAIN heap : s # r \/ heap[s].ts # t =>
                    heap'[s] = heap[s] /\ undo_link'[s] = undo_link[s]
              /\ heap[r].ts = t => heap'[r].ts \in Nat /\ heap'[r].ts <= last_commit_ts
              /\ heap[r].ts = t /\ undo_link[r] = InvalidLink =>
                    undo_link'[r] = InvalidLink /\ heap'[r].ts = 0 /\ heap'[r].deleted
  <1>1. t \in DOMAIN txn_map
    BY AtWork DEF RestoreRow
  <1> DEFINE old(r) == Restored(t, Base(r))
  <1>2. PICK r \in at[t].todo :
           /\ Goto(t, [at[t] EXCEPT !.todo = @ \ {r}])
           /\ \/ heap[r].ts # t /\ UNCHANGED <<heap, undo_link>>
              \/ /\ heap[r].ts = t
                 /\ heap' = [heap EXCEPT ![r] =
                       [tuple |-> IF old(r).deleted THEN heap[r].tuple ELSE old(r).tuple,
                        ts |-> old(r).ts, deleted |-> old(r).deleted]]
                 /\ undo_link' = [undo_link EXCEPT ![r] = old(r).link]
    BY DEF RestoreRow
  <1>3. PICK next : next = [at[t] EXCEPT !.todo = @ \ {r}]
    OBVIOUS
  <1>4. r \in DOMAIN heap /\ r \in Rid /\ DOMAIN undo_link = Rid /\ DOMAIN heap \subseteq Rid
    BY RowType, HeapDomain DEF RestoreRow, RowsKnown, StepRows, TypeOK
  <1>5. next.do = "abort" /\ next.todo = at[t].todo \ {r}
    <2>1. at[t] \in Sweep /\ at[t].do = "abort"
      BY StepFields DEF TypeOK, RestoreRow
    <2> QED
      BY <1>3, <2>1 DEF Sweep
  <1>6. UNCHANGED <<index, txn_map>>
    BY DEF RestoreRow
  <1>7. CASE heap[r].ts # t
    BY <1>2, <1>3, <1>4, <1>5, <1>6, <1>7
  <1>8. CASE heap[r].ts = t
    <2>1. PICK ver, link : ver = old(r) /\ link = undo_link[r]
      OBVIOUS
    <2>2. /\ DOMAIN heap' = DOMAIN heap
          /\ \A s \in DOMAIN heap : s # r => heap'[s] = heap[s] /\ undo_link'[s] = undo_link[s]
          /\ heap'[r] = [tuple |-> IF ver.deleted THEN heap[r].tuple ELSE ver.tuple,
                         ts |-> ver.ts, deleted |-> ver.deleted]
          /\ undo_link'[r] = ver.link
      BY <1>2, <1>4, <1>8, <2>1
    <2>3. /\ link.txn = t => link.idx \in DOMAIN txn_map[t].undo_logs /\ ver.ts = LogAt(link).ts
          /\ link.txn # t => ver.ts = 0 /\ ver.link = link
          /\ ver \in Version
      BY <1>1, <1>4, <2>1, RestoredType DEF ChainInv
    <2>4. ver.ts \in Nat /\ ver.ts <= last_commit_ts
      <3>1. last_commit_ts \in Nat /\ ver.ts \in Nat
        BY <2>3 DEF TypeOK, Version
      <3>2. CASE link.txn = t
        BY <1>1, <2>3, <3>1, <3>2 DEF ChainInv, VersionsOrdered, LogAt
      <3>3. CASE link.txn # t
        BY <2>3, <3>1, <3>3
      <3> QED
        BY <3>2, <3>3
    <2>5. ASSUME link = InvalidLink
          PROVE  undo_link'[r] = InvalidLink /\ heap'[r].ts = 0 /\ heap'[r].deleted
      <3>1. link.txn # t
        BY <2>5, TxnFacts DEF InvalidLink
      <3>2. ver.deleted
        BY <2>1, <3>1 DEF Restored, Base
      <3>3. heap'[r].deleted
        BY <2>2, <3>2
      <3>4. undo_link'[r] = InvalidLink /\ heap'[r].ts = 0
        BY <2>2, <2>3, <2>5, <3>1
      <3> QED
        BY <3>3, <3>4
    <2>6. heap'[r].ts = ver.ts
      BY <2>2
    <2>7. Goto(t, next)
      BY <1>2, <1>3
    <2>8. \A s \in DOMAIN heap : s # r \/ heap[s].ts # t =>
             heap'[s] = heap[s] /\ undo_link'[s] = undo_link[s]
      BY <1>8, <2>2
    <2>9. heap'[r].ts \in Nat /\ heap'[r].ts <= last_commit_ts
      BY <2>4, <2>6
    <2>10. undo_link[r] = InvalidLink =>
             undo_link'[r] = InvalidLink /\ heap'[r].ts = 0 /\ heap'[r].deleted
      BY <2>1, <2>5
    <2>11. DOMAIN heap' = DOMAIN heap
      BY <2>2
    <2> HIDE DEF old
    <2> QED
      BY <1>4, <1>5, <1>6, <2>7, <2>8, <2>9, <2>10, <2>11
  <1> QED
    BY <1>7, <1>8

LEMMA ModifyTupleHolders ==
    ASSUME TypeOK, Holders, NEW t \in DOMAIN txn_map, Runs(t), NEW r \in DOMAIN heap,
           NEW target \in Tuple \cup {Deleted}, NEW dead, NEW next,
           ModifyTuple(t, r, target, dead, next), ~Conflicts(t, r, dead),
           target # Deleted => target.id = heap[r].tuple.id,
           next.do \notin {"stamp", "abort"}
    PROVE  Holders'
  <1>1. t \in Txn
    BY TransactionFields
  <1>2. /\ DOMAIN heap' = DOMAIN heap
        /\ \A s \in DOMAIN heap : s # r => heap'[s] = heap[s]
        /\ heap'[r].ts = t
        /\ DOMAIN txn_map' = DOMAIN txn_map
        /\ \A u \in DOMAIN txn_map : u # t => txn_map'[u] = txn_map[u]
        /\ txn_map'[t].write_set = txn_map[t].write_set \cup {r}
        /\ txn_map'[t].state = txn_map[t].state
        /\ Goto(t, next)
    BY Modified
  <1>3. at'[t] = next /\ \A u \in Txn : u # t => at'[u] = at[u]
    BY <1>1, <1>2, GotoMoves
  <1>4. Runs(t)' /\ Active(t)'
    BY <1>2 DEF Runs, Active
  <1>5. \A s \in DOMAIN heap' : heap'[s].ts \in Txn /\ heap'[s].ts # t =>
           s \in DOMAIN heap /\ heap[s].ts = heap'[s].ts
    BY <1>2
  <1>6. ASSUME NEW s \in DOMAIN heap', heap'[s].ts = t PROVE s \in txn_map'[t].write_set
    <2>1. s # r => s \in txn_map[t].write_set
      BY <1>1, <1>2, <1>6 DEF Holders, Owners
    <2> QED
      BY <1>2, <2>1
  <1> QED
    BY <1>1, <1>2, <1>3, <1>4, <1>5, <1>6, HoldersOn

LEMMA RestNext == ASSUME NEW mods, NEW rows
                  PROVE  Rest(mods, rows).do \in {"idle", "modify"}
  BY DEF Rest, Idle

LEMMA AppendRowHolders ==
    ASSUME TypeOK, BusyActive, Holders, NEW t \in Txn, AppendRow(t)
    PROVE  Holders'
  <1>1. t \in DOMAIN txn_map /\ Runs(t) /\ txn_map[t] \in Transaction /\ at[t].do = "append"
    BY AtWork, TransactionFields DEF AppendRow, Holders, Works
  <1>2. PICK new : /\ new = Len(heap) + 1
                   /\ DOMAIN heap' = DOMAIN heap \cup {new} /\ new \notin DOMAIN heap
                   /\ \A r \in DOMAIN heap : heap'[r] = heap[r]
                   /\ heap'[new].ts = t
    <2>1. PICK new, row : new = Len(heap) + 1
                          /\ row = [tuple |-> Head(at[t].rows), ts |-> t, deleted |-> FALSE]
      OBVIOUS
    <2>2. /\ DOMAIN heap' = DOMAIN heap \cup {new} /\ new \notin DOMAIN heap
          /\ \A r \in DOMAIN heap : heap'[r] = heap[r]
          /\ heap'[new] = row
      BY <1>1, <2>1, Appended
    <2>3. heap'[new].ts = t
      BY <2>1, <2>2
    <2> QED
      BY <2>1, <2>2, <2>3
  <1>3. /\ DOMAIN txn_map' = DOMAIN txn_map
        /\ \A u \in DOMAIN txn_map : u # t => txn_map'[u] = txn_map[u]
        /\ txn_map'[t].write_set = txn_map[t].write_set \cup {new}
        /\ txn_map'[t].state = txn_map[t].state
    BY <1>1, <1>2 DEF AppendRow, Transaction
  <1>4. Runs(t)' /\ Active(t)'
    BY <1>1, <1>3 DEF Runs, Active
  <1>5. at'[t].do = "enter" /\ \A u \in Txn : u # t => at'[u] = at[u]
    <2>1. PICK next : next = [at[t] EXCEPT !.do = "enter", !.rid = Len(heap) + 1]
      OBVIOUS
    <2>2. at[t] \in Place
      BY <1>1, StepFields DEF TypeOK
    <2>3. next.do = "enter" /\ Goto(t, next)
      BY <2>1, <2>2 DEF AppendRow, Place
    <2> QED
      BY <2>3, GotoMoves
  <1>6. \A s \in DOMAIN heap' : heap'[s].ts \in Txn /\ heap'[s].ts # t =>
           s \in DOMAIN heap /\ heap[s].ts = heap'[s].ts
    BY <1>2
  <1>7. ASSUME NEW s \in DOMAIN heap', heap'[s].ts = t PROVE s \in txn_map'[t].write_set
    <2>1. s # new => s \in txn_map[t].write_set
      BY <1>2, <1>7 DEF Holders, Owners
    <2> QED
      BY <1>3, <2>1
  <1> QED
    BY <1>1, <1>3, <1>4, <1>5, <1>6, <1>7, HoldersOn

LEMMA WriteHolders ==
    ASSUME IInv, KeysInv, NEW t \in Txn, Write(t)
    PROVE  Holders'
  <1>1. TypeOK /\ RowsKnown /\ BusyActive /\ Holders
    BY DEF IInv, WatermarkInv, KeysInv, Holders
  <1>2. CASE Modify(t)
    <2>1. /\ t \in DOMAIN txn_map /\ at[t].do = "modify" /\ at[t].mods # <<>> /\ Runs(t)
      BY <1>1, <1>2, AtWork DEF Modify, Holders, Works
    <2>2. PICK m, next : /\ m = Head(at[t].mods) /\ next.do \in {"idle", "modify"}
                         /\ ModifyTuple(t, m.rid, m.target, FALSE, next)
      BY <1>2, RestNext DEF Modify
    <2>3. /\ 1 \in DOMAIN at[t].mods /\ m = at[t].mods[1]
          /\ m.rid \in DOMAIN heap /\ m.target \in Tuple \cup {Deleted}
      BY <1>1, <2>1, <2>2, FirstChange
    <2>4. PICK r, target : r = m.rid /\ target = m.target
      OBVIOUS
    <2>5. target # Deleted => target.id = heap[r].tuple.id
      BY <2>1, <2>3, <2>4 DEF KeysInv, StepKeys
    <2>6. CASE Conflicts(t, r, FALSE)
      BY <1>1, <2>1, <2>2, <2>4, <2>6, HoldersThrow DEF ModifyTuple
    <2>7. CASE ~Conflicts(t, r, FALSE)
      BY <1>1, <2>1, <2>2, <2>3, <2>4, <2>5, <2>7, ModifyTupleHolders
    <2> QED
      BY <2>6, <2>7
  <1>3. CASE LookUpKey(t)
    <2>1. PICK next : /\ Goto(t, next) /\ next.do \in {"append", "revive"}
                      /\ UNCHANGED <<heap, txn_map>> /\ at[t].do = "modify"
      BY <1>3 DEF LookUpKey, table
    <2> QED
      BY <1>1, <2>1, HoldersGoto
  <1>4. CASE Revive(t)
    <2>1. t \in DOMAIN txn_map /\ at[t].do = "revive" /\ Runs(t)
      BY <1>1, <1>4, AtWork DEF Revive, Holders, Works
    <2>2. PICK r, target, next : /\ r = at[t].rid /\ target = Head(at[t].rows)
                                 /\ ModifyTuple(t, r, target, TRUE, next)
                                 /\ next.do \in {"idle", "modify"}
      BY <1>4, RestNext DEF Revive, NextRow
    <2>3. r \in DOMAIN heap
      BY <1>1, <2>1, <2>2 DEF RowsKnown, StepRows
    <2>4. target \in Tuple /\ target.id \in Key
      BY <1>1, <2>1, <2>2, PlaceFields
    <2>5. target.id = heap[r].tuple.id
      BY <1>1, <2>1, <2>2, <2>3, <2>4, RevivedKey
    <2>6. CASE Conflicts(t, r, TRUE)
      BY <1>1, <2>1, <2>2, <2>6, HoldersThrow DEF ModifyTuple
    <2>7. CASE ~Conflicts(t, r, TRUE)
      BY <1>1, <2>1, <2>2, <2>3, <2>4, <2>5, <2>7, ModifyTupleHolders
    <2> QED
      BY <2>6, <2>7
  <1>5. CASE AppendRow(t)
    BY <1>1, <1>5, AppendRowHolders
  <1>6. CASE EnterKey(t)
    <2>1. at[t].do = "enter"
      BY <1>6 DEF EnterKey
    <2>2. CASE ThrowWriteConflict(t)
      BY <1>1, <2>1, <2>2, HoldersThrow
    <2>3. CASE Goto(t, NextRow(t)) /\ UNCHANGED <<heap, txn_map>>
      <3>1. NextRow(t).do \in {"idle", "modify"}
        BY RestNext DEF NextRow
      <3> QED
        BY <1>1, <2>1, <2>3, <3>1, HoldersGoto
    <2> QED
      BY <1>6, <2>2, <2>3 DEF EnterKey
  <1> QED
    BY <1>2, <1>3, <1>4, <1>5, <1>6 DEF Write

LEMMA JoinHolders ==
    ASSUME TypeOK, BusyActive, Holders, NEW t \in Txn, Join(t)
    PROVE  Holders'
  <1>1. CASE \E k \in Joining : StartJoin(t, k)
    <2>1. PICK next : /\ Goto(t, next) /\ next.do = "join" /\ UNCHANGED <<heap, txn_map>>
                      /\ Runs(t) /\ t \in DOMAIN txn_map
      BY <1>1, RunsIsActive DEF StartJoin, table
    <2>2. Runs(t)' /\ Active(t)'
      BY <2>1 DEF Runs, Active
    <2> QED
      BY <2>1, <2>2, HoldersStill
  <1>2. CASE JoinRead(t)
    <2>1. PICK next : /\ Goto(t, next) /\ next.do = "joined" /\ UNCHANGED <<heap, txn_map>>
                      /\ at[t].do = "join"
      BY <1>2 DEF JoinRead, table
    <2> QED
      BY <2>1, HoldersGoto
  <1>3. CASE EndJoin(t)
    <2>1. Goto(t, Idle) /\ UNCHANGED <<heap, txn_map>> /\ at[t].do = "joined" /\ Idle.do = "idle"
      BY <1>3 DEF EndJoin, table, Idle
    <2> QED
      BY <2>1, HoldersGoto
  <1> QED
    BY <1>1, <1>2, <1>3 DEF Join

LEMMA VerifyingNext ==
    ASSUME NEW t, NEW todo
    PROVE  /\ Verifying(t, todo).do \in {"stamp", "verify"}
           /\ Verifying(t, todo).do = "stamp" => Verifying(t, todo).todo = txn_map[t].write_set
  BY DEF Verifying

LEMMA StampRowHolders ==
    ASSUME TypeOK, RowsKnown, BusyActive, Holders, NEW t \in Txn, StampRow(t)
    PROVE  Holders'
  <1>1. at[t].do = "stamp" /\ t \in DOMAIN txn_map /\ Runs(t)
    BY AtWork DEF StampRow, Holders, Works
  <1>2. PICK r, next :
           /\ r \in DOMAIN heap
           /\ Goto(t, next) /\ next.do = "stamp" /\ next.todo = at[t].todo \ {r}
           /\ UNCHANGED <<undo_link, index, txn_map>> /\ DOMAIN heap' = DOMAIN heap
           /\ \A s \in DOMAIN heap : s # r \/ heap[s].ts # t => heap'[s] = heap[s]
           /\ heap[r].ts = t => heap'[r].ts = last_commit_ts + 1
    BY Stamped
  <1>3. at'[t] = next /\ \A u \in Txn : u # t => at'[u] = at[u]
    BY <1>2, GotoMoves
  <1>4. last_commit_ts + 1 \notin Txn
    BY CommitIsNoTxn DEF TypeOK
  <1>5. \A s \in DOMAIN heap' :
           heap'[s].ts \in Txn => heap'[s] = heap[s] /\ ~(s = r /\ heap[s].ts = t)
    BY <1>2, <1>4
  <1>6. ASSUME NEW s \in DOMAIN heap', heap'[s].ts = t
        PROVE  s \in txn_map[t].write_set /\ s \in next.todo
    <2>1. s \in DOMAIN heap /\ heap[s].ts = t /\ s # r
      BY <1>2, <1>5, <1>6
    <2>2. s \in txn_map[t].write_set /\ s \in at[t].todo
      BY <1>1, <2>1 DEF Holders, Owners
    <2> QED
      BY <1>2, <2>1, <2>2
  <1>7. Runs(t)' /\ Active(t)'
    BY <1>1, <1>2 DEF Runs, Active
  <1> QED
    BY <1>1, <1>2, <1>3, <1>5, <1>6, <1>7, HoldersOn

LEMMA RestoreRowHolders ==
    ASSUME TypeOK, RowsKnown, ChainInv, BusyActive, Holders, NEW t \in Txn, RestoreRow(t)
    PROVE  Holders'
  <1>1. at[t].do = "abort" /\ t \in DOMAIN txn_map /\ Active(t)
    BY AtWork DEF RestoreRow
  <1>2. PICK r, next :
           /\ r \in DOMAIN heap
           /\ Goto(t, next) /\ next.do = "abort" /\ next.todo = at[t].todo \ {r}
           /\ UNCHANGED <<index, txn_map>> /\ DOMAIN heap' = DOMAIN heap
           /\ \A s \in DOMAIN heap : s # r \/ heap[s].ts # t =>
                 heap'[s] = heap[s] /\ undo_link'[s] = undo_link[s]
           /\ heap[r].ts = t => heap'[r].ts \in Nat /\ heap'[r].ts <= last_commit_ts
    BY Unwritten
  <1>3. at'[t] = next /\ \A u \in Txn : u # t => at'[u] = at[u]
    BY <1>2, GotoMoves
  <1>4. heap[r].ts = t => heap'[r].ts \notin Txn
    <2>1. last_commit_ts \in Nat
      BY DEF TypeOK
    <2> QED
      BY <1>2, <2>1, CommitIsNoTxn
  <1>5. \A s \in DOMAIN heap' :
           heap'[s].ts \in Txn => heap'[s] = heap[s] /\ ~(s = r /\ heap[s].ts = t)
    BY <1>2, <1>4
  <1>6. ASSUME NEW s \in DOMAIN heap', heap'[s].ts = t
        PROVE  s \in txn_map[t].write_set /\ s \in next.todo
    <2>1. s \in DOMAIN heap /\ heap[s].ts = t /\ s # r
      BY <1>2, <1>5, <1>6
    <2>2. s \in txn_map[t].write_set /\ s \in at[t].todo
      BY <1>1, <2>1 DEF Holders, Owners
    <2> QED
      BY <1>2, <2>1, <2>2
  <1>7. Active(t)'
    BY <1>1, <1>2 DEF Active
  <1> QED
    BY <1>1, <1>2, <1>3, <1>5, <1>6, <1>7, HoldersOn

\* A transaction ends when it holds no row.
LEMMA EndHolders ==
    ASSUME TypeOK, BusyActive, Holders, NEW t \in Txn,
           at[t].do \in {"stamp", "abort"}, at[t].todo = {},
           Goto(t, Idle), UNCHANGED heap, DOMAIN txn_map' = DOMAIN txn_map,
           \A u \in DOMAIN txn_map : u # t => txn_map'[u] = txn_map[u]
    PROVE  Holders'
  <1>1. \A s \in DOMAIN heap : heap[s].ts # t
    BY DEF Holders, Owners
  <1>2. at'[t].do = "idle" /\ \A u \in Txn : u # t => at'[u] = at[u]
    BY GotoMoves DEF Idle
  <1> QED
    BY <1>1, <1>2, HoldersOn

LEMMA CommitHolders ==
    ASSUME IInv, Holders, NEW t \in Txn, Commit(t)
    PROVE  Holders'
  <1>1. TypeOK /\ RowsKnown /\ BusyActive
    BY DEF IInv, WatermarkInv
  <1>2. CASE StartCommit(t)
    <2>1. PICK todo : /\ Goto(t, Verifying(t, todo)) /\ UNCHANGED <<heap, txn_map>>
                      /\ Runs(t) /\ t \in DOMAIN txn_map
      BY <1>2, RunsIsActive DEF StartCommit, table
    <2>2. Runs(t)' /\ Active(t)'
      BY <2>1 DEF Runs, Active
    <2> QED
      BY <1>1, <2>1, <2>2, VerifyingNext, HoldersStill
  <1>3. CASE Fetch(t)
    <2>1. PICK next : /\ Goto(t, next) /\ next.do = "verify" /\ UNCHANGED <<heap, txn_map>>
                      /\ at[t].do = "verify"
      BY <1>3 DEF Fetch, table
    <2> QED
      BY <1>1, <2>1, HoldersGoto
  <1>4. CASE VerifyRow(t)
    <2>1. PICK next : /\ Goto(t, next) /\ UNCHANGED <<heap, txn_map>> /\ at[t].do = "verify"
                      /\ next.do \in {"stamp", "abort"} => next.todo = txn_map[t].write_set
      BY <1>4, VerifyingNext DEF VerifyRow, table
    <2> QED
      BY <1>1, <2>1, HoldersGoto
  <1>5. CASE StampRow(t)
    BY <1>1, <1>5, StampRowHolders
  <1>6. CASE EndCommit(t)
    <2>1. at[t].do = "stamp" /\ at[t].todo = {} /\ Goto(t, Idle) /\ UNCHANGED heap
      BY <1>6 DEF EndCommit, table
    <2>2. /\ DOMAIN txn_map' = DOMAIN txn_map
          /\ \A u \in DOMAIN txn_map : u # t => txn_map'[u] = txn_map[u]
      BY <1>6 DEF EndCommit
    <2> QED
      BY <1>1, <2>1, <2>2, EndHolders
  <1> QED
    BY <1>2, <1>3, <1>4, <1>5, <1>6 DEF Commit

LEMMA AbortHolders ==
    ASSUME IInv, Holders, NEW t \in Txn, Abort(t)
    PROVE  Holders'
  <1>1. TypeOK /\ RowsKnown /\ BusyActive /\ ChainInv
    BY DEF IInv, WatermarkInv
  <1>2. CASE StartAbort(t)
    <2>1. PICK next : /\ Goto(t, next) /\ next.do = "abort" /\ next.todo = txn_map[t].write_set
                      /\ UNCHANGED <<heap, txn_map>> /\ Active(t) /\ t \in DOMAIN txn_map
      BY <1>2 DEF StartAbort, table, Active
    <2>2. Active(t)'
      BY <2>1 DEF Active
    <2> QED
      BY <1>1, <2>1, <2>2, HoldersStill
  <1>3. CASE RestoreRow(t)
    BY <1>1, <1>3, RestoreRowHolders
  <1>4. CASE EndAbort(t)
    <2>1. at[t].do = "abort" /\ at[t].todo = {} /\ Goto(t, Idle) /\ UNCHANGED heap
      BY <1>4 DEF EndAbort, table
    <2>2. /\ DOMAIN txn_map' = DOMAIN txn_map
          /\ \A u \in DOMAIN txn_map : u # t => txn_map'[u] = txn_map[u]
      BY <1>4 DEF EndAbort
    <2> QED
      BY <1>1, <2>1, <2>2, EndHolders
  <1> QED
    BY <1>2, <1>3, <1>4 DEF Abort

LEMMA CollectionHolders ==
    ASSUME TypeOK, Holders, GarbageCollection
    PROVE  Holders'
  <1>1. /\ \A t \in Txn : at[t].do = "idle"
        /\ DOMAIN txn_map' = DOMAIN txn_map \ Garbage
        /\ \A u \in DOMAIN txn_map \ Garbage : txn_map'[u] = txn_map[u]
        /\ UNCHANGED <<heap, at>>
    BY DEF GarbageCollection, table, Idle
  <1>2. Works'
    BY <1>1 DEF Works
  <1>3. ASSUME NEW r \in DOMAIN heap', NEW u, u = heap'[r].ts, u \in Txn
        PROVE  /\ u \in DOMAIN txn_map' /\ Active(u)' /\ r \in txn_map'[u].write_set
               /\ at'[u].do \in {"stamp", "abort"} => r \in at'[u].todo
    <2>1. /\ u \in DOMAIN txn_map /\ Active(u) /\ r \in txn_map[u].write_set
          /\ at[u].do \in {"stamp", "abort"} => r \in at[u].todo
      BY <1>1, <1>3 DEF Holders, Owners
    <2>2. u \notin Garbage
      BY <2>1 DEF Garbage, Active
    <2> QED
      BY <1>1, <2>1, <2>2 DEF Active
  <1> QED
    BY <1>2, <1>3 DEF Holders, Owners

LEMMA HoldersStep ==
    ASSUME IInv, KeysInv, [Next]_vars
    PROVE  Holders'
  <1>1. TypeOK /\ RowsKnown /\ BusyActive /\ ChainInv /\ IdsIssued /\ Holders
    BY DEF IInv, WatermarkInv, KeysInv, Holders
  <1>2. ASSUME NEW t \in Txn,
               Begin(t) \/ Statement(t) \/ Write(t) \/ Join(t) \/ Commit(t) \/ Abort(t)
        PROVE  Holders'
    BY <1>1, <1>2, BeginHolders, StatementHolders, WriteHolders, JoinHolders, CommitHolders,
       AbortHolders
  <1>3. CASE GarbageCollection
    BY <1>1, <1>3, CollectionHolders
  <1>4. CASE UNCHANGED vars
    BY <1>1, <1>4 DEF vars, table, Holders, Works, Owners, Runs, Active
  <1> QED
    BY <1>2, <1>3, <1>4 DEF Next

=============================================================================
