--------------------------- MODULE MvccStoreProofs --------------------------
(***************************************************************************)
(* What scans find, and that Mvcc implements SnapshotStore, for every      *)
(* number of transactions and rows.  The index keeps up with the rows, and *)
(* a scan neither misses a row its snapshot has nor finds one twice.  The  *)
(* abstract versions are those an account of the past gives (MvccProofs),  *)
(* so no step changes one that is in use but the one that ends a commit.   *)
(* Three things have to be known of that step: that the rows with the next *)
(* timestamp are those the committing transaction wrote, that what they    *)
(* replaced is what its snapshot has, and, if it is serializable, that the *)
(* rows committed since it began are none that its queries select.         *)
(***************************************************************************)
EXTENDS MvccProofs

-----------------------------------------------------------------------------
(* The index keeps up with the rows. *)

\* A step of t leaves the other transactions and their threads alone.
OnlyOf(t) ==
    /\ DOMAIN txn_map \subseteq DOMAIN txn_map'
    /\ \A u \in DOMAIN txn_map : u # t => txn_map'[u] = txn_map[u]
    /\ \A u \in Txn : u # t => at'[u] = at[u]

IndexGrows == \A k \in Key : index[k] # NoRid => index'[k] = index[k]

LEMMA GotoOnly ==
    ASSUME TypeOK, NEW t \in Txn, NEW next, Goto(t, next), DOMAIN txn_map \subseteq DOMAIN txn_map',
           \A u \in DOMAIN txn_map : u # t => txn_map'[u] = txn_map[u]
    PROVE  OnlyOf(t)
  BY GotoMoves DEF OnlyOf

LEMMA ModifyTupleOnly ==
    ASSUME TypeOK, NEW t \in Txn, NEW r, NEW target, NEW dead, NEW next,
           ModifyTuple(t, r, target, dead, next)
    PROVE  OnlyOf(t) /\ UNCHANGED index
  <1>1. CASE ThrowWriteConflict(t)
    <2>1. /\ DOMAIN txn_map' = DOMAIN txn_map /\ Goto(t, Idle) /\ UNCHANGED index
          /\ \A u \in DOMAIN txn_map : u # t => txn_map'[u] = txn_map[u]
      BY <1>1 DEF ThrowWriteConflict, table
    <2> QED
      BY <2>1, GotoOnly
  <1>2. CASE ~Conflicts(t, r, dead)
    <2>1. PICK logs, w : txn_map' = [txn_map EXCEPT ![t].undo_logs = logs, ![t].write_set = w]
      BY <1>2, ZenonT(40) DEF ModifyTuple
    <2>2. Goto(t, next) /\ UNCHANGED index
      BY <1>2 DEF ModifyTuple
    <2>3. /\ DOMAIN txn_map' = DOMAIN txn_map
          /\ \A u \in DOMAIN txn_map : u # t => txn_map'[u] = txn_map[u]
      BY <2>1
    <2> QED
      BY <2>2, <2>3, GotoOnly
  <1> QED
    BY <1>1, <1>2 DEF ModifyTuple

LEMMA StepsOnly ==
    ASSUME TypeOK, NEW t \in Txn,
           Begin(t) \/ Statement(t) \/ Write(t) \/ Join(t) \/ Commit(t) \/ Abort(t)
    PROVE  OnlyOf(t) /\ (~EnterKey(t) => UNCHANGED index)
  <1>1. CASE Begin(t)
    BY <1>1 DEF Begin, table, OnlyOf
  <1>2. ASSUME NEW next, Goto(t, next), UNCHANGED <<txn_map, index>>
        PROVE  OnlyOf(t) /\ UNCHANGED index
    BY <1>2, GotoOnly
  <1>3. CASE Statement(t)
    <2>1. CASE StartScan(t)
      <3>1. PICK p, next : /\ txn_map' = [txn_map EXCEPT ![t].scan_predicates = p]
                           /\ Goto(t, next) /\ UNCHANGED index
        <4>1. PICK next : Goto(t, next)
          BY <2>1 DEF StartScan
        <4>2. PICK p : p = txn_map[t].scan_predicates \cup {Head(program[t].todo).where}
          OBVIOUS
        <4>3. txn_map' = [txn_map EXCEPT ![t].scan_predicates = p] /\ UNCHANGED index
          BY <2>1, <4>2 DEF StartScan, table
        <4> QED
          BY <4>1, <4>3
      <3>2. /\ DOMAIN txn_map' = DOMAIN txn_map
            /\ \A u \in DOMAIN txn_map : u # t => txn_map'[u] = txn_map[u]
        BY <3>1
      <3> QED
        BY <3>1, <3>2, GotoOnly
    <2>2. CASE Visit(t)
      BY <1>2, <2>2 DEF Visit, table
    <2>3. CASE Collect(t)
      BY <1>2, <2>3 DEF Collect, table
    <2>4. CASE EndScan(t)
      BY <1>2, <2>4 DEF EndScan, table
    <2>5. CASE StartInsert(t)
      BY <1>2, <2>5 DEF StartInsert, table
    <2> QED
      BY <1>3, <2>1, <2>2, <2>3, <2>4, <2>5 DEF Statement
  <1>4. CASE Write(t)
    <2>1. CASE Modify(t)
      BY <2>1, ModifyTupleOnly DEF Modify
    <2>2. CASE LookUpKey(t)
      BY <1>2, <2>2 DEF LookUpKey, table
    <2>3. CASE Revive(t)
      BY <2>3, ModifyTupleOnly DEF Revive
    <2>4. CASE AppendRow(t)
      <3>1. PICK next : Goto(t, next)
        BY <2>4 DEF AppendRow
      <3>2. /\ DOMAIN txn_map' = DOMAIN txn_map
            /\ \A u \in DOMAIN txn_map : u # t => txn_map'[u] = txn_map[u]
            /\ UNCHANGED index
        BY <2>4 DEF AppendRow
      <3> QED
        BY <3>1, <3>2, GotoOnly
    <2>5. CASE EnterKey(t)
      <3>1. CASE ThrowWriteConflict(t)
        <4>1. /\ DOMAIN txn_map' = DOMAIN txn_map /\ Goto(t, Idle)
              /\ \A u \in DOMAIN txn_map : u # t => txn_map'[u] = txn_map[u]
          BY <3>1 DEF ThrowWriteConflict
        <4> QED
          BY <2>5, <4>1, GotoOnly
      <3>2. CASE Goto(t, NextRow(t)) /\ UNCHANGED txn_map
        BY <2>5, <3>2, GotoOnly
      <3> QED
        BY <2>5, <3>1, <3>2 DEF EnterKey
    <2> QED
      BY <1>4, <2>1, <2>2, <2>3, <2>4, <2>5 DEF Write
  <1>5. CASE Join(t)
    BY <1>2, <1>5 DEF Join, StartJoin, JoinRead, EndJoin, table
  <1>6. CASE Commit(t)
    <2>1. CASE StartCommit(t)
      BY <1>2, <2>1 DEF StartCommit, table
    <2>2. CASE Fetch(t)
      BY <1>2, <2>2 DEF Fetch, table
    <2>3. CASE VerifyRow(t)
      BY <1>2, <2>3 DEF VerifyRow, table
    <2>4. CASE StampRow(t)
      BY <1>2, <2>4 DEF StampRow
    <2>5. CASE EndCommit(t)
      <3>1. /\ DOMAIN txn_map' = DOMAIN txn_map /\ Goto(t, Idle) /\ UNCHANGED index
            /\ \A u \in DOMAIN txn_map : u # t => txn_map'[u] = txn_map[u]
        BY <2>5 DEF EndCommit, table
      <3> QED
        BY <3>1, GotoOnly
    <2> QED
      BY <1>6, <2>1, <2>2, <2>3, <2>4, <2>5 DEF Commit
  <1>7. CASE Abort(t)
    <2>1. CASE StartAbort(t)
      BY <1>2, <2>1 DEF StartAbort, table
    <2>2. CASE RestoreRow(t)
      BY <1>2, <2>2 DEF RestoreRow
    <2>3. CASE EndAbort(t)
      <3>1. /\ DOMAIN txn_map' = DOMAIN txn_map /\ Goto(t, Idle) /\ UNCHANGED index
            /\ \A u \in DOMAIN txn_map : u # t => txn_map'[u] = txn_map[u]
        BY <2>3 DEF EndAbort, table
      <3> QED
        BY <3>1, GotoOnly
    <2> QED
      BY <1>7, <2>1, <2>2, <2>3 DEF Abort
  <1> QED
    BY <1>1, <1>3, <1>4, <1>5, <1>6, <1>7

-----------------------------------------------------------------------------
LEMMA IndexedFacts ==
    ASSUME TypeOK, NEW r \in DOMAIN heap
    PROVE  r # NoRid /\ heap[r].tuple.id \in Key
  BY RowType DEF Rid, NoRid, Tuple

LEMMA IndexedOn ==
    ASSUME TypeOK, SameRows, IndexGrows, NEW r \in DOMAIN heap, Indexed(r)
    PROVE  Indexed(r)'
  BY IndexedFacts DEF Indexed, SameRows, IndexGrows

LEMMA IndexKeysOn ==
    ASSUME TypeOK, IndexKeys, SameRows, UNCHANGED index
    PROVE  IndexKeys' /\ IndexGrows
  BY DEF IndexKeys, SameRows, TypeOK, IndexGrows

\* What a thread is about to write, after a step of another.
LEMMA StepKeysOn ==
    ASSUME TypeOK, RowsKnown, KeysInv, SameRows, IndexGrows, NEW u \in Txn, at'[u] = at[u]
    PROVE  StepKeys(at[u])'
  <1>1. PICK s : s = at[u]
    OBVIOUS
  <1>2. StepKeys(s) /\ StepRows(s)
    BY <1>1 DEF KeysInv, RowsKnown
  <1>3. ASSUME s.do = "modify", NEW i \in DOMAIN s.mods
        PROVE  /\ Indexed(s.mods[i].rid)'
               /\ s.mods[i].target # Deleted =>
                     s.mods[i].target.id = heap'[s.mods[i].rid].tuple.id
    <2>1. s.mods[i].rid \in DOMAIN heap
      BY <1>2, <1>3 DEF StepRows
    <2>2. /\ Indexed(s.mods[i].rid)
          /\ s.mods[i].target # Deleted =>
                s.mods[i].target.id = heap[s.mods[i].rid].tuple.id
      BY <1>2, <1>3 DEF StepKeys
    <2>3. Indexed(s.mods[i].rid)'
      BY <2>1, <2>2, IndexedOn
    <2> QED
      BY <2>1, <2>2, <2>3 DEF SameRows
  <1>4. ASSUME s.do = "revive" PROVE index'[Head(s.rows).id] = s.rid
    <2>1. s.rid \in DOMAIN heap /\ Head(s.rows).id \in Key
      BY <1>1, <1>4, PlaceFields DEF RowsKnown, StepRows
    <2>2. index[Head(s.rows).id] = s.rid
      BY <1>2, <1>4 DEF StepKeys
    <2> QED
      BY <2>1, <2>2, IndexedFacts DEF IndexGrows
  <1>5. ASSUME s.do = "enter" PROVE heap'[s.rid].tuple.id = Head(s.rows).id
    <2>1. s.rid \in DOMAIN heap
      BY <1>2, <1>5 DEF StepRows
    <2> QED
      BY <1>2, <1>5, <2>1 DEF StepKeys, SameRows
  <1>6. at'[u] = s
    BY <1>1
  <1> QED
    BY <1>3, <1>4, <1>5, <1>6 DEF StepKeys, Deleted, Indexed

LEMMA OrphanOn ==
    ASSUME NEW t, OnlyOf(t), DOMAIN txn_map \subseteq Txn, NEW r, Orphan(r), heap'[r] = heap[r],
           undo_link'[r] = undo_link[r], Unentered(r, t) => Unentered(r, t)'
    PROVE  Orphan(r)'
  <1>1. undo_link'[r] = InvalidLink
    BY DEF Orphan
  <1>2. CASE heap[r].ts = 0 /\ heap[r].deleted
    BY <1>1, <1>2 DEF Orphan, InvalidLink, NoTxn
  <1>3. ASSUME NEW u \in DOMAIN txn_map, Unentered(r, u) PROVE Orphan(r)'
    <2>1. u \in DOMAIN txn_map'
      BY DEF OnlyOf
    <2>2. CASE u = t
      BY <1>1, <1>3, <2>1, <2>2 DEF Orphan, InvalidLink, NoTxn
    <2>3. CASE u # t
      <3>1. txn_map'[u] = txn_map[u] /\ at'[u] = at[u]
        BY <2>3 DEF OnlyOf
      <3>2. Unentered(r, u)'
        BY <1>3, <2>1, <3>1 DEF Unentered, Active
      <3> QED
        BY <1>1, <2>1, <3>2 DEF Orphan, InvalidLink, NoTxn
    <2> QED
      BY <2>2, <2>3
  <1> QED
    BY <1>2, <1>3 DEF Orphan

LEMMA KeysOn ==
    ASSUME TypeOK, RowsKnown, KeysInv, SameRows, Holders', NEW t \in Txn, OnlyOf(t),
           IndexGrows, IndexKeys', StepKeys(at[t])',
           \A r \in DOMAIN heap' \ DOMAIN heap : Orphan(r)',
           \A r \in DOMAIN heap : Orphan(r) /\ ~Indexed(r) => Orphan(r)' \/ Indexed(r)'
    PROVE  KeysInv'
  <1>1. \A u \in Txn : StepKeys(at[u])'
    BY StepKeysOn DEF OnlyOf
  <1>2. ASSUME NEW r \in DOMAIN heap' PROVE Indexed(r)' \/ Orphan(r)'
    <2>1. CASE r \notin DOMAIN heap
      BY <2>1
    <2>2. CASE r \in DOMAIN heap /\ Indexed(r)
      BY <2>2, IndexedOn
    <2>3. CASE r \in DOMAIN heap /\ ~Indexed(r)
      BY <2>3 DEF KeysInv, RowsIndexed
    <2> QED
      BY <2>1, <2>2, <2>3
  <1> QED
    BY <1>1, <1>2 DEF KeysInv, RowsIndexed, Holders

\* A step of a transaction that runs, over rows that are there.
LEMMA KeysRun ==
    ASSUME TypeOK, RowsKnown, KeysInv, SameRows, Holders', NEW t \in Txn, OnlyOf(t),
           Runs(t), at[t].do # "enter", UNCHANGED index, DOMAIN heap' = DOMAIN heap,
           \A r \in DOMAIN heap : Orphan(r) /\ ~Indexed(r) /\ ~Unentered(r, t) =>
              heap'[r] = heap[r] /\ undo_link'[r] = undo_link[r],
           StepKeys(at[t])'
    PROVE  KeysInv'
  <1>1. IndexKeys' /\ IndexGrows
    BY IndexKeysOn DEF KeysInv
  <1>2. \A r \in DOMAIN heap : ~Unentered(r, t)
    BY DEF Unentered, Runs
  <1>3. \A r \in DOMAIN heap : Orphan(r) /\ ~Indexed(r) => Orphan(r)'
    BY <1>2, OrphanOn DEF TypeOK
  <1> QED
    BY <1>1, <1>3, KeysOn

LEMMA StepKeysPlain ==
    ASSUME TypeOK, NEW t \in Txn, NEW next, Goto(t, next),
           next.do \notin {"modify", "revive", "enter"}
    PROVE  StepKeys(at[t])'
  <1>1. at'[t] = next
    BY GotoMoves
  <1> QED
    BY <1>1 DEF StepKeys

LEMMA StepKeysRest ==
    ASSUME TypeOK, NEW t \in Txn, NEW mods, NEW rows, Goto(t, Rest(mods, rows)),
           \A i \in DOMAIN mods :
              /\ Indexed(mods[i].rid)'
              /\ mods[i].target # Deleted => mods[i].target.id = heap'[mods[i].rid].tuple.id
    PROVE  StepKeys(at[t])'
  <1>1. at'[t] = Rest(mods, rows)
    BY GotoMoves
  <1>2. CASE mods = <<>> /\ rows = <<>>
    BY <1>1, <1>2 DEF StepKeys, Rest, Idle
  <1>3. CASE ~(mods = <<>> /\ rows = <<>>)
    <2>1. at'[t] = [do |-> "modify", mods |-> mods, rows |-> rows]
      BY <1>1, <1>3 DEF Rest
    <2>2. at'[t].do = "modify" /\ at'[t].mods = mods
      BY <2>1
    <2> QED
      BY <2>2 DEF StepKeys, Deleted, Indexed
  <1> QED
    BY <1>2, <1>3

\* A step of a transaction that runs and leaves the table alone.
LEMMA KeysStill ==
    ASSUME TypeOK, RowsKnown, KeysInv, SameRows, Holders', NEW t \in Txn, OnlyOf(t),
           Runs(t), at[t].do # "enter", UNCHANGED <<heap, undo_link, index>>, StepKeys(at[t])'
    PROVE  KeysInv'
  BY KeysRun

\* What an update or delete will write keeps the keys.
LEMMA EndScanKeys ==
    ASSUME TypeOK, RowsKnown, NEW t \in Txn, EndScan(t), UNCHANGED <<heap, index>>,
           \A i \in DOMAIN at[t].rows :
              /\ Indexed(at[t].rows[i].rid)
              /\ at[t].rows[i].tuple.id = heap[at[t].rows[i].rid].tuple.id
    PROVE  StepKeys(at[t])'
  <1> DEFINE s == at[t].stmt
             changed == IF s.kind = "select" THEN <<>> ELSE at[t].rows
             moved == {i \in DOMAIN changed : s.kind = "update" /\ Moves(changed[i], s.set)}
             Target(row) == CASE s.kind = "delete" -> Deleted
                              [] OTHER -> IF Moves(row, s.set) THEN Deleted
                                          ELSE Overlay(s.set, row.tuple)
             mods == [i \in DOMAIN changed |->
                         [rid |-> changed[i].rid, target |-> Target(changed[i])]]
             rows(order) == [n \in DOMAIN order |-> Overlay(s.set, changed[order[n]].tuple)]
  <1>1. PICK order \in Ascending(moved) : Goto(t, Rest(mods, rows(order)))
    BY DEF EndScan
  <1>2. /\ s \in Scanning
        /\ at[t].rows \in Seq(Located)
    <2>1. at[t].do = "scan" /\ at[t] \in Scan
      BY StepFields DEF EndScan, Drained, TypeOK
    <2> QED
      BY <2>1, SMTT(30) DEF Scan, Located
  <1>3. s.kind \in {"select", "delete", "update"} /\ DOMAIN <<>> = {}
    BY <1>2, ScanningFields
  <1>4. /\ changed \in Seq(Located)
        /\ \A i \in DOMAIN changed :
              /\ Indexed(changed[i].rid)
              /\ changed[i].tuple.id = heap[changed[i].rid].tuple.id
        /\ s.kind = "select" => DOMAIN changed = {}
    BY <1>2, <1>3
  <1> HIDE DEF changed, s
  <1>5. \A i \in DOMAIN changed : changed[i] \in Located
    BY <1>4, LenProperties, ElementOfSeq
  <1>6. ASSUME NEW i \in DOMAIN changed, Target(changed[i]) # Deleted
        PROVE  Target(changed[i]).id = changed[i].tuple.id
    <2>1. s.kind = "update"
      BY <1>3, <1>4, <1>6
    <2>2. /\ ~Moves(changed[i], s.set)
          /\ Target(changed[i]) = Overlay(s.set, changed[i].tuple)
      BY <1>6, <2>1
    <2>3. changed[i].tuple \in Tuple /\ "id" \in DOMAIN changed[i].tuple
      BY <1>5 DEF Located, Tuple
    <2>4. Overlay(s.set, changed[i].tuple).id =
             IF "id" \in DOMAIN s.set THEN s.set["id"] ELSE changed[i].tuple["id"]
      BY <2>3 DEF Overlay
    <2> QED
      BY <2>2, <2>4 DEF Moves
  <1> HIDE DEF Target
  <1>7. PICK m : m = mods
    OBVIOUS
  <1>8. \A i \in DOMAIN m :
           /\ Indexed(m[i].rid)
           /\ m[i].target # Deleted => m[i].target.id = heap[m[i].rid].tuple.id
    BY <1>4, <1>6, <1>7
  <1>9. \A i \in DOMAIN m :
           /\ Indexed(m[i].rid)'
           /\ m[i].target # Deleted => m[i].target.id = heap'[m[i].rid].tuple.id
    BY <1>8 DEF Indexed
  <1>10. PICK rest : rest = rows(order)
    OBVIOUS
  <1> HIDE DEF mods, rows
  <1>11. Goto(t, Rest(m, rest))
    BY <1>1, <1>7, <1>10
  <1> QED
    BY <1>9, <1>11, StepKeysRest, SMTT(30)

LEMMA StatementKeys ==
    ASSUME TypeOK, RowsKnown, KeysInv, BusyActive, SameRows, Holders', NEW t \in Txn, Statement(t),
           at[t].do = "scan" => \A i \in DOMAIN at[t].rows :
              /\ Indexed(at[t].rows[i].rid)
              /\ at[t].rows[i].tuple.id = heap[at[t].rows[i].rid].tuple.id
    PROVE  KeysInv'
  <1>1. OnlyOf(t)
    BY StepsOnly, SMTT(30)
  <1>2. UNCHANGED <<heap, undo_link, index>>
    BY DEF Statement, StartScan, Visit, Collect, EndScan, StartInsert, table
  <1>3. at[t].do = "scan" => Runs(t) /\ at[t] \in Scan
    BY StepFields DEF KeysInv, Works, TypeOK
  <1>4. CASE StartScan(t)
    <2>1. PICK next : Goto(t, next) /\ next.do = "scan"
      BY <1>4 DEF StartScan
    <2>2. StepKeys(at[t])'
      BY <2>1, StepKeysPlain
    <2>3. Runs(t) /\ at[t].do = "idle"
      BY <1>4 DEF StartScan, Idle
    <2> QED
      BY <1>1, <1>2, <2>2, <2>3, KeysStill
  <1>5. CASE Visit(t) \/ Collect(t)
    <2>1. PICK next : Goto(t, next) /\ next.do = "scan" /\ at[t].do = "scan"
      <3>1. at[t].do = "scan" /\ at[t] \in Scan
        BY <1>3, <1>5, SMTT(30) DEF Visit, Collect
      <3>2. PICK a, b, c, next :
               /\ Goto(t, next)
               /\ \/ next = [at[t] EXCEPT !.todo = a, !.rows = b]
                  \/ next = [at[t] EXCEPT !.got = a]
                  \/ next = [at[t] EXCEPT !.todo = a, !.got = b, !.rows = c]
        <4>1. CASE Visit(t)
          BY <4>1 DEF Visit
        <4>2. CASE Collect(t)
          BY <4>2 DEF Collect
        <4> QED
          BY <1>5, <4>1, <4>2
      <3>3. next.do = "scan"
        <4>1. CASE next = [at[t] EXCEPT !.todo = a, !.rows = b]
          BY <3>1, <4>1 DEF Scan
        <4>2. CASE next = [at[t] EXCEPT !.got = a]
          BY <3>1, <4>2 DEF Scan
        <4>3. CASE next = [at[t] EXCEPT !.todo = a, !.got = b, !.rows = c]
          BY <3>1, <4>3 DEF Scan
        <4> QED
          BY <3>2, <4>1, <4>2, <4>3
      <3> QED
        BY <3>1, <3>2, <3>3
    <2>2. StepKeys(at[t])'
      BY <2>1, StepKeysPlain
    <2> QED
      BY <1>1, <1>2, <1>3, <2>1, <2>2, KeysStill
  <1>6. CASE EndScan(t)
    <2>1. at[t].do = "scan"
      BY <1>6 DEF EndScan, Drained
    <2>2. StepKeys(at[t])'
      BY <1>2, <1>6, <2>1, EndScanKeys
    <2> QED
      BY <1>1, <1>2, <1>3, <2>1, <2>2, KeysStill
  <1>7. CASE StartInsert(t)
    <2>1. Goto(t, Rest(<<>>, Head(program[t].todo).rows)) /\ DOMAIN <<>> = {}
      BY <1>7 DEF StartInsert
    <2>2. StepKeys(at[t])'
      BY <2>1, StepKeysRest
    <2>3. Runs(t) /\ at[t].do = "idle"
      BY <1>7 DEF StartInsert, Idle
    <2> QED
      BY <1>1, <1>2, <2>2, <2>3, KeysStill
  <1> QED
    BY <1>4, <1>5, <1>6, <1>7 DEF Statement

LEMMA JoinKeys ==
    ASSUME TypeOK, RowsKnown, KeysInv, SameRows, Holders', NEW t \in Txn, Join(t)
    PROVE  KeysInv'
  <1>1. OnlyOf(t)
    BY StepsOnly
  <1>2. UNCHANGED <<heap, undo_link, index>>
    BY DEF Join, StartJoin, JoinRead, EndJoin, table
  <1>3. ASSUME NEW next, Goto(t, next), next.do \notin {"modify", "revive", "enter"},
               Runs(t), at[t].do # "enter"
        PROVE  KeysInv'
    BY <1>1, <1>2, <1>3, StepKeysPlain, KeysStill
  <1>4. CASE \E k \in Joining : StartJoin(t, k)
    <2>1. PICK next : Goto(t, next) /\ next.do = "join" /\ Runs(t) /\ at[t].do = "idle"
      BY <1>4 DEF StartJoin, Idle
    <2> QED
      BY <1>3, <2>1
  <1>5. CASE JoinRead(t)
    <2>1. PICK next : Goto(t, next) /\ next.do = "joined" /\ at[t].do = "join"
      BY <1>5 DEF JoinRead
    <2>2. Runs(t)
      BY <2>1 DEF KeysInv, Works
    <2> QED
      BY <1>3, <2>1, <2>2
  <1>6. CASE EndJoin(t)
    <2>1. Goto(t, Idle) /\ Idle.do = "idle" /\ at[t].do = "joined"
      BY <1>6 DEF EndJoin, Idle
    <2>2. Runs(t)
      BY <2>1 DEF KeysInv, Works
    <2> QED
      BY <1>3, <2>1, <2>2
  <1> QED
    BY <1>4, <1>5, <1>6 DEF Join

LEMMA OwnersNone ==
    ASSUME KeysInv, NEW t \in Txn, at[t].do \in {"stamp", "abort"}, at[t].todo = {},
           NEW r \in DOMAIN heap
    PROVE  heap[r].ts # t
  BY DEF KeysInv, Owners

LEMMA ThrowKeys ==
    ASSUME TypeOK, RowsKnown, KeysInv, SameRows, Holders', NEW t \in Txn, OnlyOf(t),
           t \in DOMAIN txn_map, Active(t), ThrowWriteConflict(t)
    PROVE  KeysInv'
  <1>1. UNCHANGED <<heap, undo_link, index>> /\ Goto(t, Idle) /\ Idle.do = "idle"
    BY DEF ThrowWriteConflict, table, Idle
  <1>2. StepKeys(at[t])'
    BY <1>1, StepKeysPlain
  <1>3. IndexKeys' /\ IndexGrows
    BY <1>1, IndexKeysOn DEF KeysInv
  <1>4. Active(t)' /\ txn_map'[t].state = "TAINTED"
    BY TransactionFields DEF ThrowWriteConflict, Active, Transaction
  <1>5. ASSUME NEW r \in DOMAIN heap, Orphan(r) PROVE Orphan(r)'
    <2>1. Unentered(r, t) => Unentered(r, t)'
      BY <1>1, <1>4 DEF Unentered
    <2> QED
      BY <1>1, <1>5, <2>1, OrphanOn DEF TypeOK
  <1> QED
    BY <1>1, <1>2, <1>3, <1>5, KeysOn

LEMMA ModifyTupleKeys ==
    ASSUME TypeOK, RowsKnown, KeysInv, SameRows, Holders', NEW t \in DOMAIN txn_map, t \in Txn,
           Runs(t), at[t].do # "enter", OnlyOf(t), NEW r \in DOMAIN heap, Indexed(r),
           NEW target \in Tuple \cup {Deleted}, NEW dead, NEW next,
           ModifyTuple(t, r, target, dead, next), ~Conflicts(t, r, dead),
           target # Deleted => target.id = heap[r].tuple.id,
           StepKeys(at[t])'
    PROVE  KeysInv'
  <1>1. /\ DOMAIN heap' = DOMAIN heap /\ UNCHANGED index
        /\ \A s \in DOMAIN heap : s # r => heap'[s] = heap[s] /\ undo_link'[s] = undo_link[s]
    BY Modified
  <1> QED
    BY <1>1, KeysRun

LEMMA ModifyKeys ==
    ASSUME TypeOK, RowsKnown, BusyActive, KeysInv, SameRows, Holders', NEW t \in Txn, OnlyOf(t),
           Modify(t)
    PROVE  KeysInv'
  <1>1. t \in DOMAIN txn_map /\ at[t].do = "modify" /\ at[t].mods # <<>> /\ Active(t)
    BY AtWork DEF Modify
  <1>2. PICK mods, m, rest :
           /\ mods = at[t].mods /\ m = Head(mods) /\ rest = Tail(mods)
           /\ ModifyTuple(t, m.rid, m.target, FALSE, Rest(rest, at[t].rows))
    BY DEF Modify
  <1>3. /\ mods \in Seq(Change) /\ 1 \in DOMAIN mods /\ m = mods[1]
        /\ m.rid \in DOMAIN heap /\ m.target \in Tuple \cup {Deleted}
    BY <1>1, <1>2, FirstChange
  <1>4. \A i \in DOMAIN mods :
           /\ mods[i].rid \in DOMAIN heap /\ Indexed(mods[i].rid)
           /\ mods[i].target # Deleted => mods[i].target.id = heap[mods[i].rid].tuple.id
    BY <1>1, <1>2 DEF KeysInv, StepKeys, RowsKnown, StepRows
  <1>5. CASE Conflicts(t, m.rid, FALSE)
    BY <1>1, <1>2, <1>5, ThrowKeys DEF ModifyTuple
  <1>6. CASE ~Conflicts(t, m.rid, FALSE)
    <2>1. Goto(t, Rest(rest, at[t].rows)) /\ UNCHANGED index
      BY <1>2, <1>6 DEF ModifyTuple
    <2>2. \A i \in DOMAIN rest : i + 1 \in DOMAIN mods /\ rest[i] = mods[i + 1]
      <3>1. rest \in Seq(Change) /\ Len(rest) = Len(mods) - 1 /\ Len(mods) \in Nat
            /\ DOMAIN rest = 1..Len(rest) /\ DOMAIN mods = 1..Len(mods)
            /\ \A i \in 1..Len(rest) : rest[i] = mods[i + 1]
        BY <1>1, <1>2, <1>3, HeadTailProperties, LenProperties
      <3> QED
        BY <3>1
    <2>3. ASSUME NEW i \in DOMAIN rest
          PROVE  /\ Indexed(rest[i].rid)'
                 /\ rest[i].target # Deleted => rest[i].target.id = heap'[rest[i].rid].tuple.id
      <3>1. PICK c : c = rest[i] /\ c.rid \in DOMAIN heap /\ Indexed(c.rid)
                     /\ (c.target # Deleted => c.target.id = heap[c.rid].tuple.id)
        BY <1>4, <2>2
      <3>2. heap'[c.rid].tuple.id = heap[c.rid].tuple.id
        BY <3>1 DEF SameRows
      <3>3. Indexed(c.rid)'
        BY <2>1, <3>1, <3>2 DEF Indexed
      <3> QED
        BY <3>1, <3>2, <3>3 DEF Indexed
    <2>4. StepKeys(at[t])'
      BY <2>1, <2>3, StepKeysRest
    <2>5. Runs(t) /\ m.rid \in DOMAIN heap /\ Indexed(m.rid)
          /\ (m.target # Deleted => m.target.id = heap[m.rid].tuple.id)
      BY <1>1, <1>3, <1>4 DEF KeysInv, Works
    <2> QED
      BY <1>1, <1>2, <1>3, <1>6, <2>4, <2>5, ModifyTupleKeys
  <1> QED
    BY <1>5, <1>6

LEMMA LookUpKeyKeys ==
    ASSUME TypeOK, RowsKnown, KeysInv, SameRows, Holders', NEW t \in Txn, OnlyOf(t), LookUpKey(t)
    PROVE  KeysInv'
  <1>1. UNCHANGED <<heap, undo_link, index>> /\ at[t].do = "modify" /\ Runs(t)
    BY DEF LookUpKey, table, KeysInv, Works
  <1>2. PICK r, rows : /\ r = index[Head(rows).id]
                       /\ Goto(t, [do |-> IF r = NoRid THEN "append" ELSE "revive", rid |-> r,
                                   rows |-> rows])
    BY DEF LookUpKey
  <1>3. /\ at'[t].do \in {"append", "revive"} /\ at'[t].rows = rows /\ at'[t].rid = r
    BY <1>2, GotoMoves
  <1>4. StepKeys(at[t])'
    BY <1>1, <1>2, <1>3 DEF StepKeys
  <1> QED
    BY <1>1, <1>4, KeysStill

LEMMA NextRowKeys ==
    ASSUME TypeOK, NEW t \in Txn, Goto(t, NextRow(t))
    PROVE  StepKeys(at[t])'
  <1>1. DOMAIN <<>> = {}
    OBVIOUS
  <1> QED
    BY <1>1, StepKeysRest DEF NextRow

LEMMA ReviveKeys ==
    ASSUME TypeOK, RowsKnown, BusyActive, KeysInv, SameRows, Holders', NEW t \in Txn, OnlyOf(t),
           Revive(t)
    PROVE  KeysInv'
  <1>1. t \in DOMAIN txn_map /\ at[t].do = "revive" /\ Active(t)
    BY AtWork DEF Revive
  <1>2. PICK r, target : /\ r = at[t].rid /\ target = Head(at[t].rows)
                         /\ ModifyTuple(t, r, target, TRUE, NextRow(t))
    BY DEF Revive
  <1>3. r \in DOMAIN heap /\ target \in Tuple
    BY <1>1, <1>2, PlaceFields DEF RowsKnown, StepRows
  <1>4. target.id = heap[r].tuple.id
    BY <1>1, <1>2, RevivedKey, SMTT(30)
  <1>5. Indexed(r) /\ Runs(t)
    BY <1>1, <1>2, <1>4 DEF KeysInv, StepKeys, Indexed, Works
  <1>6. CASE Conflicts(t, r, TRUE)
    BY <1>1, <1>2, <1>6, ThrowKeys DEF ModifyTuple
  <1>7. CASE ~Conflicts(t, r, TRUE)
    <2>1. Goto(t, NextRow(t))
      BY <1>2, <1>7 DEF ModifyTuple
    <2>2. StepKeys(at[t])'
      BY <2>1, NextRowKeys
    <2> QED
      BY <1>1, <1>2, <1>3, <1>4, <1>5, <1>7, <2>2, ModifyTupleKeys
  <1> QED
    BY <1>6, <1>7

LEMMA AppendRowKeys ==
    ASSUME TypeOK, RowsKnown, BusyActive, ChainInv, KeysInv, SameRows, Holders',
           NEW t \in Txn, OnlyOf(t), AppendRow(t)
    PROVE  KeysInv'
  <1>1. t \in DOMAIN txn_map /\ at[t].do = "append" /\ Active(t) /\ Runs(t)
    BY AtWork DEF AppendRow, KeysInv, Works
  <1>2. PICK new, row : new = Len(heap) + 1
                        /\ row = [tuple |-> Head(at[t].rows), ts |-> t, deleted |-> FALSE]
    OBVIOUS
  <1>3. /\ DOMAIN heap' = DOMAIN heap \cup {new} /\ new \notin DOMAIN heap /\ new \in Rid
        /\ \A r \in DOMAIN heap : heap'[r] = heap[r]
        /\ heap'[new] = row
        /\ UNCHANGED <<undo_link, index>>
    BY <1>1, <1>2, Appended
  <1>4. heap'[new].ts = t /\ heap'[new].tuple = Head(at[t].rows)
    BY <1>2, <1>3
  <1>5. at'[t].do = "enter" /\ at'[t].rid = new /\ at'[t].rows = at[t].rows
    <2>1. at[t] \in Place
      BY <1>1, StepFields DEF TypeOK
    <2>2. at'[t] = [at[t] EXCEPT !.do = "enter", !.rid = new]
      BY <1>2, <1>3, <1>4, GotoMoves DEF AppendRow
    <2> QED
      BY <2>1, <2>2 DEF Place
  <1>6. IndexKeys' /\ IndexGrows
    BY <1>2, <1>3, <1>4, IndexKeysOn DEF KeysInv
  <1>7. StepKeys(at[t])'
    BY <1>2, <1>3, <1>4, <1>5 DEF StepKeys
  <1>8. Active(t)'
    <2>1. txn_map[t] \in Transaction
      BY <1>1, TransactionFields
    <2>2. t \in DOMAIN txn_map' /\ txn_map'[t].state = txn_map[t].state
      BY <1>1, <2>1 DEF AppendRow, Transaction
    <2> QED
      BY <1>1, <2>2 DEF Active
  <1>9. Orphan(new)'
    <2>1. undo_link'[new] = InvalidLink
      BY <1>2, <1>3, <1>4 DEF ChainInv, LinksKnown
    <2>2. Unentered(new, t)'
      BY <1>2, <1>3, <1>4, <1>5, <1>8 DEF Unentered
    <2>3. t \in DOMAIN txn_map'
      BY <1>8 DEF Active
    <2> QED
      BY <2>1, <2>2, <2>3 DEF Orphan, InvalidLink, NoTxn
  <1>10. ASSUME NEW r \in DOMAIN heap, Orphan(r) PROVE Orphan(r)'
    <2>1. ~Unentered(r, t)
      BY <1>1 DEF Unentered, Runs
    <2> QED
      BY <1>2, <1>3, <1>4, <1>10, <2>1, OrphanOn DEF TypeOK
  <1> QED
    BY <1>2, <1>3, <1>4, <1>6, <1>7, <1>9, <1>10, KeysOn

LEMMA EnterKeyKeys ==
    ASSUME TypeOK, RowsKnown, BusyActive, KeysInv, SameRows, Holders', NEW t \in Txn, OnlyOf(t),
           EnterKey(t)
    PROVE  KeysInv'
  <1>1. t \in DOMAIN txn_map /\ at[t].do = "enter" /\ Active(t) /\ Runs(t)
    BY AtWork DEF EnterKey, KeysInv, Works
  <1>2. CASE ThrowWriteConflict(t)
    BY <1>1, <1>2, ThrowKeys
  <1>3. CASE ~ThrowWriteConflict(t)
    <2>1. PICK k, r : /\ k = Head(at[t].rows).id /\ r = at[t].rid /\ index[k] = NoRid
                      /\ index' = [index EXCEPT ![k] = r] /\ Goto(t, NextRow(t))
                      /\ UNCHANGED <<heap, undo_link, txn_map>>
      BY <1>3 DEF EnterKey
    <2>2. k \in Key /\ r \in DOMAIN heap /\ heap[r].tuple.id = k
      BY <1>1, <2>1, PlaceFields DEF RowsKnown, StepRows, KeysInv, StepKeys
    <2>3. index'[k] = r /\ \A j \in Key : j # k => index'[j] = index[j]
      BY <2>1, <2>2 DEF TypeOK
    <2>4. IndexGrows
      BY <2>1, <2>3 DEF IndexGrows
    <2>5. IndexKeys'
      <3> SUFFICES ASSUME NEW j \in Key, index'[j] # NoRid
                   PROVE  heap'[index'[j]].tuple.id = j
        BY DEF IndexKeys, NoRid
      <3>1. CASE j = k
        BY <2>1, <2>2, <2>3, <3>1
      <3>2. CASE j # k
        BY <2>1, <2>3, <3>2 DEF KeysInv, IndexKeys
      <3> QED
        BY <3>1, <3>2
    <2>6. StepKeys(at[t])'
      BY <2>1, NextRowKeys
    <2>7. Indexed(r)'
      BY <2>1, <2>2, <2>3 DEF Indexed
    <2>8. ASSUME NEW s \in DOMAIN heap, Orphan(s), s # r PROVE Orphan(s)'
      <3>1. ~Unentered(s, t)
        BY <1>1, <2>1, <2>8 DEF Unentered, Runs
      <3> QED
        BY <2>1, <2>8, <3>1, OrphanOn DEF TypeOK
    <2> QED
      BY <2>1, <2>4, <2>5, <2>6, <2>7, <2>8, KeysOn
  <1> QED
    BY <1>2, <1>3

LEMMA WriteKeys ==
    ASSUME TypeOK, RowsKnown, BusyActive, ChainInv, KeysInv, SameRows, Holders',
           NEW t \in Txn, Write(t)
    PROVE  KeysInv'
  <1>1. OnlyOf(t)
    BY StepsOnly
  <1> QED
    BY <1>1, ModifyKeys, LookUpKeyKeys, ReviveKeys, AppendRowKeys, EnterKeyKeys DEF Write

LEMMA CommitKeys ==
    ASSUME TypeOK, RowsKnown, KeysInv, SameRows, Holders', NEW t \in Txn, Commit(t)
    PROVE  KeysInv'
  <1>1. OnlyOf(t)
    BY StepsOnly
  <1>2. at[t].do \notin {"idle", "abort"} => Runs(t)
    BY DEF KeysInv, Works
  <1>3. ASSUME NEW next, Goto(t, next), next.do \notin {"modify", "revive", "enter"},
               Runs(t), at[t].do # "enter", UNCHANGED <<heap, undo_link, index>>
        PROVE  KeysInv'
    BY <1>1, <1>3, StepKeysPlain, KeysStill
  <1>4. CASE StartCommit(t)
    <2>1. PICK todo : Goto(t, Verifying(t, todo)) /\ Runs(t) /\ at[t].do = "idle"
                      /\ UNCHANGED <<heap, undo_link, index>>
      BY <1>4 DEF StartCommit, table, Idle
    <2>2. Verifying(t, todo).do \notin {"modify", "revive", "enter"}
      BY VerifyingNext
    <2> QED
      BY <1>3, <2>1, <2>2
  <1>5. CASE Fetch(t)
    <2>1. PICK next : Goto(t, next) /\ next.do = "verify" /\ at[t].do = "verify"
                      /\ UNCHANGED <<heap, undo_link, index>>
      BY <1>5 DEF Fetch, table
    <2> QED
      BY <1>2, <1>3, <2>1
  <1>6. CASE VerifyRow(t)
    <2>1. PICK next : /\ Goto(t, next) /\ next.do \in {"abort", "stamp", "verify"}
                      /\ at[t].do = "verify" /\ UNCHANGED <<heap, undo_link, index>>
      BY <1>6, VerifyingNext DEF VerifyRow, table
    <2> QED
      BY <1>2, <1>3, <2>1
  <1>7. CASE StampRow(t)
    <2>1. PICK r, next :
              /\ r \in DOMAIN heap
              /\ Goto(t, next) /\ next.do = "stamp"
              /\ UNCHANGED <<undo_link, index, txn_map>> /\ DOMAIN heap' = DOMAIN heap
              /\ \A s \in DOMAIN heap : s # r \/ heap[s].ts # t => heap'[s] = heap[s]
      BY <1>7, Stamped
    <2>2. at[t].do = "stamp" /\ Runs(t)
      BY <1>2, <1>7 DEF StampRow
    <2>3. StepKeys(at[t])'
      BY <2>1, StepKeysPlain
    <2>4. ASSUME NEW s \in DOMAIN heap, Orphan(s), ~Unentered(s, t)
          PROVE  heap[s].ts # t
      BY <2>4, TxnFacts DEF Orphan, Unentered, NoTxn
    <2> QED
      BY <1>1, <2>1, <2>2, <2>3, <2>4, KeysRun
  <1>8. CASE EndCommit(t)
    <2>1. Goto(t, Idle) /\ Idle.do = "idle" /\ at[t].do = "stamp"
          /\ UNCHANGED <<heap, undo_link, index>>
      BY <1>8 DEF EndCommit, table, Idle
    <2> QED
      BY <1>2, <1>3, <2>1
  <1> QED
    BY <1>4, <1>5, <1>6, <1>7, <1>8 DEF Commit

LEMMA AbortKeys ==
    ASSUME TypeOK, RowsKnown, ChainInv, BusyActive, KeysInv, SameRows, Holders', NEW t \in Txn,
           Abort(t)
    PROVE  KeysInv'
  <1>1. OnlyOf(t) /\ UNCHANGED index
    BY StepsOnly DEF Abort, StartAbort, RestoreRow, EndAbort, table
  <1>2. IndexKeys' /\ IndexGrows
    BY <1>1, IndexKeysOn DEF KeysInv
  <1>3. CASE StartAbort(t)
    <2>1. PICK next : Goto(t, next) /\ next.do = "abort" /\ at[t].do = "idle"
                      /\ UNCHANGED <<heap, undo_link, txn_map>>
      BY <1>3 DEF StartAbort, table, Idle
    <2>2. StepKeys(at[t])'
      BY <2>1, StepKeysPlain
    <2>3. ASSUME NEW r \in DOMAIN heap, Orphan(r) PROVE Orphan(r)'
      <3>1. Unentered(r, t) => Unentered(r, t)'
        BY <2>1 DEF Unentered, Active
      <3> QED
        BY <1>1, <2>1, <2>3, <3>1, OrphanOn DEF TypeOK
    <2> QED
      BY <1>1, <1>2, <2>1, <2>2, <2>3, KeysOn
  <1>4. CASE RestoreRow(t)
    <2>1. PICK r, next :
              /\ r \in DOMAIN heap
              /\ Goto(t, next) /\ next.do = "abort"
              /\ UNCHANGED txn_map /\ DOMAIN heap' = DOMAIN heap
              /\ \A s \in DOMAIN heap : s # r \/ heap[s].ts # t =>
                    heap'[s] = heap[s] /\ undo_link'[s] = undo_link[s]
              /\ heap[r].ts = t /\ undo_link[r] = InvalidLink =>
                    undo_link'[r] = InvalidLink /\ heap'[r].ts = 0 /\ heap'[r].deleted
      BY <1>4, Unwritten
    <2>2. StepKeys(at[t])'
      BY <2>1, StepKeysPlain
    <2>3. ASSUME NEW s \in DOMAIN heap, Orphan(s) PROVE Orphan(s)'
      <3>1. CASE s = r /\ heap[r].ts = t
        <4>1. undo_link[r] = InvalidLink
          BY <2>3, <3>1 DEF Orphan
        <4> QED
          BY <2>1, <3>1, <4>1 DEF Orphan, InvalidLink, NoTxn
      <3>2. CASE s # r \/ heap[s].ts # t
        <4>1. heap'[s] = heap[s] /\ undo_link'[s] = undo_link[s]
          BY <2>1, <3>2
        <4>2. Unentered(s, t) => Unentered(s, t)'
          BY <1>4, <2>1, <4>1 DEF Unentered, Active, RestoreRow
        <4> QED
          BY <1>1, <2>3, <4>1, <4>2, OrphanOn DEF TypeOK
      <3> QED
        BY <3>1, <3>2
    <2> QED
      BY <1>1, <1>2, <2>1, <2>2, <2>3, KeysOn
  <1>5. CASE EndAbort(t)
    <2>1. /\ Goto(t, Idle) /\ Idle.do = "idle" /\ UNCHANGED <<heap, undo_link>>
          /\ at[t].do = "abort" /\ at[t].todo = {}
      BY <1>5 DEF EndAbort, table, Idle
    <2>2. StepKeys(at[t])'
      BY <2>1, StepKeysPlain
    <2>3. ASSUME NEW r \in DOMAIN heap, Orphan(r) PROVE Orphan(r)'
      <3>1. ~Unentered(r, t)
        BY <2>1, OwnersNone DEF Unentered
      <3> QED
        BY <1>1, <2>1, <2>3, <3>1, OrphanOn DEF TypeOK
    <2> QED
      BY <1>1, <1>2, <2>1, <2>2, <2>3, KeysOn
  <1> QED
    BY <1>3, <1>4, <1>5 DEF Abort

LEMMA BeginKeys ==
    ASSUME TypeOK, RowsKnown, IdsIssued, KeysInv, SameRows, Holders', NEW t \in Txn, Begin(t)
    PROVE  KeysInv'
  <1>1. OnlyOf(t) /\ UNCHANGED <<heap, undo_link, index, at>>
    BY StepsOnly DEF Begin, table
  <1>2. IndexKeys' /\ IndexGrows
    BY <1>1, IndexKeysOn DEF KeysInv
  <1>3. StepKeys(at[t])'
    BY <1>1, <1>2, StepKeysOn
  <1>4. t \notin DOMAIN txn_map
    BY TxnFacts DEF IdsIssued, Begin
  <1>5. ASSUME NEW r \in DOMAIN heap, Orphan(r) PROVE Orphan(r)'
    <2>1. ~Unentered(r, t)
      BY <1>4 DEF Unentered, Active
    <2> QED
      BY <1>1, <1>5, <2>1, OrphanOn DEF TypeOK
  <1> QED
    BY <1>1, <1>2, <1>3, <1>5, KeysOn

LEMMA CollectionKeys ==
    ASSUME TypeOK, KeysInv, Holders', GarbageCollection
    PROVE  KeysInv'
  <1>1. /\ \A t \in Txn : at[t].do = "idle"
        /\ DOMAIN txn_map' = DOMAIN txn_map \ Garbage
        /\ \A u \in DOMAIN txn_map \ Garbage : txn_map'[u] = txn_map[u]
        /\ UNCHANGED <<heap, undo_link, index, at>>
    BY DEF GarbageCollection, table, Idle
  <1>2. ASSUME NEW t \in Txn PROVE StepKeys(at[t])'
    BY <1>1 DEF StepKeys
  <1>3. IndexKeys'
    BY <1>1 DEF KeysInv, IndexKeys, NoRid
  <1>4. ASSUME NEW r \in DOMAIN heap, Orphan(r) PROVE Orphan(r)'
    <2>1. undo_link'[r] = InvalidLink
      BY <1>1, <1>4 DEF Orphan
    <2>2. CASE heap[r].ts = 0 /\ heap[r].deleted
      BY <1>1, <2>1, <2>2 DEF Orphan, InvalidLink, NoTxn
    <2>3. ASSUME NEW u \in DOMAIN txn_map, Unentered(r, u) PROVE Orphan(r)'
      <3>1. u \notin Garbage
        BY <2>3 DEF Unentered, Active, Garbage
      <3>2. u \in DOMAIN txn_map' /\ txn_map'[u] = txn_map[u]
        BY <1>1, <3>1
      <3>3. Unentered(r, u)'
        BY <1>1, <2>3, <3>2 DEF Unentered, Active
      <3> QED
        BY <2>1, <3>2, <3>3 DEF Orphan, InvalidLink, NoTxn
    <2> QED
      BY <1>4, <2>2, <2>3 DEF Orphan
  <1>5. RowsIndexed'
    BY <1>1, <1>4 DEF KeysInv, RowsIndexed, Indexed
  <1> QED
    BY <1>2, <1>3, <1>5 DEF KeysInv, Holders

\* What a scan has found are rows of the index, under their keys.
FoundKeys(s) ==
    s.do = "scan" => \A i \in DOMAIN s.rows :
        /\ Indexed(s.rows[i].rid)
        /\ s.rows[i].tuple.id = heap[s.rows[i].rid].tuple.id

LEMMA KeysStep ==
    ASSUME IInv, KeysInv, SameRows, \A t \in Txn : FoundKeys(at[t]), [Next]_vars
    PROVE  KeysInv'
  <1>1. TypeOK /\ RowsKnown /\ BusyActive /\ ChainInv /\ IdsIssued
    BY DEF IInv, WatermarkInv
  <1>2. Holders'
    BY HoldersStep
  <1>3. ASSUME NEW t \in Txn,
               Begin(t) \/ Statement(t) \/ Write(t) \/ Join(t) \/ Commit(t) \/ Abort(t)
        PROVE  KeysInv'
    <2>1. CASE Statement(t)
      BY <1>1, <1>2, <2>1, StatementKeys DEF FoundKeys
    <2> QED
      BY <1>1, <1>2, <1>3, <2>1, BeginKeys, WriteKeys, JoinKeys, CommitKeys, AbortKeys
  <1>4. CASE GarbageCollection
    BY <1>1, <1>2, <1>4, CollectionKeys
  <1>5. CASE UNCHANGED vars
    <2>1. UNCHANGED <<heap, undo_link, index, txn_map, at>>
      BY <1>5 DEF vars, table
    <2>2. KeysInv' <=> KeysInv
      BY <2>1 DEF KeysInv, Works, Owners, IndexKeys, RowsIndexed, StepKeys, Indexed, Orphan,
                  Unentered, Active, Runs, InvalidLink, NoTxn, NoRid, Deleted
    <2> QED
      BY <2>2
  <1> QED
    BY <1>3, <1>4, <1>5 DEF Next

-----------------------------------------------------------------------------
(* A scan. *)

\* Of the rows S that a scan shall find, and what it shall see in each of them: each is in `rows`
\* or still to be visited, once.
Pending(todo, rows, S, view) ==
    /\ \A i, j \in DOMAIN todo : todo[i] = todo[j] => i = j
    /\ \A i, j \in DOMAIN rows : rows[i].rid = rows[j].rid => i = j
    /\ \A i \in DOMAIN todo, j \in DOMAIN rows : todo[i] # rows[j].rid
    /\ \A i \in DOMAIN rows : rows[i].rid \in S /\ rows[i].tuple = view[rows[i].rid]
    /\ \A r \in S : \/ \E i \in DOMAIN todo : todo[i] = r
                    \/ \E i \in DOMAIN rows : rows[i].rid = r

LEMMA TailIs ==
    ASSUME NEW T, NEW s \in Seq(T), s # <<>>, NEW rest, rest = Tail(s)
    PROVE  /\ rest \in Seq(T) /\ Len(s) \in Nat /\ 1 \in DOMAIN s /\ Head(s) = s[1]
           /\ \A i \in DOMAIN rest : i \in Nat /\ i # 0 /\ i + 1 \in DOMAIN s /\ rest[i] = s[i + 1]
           /\ \A i \in DOMAIN s : i # 1 => i \in Nat /\ i - 1 \in DOMAIN rest /\ rest[i - 1] = s[i]
  <1>1. /\ rest \in Seq(T) /\ Len(rest) = Len(s) - 1 /\ Len(s) \in Nat /\ Len(s) > 0
        /\ DOMAIN rest = 1..Len(rest) /\ DOMAIN s = 1..Len(s)
        /\ \A i \in 1..Len(rest) : rest[i] = s[i + 1]
    BY HeadTailProperties, LenProperties, EmptySeq
  <1>2. Head(s) = s[1]
    OBVIOUS
  <1>3. \A i \in DOMAIN rest : i \in Nat /\ i # 0 /\ i + 1 \in DOMAIN s /\ rest[i] = s[i + 1]
    BY <1>1
  <1>4. \A i \in DOMAIN s : i # 1 => i - 1 \in DOMAIN rest /\ (i - 1) + 1 = i /\ i \in Nat
    BY <1>1
  <1> QED
    BY <1>1, <1>2, <1>3, <1>4

LEMMA AppendIs ==
    ASSUME NEW T, NEW s \in Seq(T), NEW x \in T, NEW more, more = Append(s, x)
    PROVE  LET n == Len(s) + 1 IN
           /\ DOMAIN more = DOMAIN s \cup {n} /\ n \notin DOMAIN s /\ n \in DOMAIN more
           /\ \A i \in DOMAIN s : more[i] = s[i]
           /\ more[n] = x
  <1>1. /\ more \in Seq(T) /\ Len(more) = Len(s) + 1 /\ Len(s) \in Nat
        /\ DOMAIN more = 1..Len(more) /\ DOMAIN s = 1..Len(s)
        /\ \A i \in 1..Len(s) : more[i] = s[i]
        /\ more[Len(s) + 1] = x
    BY AppendProperties, LenProperties
  <1> QED
    BY <1>1

\* The first row has been visited.
LEMMA PendingNext ==
    ASSUME NEW todo \in Seq(Rid), todo # <<>>, NEW rows \in Seq(Located), NEW S, NEW view,
           Pending(todo, rows, S, view), NEW r, r = Head(todo),
           NEW rest, rest = Tail(todo), NEW more,
           \/ r \notin S /\ more = rows
           \/ /\ r \in S /\ r \in Rid /\ view[r] \in Tuple
              /\ more = Append(rows, [rid |-> r, tuple |-> view[r]])
    PROVE  Pending(rest, more, S, view)
  <1>1. /\ 1 \in DOMAIN todo /\ r = todo[1]
        /\ \A i \in DOMAIN rest : i \in Nat /\ i # 0 /\ i + 1 \in DOMAIN todo
                                  /\ rest[i] = todo[i + 1]
        /\ \A i \in DOMAIN todo : i # 1 => i \in Nat /\ i - 1 \in DOMAIN rest
                                          /\ rest[i - 1] = todo[i]
    BY TailIs
  <1>2. /\ \A i, j \in DOMAIN todo : todo[i] = todo[j] => i = j
        /\ \A i, j \in DOMAIN rows : rows[i].rid = rows[j].rid => i = j
        /\ \A i \in DOMAIN todo, j \in DOMAIN rows : todo[i] # rows[j].rid
        /\ \A i \in DOMAIN rows : rows[i].rid \in S /\ rows[i].tuple = view[rows[i].rid]
        /\ \A q \in S : \/ \E i \in DOMAIN todo : todo[i] = q
                        \/ \E i \in DOMAIN rows : rows[i].rid = q
    BY DEF Pending
  <1>3. \A i, j \in DOMAIN rest : rest[i] = rest[j] => i = j
    <2> SUFFICES ASSUME NEW i \in DOMAIN rest, NEW j \in DOMAIN rest, rest[i] = rest[j]
                 PROVE  i = j
      OBVIOUS
    <2>1. i + 1 = j + 1 /\ i \in Nat /\ j \in Nat
      BY <1>1, <1>2
    <2> QED
      BY <2>1
  <1>4. \A i \in DOMAIN rest : rest[i] # r
    <2> SUFFICES ASSUME NEW i \in DOMAIN rest, rest[i] = r PROVE FALSE
      OBVIOUS
    <2>1. i + 1 = 1 /\ i \in Nat /\ i # 0
      BY <1>1, <1>2
    <2> QED
      BY <2>1
  <1>5. \A i \in DOMAIN rest, j \in DOMAIN rows : rest[i] # rows[j].rid
    BY <1>1, <1>2
  <1>6. \A q \in S : q # r => \/ \E i \in DOMAIN rest : rest[i] = q
                              \/ \E i \in DOMAIN rows : rows[i].rid = q
    <2> SUFFICES ASSUME NEW q \in S, q # r, NEW i \in DOMAIN todo, todo[i] = q
                 PROVE  \E j \in DOMAIN rest : rest[j] = q
      BY <1>2
    <2>1. i # 1
      BY <1>1
    <2> QED
      BY <1>1, <2>1
  <1>7. CASE r \notin S /\ more = rows
    BY <1>2, <1>3, <1>5, <1>6, <1>7 DEF Pending
  <1>8. CASE r \in S /\ r \in Rid /\ view[r] \in Tuple
             /\ more = Append(rows, [rid |-> r, tuple |-> view[r]])
    <2>1. PICK found, n : found = [rid |-> r, tuple |-> view[r]] /\ n = Len(rows) + 1
      OBVIOUS
    <2>2. found \in Located /\ found.rid = r /\ found.tuple = view[r]
      BY <1>8, <2>1 DEF Located
    <2>3. /\ DOMAIN more = DOMAIN rows \cup {n} /\ n \notin DOMAIN rows
          /\ \A i \in DOMAIN rows : more[i] = rows[i]
          /\ more[n] = found
      BY <1>8, <2>1, <2>2, AppendIs
    <2>4. \A i, j \in DOMAIN more : more[i].rid = more[j].rid => i = j
      BY <1>1, <1>2, <2>2, <2>3
    <2>5. \A i \in DOMAIN rest, j \in DOMAIN more : rest[i] # more[j].rid
      BY <1>4, <1>5, <2>2, <2>3
    <2>6. \A i \in DOMAIN more : more[i].rid \in S /\ more[i].tuple = view[more[i].rid]
      BY <1>2, <1>8, <2>2, <2>3
    <2>7. \A q \in S : \/ \E i \in DOMAIN rest : rest[i] = q
                       \/ \E i \in DOMAIN more : more[i].rid = q
      BY <1>6, <2>2, <2>3
    <2> QED
      BY <1>3, <2>4, <2>5, <2>6, <2>7 DEF Pending
  <1> QED
    BY <1>7, <1>8

LEMMA PendingStart ==
    ASSUME NEW todo, \A i, j \in DOMAIN todo : todo[i] = todo[j] => i = j,
           NEW S, \A r \in S : \E i \in DOMAIN todo : todo[i] = r, NEW view
    PROVE  Pending(todo, <<>>, S, view)
  <1>1. DOMAIN <<>> = {}
    OBVIOUS
  <1> QED
    BY <1>1 DEF Pending

LEMMA PendingSame ==
    ASSUME NEW todo, NEW rows, NEW S, NEW view, Pending(todo, rows, S, view),
           NEW T, T = S, NEW other, \A r \in S : other[r] = view[r]
    PROVE  Pending(todo, rows, T, other)
  BY DEF Pending

\* A sequence that lists the members of a finite set lists each of them.
LEMMA OrdersAll ==
    ASSUME NEW S, IsFiniteSet(S), NEW s \in Orders(S)
    PROVE  /\ \A i, j \in DOMAIN s : s[i] = s[j] => i = j
           /\ \A x \in S : \E i \in DOMAIN s : s[i] = x
  <1>1. PICK n : n = Cardinality(S) /\ n \in Nat
    BY FS_CardinalityType
  <1>2. s \in [1..n -> S] /\ \A i, j \in DOMAIN s : s[i] = s[j] => i = j
    BY <1>1 DEF Orders
  <1>3. s \in Injection(1..n, S)
    <2>1. \A i, j \in 1..n : s[i] = s[j] => i = j
      BY <1>2
    <2>2. s \in [1..n -> S]
      BY <1>2
    <2> QED
      BY <2>1, <2>2 DEF Injection, IsInjective
  <1>4. Cardinality(1..n) = n
    BY <1>1, FS_Interval
  <1>5. s \in Surjection(1..n, S)
    BY <1>1, <1>3, <1>4, FS_Injection
  <1>6. \A x \in S : \E i \in 1..n : s[i] = x
    BY <1>5 DEF Surjection
  <1> QED
    BY <1>2, <1>6

\* At the end of a scan, as many rows as there were to find.
LEMMA PendingEnd ==
    ASSUME NEW todo, DOMAIN todo = {}, NEW rows \in Seq(Located), NEW S, NEW view,
           Pending(todo, rows, S, view),
           \A q, r \in S : view[q] = view[r] => q = r,
           NEW T, \A r \in S : view[r] \in T, \A x \in T : \E r \in S : view[r] = x
    PROVE  Len(rows) = Cardinality(T)
  <1>1. /\ \A i, j \in DOMAIN rows : rows[i].rid = rows[j].rid => i = j
        /\ \A i \in DOMAIN rows : rows[i].rid \in S /\ rows[i].tuple = view[rows[i].rid]
        /\ \A r \in S : \E i \in DOMAIN rows : rows[i].rid = r
    BY DEF Pending
  <1>2. PICK n : n = Len(rows) /\ n \in Nat /\ DOMAIN rows = 1..n
    BY LenProperties
  <1>3. \A i \in 1..n : rows[i].tuple \in T
    BY <1>1, <1>2
  <1>4. \A x \in T : \E i \in 1..n : rows[i].tuple = x
    BY <1>1, <1>2
  <1>5. \A i, j \in 1..n : rows[i].tuple = rows[j].tuple => i = j
    BY <1>1, <1>2
  <1>6. PICK f : f = [i \in 1..n |-> rows[i].tuple]
    OBVIOUS
  <1>7. f \in [1..n -> T] /\ (\A i, j \in 1..n : f[i] = f[j] => i = j)
        /\ (\A x \in T : \E i \in 1..n : f[i] = x)
    BY <1>3, <1>4, <1>5, <1>6
  <1>8. f \in Bijection(1..n, T)
    <2>1. f \in Surjection(1..n, T)
      BY <1>7 DEF Surjection
    <2>2. f \in Injection(1..n, T)
      BY <1>7 DEF Injection, IsInjective
    <2> QED
      BY <2>1, <2>2 DEF Bijection
  <1>9. ExistsBijection(1..n, T)
    BY <1>8 DEF ExistsBijection
  <1>10. IsFiniteSet(1..n) /\ Cardinality(1..n) = n
    <2>1. 1 \in Int /\ n \in Int /\ (IF 1 > n THEN 0 ELSE n - 1 + 1) = n
      BY <1>2
    <2> QED
      BY <2>1, FS_Interval
  <1>11. Cardinality(T) = n
    BY <1>9, <1>10, FS_Bijection
  <1> QED
    BY <1>2, <1>11

\* The rows of the index that t sees, of those a filter holds for, and what it sees.
Selection(N, t, p) ==
    {r \in DOMAIN heap : Indexed(r) /\ See(N, t, r) # Absent /\ Seen(N, t, r) \in p.holds}
Views(N, t) == [r \in DOMAIN heap |-> Seen(N, t, r)]

\* The version of row r whose undo logs a scan is about to follow still leads to what the row was
\* at ts.
Following(N, t, x, r, ts) ==
    /\ heap[r].ts # t /\ x.ts # t /\ x.ts > ts /\ Indexed(r)
    /\ IsValid(x.link) /\ x.tuple.id = heap[r].tuple.id
    /\ Leads(N, x.link, r, Content(x)) /\ LogAt(x.link).ts < x.ts
    /\ N[x.link].past[ts] = Answer(N, r, ts)

ScanSees(N, t) ==
    at[t].do = "scan" =>
        /\ Pending(at[t].todo, at[t].rows, Selection(N, t, at[t].stmt.where), Views(N, t))
        /\ at[t].got # <<>> =>
              \A x, r, ts : /\ x = at[t].got[1] /\ r = Head(at[t].todo)
                            /\ ts = txn_map[t].read_ts
                            => Following(N, t, x, r, ts)

LEMMA ScanFields ==
    ASSUME TypeOK, RowsKnown, NEW t \in Txn, at[t].do = "scan"
    PROVE  /\ at[t] \in Scan /\ at[t].todo \in Seq(Rid) /\ at[t].rows \in Seq(Located)
           /\ at[t].stmt \in Scanning /\ at[t].stmt.where \in Predicate
           /\ at[t].stmt.where.holds \subseteq Tuple /\ at[t].got \in Seq(Version)
           /\ at[t].todo # <<>> => Head(at[t].todo) \in DOMAIN heap
           /\ at[t].got # <<>> => at[t].todo # <<>> /\ at[t].got[1] \in Version
  <1>1. at[t] \in Scan
    BY StepFields DEF TypeOK
  <1>2. /\ at[t].todo \in Seq(Rid) /\ at[t].rows \in Seq(Located) /\ at[t].stmt \in Scanning
        /\ at[t].got \in Seq(Version)
    BY <1>1 DEF Scan, Located
  <1>3. at[t].stmt.where \in Predicate /\ at[t].stmt.where.holds \subseteq Tuple
    BY <1>2, ScanningFields
  <1>4. at[t].todo # <<>> => Head(at[t].todo) \in DOMAIN heap
    <2>1. at[t].todo # <<>> => 1 \in DOMAIN at[t].todo /\ Head(at[t].todo) = at[t].todo[1]
      BY <1>2, TailIs
    <2> QED
      BY <2>1 DEF RowsKnown, StepRows
  <1>5. at[t].got # <<>> => at[t].todo # <<>> /\ at[t].got[1] \in Version
    <2>1. at[t].got # <<>> => 1 \in DOMAIN at[t].got
      BY <1>2, TailIs
    <2>2. at[t].got # <<>> => at[t].got[1] \in Version
      BY <1>2, <2>1, ElementOfSeq, LenProperties
    <2> QED
      BY <2>2 DEF RowsKnown, StepRows
  <1> QED
    BY <1>1, <1>2, <1>3, <1>4, <1>5

\* Nobody but its writer sees a row that is not in the index.
LEMMA OrphanUnseen ==
    ASSUME TypeOK, WatermarkInv, NEW N, NEW t \in Txn, Runs(t), at[t].do # "enter",
           NEW r \in DOMAIN heap, Orphan(r)
    PROVE  See(N, t, r) = Absent
  <1>1. /\ t \in DOMAIN txn_map /\ txn_map[t].read_ts \in Nat
        /\ txn_map[t].read_ts <= last_commit_ts
    BY RunsIsActive, ReadersAbove
  <1>2. ~IsValid(undo_link[r])
    BY DEF Orphan, IsValid, InvalidLink
  <1>3. CASE heap[r].ts = 0 /\ heap[r].deleted
    <2>1. t # 0
      BY TxnFacts DEF NoTxn
    <2>2. Content(heap[r]) = Absent
      BY <1>3, RowContent
    <2>3. 0 <= txn_map[t].read_ts
      BY <1>1
    <2> QED
      BY <1>3, <2>1, <2>2, <2>3 DEF See, Answer, AnswerOf
  <1>4. ASSUME NEW u \in DOMAIN txn_map, Unentered(r, u) PROVE See(N, t, r) = Absent
    <2>1. u # t /\ heap[r].ts = u /\ u \in Txn
      BY <1>4 DEF Unentered, Runs, TypeOK
    <2>2. ~(u <= txn_map[t].read_ts)
      BY <1>1, <2>1, TxnFacts DEF TypeOK
    <2> QED
      BY <1>2, <2>1, <2>2 DEF See, Answer, AnswerOf, Nothing
  <1> QED
    BY <1>3, <1>4 DEF Orphan

LEMMA SeeValue ==
    ASSUME TypeOK, WatermarkInv, ChainInv, GetWatermark >= 1, NEW N, Told(N),
           NEW t \in DOMAIN txn_map, Active(t), NEW r \in DOMAIN heap
    PROVE  /\ See(N, t, r) \in Value \cup {Absent}
           /\ See(N, t, r) # Absent => Seen(N, t, r) \in Tuple
  <1>1. See(N, t, r) \in Value \cup {Absent}
    <2>1. CASE heap[r].ts = t
      BY <2>1, RowContent DEF See
    <2>2. CASE heap[r].ts # t
      <3>1. PICK ts : ts = txn_map[t].read_ts /\ ts \in Nat /\ ts >= GetWatermark
        BY ReadersAbove
      <3>2. Finds(N, r, Base(r), ts)
        BY <3>1, BaseStands, AsOfAnswer
      <3>3. AnswerOf(N, Base(r).ts, Content(Base(r)), Base(r).link, ts) = Answer(N, r, ts)
        BY BaseContent DEF Answer, Base
      <3>4. Answer(N, r, ts) = Nothing \/ \E y \in Version : Answer(N, r, ts).v = Content(y)
        BY <3>2, <3>3 DEF Finds
      <3>5. Answer(N, r, ts).v \in Value \cup {Absent}
        BY <3>4, ContentIs DEF Nothing
      <3> QED
        BY <2>2, <3>1, <3>5 DEF See
    <2> QED
      BY <2>1, <2>2
  <1>2. heap[r].tuple.id \in Key
    BY IndexedFacts
  <1> QED
    BY <1>1, <1>2 DEF Seen, Tuple

-----------------------------------------------------------------------------
\* What a step leaves to a scan of t that does not take part in it.
Undisturbed(t) ==
    /\ t \in DOMAIN txn_map /\ t \in DOMAIN txn_map'
    /\ txn_map'[t].read_ts = txn_map[t].read_ts
    /\ \A r \in DOMAIN heap : /\ heap'[r].ts = t <=> heap[r].ts = t
                              /\ heap[r].ts = t => heap'[r] = heap[r]
    /\ IndexGrows
    /\ \A r \in DOMAIN heap' : Indexed(r)' => r \in DOMAIN heap

LEMMA SeeNow ==
    ASSUME NEW M, NEW t, NEW r, NEW ts, ts = txn_map'[t].read_ts
    PROVE  See(M, t, r)' =
              IF heap'[r].ts = t THEN Content(heap'[r])
              ELSE AnswerOf(M, heap'[r].ts, Content(heap'[r]), undo_link'[r], ts).v
  BY DEF See, Answer

LEMMA SeeOn ==
    ASSUME TypeOK, NEW N, NEW M, Goes(N, M), NEW t, Undisturbed(t), NEW r \in DOMAIN heap,
           NEW ts \in Nat, ts = txn_map[t].read_ts, ts >= GetWatermark', ts <= last_commit_ts
    PROVE  See(M, t, r)' = See(N, t, r) /\ Seen(M, t, r)' = Seen(N, t, r)
  <1>1. ts = txn_map'[t].read_ts
    BY DEF Undisturbed
  <1>2. Answer(M, r, ts)' = Answer(N, r, ts)
    BY DEF Goes
  <1>3. AnswerOf(M, heap'[r].ts, Content(heap'[r]), undo_link'[r], ts) = Answer(N, r, ts)
    BY <1>2, AnswerNow
  <1>4. See(M, t, r)' = IF heap'[r].ts = t THEN Content(heap'[r]) ELSE Answer(N, r, ts).v
    BY <1>1, <1>3, SeeNow
  <1>5. See(M, t, r)' = See(N, t, r)
    <2>1. CASE heap[r].ts = t
      BY <1>4, <2>1 DEF Undisturbed, See
    <2>2. CASE heap[r].ts # t
      BY <1>4, <2>2 DEF Undisturbed, See
    <2> QED
      BY <2>1, <2>2
  <1>6. heap'[r].tuple.id = heap[r].tuple.id
    BY DEF Goes, SameRows
  <1> QED
    BY <1>5, <1>6 DEF Seen

LEMMA SelectionOn ==
    ASSUME TypeOK, WatermarkInv, KeysInv, NEW N, NEW M, Goes(N, M), NEW t \in Txn, Undisturbed(t),
           Runs(t), at[t].do # "enter", NEW ts \in Nat, ts = txn_map[t].read_ts,
           ts >= GetWatermark', ts <= last_commit_ts, NEW p
    PROVE  /\ Selection(M, t, p)' = Selection(N, t, p)
           /\ \A r \in Selection(N, t, p) : Views(M, t)'[r] = Views(N, t)[r]
  <1>1. \A r \in DOMAIN heap : See(M, t, r)' = See(N, t, r) /\ Seen(M, t, r)' = Seen(N, t, r)
    BY SeeOn
  <1>2. \A r \in DOMAIN heap : r \in DOMAIN heap' /\ (Indexed(r) => Indexed(r)')
    BY IndexedOn DEF Goes, SameRows, Undisturbed
  <1>3. ASSUME NEW r \in DOMAIN heap, See(N, t, r) # Absent PROVE Indexed(r)
    BY <1>3, OrphanUnseen DEF KeysInv, RowsIndexed
  <1>4. ASSUME NEW r \in Selection(N, t, p) PROVE r \in Selection(M, t, p)'
    BY <1>1, <1>2, <1>4 DEF Selection
  <1>5. ASSUME NEW r \in Selection(M, t, p)' PROVE r \in Selection(N, t, p)
    <2>1. r \in DOMAIN heap' /\ Indexed(r)' /\ See(M, t, r)' # Absent /\ Seen(M, t, r)' \in p.holds
      BY <1>5 DEF Selection
    <2>2. r \in DOMAIN heap
      BY <2>1 DEF Undisturbed
    <2> QED
      BY <1>1, <1>3, <2>1, <2>2 DEF Selection
  <1>6. \A r \in Selection(N, t, p) : Views(M, t)'[r] = Views(N, t)[r]
    BY <1>1, <1>2 DEF Selection, Views
  <1> QED
    BY <1>4, <1>5, <1>6

LEMMA FollowingOn ==
    ASSUME TypeOK, KeysInv, NEW N, Told(N), NEW M, Goes(N, M), Extends(N, M), NEW t,
           Undisturbed(t), NEW ts \in Nat, ts >= GetWatermark', ts <= last_commit_ts,
           NEW x, NEW r \in DOMAIN heap, Following(N, t, x, r, ts)
    PROVE  Following(M, t, x, r, ts)'
  <1>1. PICK l : l = x.link
    OBVIOUS
  <1>2. /\ l \in DOMAIN N /\ N[l].row = r /\ Leads(N, l, r, Content(x))
        /\ LogAt(l).ts < x.ts /\ N[l].past[ts] = Answer(N, r, ts)
    BY <1>1 DEF Following, Leads
  <1>3. Leads(M, l, r, Content(x))' /\ M[l] = N[l] /\ LogAt(l)'.ts = LogAt(l).ts
    BY <1>2 DEF Extends
  <1>4. Answer(M, r, ts)' = Answer(N, r, ts)
    BY DEF Goes
  <1>5. heap'[r].ts # t /\ heap'[r].tuple.id = heap[r].tuple.id /\ Indexed(r)'
    BY IndexedOn DEF Following, Undisturbed, Goes, SameRows
  <1>6. x.ts # t /\ x.ts > ts /\ IsValid(l) /\ x.tuple.id = heap[r].tuple.id
    BY <1>1 DEF Following
  <1>7. Leads(M, x.link, r, Content(x))' /\ LogAt(x.link)'.ts < x.ts
        /\ M[x.link].past[ts] = Answer(M, r, ts)'
    BY <1>1, <1>2, <1>3, <1>4
  <1> QED
    BY <1>1, <1>5, <1>6, <1>7 DEF Following

\* The scan of a transaction, after a step of another.
LEMMA ScanOn ==
    ASSUME TypeOK, WatermarkInv, RowsKnown, KeysInv, NEW N, Told(N), NEW M, Goes(N, M),
           GarbageCollection \/ Extends(N, M),
           NEW t \in Txn, ScanSees(N, t), Undisturbed(t), at'[t] = at[t],
           at[t].do = "scan" => txn_map[t].read_ts >= GetWatermark'
    PROVE  ScanSees(M, t)'
  <1> SUFFICES ASSUME at[t].do = "scan" PROVE ScanSees(M, t)'
    BY DEF ScanSees
  <1>1. Runs(t) /\ t \in DOMAIN txn_map /\ Active(t)
    BY RunsIsActive DEF KeysInv, Works
  <1>2. PICK ts \in Nat : ts = txn_map[t].read_ts /\ ts >= GetWatermark' /\ ts <= last_commit_ts
    BY <1>1, ReadersAbove
  <1>3. PICK s, p : s = at[t] /\ p = s.stmt.where
    OBVIOUS
  <1>4. Extends(N, M)
    BY DEF GarbageCollection, Idle
  <1>5. /\ Selection(M, t, p)' = Selection(N, t, p)
        /\ \A r \in Selection(N, t, p) : Views(M, t)'[r] = Views(N, t)[r]
    BY <1>1, <1>2, SelectionOn
  <1>6. Pending(s.todo, s.rows, Selection(N, t, p), Views(N, t))
    BY <1>3 DEF ScanSees
  <1>7. PICK S, V : S = Selection(M, t, p)' /\ V = Views(M, t)'
    OBVIOUS
  <1>8. Pending(s.todo, s.rows, S, V)
    BY <1>5, <1>6, <1>7, PendingSame
  <1>9. ASSUME s.got # <<>>, NEW x, NEW r, NEW u, x = s.got[1], r = Head(s.todo),
               u = txn_map'[t].read_ts
        PROVE  Following(M, t, x, r, u)'
    <2>1. r \in DOMAIN heap
      BY <1>3, <1>9, ScanFields
    <2>2. u = ts
      BY <1>2, <1>9 DEF Undisturbed
    <2>3. Following(N, t, x, r, ts)
      BY <1>2, <1>3, <1>9 DEF ScanSees
    <2>4. Following(M, t, x, r, ts)'
      BY <1>2, <1>4, <2>1, <2>3, FollowingOn
    <2> QED
      BY <2>2, <2>4
  <1>10. at'[t] = s
    BY <1>3
  <1>11. Pending(s.todo, s.rows, Selection(M, t, p)', Views(M, t)')
    BY <1>7, <1>8
  <1> QED
    BY <1>3, <1>9, <1>10, <1>11 DEF ScanSees

LEMMA SameSelection ==
    ASSUME NEW N, NEW t, UNCHANGED <<heap, undo_link, index>>,
           txn_map'[t].read_ts = txn_map[t].read_ts
    PROVE  /\ \A p : Selection(N, t, p)' = Selection(N, t, p)
           /\ Views(N, t)' = Views(N, t)
  <1>1. \A r : See(N, t, r)' = See(N, t, r)
    BY DEF See, Answer, AnswerOf
  <1>2. \A r : Seen(N, t, r)' = Seen(N, t, r)
    BY <1>1 DEF Seen
  <1>3. \A r : Indexed(r)' <=> Indexed(r)
    BY DEF Indexed
  <1> QED
    BY <1>1, <1>2, <1>3 DEF Selection, Views

LEMMA SelectionAll ==
    ASSUME TypeOK, NEW N, NEW t, NEW p \in Predicate, NEW todo,
           todo \in IF p.keys = {} THEN {SeqScanned} ELSE IndexScanned(p.keys)
    PROVE  /\ \A i, j \in DOMAIN todo : todo[i] = todo[j] => i = j
           /\ \A r \in Selection(N, t, p) : \E i \in DOMAIN todo : todo[i] = r
  <1>1. DOMAIN heap = 1..Len(heap) /\ DOMAIN heap \subseteq Rid
    BY HeapDomain
  <1>2. CASE p.keys = {}
    BY <1>1, <1>2 DEF SeqScanned, Selection
  <1>3. CASE p.keys # {}
    <2>1. PICK S : S = {index[k] : k \in p.keys} \ {NoRid}
      OBVIOUS
    <2>2. p.keys \subseteq Key
      BY PredicateAssumption
    <2>3. S \subseteq Rid
      BY <1>1, <2>1, <2>2 DEF TypeOK
    <2>4. IsFiniteSet(S)
      <3>1. IsFiniteSet(Rid)
        BY FS_Interval, BoundsAssumption DEF Rid
      <3> QED
        BY <2>3, <3>1, FS_Subset
    <2>5. todo \in Orders(S)
      BY <1>3, <2>1 DEF IndexScanned
    <2>6. ASSUME NEW r \in Selection(N, t, p) PROVE r \in S
      <3>1. PICK k : k = heap[r].tuple.id
        OBVIOUS
      <3>2. r \in DOMAIN heap /\ index[k] = r /\ Seen(N, t, r) \in p.holds
        BY <2>6, <3>1 DEF Selection, Indexed
      <3>3. Seen(N, t, r).id = k
        BY <3>1 DEF Seen
      <3>4. k \in p.keys
        BY <1>3, <3>2, <3>3, PredicateAssumption
      <3>5. r # NoRid
        BY <3>2, IndexedFacts
      <3> QED
        BY <2>1, <3>2, <3>4, <3>5
    <2> QED
      BY <2>4, <2>5, <2>6, OrdersAll
  <1> QED
    BY <1>2, <1>3

LEMMA StartScanSees ==
    ASSUME TypeOK, NEW N, NEW t \in Txn, StartScan(t)
    PROVE  ScanSees(N, t)'
  <1>1. PICK s, p, todo :
           /\ s = Head(program[t].todo) /\ p = s.where
           /\ todo \in IF p.keys = {} THEN {SeqScanned} ELSE IndexScanned(p.keys)
           /\ Goto(t, [do |-> "scan", stmt |-> s, todo |-> todo, got |-> <<>>, rows |-> <<>>])
    BY DEF StartScan
  <1>2. p \in Predicate
    <2>1. s \in Command /\ s.kind \in {"select", "update", "delete"}
      BY <1>1, TodoType DEF StartScan
    <2>2. s \in Scanning
      BY <2>1, CommandFields
    <2> QED
      BY <1>1, <2>2, ScanningFields
  <1>3. UNCHANGED <<heap, undo_link, index>> /\ txn_map'[t].read_ts = txn_map[t].read_ts
    <2>1. t \in DOMAIN txn_map /\ txn_map[t] \in Transaction
      BY RunsIsActive, TransactionFields DEF StartScan
    <2> QED
      BY <2>1 DEF StartScan, table, Transaction
  <1>4. PICK S, V : S = Selection(N, t, p) /\ V = Views(N, t)
    OBVIOUS
  <1>5. Pending(todo, <<>>, S, V)
    <2>1. /\ \A i, j \in DOMAIN todo : todo[i] = todo[j] => i = j
          /\ \A r \in S : \E i \in DOMAIN todo : todo[i] = r
      BY <1>1, <1>2, <1>4, SelectionAll
    <2> QED
      BY <2>1, PendingStart
  <1>6. Selection(N, t, p)' = S /\ Views(N, t)' = V
    BY <1>3, <1>4, SameSelection
  <1>7. /\ at'[t].do = "scan" /\ at'[t].stmt = s /\ at'[t].todo = todo /\ at'[t].got = <<>>
        /\ at'[t].rows = <<>>
    BY <1>1, GotoMoves
  <1>8. Pending(todo, <<>>, Selection(N, t, p)', Views(N, t)')
    BY <1>5, <1>6
  <1> QED
    BY <1>1, <1>7, <1>8 DEF ScanSees

-----------------------------------------------------------------------------
\* A row has been visited: what is found of it is what t sees of it.
LEMMA VisitedSees ==
    ASSUME TypeOK, WatermarkInv, RowsKnown, ChainInv, KeysInv, GetWatermark >= 1,
           NEW N, Told(N), NEW t \in Txn, at[t].do = "scan", at[t].todo # <<>>, ScanSees(N, t),
           UNCHANGED <<heap, undo_link, index, txn_map>>,
           NEW r, r = Head(at[t].todo), NEW ver,
           Visible(t, ver) = IF See(N, t, r) = Absent THEN {} ELSE {Seen(N, t, r)},
           at'[t].do = "scan", at'[t].stmt = at[t].stmt, at'[t].got = <<>>,
           at'[t].todo = Tail(at[t].todo), at'[t].rows = Found(t, r, ver)
    PROVE  ScanSees(N, t)'
  <1>1. Runs(t) /\ t \in DOMAIN txn_map /\ Active(t)
    BY RunsIsActive DEF KeysInv, Works
  <1>2. PICK s, p, S, V : /\ s = at[t] /\ p = s.stmt.where
                          /\ S = Selection(N, t, p) /\ V = Views(N, t)
    OBVIOUS
  <1>3. /\ s \in Scan /\ s.todo \in Seq(Rid) /\ s.rows \in Seq(Located) /\ r \in DOMAIN heap
        /\ r \in Rid
    BY <1>2, ScanFields, HeapDomain
  <1>4. PICK v, y : v = See(N, t, r) /\ y = Seen(N, t, r)
    OBVIOUS
  <1>5. v # Absent => y \in Tuple
    BY <1>1, <1>3, <1>4, SeeValue
  <1>6. v # Absent => Indexed(r)
    BY <1>1, <1>3, <1>4, OrphanUnseen DEF KeysInv, RowsIndexed
  <1>7. r \in S <=> v # Absent /\ y \in p.holds
    BY <1>2, <1>3, <1>4, <1>6 DEF Selection
  <1>8. V[r] = y
    BY <1>2, <1>3, <1>4 DEF Views
  <1>9. PICK more : more = Found(t, r, ver)
    OBVIOUS
  <1>10. /\ v # Absent /\ y \in p.holds => more = Append(s.rows, [rid |-> r, tuple |-> y])
         /\ ~(v # Absent /\ y \in p.holds) => more = s.rows
    <2>1. PICK seen : seen = Visible(t, ver) \cap p.holds
      OBVIOUS
    <2>2. more = s.rows \o IF seen = {} THEN <<>>
                           ELSE <<[rid |-> r, tuple |-> CHOOSE z \in seen : TRUE]>>
      BY <1>2, <1>9, <2>1 DEF Found
    <2>3. CASE v # Absent /\ y \in p.holds
      <3>1. seen = {y}
        BY <1>4, <2>1, <2>3
      <3>2. PICK x : x = [rid |-> r, tuple |-> y]
        OBVIOUS
      <3>3. x \in Located
        BY <1>3, <1>5, <2>3, <3>2 DEF Located
      <3>4. more = s.rows \o <<x>>
        BY <2>2, <3>1, <3>2
      <3>5. more = Append(s.rows, x)
        BY <1>3, <3>3, <3>4, AppendIsConcat
      <3> QED
        BY <2>3, <3>2, <3>5
    <2>4. CASE ~(v # Absent /\ y \in p.holds)
      <3>1. seen = {}
        BY <1>4, <2>1, <2>4
      <3>2. more = s.rows
        BY <1>3, <2>2, <3>1, ConcatEmptySeq
      <3> QED
        BY <2>4, <3>2
    <2> QED
      BY <2>3, <2>4
  <1>11. Pending(s.todo, s.rows, S, V)
    BY <1>2 DEF ScanSees
  <1>12. PICK rest : rest = Tail(s.todo)
    OBVIOUS
  <1>13. Pending(rest, more, S, V)
    <2>1. \/ r \notin S /\ more = s.rows
          \/ /\ r \in S /\ r \in Rid /\ V[r] \in Tuple
             /\ more = Append(s.rows, [rid |-> r, tuple |-> V[r]])
      BY <1>3, <1>5, <1>7, <1>8, <1>10
    <2>2. s.todo # <<>> /\ r = Head(s.todo)
      BY <1>2
    <2> QED
      BY <1>3, <1>11, <1>12, <2>1, <2>2, PendingNext
  <1>14. Selection(N, t, p)' = S /\ Views(N, t)' = V
    BY <1>2, SameSelection
  <1>15. at'[t].todo = rest /\ at'[t].rows = more /\ at'[t].stmt.where = p
    BY <1>2, <1>9, <1>12
  <1>16. Pending(rest, more, Selection(N, t, p)', Views(N, t)')
    BY <1>13, <1>14
  <1> QED
    BY <1>15, <1>16 DEF ScanSees

LEMMA VisitSees ==
    ASSUME TypeOK, WatermarkInv, RowsKnown, ChainInv, KeysInv, GetWatermark >= 1,
           NEW N, Told(N), NEW t \in Txn, ScanSees(N, t), Visit(t)
    PROVE  ScanSees(N, t)'
  <1>1. /\ at[t].do = "scan" /\ at[t].got = <<>> /\ at[t].todo # <<>>
        /\ UNCHANGED <<heap, undo_link, index, txn_map>>
    BY DEF Visit, table
  <1>2. Runs(t) /\ t \in DOMAIN txn_map /\ Active(t)
    BY <1>1, RunsIsActive DEF KeysInv, Works
  <1>3. PICK s, r, ts : s = at[t] /\ r = Head(s.todo) /\ ts = txn_map[t].read_ts
    OBVIOUS
  <1>4. s \in Scan /\ r \in DOMAIN heap
    BY <1>1, <1>3, ScanFields
  <1>5. ts \in Nat /\ ts >= GetWatermark /\ GetWatermark \in Nat
    BY <1>2, <1>3, ReadersAbove
  <1>6. /\ Base(r) \in Version /\ Base(r).ts = heap[r].ts /\ Base(r).link = undo_link[r]
        /\ Base(r).tuple.id = heap[r].tuple.id /\ Content(Base(r)) = Content(heap[r])
        /\ heap[r].ts \in Nat
    BY <1>4, RowType, BaseContent, SMTT(30) DEF Base
  <1>7. PICK next : Goto(t, next)
          /\ \/ next = [s EXCEPT !.todo = Tail(@), !.rows = Found(t, r, Base(r))]
             \/ /\ heap[r].ts # t /\ ~(heap[r].ts <= ts) /\ IsValid(undo_link[r])
                /\ next = [s EXCEPT !.got = <<Base(r)>>]
    BY <1>3, <1>6 DEF Visit, Own
  <1>8. at'[t] = next
    BY <1>7, GotoMoves
  <1>9. CASE next = [s EXCEPT !.todo = Tail(@), !.rows = Found(t, r, Base(r))]
    <2>1. /\ next.do = "scan" /\ next.stmt = s.stmt /\ next.got = <<>>
          /\ next.todo = Tail(s.todo) /\ next.rows = Found(t, r, Base(r))
      BY <1>1, <1>3, <1>4, <1>9 DEF Scan
    <2>2. Visible(t, Base(r)) = IF See(N, t, r) = Absent THEN {} ELSE {Seen(N, t, r)}
      BY <1>2, <1>4, VisibleIs
    <2>3. PICK ver : ver = Base(r)
      OBVIOUS
    <2> QED
      BY <1>1, <1>3, <1>8, <2>1, <2>2, <2>3, VisitedSees
  <1>10. CASE /\ heap[r].ts # t /\ ~(heap[r].ts <= ts) /\ IsValid(undo_link[r])
              /\ next = [s EXCEPT !.got = <<Base(r)>>]
    <2>1. /\ next.do = "scan" /\ next.stmt = s.stmt /\ next.got[1] = Base(r)
          /\ next.todo = s.todo /\ next.rows = s.rows
      BY <1>1, <1>3, <1>4, <1>10 DEF Scan
    <2>2. heap[r].ts > ts /\ heap[r].ts > GetWatermark
      BY <1>5, <1>6, <1>10
    <2>3. Leads(N, undo_link[r], r, Content(heap[r]))
      BY <1>4, <1>10, <2>2 DEF Told, RowLeads
    <2>4. LogAt(undo_link[r]).ts < heap[r].ts
      <3>1. undo_link[r].txn \in DOMAIN txn_map
        BY <2>3 DEF Told, Leads
      <3> QED
        BY <1>4, <3>1 DEF ChainInv, VersionsOrdered, Exists
    <2>5. Indexed(r)
      BY <1>4, <1>10 DEF KeysInv, RowsIndexed, Orphan, IsValid, InvalidLink
    <2>6. N[undo_link[r]].past[ts] = Answer(N, r, ts)
      BY <1>10 DEF Answer, AnswerOf
    <2>7. Following(N, t, Base(r), r, ts)
      BY <1>6, <1>10, <2>2, <2>3, <2>4, <2>5, <2>6 DEF Following
    <2>8. ASSUME NEW x, NEW q, NEW u, x = next.got[1], q = Head(next.todo), u = txn_map'[t].read_ts
          PROVE  Following(N, t, x, q, u)'
      <3>1. x = Base(r) /\ q = r /\ u = ts
        BY <1>1, <1>3, <2>1, <2>8
      <3>2. Following(N, t, x, q, u)
        BY <2>7, <3>1
      <3>3. Following(N, t, x, q, u)' <=> Following(N, t, x, q, u)
        BY <1>1 DEF Following, Leads, Answer, AnswerOf, LogAt, Indexed
      <3> QED
        BY <3>2, <3>3
    <2>9. PICK p : p = s.stmt.where
      OBVIOUS
    <2>10. Selection(N, t, p)' = Selection(N, t, p) /\ Views(N, t)' = Views(N, t)
      BY <1>1, SameSelection
    <2>11. Pending(s.todo, s.rows, Selection(N, t, p), Views(N, t))
      BY <1>1, <1>3, <2>9 DEF ScanSees
    <2>12. Pending(next.todo, next.rows, Selection(N, t, p)', Views(N, t)')
      BY <2>1, <2>10, <2>11
    <2>13. next.stmt.where = p
      BY <2>1, <2>9
    <2> QED
      BY <1>8, <2>8, <2>12, <2>13 DEF ScanSees
  <1> QED
    BY <1>7, <1>9, <1>10

LEMMA CollectSees ==
    ASSUME TypeOK, WatermarkInv, RowsKnown, ChainInv, KeysInv, GetWatermark >= 1,
           NEW N, Told(N), NEW t \in Txn, ScanSees(N, t), Collect(t)
    PROVE  ScanSees(N, t)'
  <1>1. /\ at[t].do = "scan" /\ at[t].got # <<>>
        /\ UNCHANGED <<heap, undo_link, index, txn_map>>
    BY DEF Collect, table
  <1>2. Runs(t) /\ t \in DOMAIN txn_map /\ Active(t)
    BY <1>1, RunsIsActive DEF KeysInv, Works
  <1>3. PICK s, r, ts, ver : /\ s = at[t] /\ r = Head(s.todo) /\ ts = txn_map[t].read_ts
                             /\ ver = s.got[1]
    OBVIOUS
  <1>4. s \in Scan /\ r \in DOMAIN heap /\ s.todo # <<>> /\ ver \in Version
    BY <1>1, <1>3, ScanFields
  <1>5. ts \in Nat /\ ts >= GetWatermark /\ GetWatermark \in Nat
    BY <1>2, <1>3, ReadersAbove
  <1>6. Following(N, t, ver, r, ts)
    BY <1>1, <1>3 DEF ScanSees
  <1>7. PICK l : l = ver.link
    OBVIOUS
  <1>8. /\ l \in DOMAIN N /\ Leads(N, l, r, Content(ver)) /\ LogAt(l).ts < ver.ts
        /\ ver.ts > ts /\ ver.ts # t /\ heap[r].ts # t /\ ver.tuple.id = heap[r].tuple.id
        /\ IsValid(l) /\ N[l].past[ts] = Answer(N, r, ts)
    BY <1>6, <1>7 DEF Following, Leads
  <1>9. Known(l)
    <2>1. l.txn \in DOMAIN txn_map /\ l.idx \in DOMAIN txn_map[l.txn].undo_logs
      BY <1>8 DEF Told
    <2>2. l.txn < next_txn_id
      BY <2>1 DEF WatermarkInv, IdsIssued
    <2> QED
      BY <2>1, <2>2 DEF Known
  <1>10. Stands(N, r, ver)
    BY <1>4, <1>7, <1>8, <1>9 DEF Stands
  <1>11. Finds(N, r, ver, ts)
    BY <1>5, <1>10, AsOfAnswer
  <1>12. PICK a : a = AnswerOf(N, ver.ts, Content(ver), ver.link, ts)
    OBVIOUS
  <1>13. a = Answer(N, r, ts)
    <2>1. ~(ver.ts <= ts)
      BY <1>4, <1>5, <1>8 DEF Version
    <2> QED
      BY <1>7, <1>8, <1>12, <2>1 DEF AnswerOf
  <1>14. See(N, t, r) = a.v
    BY <1>3, <1>8, <1>13 DEF See
  <1>15. {y.tuple : y \in {z \in AsOf(ver, ts) : ~z.deleted}} =
            IF a.v = Absent THEN {} ELSE {[id |-> heap[r].tuple.id, v |-> a.v]}
    BY <1>11, <1>12, FindsVisible
  <1>16. Visible(t, ver) = {y.tuple : y \in {z \in AsOf(ver, ts) : ~z.deleted}}
    BY <1>3, <1>8 DEF Visible, Own
  <1>17. Visible(t, ver) = IF See(N, t, r) = Absent THEN {} ELSE {Seen(N, t, r)}
    BY <1>14, <1>15, <1>16 DEF Seen
  <1>18. PICK next : /\ Goto(t, next)
                     /\ next = [s EXCEPT !.todo = Tail(@), !.got = <<>>, !.rows = Found(t, r, ver)]
    BY <1>3 DEF Collect
  <1>19. /\ next.do = "scan" /\ next.stmt = s.stmt /\ next.got = <<>>
         /\ next.todo = Tail(s.todo) /\ next.rows = Found(t, r, ver)
    BY <1>1, <1>3, <1>4, <1>18 DEF Scan
  <1>20. at'[t] = next
    BY <1>18, GotoMoves
  <1> QED
    BY <1>1, <1>3, <1>4, <1>17, <1>19, <1>20, VisitedSees

-----------------------------------------------------------------------------
(* What the steps of others do to a scan. *)

\* A step of u changes no row that another transaction has written or will have written by it.
RowsOf(u) ==
    \A r \in DOMAIN heap :
        \/ heap'[r] = heap[r]
        \/ \A t \in Txn : t # u => heap[r].ts # t /\ heap'[r].ts # t

LEMMA SameRowsOf == ASSUME NEW u, UNCHANGED heap PROVE RowsOf(u)
  BY DEF RowsOf

LEMMA ModifyTupleRows ==
    ASSUME TypeOK, WatermarkInv, NEW u \in DOMAIN txn_map, Active(u), NEW r, NEW target, NEW dead,
           NEW next, ModifyTuple(u, r, target, dead, next)
    PROVE  RowsOf(u)
  <1>1. CASE Conflicts(u, r, dead)
    BY <1>1, SameRowsOf DEF ModifyTuple, ThrowWriteConflict, table
  <1>2. CASE ~Conflicts(u, r, dead)
    <2>1. PICK row : row.ts = u /\ heap' = [heap EXCEPT ![r] = row]
      <3>1. PICK row : /\ row = [tuple |-> IF target = Deleted THEN heap[r].tuple ELSE target,
                                 ts |-> u, deleted |-> target = Deleted]
                       /\ heap' = [heap EXCEPT ![r] = row]
        BY <1>2 DEF ModifyTuple
      <3>2. row.ts = u
        BY <3>1
      <3> QED
        BY <3>1, <3>2
    <2>2. ASSUME NEW s \in DOMAIN heap, heap'[s] # heap[s], NEW t \in Txn, t # u
          PROVE  heap[s].ts # t /\ heap'[s].ts # t
      <3>1. s = r /\ heap'[s].ts = u
        BY <2>1, <2>2
      <3>2. heap[r].ts = u \/ ~(heap[r].ts > txn_map[u].read_ts)
        BY <1>2 DEF Conflicts
      <3>3. txn_map[u].read_ts \in Nat /\ txn_map[u].read_ts <= last_commit_ts
        BY ReadersAbove
      <3>4. heap[r].ts \in Nat /\ last_commit_ts \in Nat
        BY <2>2, <3>1, RowType DEF TypeOK
      <3>5. heap[r].ts = u \/ heap[r].ts \notin Txn
        BY <3>2, <3>3, <3>4, CommitIsNoTxn
      <3> QED
        BY <2>2, <3>1, <3>5
    <2> QED
      BY <2>2 DEF RowsOf
  <1> QED
    BY <1>1, <1>2

LEMMA StepRowsOf ==
    ASSUME TypeOK, WatermarkInv, RowsKnown, ChainInv, NEW u \in Txn,
           Begin(u) \/ Statement(u) \/ Write(u) \/ Join(u) \/ Commit(u) \/ Abort(u)
    PROVE  RowsOf(u)
  <1>1. BusyActive
    BY DEF WatermarkInv
  <1>2. UNCHANGED heap => RowsOf(u)
    BY SameRowsOf
  <1>3. last_commit_ts \in Nat /\ last_commit_ts + 1 \in Nat
    BY DEF TypeOK
  <1>4. CASE Begin(u)
    BY <1>2, <1>4, SMTT(30) DEF Begin, table
  <1>5. CASE Statement(u)
    BY <1>2, <1>5 DEF Statement, StartScan, Visit, Collect, EndScan, StartInsert, table
  <1>6. CASE Write(u)
    <2>1. CASE Modify(u)
      <3>1. u \in DOMAIN txn_map /\ Active(u)
        BY <1>1, <2>1, AtWork DEF Modify
      <3> QED
        BY <2>1, <3>1, ModifyTupleRows DEF Modify
    <2>2. CASE Revive(u)
      <3>1. u \in DOMAIN txn_map /\ Active(u)
        BY <1>1, <2>2, AtWork DEF Revive
      <3> QED
        BY <2>2, <3>1, ModifyTupleRows DEF Revive
    <2>3. CASE AppendRow(u)
      <3>1. u \in DOMAIN txn_map
        BY <1>1, <2>3, AtWork DEF AppendRow
      <3>2. \A r \in DOMAIN heap : heap'[r] = heap[r]
        BY <2>3, <3>1, Appended
      <3> QED
        BY <3>2 DEF RowsOf
    <2>4. CASE LookUpKey(u)
      BY <1>2, <2>4 DEF LookUpKey, table
    <2>5. CASE EnterKey(u)
      BY <1>2, <2>5 DEF EnterKey, ThrowWriteConflict, table
    <2> QED
      BY <1>6, <2>1, <2>2, <2>3, <2>4, <2>5 DEF Write
  <1>7. CASE Join(u)
    BY <1>2, <1>7 DEF Join, StartJoin, JoinRead, EndJoin, table
  <1>8. CASE StampRow(u)
    <2>1. PICK r \in DOMAIN heap :
             /\ \A s \in DOMAIN heap : s # r \/ heap[s].ts # u => heap'[s] = heap[s]
             /\ heap[r].ts = u => heap'[r].ts = last_commit_ts + 1
      BY <1>8, Stamped
    <2>2. last_commit_ts + 1 \notin Txn
      BY <1>3, CommitIsNoTxn
    <2> QED
      BY <2>1, <2>2 DEF RowsOf
  <1>9. CASE RestoreRow(u)
    <2>1. PICK r \in DOMAIN heap :
             /\ \A s \in DOMAIN heap : s # r \/ heap[s].ts # u => heap'[s] = heap[s]
             /\ heap[r].ts = u => heap'[r].ts \in Nat /\ heap'[r].ts <= last_commit_ts
      BY <1>1, <1>9, Unwritten
    <2>2. heap[r].ts = u => heap'[r].ts \notin Txn
      BY <1>3, <2>1, CommitIsNoTxn
    <2> QED
      BY <2>1, <2>2 DEF RowsOf
  <1>10. CASE StartCommit(u) \/ Fetch(u) \/ VerifyRow(u) \/ EndCommit(u)
    BY <1>2, <1>10 DEF StartCommit, Fetch, VerifyRow, EndCommit, table
  <1>11. CASE StartAbort(u) \/ EndAbort(u)
    BY <1>2, <1>11 DEF StartAbort, EndAbort, table
  <1> QED
    BY <1>4, <1>5, <1>6, <1>7, <1>8, <1>9, <1>10, <1>11 DEF Commit, Abort

LEMMA RowsHaveKeys ==
    TypeOK => \A q \in DOMAIN heap : q # NoRid /\ heap[q].tuple.id \in Key
  BY IndexedFacts

\* The index never takes a key back, and has no row that was not there.
LEMMA StepIndex ==
    ASSUME TypeOK, TypeOK', NEW u \in Txn,
           Begin(u) \/ Statement(u) \/ Write(u) \/ Join(u) \/ Commit(u) \/ Abort(u)
    PROVE  IndexGrows /\ \A r \in DOMAIN heap' : Indexed(r)' => r \in DOMAIN heap
  <1>1. CASE EnterKey(u)
    <2>1. UNCHANGED heap
      BY <1>1 DEF EnterKey, ThrowWriteConflict, table
    <2>2. PICK k : k = Head(at[u].rows).id
      OBVIOUS
    <2>3. \/ UNCHANGED index
          \/ index[k] = NoRid /\ index' = [index EXCEPT ![k] = at[u].rid]
      <3>1. CASE index[k] # NoRid
        <4>1. ThrowWriteConflict(u)
          BY <1>1, <2>2, <3>1 DEF EnterKey
        <4>2. UNCHANGED table
          BY <4>1 DEF ThrowWriteConflict
        <4>3. UNCHANGED index
          BY <4>2 DEF table
        <4> QED
          BY <4>3
      <3>2. CASE index[k] = NoRid
        BY <1>1, <2>2, <3>2 DEF EnterKey
      <3> QED
        BY <3>1, <3>2
    <2>4. IndexGrows
      BY <2>3 DEF IndexGrows, TypeOK
    <2> QED
      BY <2>1, <2>4
  <1>2. CASE ~EnterKey(u)
    <2>1. UNCHANGED index
      BY <1>2, StepsOnly
    <2>2. ASSUME NEW r \in DOMAIN heap', Indexed(r)' PROVE r \in DOMAIN heap
      <3>1. r # NoRid /\ heap'[r].tuple.id \in Key
        <4>1. (TypeOK => \A q \in DOMAIN heap : q # NoRid /\ heap[q].tuple.id \in Key)'
          BY RowsHaveKeys, PTL
        <4> QED
          BY <2>2, <4>1
      <3>2. index[heap'[r].tuple.id] = r
        BY <2>1, <2>2 DEF Indexed
      <3> QED
        BY <3>1, <3>2 DEF TypeOK
    <2>3. IndexGrows
      BY <2>1 DEF IndexGrows
    <2> QED
      BY <2>2, <2>3
  <1> QED
    BY <1>1, <1>2

LEMMA OthersUndisturbed ==
    ASSUME TypeOK, TypeOK', WatermarkInv, RowsKnown, ChainInv, NEW u \in Txn,
           Begin(u) \/ Statement(u) \/ Write(u) \/ Join(u) \/ Commit(u) \/ Abort(u),
           NEW t \in DOMAIN txn_map, t # u
    PROVE  Undisturbed(t) /\ at'[t] = at[t]
  <1>1. t \in Txn
    BY TransactionFields
  <1>2. OnlyOf(u)
    BY StepsOnly
  <1>3. RowsOf(u)
    BY StepRowsOf
  <1>4. IndexGrows /\ \A r \in DOMAIN heap' : Indexed(r)' => r \in DOMAIN heap
    BY StepIndex
  <1>5. \A r \in DOMAIN heap : /\ heap'[r].ts = t <=> heap[r].ts = t
                               /\ heap[r].ts = t => heap'[r] = heap[r]
    BY <1>1, <1>3 DEF RowsOf
  <1> QED
    BY <1>1, <1>2, <1>4, <1>5 DEF Undisturbed, OnlyOf

-----------------------------------------------------------------------------
(* The scans after a step. *)

LEMMA RestNoScan == ASSUME NEW mods, NEW rows PROVE Rest(mods, rows).do # "scan"
  BY DEF Rest, Idle

LEMMA ModifyTupleNoScan ==
    ASSUME TypeOK, NEW t \in Txn, NEW r, NEW target, NEW dead, NEW next,
           ModifyTuple(t, r, target, dead, next), next.do # "scan"
    PROVE  at'[t].do # "scan"
  <1>1. Goto(t, Idle) \/ Goto(t, next)
    BY DEF ModifyTuple, ThrowWriteConflict
  <1> QED
    BY <1>1, GotoMoves DEF Idle

\* No other step than those of a statement begins a scan or goes on with one.
LEMMA NoScan ==
    ASSUME TypeOK, WatermarkInv, RowsKnown, ChainInv, NEW t \in Txn,
           \/ Write(t) \/ Join(t) \/ Commit(t) \/ Abort(t)
           \/ EndScan(t) \/ StartInsert(t)
    PROVE  at'[t].do # "scan"
  <1>1. BusyActive
    BY DEF WatermarkInv
  <1>2. ASSUME NEW next, Goto(t, next), next.do # "scan" PROVE at'[t].do # "scan"
    BY <1>2, GotoMoves
  <1>3. CASE Write(t)
    <2>1. CASE Modify(t)
      <3>1. PICK next : next = Rest(Tail(at[t].mods), at[t].rows) /\ next.do # "scan"
        BY RestNoScan
      <3> QED
        BY <2>1, <3>1, ModifyTupleNoScan DEF Modify
    <2>2. CASE Revive(t)
      <3>1. PICK next : next = NextRow(t) /\ next.do # "scan"
        BY RestNoScan DEF NextRow
      <3> QED
        BY <2>2, <3>1, ModifyTupleNoScan DEF Revive
    <2>3. CASE LookUpKey(t)
      <3>1. PICK next, r : /\ Goto(t, next)
                           /\ next = [do |-> IF r = NoRid THEN "append" ELSE "revive", rid |-> r,
                                      rows |-> at[t].rows]
        BY <2>3 DEF LookUpKey
      <3>2. next.do # "scan"
        BY <3>1
      <3> QED
        BY <1>2, <3>1, <3>2
    <2>4. CASE AppendRow(t)
      <3>1. PICK next, s : /\ Goto(t, next) /\ s = at[t]
                           /\ next = [s EXCEPT !.do = "enter", !.rid = Len(heap) + 1]
        BY <2>4 DEF AppendRow
      <3>2. s \in Place
        BY <2>4, <3>1, StepFields DEF AppendRow, TypeOK
      <3>3. next.do # "scan"
        BY <3>1, <3>2 DEF Place
      <3> QED
        BY <1>2, <3>1, <3>3
    <2>5. CASE EnterKey(t)
      <3>1. Goto(t, Idle) \/ Goto(t, NextRow(t))
        BY <2>5 DEF EnterKey, ThrowWriteConflict
      <3>2. NextRow(t).do # "scan" /\ Idle.do # "scan"
        BY RestNoScan DEF NextRow, Idle
      <3> QED
        BY <1>2, <3>1, <3>2
    <2> QED
      BY <1>3, <2>1, <2>2, <2>3, <2>4, <2>5 DEF Write
  <1>4. CASE Join(t)
    BY <1>2, <1>4 DEF Join, StartJoin, JoinRead, EndJoin, Idle
  <1>5. CASE Commit(t)
    <2>1. CASE StartCommit(t)
      BY <1>2, <2>1 DEF StartCommit, Verifying
    <2>2. CASE Fetch(t)
      BY <1>2, <2>2 DEF Fetch
    <2>3. CASE VerifyRow(t)
      BY <1>2, <2>3 DEF VerifyRow, Verifying
    <2>4. CASE StampRow(t)
      BY <1>2, <2>4, Stamped
    <2>5. CASE EndCommit(t)
      BY <1>2, <2>5 DEF EndCommit, Idle
    <2> QED
      BY <1>5, <2>1, <2>2, <2>3, <2>4, <2>5 DEF Commit
  <1>6. CASE Abort(t)
    <2>1. CASE StartAbort(t)
      BY <1>2, <2>1 DEF StartAbort
    <2>2. CASE RestoreRow(t)
      BY <1>1, <1>2, <2>2, Unwritten
    <2>3. CASE EndAbort(t)
      BY <1>2, <2>3 DEF EndAbort, Idle
    <2> QED
      BY <1>6, <2>1, <2>2, <2>3 DEF Abort
  <1>7. CASE EndScan(t)
    <2>1. PICK mods, rows : Goto(t, Rest(mods, rows))
      BY <1>7 DEF EndScan
    <2> QED
      BY <1>2, <2>1, RestNoScan, SMTT(30)
  <1>8. CASE StartInsert(t)
    BY <1>2, <1>8, RestNoScan DEF StartInsert
  <1> QED
    BY <1>3, <1>4, <1>5, <1>6, <1>7, <1>8

-----------------------------------------------------------------------------
ScannersRead ==
    \A t \in Txn : at[t].do = "scan" =>
        t \in DOMAIN txn_map /\ txn_map[t].read_ts >= GetWatermark

LEMMA ScannersAbove == TypeOK /\ WatermarkInv => ScannersRead
  <1> SUFFICES ASSUME TypeOK, WatermarkInv, NEW t \in Txn, at[t].do = "scan"
               PROVE  t \in DOMAIN txn_map /\ txn_map[t].read_ts >= GetWatermark
    BY DEF ScannersRead
  <1>1. Active(t) /\ t \in DOMAIN txn_map
    BY AtWork DEF WatermarkInv
  <1> QED
    BY <1>1, ReadersAbove

\* The scans of the transactions other than the one that takes a step.
LEMMA OthersScan ==
    ASSUME IInv, IInv', KeysInv, NEW N, Told(N), NEW M, Goes(N, M), NEW u \in Txn,
           Begin(u) \/ Statement(u) \/ Write(u) \/ Join(u) \/ Commit(u) \/ Abort(u),
           NEW t \in Txn, t # u, ScanSees(N, t)
    PROVE  ScanSees(M, t)'
  <1>1. /\ TypeOK /\ TypeOK' /\ WatermarkInv /\ RowsKnown /\ ChainInv
        /\ (TypeOK /\ WatermarkInv)'
    BY DEF IInv
  <1>2. at'[t] = at[t]
    BY <1>1, StepsOnly DEF OnlyOf
  <1>3. CASE at[t].do # "scan"
    BY <1>2, <1>3 DEF ScanSees
  <1>4. CASE at[t].do = "scan"
    <2>1. t \in DOMAIN txn_map
      BY <1>1, <1>4, ScannersAbove DEF ScannersRead
    <2>2. Undisturbed(t)
      BY <1>1, <2>1, OthersUndisturbed
    <2>3. (TypeOK /\ WatermarkInv => ScannersRead)'
      BY ScannersAbove, PTL
    <2>4. txn_map'[t].read_ts >= GetWatermark'
      BY <1>1, <1>2, <1>4, <2>3 DEF ScannersRead
    <2>5. txn_map[t].read_ts >= GetWatermark'
      BY <2>2, <2>4 DEF Undisturbed
    <2>6. GarbageCollection \/ Extends(N, M)
      BY DEF Goes
    <2> QED
      BY <1>1, <1>2, <2>2, <2>5, <2>6, ScanOn
  <1> QED
    BY <1>3, <1>4

\* The scans of all transactions after a step.
LEMMA ScansStep ==
    ASSUME IInv, IInv', KeysInv, GetWatermark >= 1, NEW N, Told(N),
           \A t \in Txn : ScanSees(N, t), [Next]_vars
    PROVE  \E M : Goes(N, M) /\ \A t \in Txn : ScanSees(M, t)'
  <1>1. /\ TypeOK /\ WatermarkInv /\ RowsKnown /\ ChainInv /\ BusyActive /\ IdsIssued
    BY DEF IInv, WatermarkInv
  <1>2. GetWatermark \in Nat /\ GetWatermark' \in Nat /\ GetWatermark <= GetWatermark'
    BY WatermarkGrows
  <1>3. ASSUME NEW u \in Txn, StartScan(u) \/ Visit(u) \/ Collect(u)
        PROVE  \E M : Goes(N, M) /\ \A t \in Txn : ScanSees(M, t)'
    <2>1. Statement(u)
      BY <1>3 DEF Statement
    <2>2. StillChains /\ DOMAIN txn_map' = DOMAIN txn_map
      BY <1>1, <2>1, StatementStill, StatementQuiet DEF Quiet
    <2>3. Goes(N, N)
      BY <1>1, <1>2, <2>2, StillGoes DEF StillChains, ChainInv, LogsStay
    <2>4. ScanSees(N, u)'
      BY <1>1, <1>3, StartScanSees, VisitSees, CollectSees
    <2>5. \A t \in Txn : t # u => ScanSees(N, t)'
      BY <2>1, <2>3, OthersScan
    <2> QED
      BY <2>3, <2>4, <2>5
  <1>4. ASSUME NEW u \in Txn,
               \/ Begin(u) \/ Write(u) \/ Join(u) \/ Commit(u) \/ Abort(u)
               \/ EndScan(u) \/ StartInsert(u)
        PROVE  \E M : Goes(N, M) /\ \A t \in Txn : ScanSees(M, t)'
    <2>1. Begin(u) \/ Statement(u) \/ Write(u) \/ Join(u) \/ Commit(u) \/ Abort(u)
      BY <1>4 DEF Statement
    <2>2. PICK M : Goes(N, M)
      BY ToldStep
    <2>3. at'[u].do # "scan"
      <3>1. CASE Begin(u)
        <4>1. u = next_txn_id /\ at'[u] = at[u] /\ u \in Nat
          BY <3>1, TxnFacts DEF Begin
        <4>2. u \notin DOMAIN txn_map
          BY <1>1, <4>1, TransactionFields, TxnFacts DEF IdsIssued
        <4> QED
          BY <1>1, <4>1, <4>2, AtWork
      <3> QED
        BY <1>1, <1>4, <3>1, NoScan
    <2>4. ScanSees(M, u)'
      BY <2>3 DEF ScanSees
    <2>5. \A t \in Txn : t # u => ScanSees(M, t)'
      BY <2>1, <2>2, OthersScan
    <2> QED
      BY <2>2, <2>4, <2>5
  <1>5. CASE GarbageCollection
    <2>1. PICK M : Goes(N, M)
      BY ToldStep
    <2>2. \A t \in Txn : at'[t] = Idle
      BY <1>5 DEF GarbageCollection
    <2>3. \A t \in Txn : at'[t].do # "scan"
      BY <2>2 DEF Idle
    <2> QED
      BY <2>1, <2>3 DEF ScanSees
  <1>6. CASE UNCHANGED vars
    <2>1. PICK M : Goes(N, M)
      BY ToldStep
    <2>2. /\ UNCHANGED <<heap, undo_link, index, txn_map, at>> /\ GetWatermark' = GetWatermark
      <3>1. UNCHANGED <<heap, undo_link, index, txn_map, at, running_txns>>
        BY <1>6 DEF vars, table
      <3> QED
        BY <3>1 DEF GetWatermark
    <2>3. ASSUME NEW t \in Txn PROVE ScanSees(M, t)'
      <3>1. CASE at[t].do # "scan"
        BY <2>2, <3>1 DEF ScanSees
      <3>2. CASE at[t].do = "scan"
        <4>1. t \in DOMAIN txn_map /\ txn_map[t].read_ts >= GetWatermark
          BY <1>1, <3>2, ScannersAbove DEF ScannersRead
        <4>2. Undisturbed(t)
          BY <2>2, <4>1 DEF Undisturbed, IndexGrows
        <4>3. GarbageCollection \/ Extends(N, M)
          BY <2>1 DEF Goes
        <4> QED
          BY <1>1, <2>1, <2>2, <4>1, <4>2, <4>3, ScanOn DEF IInv
      <3> QED
        BY <3>1, <3>2
    <2> QED
      BY <2>1, <2>3
  <1> QED
    BY <1>3, <1>4, <1>5, <1>6 DEF Next, Statement

-----------------------------------------------------------------------------
(* The end of a scan. *)

\* What a scanning transaction sees of a key.
LEMMA SeesIs ==
    ASSUME TypeOK, WatermarkInv, ChainInv, GetWatermark >= 1, NEW N, Told(N),
           NEW t \in Txn, at[t].do = "scan", NEW k \in Key
    PROVE  Store!Sees(t, k) = IF index[k] = NoRid THEN Absent ELSE See(N, t, index[k])
  <1>1. Active(t) /\ t \in DOMAIN txn_map /\ InProgress(t)
    BY AtWork DEF WatermarkInv, InProgress
  <1>2. PICK ts \in Nat : ts = txn_map[t].read_ts /\ ts >= GetWatermark
    BY <1>1, ReadersAbove
  <1>3. StoreVersion(k, ts) = IF index[k] = NoRid THEN Nothing ELSE Answer(N, index[k], ts)
    BY <1>2, StoreVersionIs
  <1>4. PICK mine : mine = [j \in {i \in Key : index[i] # NoRid /\ WrittenBy(t, index[i])} |->
                              Content(heap[index[j]])]
    OBVIOUS
  <1>5. PICK snap : snap = [j \in Key |-> StoreVersion(j, ts)]
    OBVIOUS
  <1>6. Store!Sees(t, k) = IF k \in DOMAIN mine THEN mine[k] ELSE snap[k].v
    BY <1>1, <1>2, <1>4, <1>5 DEF Store!Sees
  <1>7. WrittenBy(t, index[k]) <=> heap[index[k]].ts = t
    BY DEF WrittenBy
  <1>8. CASE index[k] = NoRid
    <2>1. k \notin DOMAIN mine /\ snap[k] = Nothing
      BY <1>3, <1>4, <1>5, <1>8
    <2> QED
      BY <1>6, <1>8, <2>1 DEF Nothing
  <1>9. CASE index[k] # NoRid /\ heap[index[k]].ts = t
    <2>1. k \in DOMAIN mine /\ mine[k] = Content(heap[index[k]])
      BY <1>4, <1>7, <1>9
    <2> QED
      BY <1>6, <1>9, <2>1 DEF See
  <1>10. CASE index[k] # NoRid /\ heap[index[k]].ts # t
    <2>1. k \notin DOMAIN mine /\ snap[k] = Answer(N, index[k], ts)
      BY <1>3, <1>4, <1>5, <1>7, <1>10
    <2> QED
      BY <1>2, <1>6, <1>10, <2>1 DEF See
  <1> QED
    BY <1>8, <1>9, <1>10

\* What a drained scan has found.
LEMMA DrainedSees ==
    ASSUME TypeOK, WatermarkInv, RowsKnown, ChainInv, KeysInv, GetWatermark >= 1,
           NEW N, Told(N), NEW t \in Txn, ScanSees(N, t), Drained(t),
           NEW view,
           view = {x \in Tuple : x.v = Store!Sees(t, x.id)} \cap at[t].stmt.where.holds
    PROVE  LET rows == at[t].rows IN
           /\ {rows[i].tuple : i \in DOMAIN rows} = view
           /\ Len(rows) = Cardinality(view)
  <1>1. at[t].do = "scan" /\ at[t].todo = <<>>
    BY DEF Drained
  <1>2. Active(t) /\ t \in DOMAIN txn_map
    BY <1>1, AtWork DEF WatermarkInv
  <1>3. PICK todo, rows, p, S, V : /\ todo = at[t].todo /\ rows = at[t].rows
                                   /\ p = at[t].stmt.where
                                   /\ S = Selection(N, t, p) /\ V = Views(N, t)
    OBVIOUS
  <1>4. rows \in Seq(Located) /\ Pending(todo, rows, S, V) /\ DOMAIN todo = {}
    BY <1>1, <1>3, ScanFields DEF ScanSees
  <1>5. ASSUME NEW r \in S
        PROVE  /\ r \in DOMAIN heap /\ index[V[r].id] = r /\ V[r] \in view
    <2>1. /\ r \in DOMAIN heap /\ Indexed(r) /\ See(N, t, r) # Absent /\ Seen(N, t, r) \in p.holds
      BY <1>3, <1>5 DEF Selection
    <2>2. PICK x, k : x = Seen(N, t, r) /\ k = heap[r].tuple.id
      OBVIOUS
    <2>3. x = V[r] /\ x \in Tuple /\ x.id = k /\ x.v = See(N, t, r)
      BY <1>2, <1>3, <2>1, <2>2, SeeValue DEF Views, Seen
    <2>4. k \in Key /\ index[k] = r /\ r # NoRid
      BY <2>1, <2>2, IndexedFacts DEF Indexed
    <2>5. Store!Sees(t, k) = See(N, t, r)
      BY <1>1, <2>4, SeesIs
    <2> QED
      BY <1>3, <2>1, <2>2, <2>3, <2>4, <2>5
  <1>6. \A q, r \in S : V[q] = V[r] => q = r
    BY <1>5
  <1>7. ASSUME NEW x \in view PROVE \E r \in S : V[r] = x
    <2>1. PICK k, r : k = x.id /\ r = index[k]
      OBVIOUS
    <2>2. x \in Tuple /\ x.v = Store!Sees(t, k) /\ x \in p.holds /\ k \in Key /\ x.v \in Value
      BY <1>3, <1>7, <2>1 DEF Tuple
    <2>3. x.v # Absent
      BY <2>2, BoundsAssumption
    <2>4. r # NoRid /\ x.v = See(N, t, r)
      BY <1>1, <2>1, <2>2, <2>3, SeesIs
    <2>5. r \in DOMAIN heap /\ heap[r].tuple.id = k
      BY <2>1, <2>2, <2>4 DEF KeysInv, IndexKeys, TypeOK
    <2>6. Seen(N, t, r) = x
      BY <2>1, <2>2, <2>4, <2>5 DEF Seen, Tuple
    <2>7. r \in S
      BY <1>3, <2>1, <2>2, <2>3, <2>4, <2>5, <2>6 DEF Selection, Indexed
    <2> QED
      BY <1>3, <2>5, <2>6, <2>7 DEF Views
  <1>8. /\ \A i \in DOMAIN rows : rows[i].tuple \in view
        /\ \A x \in view : \E i \in DOMAIN rows : rows[i].tuple = x
        /\ Len(rows) = Cardinality(view)
    <2>1. /\ \A i \in DOMAIN rows : rows[i].rid \in S /\ rows[i].tuple = V[rows[i].rid]
          /\ \A r \in S : \E i \in DOMAIN rows : rows[i].rid = r
      BY <1>4 DEF Pending
    <2>2. /\ \A i \in DOMAIN rows : rows[i].tuple \in view
          /\ \A x \in view : \E i \in DOMAIN rows : rows[i].tuple = x
      BY <1>5, <1>7, <2>1
    <2>3. /\ \A r \in S : V[r] \in view
          /\ \A x \in view : \E r \in S : V[r] = x
      BY <1>5, <1>7
    <2>4. Len(rows) = Cardinality(view)
      BY <1>4, <1>6, <2>3, PendingEnd
    <2> QED
      BY <2>2, <2>4
  <1>9. PICK found : found = {rows[i].tuple : i \in DOMAIN rows}
    OBVIOUS
  <1>10. found = view
    <2>1. \A x : x \in found <=> x \in view
      BY <1>8, <1>9
    <2> QED
      BY <2>1
  <1> QED
    BY <1>3, <1>8, <1>9, <1>10

LEMMA ScanFoundKeys ==
    ASSUME NEW N, NEW t, ScanSees(N, t)
    PROVE  FoundKeys(at[t])
  <1> SUFFICES ASSUME at[t].do = "scan", NEW i \in DOMAIN at[t].rows
               PROVE  /\ Indexed(at[t].rows[i].rid)
                      /\ at[t].rows[i].tuple.id = heap[at[t].rows[i].rid].tuple.id
    BY DEF FoundKeys
  <1>1. PICK r, x, p : r = at[t].rows[i].rid /\ x = at[t].rows[i].tuple /\ p = at[t].stmt.where
    OBVIOUS
  <1>2. r \in Selection(N, t, p) /\ x = Views(N, t)[r]
    BY <1>1 DEF ScanSees, Pending
  <1>3. r \in DOMAIN heap /\ Indexed(r) /\ x = Seen(N, t, r)
    BY <1>2 DEF Selection, Views
  <1>4. x.id = heap[r].tuple.id
    BY <1>3 DEF Seen
  <1> QED
    BY <1>1, <1>3, <1>4

-----------------------------------------------------------------------------
(* The inductive invariant. *)

\* There is an account N of the past that the undo logs bear out, and by it every scan has found
\* what it should so far.
ReadsInv ==
    /\ GetWatermark >= 1
    /\ KeysInv
    /\ \E N : Told(N) /\ \A t \in Txn : ScanSees(N, t)

LEMMA InitReads == ASSUME Init PROVE ReadsInv
  <1>1. GetWatermark = 1
    BY DEF Init, GetWatermark
  <1>2. \A t \in Txn : at[t].do = "idle"
    BY DEF Init, Idle
  <1>3. /\ DOMAIN Loaded = 1..Len(Loaded) /\ Len(Loaded) \in Nat
        /\ \A r \in DOMAIN Loaded : Loaded[r] \in Tuple
    BY BoundsAssumption, LenProperties, ElementOfSeq
  <1>4. /\ DOMAIN heap = DOMAIN Loaded
        /\ \A r \in DOMAIN heap : heap[r].ts = 1 /\ heap[r].tuple = Loaded[r]
    BY <1>3 DEF Init
  <1>5. \A r \in DOMAIN heap : heap[r].tuple.id \in Key /\ r # NoRid
    BY <1>3, <1>4 DEF Tuple, NoRid
  <1>6. KeysInv
    <2>1. Works
      BY <1>2 DEF Works
    <2>2. Owners
      <3>1. 1 \notin Txn
        BY TxnFacts, BoundsAssumption
      <3> QED
        BY <1>4, <3>1 DEF Owners
    <2>3. \A k \in Key : \/ index[k] = NoRid /\ ~\E r \in DOMAIN Loaded : Loaded[r].id = k
                         \/ index[k] \in DOMAIN Loaded /\ Loaded[index[k]].id = k
      <3> SUFFICES ASSUME NEW k \in Key, NEW r \in DOMAIN Loaded, Loaded[r].id = k
                   PROVE  index[k] \in DOMAIN Loaded /\ Loaded[index[k]].id = k
        BY DEF Init
      <3>1. index[k] = CHOOSE q \in DOMAIN Loaded : Loaded[q].id = k
        BY DEF Init
      <3> QED
        BY <3>1
    <2>4. IndexKeys
      BY <1>4, <2>3 DEF IndexKeys
    <2>5. RowsIndexed
      BY <1>4, <1>5, <2>3, LoadedAssumption DEF RowsIndexed, Indexed
    <2>6. \A t \in Txn : StepKeys(at[t])
      BY <1>2 DEF StepKeys
    <2> QED
      BY <2>1, <2>2, <2>4, <2>5, <2>6 DEF KeysInv
  <1>7. PICK N : N = <<>> /\ DOMAIN N = {}
    OBVIOUS
  <1>8. Told(N)
    BY <1>1, <1>4, <1>7 DEF Told, RowLeads
  <1>9. \A t \in Txn : ScanSees(N, t)
    BY <1>2 DEF ScanSees
  <1> QED
    BY <1>1, <1>6, <1>8, <1>9 DEF ReadsInv

LEMMA NextReads ==
    ASSUME IInv, IInv', ReadsInv, [Next]_vars
    PROVE  ReadsInv'
  <1>1. PICK N : Told(N) /\ \A t \in Txn : ScanSees(N, t)
    BY DEF ReadsInv
  <1>2. GetWatermark >= 1 /\ KeysInv
    BY DEF ReadsInv
  <1>3. GetWatermark \in Nat /\ GetWatermark' \in Nat /\ GetWatermark <= GetWatermark'
    BY WatermarkGrows
  <1>4. PICK M : Goes(N, M) /\ \A t \in Txn : ScanSees(M, t)'
    BY <1>1, <1>2, ScansStep
  <1>5. \A t \in Txn : FoundKeys(at[t])
    BY <1>1, ScanFoundKeys
  <1>6. KeysInv'
    BY <1>2, <1>4, <1>5, KeysStep DEF Goes
  <1>7. GetWatermark' >= 1
    BY <1>2, <1>3
  <1>8. Told(M)'
    BY <1>4 DEF Goes
  <1> QED
    BY <1>4, <1>6, <1>7, <1>8 DEF ReadsInv

LEMMA ReadsSnapshot == IInv /\ ReadsInv => SnapshotReads
  <1> SUFFICES ASSUME IInv, ReadsInv, NEW t \in Txn, Drained(t), NEW view,
                      view = {x \in Tuple : x.v = Store!Sees(t, x.id)} \cap at[t].stmt.where.holds
               PROVE  /\ {at[t].rows[i].tuple : i \in DOMAIN at[t].rows} = view
                      /\ Len(at[t].rows) = Cardinality(view)
    BY DEF SnapshotReads
  <1>1. PICK N : Told(N) /\ \A u \in Txn : ScanSees(N, u)
    BY DEF ReadsInv
  <1> QED
    BY <1>1, DrainedSees DEF ReadsInv, IInv

\* SnapshotReads: what the sequential and index scan executors hand to the rest of a statement is
\* exactly what the transaction's snapshot and own writes hold.
THEOREM MvccSnapshotReads == Spec => []SnapshotReads
  <1>1. Init => ReadsInv
    BY InitReads
  <1>2. IInv /\ IInv' /\ ReadsInv /\ [Next]_vars => ReadsInv'
    BY NextReads
  <1> QED
    BY <1>1, <1>2, ReadsSnapshot, MvccInvariant, PTL DEF Spec

-----------------------------------------------------------------------------
(* Who commits, and what an uncommitted row was. *)

\* One transaction at a time verifies and stamps its rows, under the commit mutex.
Mutex == \A t \in Txn : at[t].do \in {"verify", "stamp"} => commit_mutex = t

\* A row is committed, or in progress, or stamped by the transaction that commits.
Stamps ==
    \A r \in DOMAIN heap :
        \/ heap[r].ts <= last_commit_ts
        \/ heap[r].ts \in Txn
        \/ /\ heap[r].ts = last_commit_ts + 1
           /\ \E t \in Txn : at[t].do = "stamp" /\ r \in txn_map[t].write_set

\* A transaction changes rows as its snapshot has them: before its changes comes the version of
\* its snapshot, or nothing.
OwnBase ==
    \A t \in DOMAIN txn_map, r \in DOMAIN heap : Active(t) /\ WrittenBy(t, r) =>
        \/ undo_link[r] = InvalidLink
        \/ undo_link[r].txn = t /\ LogAt(undo_link[r]).ts <= txn_map[t].read_ts

\* A row that is about to enter the index is its inserter's.
Enterer == \A t \in Txn : at[t].do = "enter" => heap[at[t].rid].ts = t

\* What holds of the rows while transactions commit one after the other.
CommitInv == Mutex /\ Stamps /\ OwnBase /\ Enterer

\* A write ends its statement or goes on to the next row of it.
LEMMA ModifyTupleDo ==
    ASSUME TypeOK, NEW t \in Txn, NEW r, NEW target, NEW dead, NEW mods, NEW rows,
           ModifyTuple(t, r, target, dead, Rest(mods, rows))
    PROVE  at'[t].do \in {"idle", "modify"}
  <1>1. Goto(t, Idle) \/ Goto(t, Rest(mods, rows))
    BY DEF ModifyTuple, ThrowWriteConflict
  <1>2. Idle.do = "idle" /\ Rest(mods, rows).do \in {"idle", "modify"}
    BY RestNext DEF Idle
  <1> QED
    BY <1>1, <1>2, GotoMoves

\* The thread of a statement does not commit or abort, and enters a key only after it appended
\* a row.
Working == {"idle", "scan", "modify", "append", "revive", "join", "joined"}

LEMMA WorkOn ==
    ASSUME TypeOK, WatermarkInv, RowsKnown, NEW t \in Txn,
           Begin(t) \/ Statement(t) \/ Write(t) \/ Join(t)
    PROVE  IF AppendRow(t) THEN at'[t].do = "enter" /\ at'[t].rid = Len(heap) + 1
           ELSE at'[t].do \in Working
  <1>1. ASSUME NEW next, Goto(t, next), next.do \in Working
        PROVE  at'[t].do \in Working
    BY <1>1, GotoMoves
  <1>2. CASE Begin(t)
    <2>1. at'[t] = at[t] /\ t = next_txn_id /\ t \in Nat
      BY <1>2, TxnFacts DEF Begin
    <2>2. t \notin DOMAIN txn_map
      BY <2>1, TransactionFields, TxnFacts DEF WatermarkInv, IdsIssued
    <2>3. at'[t].do = "idle"
      BY <2>1, <2>2, AtWork DEF WatermarkInv
    <2>4. ~AppendRow(t)
      BY <2>1, <2>3 DEF AppendRow
    <2> QED
      BY <2>3, <2>4 DEF Working
  <1>3. CASE Statement(t)
    <2>1. at'[t].do \in Working
      <3>1. CASE StartScan(t)
        <4>1. PICK s, todo : Goto(t, [do |-> "scan", stmt |-> s, todo |-> todo, got |-> <<>>,
                                      rows |-> <<>>])
          BY <3>1 DEF StartScan
        <4> QED
          BY <4>1, <1>1 DEF Working
      <3>2. CASE Visit(t) \/ Collect(t)
        <4>1. PICK next : Goto(t, next) /\ next.do = at[t].do /\ at[t].do = "scan"
          <5>1. at[t].do = "scan" => "do" \in DOMAIN at[t]
            BY StepFields DEF TypeOK, Scan
          <5>2. CASE Visit(t)
            BY <5>1, <5>2 DEF Visit
          <5>3. CASE Collect(t)
            BY <5>1, <5>3 DEF Collect
          <5> QED
            BY <3>2, <5>2, <5>3
        <4> QED
          BY <1>1, <4>1 DEF Working
      <3>3. CASE EndScan(t)
        <4>1. PICK mods, rows : Goto(t, Rest(mods, rows))
          BY <3>3 DEF EndScan
        <4>2. PICK next : next = Rest(mods, rows) /\ next.do \in {"idle", "modify"}
          BY RestNext
        <4> QED
          BY <1>1, <4>1, <4>2 DEF Working
      <3>4. CASE StartInsert(t)
        <4>1. PICK mods, rows : Goto(t, Rest(mods, rows))
          BY <3>4 DEF StartInsert
        <4>2. PICK next : next = Rest(mods, rows) /\ next.do \in {"idle", "modify"}
          BY RestNext
        <4> QED
          BY <1>1, <4>1, <4>2 DEF Working
      <3> QED
        BY <1>3, <3>1, <3>2, <3>3, <3>4 DEF Statement
    <2>2. ~AppendRow(t)
      <3>1. AppendRow(t) => heap' # heap
        <4>1. heap \in Seq([tuple : Tuple, ts : Nat, deleted : BOOLEAN])
          BY DEF TypeOK
        <4>2. \A x : Len(Append(heap, x)) # Len(heap)
          BY <4>1, SMTT(30)
        <4> QED
          BY <4>2 DEF AppendRow
      <3>2. UNCHANGED heap
        BY <1>3 DEF Statement, StartScan, Visit, Collect, EndScan, StartInsert, table
      <3> QED
        BY <3>1, <3>2
    <2> QED
      BY <2>1, <2>2
  <1>4. CASE AppendRow(t)
    <2>1. PICK next, s : /\ Goto(t, next) /\ s = at[t]
                         /\ next = [s EXCEPT !.do = "enter", !.rid = Len(heap) + 1]
      BY <1>4 DEF AppendRow
    <2>2. s \in Place
      BY <1>4, <2>1, StepFields DEF AppendRow, TypeOK
    <2>3. next.do = "enter" /\ next.rid = Len(heap) + 1
      BY <2>1, <2>2 DEF Place
    <2>4. at'[t] = next
      BY <2>1, GotoMoves
    <2> QED
      BY <1>4, <2>1, <2>3, <2>4
  <1>5. CASE Write(t) /\ ~AppendRow(t)
    <2>1. CASE Modify(t)
      <3>1. at'[t].do \in {"idle", "modify"}
        BY <2>1, ModifyTupleDo DEF Modify
      <3> QED
        BY <1>5, <3>1 DEF Working
    <2>2. CASE Revive(t)
      <3>1. at'[t].do \in {"idle", "modify"}
        BY <2>2, ModifyTupleDo DEF Revive, NextRow
      <3> QED
        BY <1>5, <3>1 DEF Working
    <2>3. CASE LookUpKey(t)
      <3>1. PICK next, r : /\ Goto(t, next)
                           /\ next = [do |-> IF r = NoRid THEN "append" ELSE "revive", rid |-> r,
                                      rows |-> at[t].rows]
        BY <2>3 DEF LookUpKey
      <3>2. next.do \in Working
        BY <3>1 DEF Working
      <3> QED
        BY <1>1, <1>5, <3>1, <3>2
    <2>4. CASE EnterKey(t)
      <3>1. Goto(t, Idle) \/ Goto(t, NextRow(t))
        BY <2>4 DEF EnterKey, ThrowWriteConflict
      <3>2. NextRow(t).do \in Working /\ Idle.do \in Working
        BY RestNext DEF NextRow, Idle, Working
      <3> QED
        BY <1>1, <1>5, <3>1, <3>2
    <2> QED
      BY <1>5, <2>1, <2>2, <2>3, <2>4 DEF Write
  <1>6. CASE Join(t)
    <2>1. at'[t].do \in Working
      BY <1>1, <1>6 DEF Join, StartJoin, JoinRead, EndJoin, Idle, Working
    <2>2. ~AppendRow(t)
      <3>1. at[t] = Idle \/ at[t].do \in {"join", "joined"}
        BY <1>6 DEF Join, StartJoin, JoinRead, EndJoin
      <3> QED
        BY <3>1 DEF AppendRow, Idle
    <2> QED
      BY <2>1, <2>2
  <1> QED
    BY <1>2, <1>3, <1>4, <1>5, <1>6

\* Where the thread of a commit or of an abort goes.
LEMMA CommitMoves ==
    ASSUME TypeOK, RowsKnown, NEW t \in Txn, Commit(t)
    PROVE  \/ /\ StartCommit(t) /\ at[t] = Idle
              /\ at'[t].do \in {"verify", "stamp"} /\ commit_mutex = NoTxn /\ commit_mutex' = t
           \/ /\ Fetch(t) \/ VerifyRow(t)
              /\ at[t].do = "verify"
              /\ at'[t].do \in {"verify", "stamp"} /\ commit_mutex' = commit_mutex
           \/ /\ VerifyRow(t) /\ Phantom(t, at[t].got[1])
              /\ at[t].do = "verify" /\ at'[t].do = "abort" /\ commit_mutex' = NoTxn
           \/ /\ StampRow(t)
              /\ at[t].do = "stamp" /\ at'[t].do = "stamp" /\ commit_mutex' = commit_mutex
           \/ /\ EndCommit(t) /\ at[t].do = "stamp" /\ at'[t].do = "idle" /\ commit_mutex' = NoTxn
  <1>1. ASSUME NEW next, Goto(t, next)
        PROVE  at'[t] = next
    BY <1>1, GotoMoves
  <1>2. CASE StartCommit(t)
    <2>1. Goto(t, Verifying(t, Unverified(t)))
      BY <1>2 DEF StartCommit
    <2>2. at'[t].do \in {"verify", "stamp"}
      BY <1>1, <2>1, VerifyingNext
    <2> QED
      BY <1>2, <2>2 DEF StartCommit
  <1>3. CASE Fetch(t)
    <2>1. PICK todo, got : Goto(t, [do |-> "verify", todo |-> todo, got |-> got])
      BY <1>3 DEF Fetch
    <2>2. at'[t].do = "verify"
      BY <1>1, <2>1
    <2> QED
      BY <1>3, <2>2 DEF Fetch, Others
  <1>4. CASE VerifyRow(t) /\ Phantom(t, at[t].got[1])
    <2>1. Goto(t, [do |-> "abort", todo |-> txn_map[t].write_set]) /\ commit_mutex' = NoTxn
      BY <1>4 DEF VerifyRow
    <2>2. at'[t].do = "abort"
      BY <1>1, <2>1
    <2> QED
      BY <1>4, <2>1, <2>2 DEF VerifyRow
  <1>5. CASE VerifyRow(t) /\ ~Phantom(t, at[t].got[1])
    <2>1. Goto(t, Verifying(t, at[t].todo)) /\ UNCHANGED commit_mutex
      BY <1>5 DEF VerifyRow
    <2>2. at'[t].do \in {"verify", "stamp"}
      BY <1>1, <2>1, VerifyingNext
    <2> QED
      BY <1>5, <2>1, <2>2 DEF VerifyRow
  <1>6. CASE StampRow(t)
    <2>1. at'[t].do = "stamp"
      BY <1>6, <1>1, Stamped
    <2> QED
      BY <1>6, <2>1 DEF StampRow, Others
  <1>7. CASE EndCommit(t)
    <2>1. Goto(t, Idle) /\ Idle.do = "idle"
      BY <1>7 DEF EndCommit, Idle
    <2>2. at'[t].do = "idle"
      BY <1>1, <2>1
    <2> QED
      BY <1>7, <2>2 DEF EndCommit
  <1> QED
    BY <1>2, <1>3, <1>4, <1>5, <1>6, <1>7 DEF Commit

\* An abort leaves the commit mutex and the last commit timestamp alone.
LEMMA AbortMoves ==
    ASSUME TypeOK, RowsKnown, ChainInv, BusyActive, NEW t \in Txn, Abort(t)
    PROVE  /\ at'[t].do \in {"idle", "abort"} /\ at[t].do \in {"idle", "abort"}
           /\ UNCHANGED <<commit_mutex, last_commit_ts>>
  <1>1. ASSUME NEW next, Goto(t, next)
        PROVE  at'[t] = next
    BY <1>1, GotoMoves
  <1>2. CASE StartAbort(t)
    <2>1. at'[t] = [do |-> "abort", todo |-> txn_map[t].write_set] /\ at[t] = Idle
      BY <1>1, <1>2 DEF StartAbort
    <2>2. at'[t].do = "abort" /\ at[t].do = "idle"
      BY <2>1 DEF Idle
    <2> QED
      BY <1>2, <2>2 DEF StartAbort, Others
  <1>3. CASE RestoreRow(t)
    <2>1. PICK next : Goto(t, next) /\ next.do = "abort"
      BY <1>3, Unwritten
    <2> QED
      BY <1>1, <1>3, <2>1 DEF RestoreRow, Others
  <1>4. CASE EndAbort(t)
    <2>1. at'[t] = Idle
      BY <1>1, <1>4 DEF EndAbort
    <2>2. at'[t].do = "idle"
      BY <2>1 DEF Idle
    <2> QED
      BY <1>4, <2>2 DEF EndAbort
  <1> QED
    BY <1>2, <1>3, <1>4 DEF Abort

\* So does a statement.
LEMMA WorkMutex ==
    ASSUME NEW t, Begin(t) \/ Statement(t) \/ Write(t) \/ Join(t)
    PROVE  UNCHANGED <<commit_mutex, last_commit_ts>>
  <1>1. CASE Begin(t)
    BY <1>1, SMTT(30) DEF Begin
  <1>2. CASE Statement(t)
    BY <1>2 DEF Statement, StartScan, Visit, Collect, EndScan, StartInsert, Others
  <1>3. CASE Write(t)
    BY <1>3 DEF Write, Modify, LookUpKey, Revive, AppendRow, EnterKey, Others
  <1>4. CASE Join(t)
    BY <1>4 DEF Join, StartJoin, JoinRead, EndJoin, Others
  <1> QED
    BY <1>1, <1>2, <1>3, <1>4

\* The commit mutex is taken before the verification and given back after the last step of a
\* commit or at a phantom.
LEMMA MutexStep ==
    ASSUME IInv, Mutex, [Next]_vars
    PROVE  Mutex'
  <1> USE DEF IInv, WatermarkInv
  <1>1. ASSUME NEW u \in Txn,
               Begin(u) \/ Statement(u) \/ Write(u) \/ Join(u) \/ Commit(u) \/ Abort(u),
               NEW t \in Txn, at'[t].do \in {"verify", "stamp"}
        PROVE  commit_mutex' = t
    <2>1. t # u => at'[t] = at[t]
      BY <1>1, StepsOnly DEF OnlyOf
    <2>2. t # u => commit_mutex = t
      BY <1>1, <2>1 DEF Mutex
    <2>3. NoTxn \notin Txn
      BY TxnFacts
    <2>4. CASE Begin(u) \/ Statement(u) \/ Write(u) \/ Join(u)
      <3>1. at'[u].do \notin {"verify", "stamp"}
        BY <2>4, WorkOn DEF Working
      <3> QED
        BY <1>1, <2>2, <2>4, <3>1, WorkMutex
    <2>5. CASE Abort(u)
      <3>1. at'[u].do \notin {"verify", "stamp"} /\ commit_mutex' = commit_mutex
        BY <2>5, AbortMoves
      <3> QED
        BY <1>1, <2>2, <3>1
    <2>6. CASE Commit(u)
      <3>1. CASE commit_mutex = NoTxn /\ commit_mutex' = u
        BY <2>2, <2>3, <3>1
      <3>2. CASE at[u].do \in {"verify", "stamp"} /\ commit_mutex' = commit_mutex
        BY <2>2, <3>2 DEF Mutex
      <3>3. CASE at[u].do \in {"verify", "stamp"} /\ at'[u].do \notin {"verify", "stamp"}
        BY <1>1, <2>2, <3>3 DEF Mutex
      <3> QED
        BY <2>6, <3>1, <3>2, <3>3, CommitMoves
    <2> QED
      BY <1>1, <2>4, <2>5, <2>6
  <1>2. CASE GarbageCollection
    BY <1>2 DEF GarbageCollection, Mutex, Idle
  <1>3. CASE UNCHANGED vars
    BY <1>3 DEF vars, Mutex
  <1> QED
    BY <1>1, <1>2, <1>3 DEF Next, Mutex

-----------------------------------------------------------------------------
(* What a step changes of the rows. *)

\* The row is as it was.
Untouched(r) == heap'[r] = heap[r] /\ undo_link'[r] = undo_link[r]

\* A step of u changes committed rows and its own.
RowSteps(u) ==
    /\ \A r \in DOMAIN heap :
          /\ r \in DOMAIN heap'
          /\ \/ Untouched(r)
             \/ /\ heap[r].ts = u \/ heap[r].ts <= last_commit_ts
                /\ heap'[r].ts = u
             \/ /\ heap[r].ts = u
                /\ heap'[r].ts <= last_commit_ts
             \/ /\ heap[r].ts = u /\ at[u].do = "stamp"
                /\ heap'[r].ts = last_commit_ts + 1 /\ undo_link'[r] = undo_link[r]
    /\ \A r \in DOMAIN heap' : r \notin DOMAIN heap =>
          heap'[r].ts = u /\ undo_link'[r] = InvalidLink /\ AppendRow(u)

LEMMA SameRowSteps == ASSUME NEW u, UNCHANGED <<heap, undo_link>> PROVE RowSteps(u)
  BY DEF RowSteps, Untouched

LEMMA ModifyTupleRowSteps ==
    ASSUME TypeOK, WatermarkInv, NEW u \in DOMAIN txn_map, Active(u), NEW r \in DOMAIN heap,
           NEW target, NEW dead, NEW next, ModifyTuple(u, r, target, dead, next)
    PROVE  RowSteps(u)
  <1>1. CASE Conflicts(u, r, dead)
    BY <1>1, SameRowSteps DEF ModifyTuple, ThrowWriteConflict, table
  <1>2. CASE ~Conflicts(u, r, dead)
    <2>1. PICK row, link : /\ row.ts = u /\ heap' = [heap EXCEPT ![r] = row]
                           /\ undo_link' = [undo_link EXCEPT ![r] = link]
      <3>1. PICK row, link : /\ row = [tuple |-> IF target = Deleted THEN heap[r].tuple ELSE target,
                                       ts |-> u, deleted |-> target = Deleted]
                             /\ heap' = [heap EXCEPT ![r] = row]
                             /\ undo_link' = [undo_link EXCEPT ![r] = link]
        BY <1>2 DEF ModifyTuple
      <3>2. row.ts = u
        BY <3>1
      <3> QED
        BY <3>1, <3>2
    <2>2. heap[r].ts = u \/ heap[r].ts <= last_commit_ts
      <3>1. heap[r].ts = u \/ ~(heap[r].ts > txn_map[u].read_ts)
        BY <1>2 DEF Conflicts
      <3>2. txn_map[u].read_ts \in Nat /\ txn_map[u].read_ts <= last_commit_ts
        BY ReadersAbove
      <3>3. heap[r].ts \in Nat /\ last_commit_ts \in Nat
        BY RowType DEF TypeOK
      <3> QED
        BY <3>1, <3>2, <3>3
    <2>3. DOMAIN heap' = DOMAIN heap /\ heap'[r].ts = u
      BY <2>1
    <2>4. \A s \in DOMAIN heap : s # r => Untouched(s)
      BY <2>1 DEF Untouched
    <2> QED
      BY <2>2, <2>3, <2>4 DEF RowSteps
  <1> QED
    BY <1>1, <1>2

\* No step does anything else to the rows.
LEMMA StepRowSteps ==
    ASSUME TypeOK, WatermarkInv, RowsKnown, ChainInv, NEW u \in Txn,
           Begin(u) \/ Statement(u) \/ Write(u) \/ Join(u) \/ Commit(u) \/ Abort(u)
    PROVE  RowSteps(u)
  <1>1. BusyActive
    BY DEF WatermarkInv
  <1>2. UNCHANGED <<heap, undo_link>> => RowSteps(u)
    BY SameRowSteps
  <1>3. CASE Begin(u)
    BY <1>2, <1>3, SMTT(30) DEF Begin, table
  <1>4. CASE Statement(u)
    BY <1>2, <1>4 DEF Statement, StartScan, Visit, Collect, EndScan, StartInsert, table
  <1>5. CASE Write(u)
    <2>1. CASE Modify(u)
      <3>1. u \in DOMAIN txn_map /\ Active(u)
        BY <1>1, <2>1, AtWork DEF Modify
      <3>2. PICK m, next : m = Head(at[u].mods) /\ ModifyTuple(u, m.rid, m.target, FALSE, next)
        BY <2>1 DEF Modify
      <3>3. m.rid \in DOMAIN heap
        BY <2>1, <3>2, FirstChange DEF Modify
      <3> QED
        BY <3>1, <3>2, <3>3, ModifyTupleRowSteps
    <2>2. CASE Revive(u)
      <3>1. u \in DOMAIN txn_map /\ Active(u)
        BY <1>1, <2>2, AtWork DEF Revive
      <3>2. at[u].rid \in DOMAIN heap
        BY <2>2 DEF Revive, RowsKnown, StepRows
      <3> QED
        BY <2>2, <3>1, <3>2, ModifyTupleRowSteps DEF Revive
    <2>3. CASE AppendRow(u)
      <3>1. u \in DOMAIN txn_map
        BY <1>1, <2>3, AtWork DEF AppendRow
      <3>2. PICK new : /\ DOMAIN heap' = DOMAIN heap \cup {new} /\ new \notin DOMAIN heap
                       /\ new \in Rid
                       /\ \A r \in DOMAIN heap : heap'[r] = heap[r]
                       /\ heap'[new] = [tuple |-> Head(at[u].rows), ts |-> u, deleted |-> FALSE]
                       /\ UNCHANGED undo_link
        BY <2>3, <3>1, Appended
      <3>3. undo_link[new] = InvalidLink
        BY <3>2 DEF ChainInv, LinksKnown
      <3>4. heap'[new].ts = u
        BY <3>2
      <3> QED
        BY <2>3, <3>2, <3>3, <3>4 DEF RowSteps, Untouched
    <2>4. CASE LookUpKey(u)
      BY <1>2, <2>4 DEF LookUpKey, table
    <2>5. CASE EnterKey(u)
      BY <1>2, <2>5 DEF EnterKey, ThrowWriteConflict, table
    <2> QED
      BY <1>5, <2>1, <2>2, <2>3, <2>4, <2>5 DEF Write
  <1>6. CASE Join(u)
    BY <1>2, <1>6 DEF Join, StartJoin, JoinRead, EndJoin, table
  <1>7. CASE StampRow(u)
    <2>1. PICK r \in DOMAIN heap :
             /\ DOMAIN heap' = DOMAIN heap /\ UNCHANGED undo_link
             /\ \A s \in DOMAIN heap : s # r \/ heap[s].ts # u => heap'[s] = heap[s]
             /\ heap[r].ts = u => heap'[r].ts = last_commit_ts + 1
      BY <1>7, Stamped
    <2>2. at[u].do = "stamp"
      BY <1>7 DEF StampRow
    <2> QED
      BY <2>1, <2>2 DEF RowSteps, Untouched
  <1>8. CASE RestoreRow(u)
    <2>1. PICK r \in DOMAIN heap :
             /\ DOMAIN heap' = DOMAIN heap
             /\ \A s \in DOMAIN heap : s # r \/ heap[s].ts # u =>
                   heap'[s] = heap[s] /\ undo_link'[s] = undo_link[s]
             /\ heap[r].ts = u => heap'[r].ts <= last_commit_ts
      BY <1>1, <1>8, Unwritten
    <2> QED
      BY <2>1 DEF RowSteps, Untouched
  <1>9. CASE StartCommit(u) \/ Fetch(u) \/ VerifyRow(u) \/ EndCommit(u)
    BY <1>2, <1>9 DEF StartCommit, Fetch, VerifyRow, EndCommit, table
  <1>10. CASE StartAbort(u) \/ EndAbort(u)
    BY <1>2, <1>10 DEF StartAbort, EndAbort, table
  <1> QED
    BY <1>3, <1>4, <1>5, <1>6, <1>7, <1>8, <1>9, <1>10 DEF Commit, Abort

-----------------------------------------------------------------------------
(* What a step changes of its transaction. *)

\* Its snapshot and its level stay, and so do the timestamps of its logs.
Continues(u) ==
    /\ DOMAIN txn_map' = DOMAIN txn_map
    /\ txn_map'[u].read_ts = txn_map[u].read_ts
    /\ txn_map'[u].isolation_level = txn_map[u].isolation_level
    /\ txn_map[u].write_set \subseteq txn_map'[u].write_set
    /\ \A i \in DOMAIN txn_map[u].undo_logs :
          i \in DOMAIN txn_map'[u].undo_logs
          /\ txn_map'[u].undo_logs[i].ts = txn_map[u].undo_logs[i].ts

\* The step of a statement, and what it may change besides.
Carries(u) ==
    /\ Continues(u)
    /\ txn_map'[u].scan_predicates = txn_map[u].scan_predicates
    /\ txn_map'[u].commit_ts = txn_map[u].commit_ts
    /\ txn_map'[u].state \in {txn_map[u].state, "TAINTED"}

LEMMA SameCarries ==
    ASSUME NEW u, UNCHANGED txn_map PROVE Carries(u)
  BY DEF Carries, Continues

LEMMA TaintedCarries ==
    ASSUME TypeOK, NEW u \in DOMAIN txn_map, txn_map' = [txn_map EXCEPT ![u].state = "TAINTED"]
    PROVE  Carries(u)
  <1>1. txn_map[u] \in Transaction
    BY DEF TypeOK
  <1> QED
    BY <1>1 DEF Carries, Continues, Transaction

LEMMA ModifyTupleCarries ==
    ASSUME TypeOK, LinksKnown, NEW u \in DOMAIN txn_map, NEW r \in DOMAIN heap,
           NEW target \in Tuple \cup {Deleted}, NEW dead, NEW next,
           target # Deleted => target.id = heap[r].tuple.id,
           ModifyTuple(u, r, target, dead, next)
    PROVE  Carries(u)
  <1>1. CASE Conflicts(u, r, dead)
    BY <1>1, TaintedCarries DEF ModifyTuple, ThrowWriteConflict
  <1>2. CASE ~Conflicts(u, r, dead)
    <2>1. txn_map[u] \in Transaction
      BY DEF TypeOK
    <2>2. PICK logs, w : /\ txn_map' = [txn_map EXCEPT ![u].undo_logs = logs, ![u].write_set = w]
                         /\ w = txn_map[u].write_set \cup {r} /\ logs = Logged(u, r, target).logs
      <3>1. PICK logs, w : w = txn_map[u].write_set \cup {r} /\ logs = Logged(u, r, target).logs
        OBVIOUS
      <3>2. txn_map' = [txn_map EXCEPT ![u].undo_logs = logs, ![u].write_set = @ \cup {r}]
        BY <1>2, <3>1 DEF ModifyTuple
      <3> QED
        BY <2>1, <3>1, <3>2 DEF Transaction
    <2>3. \A i \in DOMAIN txn_map[u].undo_logs :
             i \in DOMAIN logs /\ logs[i].ts = txn_map[u].undo_logs[i].ts
      <3>1. PICK old, new, n : /\ old = txn_map[u].undo_logs /\ new = Logged(u, r, target)
                               /\ n = Len(old) + 1
        OBVIOUS
      <3>2. /\ \A i \in DOMAIN old : /\ i \in DOMAIN new.logs
                                     /\ new.logs[i].ts = old[i].ts
                                     /\ new.logs[i].prev_version = old[i].prev_version
            /\ heap[r].ts = u => DOMAIN new.logs = DOMAIN old /\ new.link = undo_link[r]
            /\ heap[r].ts # u =>
                  /\ DOMAIN new.logs = DOMAIN old \cup {n} /\ n \notin DOMAIN old
                  /\ new.link = [txn |-> u, idx |-> n]
                  /\ new.logs[n].ts = heap[r].ts
                  /\ new.logs[n].prev_version = undo_link[r]
        BY <3>1, LoggedLogs
      <3> QED
        BY <2>2, <3>1, <3>2
    <2>4. /\ DOMAIN txn_map' = DOMAIN txn_map
          /\ txn_map'[u] = [txn_map[u] EXCEPT !.undo_logs = logs, !.write_set = w]
      BY <2>2
    <2> QED
      BY <2>1, <2>2, <2>3, <2>4 DEF Carries, Continues, Transaction
  <1> QED
    BY <1>1, <1>2

LEMMA WriteCarries ==
    ASSUME TypeOK, WatermarkInv, RowsKnown, ChainInv, KeysInv, NEW u \in Txn, Write(u)
    PROVE  Carries(u)
  <1>1. BusyActive /\ LinksKnown
    BY DEF WatermarkInv, ChainInv
  <1>2. CASE Modify(u)
    <2>1. u \in DOMAIN txn_map /\ at[u].do = "modify" /\ at[u].mods # <<>>
      BY <1>1, <1>2, AtWork DEF Modify
    <2>2. PICK m, next : /\ m = Head(at[u].mods)
                         /\ ModifyTuple(u, m.rid, m.target, FALSE, next)
      BY <1>2 DEF Modify
    <2>3. /\ 1 \in DOMAIN at[u].mods /\ m = at[u].mods[1]
          /\ m.rid \in DOMAIN heap /\ m.target \in Tuple \cup {Deleted}
      BY <2>1, <2>2, FirstChange
    <2>4. m.target # Deleted => m.target.id = heap[m.rid].tuple.id
      BY <2>1, <2>3 DEF KeysInv, StepKeys
    <2> QED
      BY <1>1, <2>1, <2>2, <2>3, <2>4, ModifyTupleCarries
  <1>3. CASE Revive(u)
    <2>1. u \in DOMAIN txn_map
      BY <1>1, <1>3, AtWork DEF Revive
    <2>2. /\ at[u].rid \in DOMAIN heap
          /\ Head(at[u].rows) \in Tuple /\ Head(at[u].rows).id = heap[at[u].rid].tuple.id
      BY <1>3, RevivedKey, PlaceFields DEF Revive, RowsKnown, StepRows
    <2> QED
      BY <1>1, <1>3, <2>1, <2>2, ModifyTupleCarries DEF Revive
  <1>4. CASE LookUpKey(u)
    BY <1>4, SameCarries DEF LookUpKey
  <1>5. CASE AppendRow(u)
    <2>1. u \in DOMAIN txn_map /\ txn_map[u] \in Transaction
      BY <1>1, <1>5, AtWork, TransactionFields DEF AppendRow
    <2>2. PICK w : w = txn_map[u].write_set \cup {Len(heap) + 1}
      OBVIOUS
    <2>3. txn_map' = [txn_map EXCEPT ![u].write_set = w]
      BY <1>5, <2>1, <2>2 DEF AppendRow, Transaction
    <2> QED
      BY <2>1, <2>2, <2>3 DEF Carries, Continues, Transaction
  <1>6. CASE EnterKey(u)
    <2>1. u \in DOMAIN txn_map
      BY <1>1, <1>6, AtWork DEF EnterKey
    <2>2. txn_map' = [txn_map EXCEPT ![u].state = "TAINTED"] \/ UNCHANGED txn_map
      BY <1>6 DEF EnterKey, ThrowWriteConflict
    <2> QED
      BY <2>1, <2>2, TaintedCarries, SameCarries
  <1> QED
    BY <1>2, <1>3, <1>4, <1>5, <1>6 DEF Write

\* A step that leaves the state of its transaction alone.
LEMMA StepCarries ==
    ASSUME TypeOK, WatermarkInv, RowsKnown, ChainInv, KeysInv, NEW u \in Txn,
           Statement(u) \/ Write(u) \/ Join(u) \/ Commit(u) \/ Abort(u),
           ~StartScan(u), ~EndCommit(u), ~EndAbort(u)
    PROVE  Carries(u)
  <1>1. CASE Write(u)
    BY <1>1, WriteCarries
  <1>2. CASE ~Write(u)
    <2>1. UNCHANGED txn_map
      BY <1>2 DEF Statement, Visit, Collect, EndScan, StartInsert, Join, StartJoin, JoinRead,
         EndJoin, Commit, StartCommit, Fetch, VerifyRow, StampRow, Abort, StartAbort, RestoreRow
    <2> QED
      BY <2>1, SameCarries, SMTT(30)
  <1> QED
    BY <1>1, <1>2

\* The first step of a scan adds its predicate.
LEMMA StartScanTxn ==
    ASSUME TypeOK, NEW u \in Txn, StartScan(u)
    PROVE  /\ u \in DOMAIN txn_map /\ Continues(u)
           /\ txn_map'[u].state = txn_map[u].state
           /\ txn_map'[u].scan_predicates =
                 txn_map[u].scan_predicates \cup {Head(program[u].todo).where}
           /\ txn_map'[u].write_set = txn_map[u].write_set
  <1>1. u \in DOMAIN txn_map /\ txn_map[u] \in Transaction
    BY RunsIsActive, TransactionFields DEF StartScan
  <1>2. PICK p : p = txn_map[u].scan_predicates \cup {Head(program[u].todo).where}
    OBVIOUS
  <1>3. txn_map' = [txn_map EXCEPT ![u].scan_predicates = p]
    BY <1>1, <1>2 DEF StartScan, Transaction
  <1> QED
    BY <1>1, <1>2, <1>3 DEF Continues, Transaction

\* The end of a commit gives the transaction its timestamp.
LEMMA EndCommitTxn ==
    ASSUME TypeOK, BusyActive, NEW u \in Txn, EndCommit(u)
    PROVE  /\ u \in DOMAIN txn_map /\ Continues(u)
           /\ txn_map'[u].state = "COMMITTED" /\ txn_map'[u].commit_ts = last_commit_ts + 1
           /\ txn_map'[u].write_set = txn_map[u].write_set
  <1>1. u \in DOMAIN txn_map /\ txn_map[u] \in Transaction
    BY AtWork, TransactionFields DEF EndCommit
  <1>2. PICK ts : ts = last_commit_ts + 1
    OBVIOUS
  <1>3. txn_map' = [txn_map EXCEPT ![u].state = "COMMITTED", ![u].commit_ts = ts]
    BY <1>2 DEF EndCommit
  <1> QED
    BY <1>1, <1>2, <1>3 DEF Continues, Transaction

LEMMA EndAbortTxn ==
    ASSUME TypeOK, BusyActive, NEW u \in Txn, EndAbort(u)
    PROVE  /\ u \in DOMAIN txn_map /\ Continues(u)
           /\ txn_map'[u].state = "ABORTED"
           /\ txn_map'[u].scan_predicates = txn_map[u].scan_predicates
  <1>1. u \in DOMAIN txn_map /\ txn_map[u] \in Transaction
    BY AtWork, TransactionFields DEF EndAbort
  <1>2. txn_map' = [txn_map EXCEPT ![u].state = "ABORTED"]
    BY DEF EndAbort
  <1> QED
    BY <1>1, <1>2 DEF Continues, Transaction

-----------------------------------------------------------------------------
(* What the others have written stays, and what was written before it. *)

\* Only the end of a commit moves the last commit timestamp.
LEMMA NoCommit ==
    ASSUME NEW u, Begin(u) \/ Statement(u) \/ Write(u) \/ Join(u) \/ Commit(u) \/ Abort(u)
    PROVE  EndCommit(u) \/ UNCHANGED last_commit_ts
  <1>1. CASE Commit(u)
    BY <1>1 DEF Commit, StartCommit, Fetch, VerifyRow, StampRow, Others
  <1>2. CASE Abort(u)
    BY <1>2 DEF Abort, StartAbort, RestoreRow, EndAbort, Others
  <1> QED
    BY <1>1, <1>2, WorkMutex

\* A step of u leaves what t wrote.
LEMMA OthersWritten ==
    ASSUME TypeOK, WatermarkInv, RowsKnown, ChainInv, Mutex, NEW u \in Txn,
           Begin(u) \/ Statement(u) \/ Write(u) \/ Join(u) \/ Commit(u) \/ Abort(u),
           NEW t \in Txn, t # u
    PROVE  /\ \A r \in DOMAIN heap : /\ WrittenBy(t, r)' <=> WrittenBy(t, r)
                                     /\ WrittenBy(t, r) => Untouched(r)
           /\ \A r \in DOMAIN heap' : r \notin DOMAIN heap => ~WrittenBy(t, r)'
  <1>1. at'[t] = at[t]
    BY StepsOnly DEF OnlyOf
  <1>2. RowSteps(u)
    BY StepRowSteps
  <1>3. at[t].do = "stamp" => at[u].do # "stamp" /\ last_commit_ts' = last_commit_ts
    <2>1. at[t].do = "stamp" => at[u].do # "stamp"
      BY DEF Mutex
    <2>2. EndCommit(u) => at[u].do = "stamp"
      BY DEF EndCommit
    <2> QED
      BY <2>1, <2>2, NoCommit
  <1>4. /\ last_commit_ts \in Nat /\ last_commit_ts + 1 \in Nat /\ t \in Nat /\ u \in Nat
        /\ last_commit_ts + 1 \notin Txn
        /\ \A r \in DOMAIN heap : heap[r].ts \in Nat
    <2>1. last_commit_ts \in Nat /\ last_commit_ts + 1 \in Nat
      BY DEF TypeOK
    <2>2. last_commit_ts + 1 \notin Txn
      BY <2>1, CommitIsNoTxn
    <2> QED
      BY <2>1, <2>2, RowType, TxnFacts
  <1>5. \A x \in Txn : ~(x <= last_commit_ts)
    BY AboveReaders
  <1>6. ASSUME NEW r \in DOMAIN heap
        PROVE  /\ WrittenBy(t, r)' <=> WrittenBy(t, r)
               /\ WrittenBy(t, r) => Untouched(r)
    <2>1. CASE Untouched(r)
      BY <1>1, <1>3, <2>1 DEF Untouched, WrittenBy
    <2>2. CASE ~Untouched(r)
      <3>1. heap[r].ts = u \/ heap[r].ts <= last_commit_ts
        BY <1>2, <2>2 DEF RowSteps
      <3>2. ~WrittenBy(t, r)
        BY <1>4, <1>5, <3>1 DEF WrittenBy
      <3>3. \/ heap'[r].ts = u \/ heap'[r].ts <= last_commit_ts
            \/ heap'[r].ts = last_commit_ts + 1 /\ at[u].do = "stamp"
        BY <1>2, <2>2 DEF RowSteps
      <3>4. heap'[r].ts # t
        BY <1>4, <1>5, <3>3
      <3>5. at'[t].do = "stamp" => heap'[r].ts # last_commit_ts' + 1
        BY <1>1, <1>3, <1>4, <3>3
      <3> QED
        BY <2>2, <3>2, <3>4, <3>5 DEF WrittenBy
    <2> QED
      BY <2>1, <2>2
  <1>7. ASSUME NEW r \in DOMAIN heap', r \notin DOMAIN heap
        PROVE  ~WrittenBy(t, r)'
    <2>1. heap'[r].ts = u
      BY <1>2, <1>7 DEF RowSteps
    <2>2. at'[t].do = "stamp" => heap'[r].ts # last_commit_ts' + 1
      BY <1>1, <1>3, <1>4, <2>1
    <2> QED
      BY <2>1, <2>2 DEF WrittenBy
  <1> QED
    BY <1>6, <1>7

\* What t replaced when it wrote the row: nothing, or the version of its snapshot that its undo
\* log restores.
BaseOf(t, r) ==
    \/ undo_link[r] = InvalidLink
    \/ undo_link[r].txn = t /\ LogAt(undo_link[r]).ts <= txn_map[t].read_ts

\* The version under a row that stays as it is.
LEMMA BaseOfOn ==
    ASSUME TypeOK, LinksKnown, NEW t \in DOMAIN txn_map, NEW r \in DOMAIN heap,
           BaseOf(t, r), undo_link'[r] = undo_link[r],
           txn_map'[t].read_ts = txn_map[t].read_ts,
           \A i \in DOMAIN txn_map[t].undo_logs :
              txn_map'[t].undo_logs[i].ts = txn_map[t].undo_logs[i].ts
    PROVE  BaseOf(t, r)'
  <1>1. PICK l : l = undo_link[r]
    OBVIOUS
  <1>2. CASE l.txn = t /\ LogAt(l).ts <= txn_map[t].read_ts
    <2>1. l.idx \in DOMAIN txn_map[t].undo_logs
      BY <1>1, <1>2, KnownLinks, TransactionFields, TxnFacts DEF Known, Exists
    <2>2. LogAt(l)'.ts = LogAt(l).ts
      BY <1>2, <2>1 DEF LogAt
    <2> QED
      BY <1>1, <1>2, <2>2 DEF BaseOf
  <1>3. CASE l = InvalidLink
    BY <1>1, <1>3 DEF BaseOf
  <1> QED
    BY <1>1, <1>2, <1>3 DEF BaseOf

LEMMA ModifyTupleBase ==
    ASSUME TypeOK, WatermarkInv, LinksKnown, OwnBase, NEW u \in DOMAIN txn_map, Active(u),
           NEW r \in DOMAIN heap, at[u].do # "stamp",
           NEW target \in Tuple \cup {Deleted}, NEW dead, NEW next, next.do # "stamp",
           target # Deleted => target.id = heap[r].tuple.id,
           ModifyTuple(u, r, target, dead, next), NEW s \in DOMAIN heap', WrittenBy(u, s)'
    PROVE  BaseOf(u, s)'
  <1>1. Carries(u) /\ u \in Txn
    BY ModifyTupleCarries, TransactionFields
  <1>2. /\ txn_map'[u].read_ts = txn_map[u].read_ts
        /\ \A i \in DOMAIN txn_map[u].undo_logs :
              txn_map'[u].undo_logs[i].ts = txn_map[u].undo_logs[i].ts
    BY <1>1 DEF Carries, Continues
  <1>3. Goto(u, next) \/ Goto(u, Idle)
    BY DEF ModifyTuple, ThrowWriteConflict
  <1>4. at'[u].do # "stamp"
    BY <1>1, <1>3, GotoMoves DEF Idle
  <1>5. heap'[s].ts = u
    BY <1>4 DEF WrittenBy
  <1>6. ASSUME s \in DOMAIN heap, heap[s].ts = u, undo_link'[s] = undo_link[s]
        PROVE  BaseOf(u, s)'
    <2>1. BaseOf(u, s)
      BY <1>6 DEF OwnBase, BaseOf, WrittenBy
    <2> QED
      BY <1>2, <1>6, <2>1, BaseOfOn
  <1>7. CASE Conflicts(u, r, dead)
    BY <1>5, <1>6, <1>7 DEF ModifyTuple, ThrowWriteConflict, table
  <1>8. CASE ~Conflicts(u, r, dead)
    <2>1. /\ DOMAIN heap' = DOMAIN heap
          /\ \A q \in DOMAIN heap : q # r => heap'[q] = heap[q] /\ undo_link'[q] = undo_link[q]
          /\ undo_link'[r] = Logged(u, r, target).link
          /\ txn_map'[u].undo_logs = Logged(u, r, target).logs
      BY <1>8, Modified
    <2>2. CASE s # r
      BY <1>5, <1>6, <2>1, <2>2
    <2>3. CASE s = r
      <3>1. PICK old, new, n : /\ old = txn_map[u].undo_logs /\ new = Logged(u, r, target)
                               /\ n = Len(old) + 1
        OBVIOUS
      <3>2. /\ \A i \in DOMAIN old : /\ i \in DOMAIN new.logs
                                     /\ new.logs[i].ts = old[i].ts
                                     /\ new.logs[i].prev_version = old[i].prev_version
            /\ heap[r].ts = u => DOMAIN new.logs = DOMAIN old /\ new.link = undo_link[r]
            /\ heap[r].ts # u =>
                  /\ DOMAIN new.logs = DOMAIN old \cup {n} /\ n \notin DOMAIN old
                  /\ new.link = [txn |-> u, idx |-> n]
                  /\ new.logs[n].ts = heap[r].ts
                  /\ new.logs[n].prev_version = undo_link[r]
        BY <3>1, LoggedLogs
      <3>3. CASE heap[r].ts = u
        BY <1>6, <2>1, <2>3, <3>1, <3>2, <3>3
      <3>4. CASE heap[r].ts # u
        <4>1. heap[r].ts <= txn_map[u].read_ts
          <5>1. ~(heap[r].ts > txn_map[u].read_ts)
            BY <1>8, <3>4 DEF Conflicts
          <5>2. heap[r].ts \in Nat /\ txn_map[u].read_ts \in Nat
            BY RowType, TransactionFields
          <5> QED
            BY <5>1, <5>2
        <4>2. PICK l : l = [txn |-> u, idx |-> n]
          OBVIOUS
        <4>3. undo_link'[r] = l /\ l.txn = u /\ l.idx = n
          BY <2>1, <3>1, <3>2, <3>4, <4>2
        <4>4. LogAt(l)' = new.logs[n]
          BY <2>1, <3>1, <4>3 DEF LogAt
        <4>5. LogAt(l)'.ts = heap[r].ts
          BY <3>2, <3>4, <4>4
        <4>6. LogAt(l)'.ts <= txn_map'[u].read_ts
          BY <1>2, <4>1, <4>5
        <4> QED
          BY <2>3, <4>3, <4>6 DEF BaseOf
      <3> QED
        BY <3>3, <3>4
    <2> QED
      BY <2>2, <2>3
  <1> QED
    BY <1>7, <1>8

\* The rows of the transaction that takes the step.
LEMMA OwnerBase ==
    ASSUME IInv, KeysInv, CommitInv, NEW u \in Txn,
           Begin(u) \/ Statement(u) \/ Write(u) \/ Join(u) \/ Commit(u) \/ Abort(u),
           Active(u)', NEW r \in DOMAIN heap', WrittenBy(u, r)'
    PROVE  BaseOf(u, r)'
  <1> USE DEF IInv, WatermarkInv, ChainInv
  <1>1. CASE Begin(u)
    <2>1. u = next_txn_id /\ at'[u] = at[u] /\ UNCHANGED <<heap, last_commit_ts>>
      BY <1>1 DEF Begin, table
    <2>2. u \notin DOMAIN txn_map
      BY <2>1, TransactionFields, TxnFacts DEF IdsIssued
    <2>3. at'[u].do = "idle"
      BY <2>1, <2>2, AtWork
    <2>4. heap[r].ts = u
      BY <2>1, <2>3 DEF WrittenBy
    <2>5. u \in DOMAIN txn_map
      BY <2>1, <2>4 DEF KeysInv, Owners
    <2> QED
      BY <2>2, <2>5
  <1>2. CASE Modify(u)
    <2>1. u \in DOMAIN txn_map /\ Active(u) /\ at[u].do = "modify" /\ at[u].mods # <<>>
      BY <1>2, AtWork DEF Modify
    <2>2. PICK m, next : /\ m = Head(at[u].mods) /\ next.do # "stamp"
                         /\ ModifyTuple(u, m.rid, m.target, FALSE, next)
      <3>1. PICK next : next = Rest(Tail(at[u].mods), at[u].rows) /\ next.do \in {"idle", "modify"}
        BY RestNext
      <3> QED
        BY <1>2, <3>1 DEF Modify
    <2>3. /\ 1 \in DOMAIN at[u].mods /\ m = at[u].mods[1]
          /\ m.rid \in DOMAIN heap /\ m.target \in Tuple \cup {Deleted}
      BY <2>1, <2>2, FirstChange
    <2>4. m.target # Deleted => m.target.id = heap[m.rid].tuple.id
      BY <2>1, <2>3 DEF KeysInv, StepKeys
    <2> QED
      BY <2>1, <2>2, <2>3, <2>4, ModifyTupleBase DEF CommitInv
  <1>3. CASE Revive(u)
    <2>1. u \in DOMAIN txn_map /\ Active(u) /\ at[u].do = "revive"
      BY <1>3, AtWork DEF Revive
    <2>2. /\ at[u].rid \in DOMAIN heap
          /\ Head(at[u].rows) \in Tuple /\ Head(at[u].rows).id = heap[at[u].rid].tuple.id
      BY <2>1, RevivedKey, PlaceFields DEF RowsKnown, StepRows
    <2>3. PICK next : next = NextRow(u) /\ next.do # "stamp"
      BY RestNext DEF NextRow
    <2>4. ModifyTuple(u, at[u].rid, Head(at[u].rows), TRUE, next)
      BY <1>3, <2>3 DEF Revive
    <2> QED
      BY <2>1, <2>2, <2>3, <2>4, ModifyTupleBase DEF CommitInv
  <1>4. CASE ~Begin(u) /\ ~Modify(u) /\ ~Revive(u)
    <2>1. RowSteps(u)
      BY StepRowSteps
    <2>2. CASE r \notin DOMAIN heap
      BY <2>1, <2>2 DEF RowSteps, BaseOf
    <2>3. CASE r \in DOMAIN heap
      <3>1. WrittenBy(u, r) /\ undo_link'[r] = undo_link[r] /\ u \in DOMAIN txn_map
        <4>1. CASE EndCommit(u)
          BY <4>1, EndCommitTxn DEF Active
        <4>2. CASE ~EndCommit(u)
          <5>1. last_commit_ts' = last_commit_ts /\ last_commit_ts \in Nat
            BY <4>2, NoCommit DEF TypeOK
          <5>2. heap[r].ts = u => u \in DOMAIN txn_map
            BY <2>3 DEF KeysInv, Owners
          <5>3. at[u].do = "stamp" => u \in DOMAIN txn_map
            BY AtWork
          <5>4. ~(u <= last_commit_ts) /\ last_commit_ts + 1 # u
            BY <5>1, AboveReaders, CommitIsNoTxn
          <5>5. CASE heap'[r].ts = last_commit_ts + 1 /\ at'[u].do = "stamp" /\ Untouched(r)
            <6>1. at[u].do = "stamp"
              <7>1. PICK t \in Txn : at[t].do = "stamp"
                BY <2>3, <5>1, <5>4, <5>5, CommitIsNoTxn DEF CommitInv, Stamps, Untouched
              <7>2. commit_mutex = t
                BY <7>1 DEF CommitInv, Mutex
              <7>3. Commit(u)
                BY <1>4, <5>5, WorkOn, AbortMoves DEF Working
              <7>4. NoTxn \notin Txn
                BY TxnFacts
              <7>5. at[u].do \in {"verify", "stamp"}
                BY <5>5, <7>1, <7>2, <7>3, <7>4, CommitMoves
              <7> QED
                BY <7>1, <7>2, <7>5 DEF CommitInv, Mutex
            <6> QED
              BY <5>3, <5>5, <6>1 DEF Untouched, WrittenBy
          <5>6. CASE heap'[r].ts = u /\ Untouched(r)
            BY <5>2, <5>6 DEF Untouched, WrittenBy
          <5>7. CASE ~Untouched(r)
            <6>1. StampRow(u) \/ RestoreRow(u)
              <7>1. ~StampRow(u) /\ ~RestoreRow(u) => UNCHANGED <<heap, undo_link>> \/ AppendRow(u)
                BY <1>4 DEF Statement, StartScan, Visit, Collect, EndScan, StartInsert, Write,
                   LookUpKey, EnterKey, ThrowWriteConflict, Join, StartJoin, JoinRead, EndJoin,
                   Commit, StartCommit, Fetch, VerifyRow, EndCommit, Abort, StartAbort, EndAbort,
                   table
              <7>2. AppendRow(u) => Untouched(r)
                <8>1. AppendRow(u) => u \in DOMAIN txn_map
                  BY AtWork DEF AppendRow
                <8> QED
                  BY <2>3, <8>1, Appended DEF Untouched
              <7> QED
                BY <5>7, <7>1, <7>2, SMTT(30) DEF Untouched
            <6>2. CASE StampRow(u)
              <7>1. UNCHANGED undo_link /\ at[u].do = "stamp"
                BY <6>2 DEF StampRow
              <7>2. heap[r].ts = u
                BY <2>1, <2>3, <5>7, <7>1, <6>2, Stamped DEF Untouched
              <7> QED
                BY <5>2, <7>1, <7>2 DEF WrittenBy
            <6>3. CASE RestoreRow(u)
              <7>1. heap[r].ts = u /\ heap'[r].ts <= last_commit_ts
                BY <2>3, <5>7, <6>3, Unwritten DEF Untouched
              <7>2. at'[u].do # "stamp"
                <8>1. Abort(u)
                  BY <6>3 DEF Abort
                <8> QED
                  BY <8>1, AbortMoves
              <7> QED
                BY <5>4, <7>1, <7>2 DEF WrittenBy
            <6> QED
              BY <6>1, <6>2, <6>3
          <5> QED
            BY <5>1, <5>5, <5>6, <5>7 DEF WrittenBy
        <4> QED
          BY <4>1, <4>2
      <3>2. Active(u)
        <4>1. CASE heap[r].ts = u
          BY <2>3, <4>1 DEF KeysInv, Owners
        <4>2. CASE at[u].do = "stamp"
          BY <4>2, AtWork
        <4> QED
          BY <3>1, <4>1, <4>2 DEF WrittenBy
      <3>3. BaseOf(u, r)
        BY <2>3, <3>1, <3>2 DEF CommitInv, OwnBase, BaseOf
      <3>4. Continues(u)
        <4>1. CASE StartScan(u)
          BY <4>1, StartScanTxn
        <4>2. CASE EndCommit(u)
          BY <4>2, EndCommitTxn
        <4>3. CASE EndAbort(u)
          BY <4>3, EndAbortTxn
        <4> QED
          BY <1>4, <4>1, <4>2, <4>3, StepCarries DEF Carries
      <3> QED
        BY <2>3, <3>1, <3>3, <3>4, BaseOfOn DEF Continues
    <2> QED
      BY <2>2, <2>3
  <1> QED
    BY <1>1, <1>2, <1>3, <1>4

-----------------------------------------------------------------------------
(* The commit invariant is kept. *)

LEMMA OwnBaseStep ==
    ASSUME IInv, IInv', KeysInv, CommitInv, [Next]_vars
    PROVE  OwnBase'
  <1> USE DEF IInv, WatermarkInv, ChainInv
  <1>1. ASSUME NEW u \in Txn,
               Begin(u) \/ Statement(u) \/ Write(u) \/ Join(u) \/ Commit(u) \/ Abort(u),
               NEW t \in DOMAIN txn_map', NEW r \in DOMAIN heap', Active(t)', WrittenBy(t, r)'
        PROVE  BaseOf(t, r)'
    <2>1. CASE t = u
      BY <1>1, <2>1, OwnerBase
    <2>2. CASE t # u
      <3>1. t \in Txn
        BY <1>1 DEF TypeOK
      <3>2. /\ r \in DOMAIN heap /\ WrittenBy(t, r) /\ Untouched(r)
        BY <1>1, <2>2, <3>1, OthersWritten DEF CommitInv
      <3>3. t \in DOMAIN txn_map
        <4>1. heap[r].ts = t => t \in DOMAIN txn_map
          BY <3>1, <3>2 DEF KeysInv, Owners
        <4>2. at[t].do = "stamp" => t \in DOMAIN txn_map
          BY <3>1, AtWork
        <4> QED
          BY <3>2, <4>1, <4>2 DEF WrittenBy
      <3>4. txn_map'[t] = txn_map[t]
        BY <1>1, <2>2, <3>3, StepsOnly DEF OnlyOf
      <3>5. Active(t)
        BY <1>1, <3>3, <3>4 DEF Active
      <3>6. BaseOf(t, r)
        BY <3>2, <3>3, <3>5 DEF CommitInv, OwnBase, BaseOf
      <3> QED
        BY <3>2, <3>3, <3>4, <3>6, BaseOfOn DEF Untouched
    <2> QED
      BY <2>1, <2>2
  <1>2. CASE GarbageCollection
    <2>1. /\ UNCHANGED <<heap, undo_link, last_commit_ts, at>>
          /\ \A t \in DOMAIN txn_map' : t \in DOMAIN txn_map /\ txn_map'[t] = txn_map[t]
      BY <1>2 DEF GarbageCollection, table, Others
    <2> QED
      BY <2>1 DEF CommitInv, OwnBase, WrittenBy, LogAt, Active
  <1>3. CASE UNCHANGED vars
    <2>1. UNCHANGED <<heap, undo_link, last_commit_ts, at, txn_map>>
      BY <1>3 DEF vars, table
    <2> QED
      BY <2>1 DEF CommitInv, OwnBase, WrittenBy, LogAt, Active
  <1> QED
    BY <1>1, <1>2, <1>3 DEF Next, OwnBase, BaseOf

LEMMA StampsStep ==
    ASSUME IInv, KeysInv, CommitInv, [Next]_vars
    PROVE  Stamps'
  <1> USE DEF IInv, WatermarkInv, ChainInv
  <1>1. last_commit_ts \in Nat
    BY DEF TypeOK
  <1>2. ASSUME NEW u \in Txn,
               Begin(u) \/ Statement(u) \/ Write(u) \/ Join(u) \/ Commit(u) \/ Abort(u),
               NEW r \in DOMAIN heap'
        PROVE  \/ heap'[r].ts <= last_commit_ts'
               \/ heap'[r].ts \in Txn
               \/ /\ heap'[r].ts = last_commit_ts' + 1
                  /\ \E t \in Txn : at'[t].do = "stamp" /\ r \in txn_map'[t].write_set
    <2>1. RowSteps(u)
      BY <1>2, StepRowSteps
    <2>2. CASE heap'[r].ts = u
      BY <2>2
    <2>3. CASE EndCommit(u)
      <3>1. UNCHANGED heap /\ last_commit_ts' = last_commit_ts + 1
        BY <2>3 DEF EndCommit, table
      <3>2. heap[r].ts <= last_commit_ts + 1 \/ heap[r].ts \in Txn
        BY <1>1, <1>2, <3>1, RowType DEF CommitInv, Stamps
      <3> QED
        BY <3>1, <3>2
    <2>4. CASE ~EndCommit(u) /\ heap'[r].ts # u
      <3>1. last_commit_ts' = last_commit_ts /\ r \in DOMAIN heap
        BY <1>2, <2>1, <2>4, NoCommit DEF RowSteps
      <3>2. CASE heap'[r].ts <= last_commit_ts
        BY <3>1, <3>2
      <3>3. ASSUME NEW t \in Txn, at[t].do = "stamp", r \in txn_map[t].write_set,
                   heap'[r].ts = last_commit_ts + 1
            PROVE  /\ heap'[r].ts = last_commit_ts' + 1
                   /\ \E x \in Txn : at'[x].do = "stamp" /\ r \in txn_map'[x].write_set
        <4>1. t \in DOMAIN txn_map
          BY <3>3, AtWork
        <4>2. CASE t # u
          <5>1. at'[t] = at[t] /\ txn_map'[t] = txn_map[t]
            BY <1>2, <4>1, <4>2, StepsOnly DEF OnlyOf
          <5> QED
            BY <3>1, <3>3, <5>1
        <4>3. CASE t = u
          <5>1. StampRow(u)
            <6>1. ~Begin(u)
              <7>1. Begin(u) => u \notin DOMAIN txn_map
                BY TransactionFields, TxnFacts DEF Begin, IdsIssued
              <7> QED
                BY <4>1, <4>3, <7>1
            <6>2. at[u].do = "stamp" /\ Idle.do # "stamp"
              BY <3>3, <4>3 DEF Idle
            <6>3. at[u] # Idle
              BY <6>2
            <6>4. ~Statement(u)
              BY <6>2, <6>3 DEF Statement, StartScan, Visit, Collect, EndScan, Drained, StartInsert
            <6>5. ~Write(u) /\ ~Join(u)
              BY <6>2, <6>3 DEF Write, Modify, LookUpKey, Revive, AppendRow, EnterKey, Join,
                 StartJoin, JoinRead, EndJoin
            <6>6. ~Abort(u)
              BY <6>2, <6>3 DEF Abort, StartAbort, RestoreRow, EndAbort
            <6> QED
              BY <1>2, <2>4, <6>1, <6>2, <6>3, <6>4, <6>5, <6>6
                 DEF Commit, StartCommit, Fetch, VerifyRow
          <5>2. at'[u].do = "stamp"
            BY <5>1, Stamped, GotoMoves
          <5>3. UNCHANGED txn_map
            BY <5>1 DEF StampRow
          <5> QED
            BY <3>1, <3>3, <4>3, <5>2, <5>3
        <4> QED
          BY <4>2, <4>3
      <3>4. CASE Untouched(r)
        <4>1. heap'[r] = heap[r]
          BY <3>4 DEF Untouched
        <4> QED
          BY <3>1, <3>2, <3>3, <4>1 DEF CommitInv, Stamps
      <3>5. CASE heap[r].ts = u /\ at[u].do = "stamp" /\ heap'[r].ts = last_commit_ts + 1
        <4>1. r \in txn_map[u].write_set
          BY <3>1, <3>5 DEF KeysInv, Owners
        <4> QED
          BY <3>3, <3>5, <4>1
      <3> QED
        BY <2>1, <2>4, <3>1, <3>2, <3>4, <3>5 DEF RowSteps
    <2> QED
      BY <2>2, <2>3, <2>4
  <1>3. CASE GarbageCollection
    <2>1. UNCHANGED <<heap, last_commit_ts>> /\ \A t \in Txn : at[t].do = "idle"
      BY <1>3 DEF GarbageCollection, table, Others, Idle
    <2> QED
      BY <2>1 DEF CommitInv, Stamps
  <1>4. CASE UNCHANGED vars
    <2>1. UNCHANGED <<heap, last_commit_ts, at, txn_map>>
      BY <1>4 DEF vars, table
    <2> QED
      BY <2>1 DEF CommitInv, Stamps
  <1> QED
    BY <1>2, <1>3, <1>4 DEF Next, Stamps

LEMMA EntererStep ==
    ASSUME IInv, KeysInv, CommitInv, [Next]_vars
    PROVE  Enterer'
  <1> USE DEF IInv, WatermarkInv, ChainInv
  <1>1. ASSUME NEW u \in Txn,
               Begin(u) \/ Statement(u) \/ Write(u) \/ Join(u) \/ Commit(u) \/ Abort(u),
               NEW t \in Txn, at'[t].do = "enter"
        PROVE  heap'[at'[t].rid].ts = t
    <2>1. CASE t # u
      <3>1. at'[t] = at[t]
        BY <1>1, <2>1, StepsOnly DEF OnlyOf
      <3>2. PICK r : r = at[t].rid /\ r \in DOMAIN heap /\ heap[r].ts = t
        BY <1>1, <3>1 DEF CommitInv, Enterer, RowsKnown, StepRows
      <3>3. Untouched(r)
        BY <1>1, <2>1, <3>2, OthersWritten DEF CommitInv, WrittenBy
      <3> QED
        BY <3>1, <3>2, <3>3 DEF Untouched
    <2>2. CASE t = u
      <3>1. ~Commit(u) /\ ~Abort(u)
        BY <1>1, <2>2, CommitMoves, AbortMoves
      <3>2. AppendRow(u) /\ at'[u].rid = Len(heap) + 1
        BY <1>1, <2>2, <3>1, WorkOn DEF Working
      <3>3. u \in DOMAIN txn_map
        BY <3>2, AtWork DEF AppendRow
      <3>4. PICK new : new = Len(heap) + 1
                       /\ heap'[new] = [tuple |-> Head(at[u].rows), ts |-> u, deleted |-> FALSE]
        BY <3>2, <3>3, Appended
      <3> QED
        BY <2>2, <3>2, <3>4
    <2> QED
      BY <2>1, <2>2
  <1>2. CASE GarbageCollection
    BY <1>2 DEF GarbageCollection, table, Others, CommitInv, Enterer
  <1>3. CASE UNCHANGED vars
    BY <1>3 DEF vars, table, CommitInv, Enterer
  <1> QED
    BY <1>1, <1>2, <1>3 DEF Next, Enterer

LEMMA InitCommits == ASSUME Init PROVE CommitInv
  <1>1. \A t \in Txn : at[t].do = "idle"
    BY DEF Init, Idle
  <1>2. \A r \in DOMAIN heap : heap[r].ts = 1
    <2>1. \A r \in 1..Len(Loaded) : heap[r].ts = 1
      BY DEF Init
    <2>2. DOMAIN heap = 1..Len(Loaded)
      BY DEF Init
    <2> QED
      BY <2>1, <2>2
  <1>3. last_commit_ts = 1 /\ DOMAIN txn_map = {}
    BY DEF Init
  <1> QED
    BY <1>1, <1>2, <1>3 DEF CommitInv, Mutex, Stamps, OwnBase, Enterer

LEMMA CommitsStep ==
    ASSUME IInv, IInv', KeysInv, CommitInv, [Next]_vars
    PROVE  CommitInv'
  BY MutexStep, StampsStep, OwnBaseStep, EntererStep DEF CommitInv

-----------------------------------------------------------------------------
(* The state of the abstract store. *)

\* The committed versions, the transactions in progress and what each of them has, as Mvcc
\* gives them to SnapshotStore.
Db == [k \in Key |-> StoreVersion(k, last_commit_ts)]
Running == {t \in Txn : InProgress(t)}

SnapOf(t) == [k \in Key |-> IF InProgress(t) THEN StoreVersion(k, txn_map[t].read_ts)
                            ELSE [ts |-> 0, v |-> Absent]]
MineOf(t) == IF ~InProgress(t) THEN <<>>
             ELSE [k \in {j \in Key : index[j] # NoRid /\ WrittenBy(t, index[j])} |->
                      Content(heap[index[k]])]
PredsOf(t) == IF InProgress(t) /\ txn_map[t].isolation_level = "SERIALIZABLE"
              THEN {p.holds : p \in txn_map[t].scan_predicates} ELSE {}

Snap  == [t \in Txn |-> SnapOf(t)]
Mine  == [t \in Txn |-> MineOf(t)]
Preds == [t \in Txn |-> PredsOf(t)]

\* What the store holds for t stays.
Same(t) ==
    /\ InProgress(t)' <=> InProgress(t)
    /\ SnapOf(t)' = SnapOf(t) /\ MineOf(t)' = MineOf(t) /\ PredsOf(t)' = PredsOf(t)

\* A step of the store, or none.
StoreStep == [Store!Next]_(Store!vars)

\* What the store does, when no one, and when one transaction, changes for it.
LEMMA Stutters ==
    ASSUME Db' = Db, last_commit_ts' = last_commit_ts, \A t \in Txn : Same(t)
    PROVE  StoreStep
  <1>1. Running' = Running
    BY DEF Running, Same
  <1>2. Snap' = Snap /\ Mine' = Mine /\ Preds' = Preds
    BY DEF Snap, Mine, Preds, Same
  <1> QED
    BY <1>1, <1>2 DEF StoreStep, Store!vars, Db, Running, Snap, Mine, Preds, SnapOf, MineOf, PredsOf

LEMMA NotRunning ==
    ASSUME NEW t
    PROVE  /\ ~InProgress(t) => SnapOf(t) = Store!Nobody /\ MineOf(t) = <<>> /\ PredsOf(t) = {}
           /\ ~InProgress(t)' => SnapOf(t)' = Store!Nobody /\ MineOf(t)' = <<>> /\ PredsOf(t)' = {}
  BY DEF SnapOf, MineOf, PredsOf, Store!Nobody, Store!Never

LEMMA Ends ==
    ASSUME NEW t \in Txn, ~InProgress(t)', \A u \in Txn : u # t => Same(u)
    PROVE  Store!End(t)
  <1>1. Running' = Running \ {t}
    BY DEF Running, Same
  <1>2. Snap' = [Snap EXCEPT ![t] = Store!Nobody]
    BY NotRunning DEF Snap, Same
  <1>3. Mine' = [Mine EXCEPT ![t] = <<>>]
    BY NotRunning DEF Mine, Same
  <1>4. Preds' = [Preds EXCEPT ![t] = {}]
    BY NotRunning DEF Preds, Same
  <1> QED
    BY <1>1, <1>2, <1>3, <1>4
       DEF Store!End, Running, Snap, Mine, Preds, SnapOf, MineOf, PredsOf

LEMMA AbortsStore ==
    ASSUME NEW t \in Txn, InProgress(t), ~InProgress(t)', \A u \in Txn : u # t => Same(u),
           Db' = Db, last_commit_ts' = last_commit_ts
    PROVE  StoreStep
  <1>1. Store!End(t)
    BY Ends
  <1>2. Store!Abort(t)
    BY <1>1 DEF Store!Abort, Db
  <1> QED
    BY <1>2 DEF StoreStep, Store!Next

LEMMA BeginsStore ==
    ASSUME NEW t \in Txn, ~InProgress(t), InProgress(t)', \A u \in Txn : u # t => Same(u),
           Db' = Db, last_commit_ts' = last_commit_ts,
           SnapOf(t)' = Db, MineOf(t)' = <<>>, PredsOf(t)' = {}
    PROVE  StoreStep
  <1>1. Running' = Running \cup {t} /\ t \notin Running
    BY DEF Running, Same
  <1>2. Snap' = [Snap EXCEPT ![t] = Db]
    BY DEF Snap, Same
  <1>3. Mine' = Mine /\ Preds' = Preds
    BY NotRunning DEF Mine, Preds, Same
  <1>4. Store!Begin(t)
    BY <1>1, <1>2, <1>3
       DEF Store!Begin, Db, Running, Snap, Mine, Preds, SnapOf, MineOf, PredsOf
  <1> QED
    BY <1>4 DEF StoreStep, Store!Next

LEMMA QueriesStore ==
    ASSUME NEW t \in Txn, InProgress(t), InProgress(t)', \A u \in Txn : u # t => Same(u),
           Db' = Db, last_commit_ts' = last_commit_ts,
           SnapOf(t)' = SnapOf(t), MineOf(t)' = MineOf(t),
           NEW p \in Predicate, PredsOf(t)' = PredsOf(t) \cup {p.holds}
    PROVE  StoreStep
  <1>1. Running' = Running /\ t \in Running
    BY DEF Running, Same
  <1>2. Snap' = Snap /\ Mine' = Mine
    BY DEF Snap, Mine, Same
  <1>3. PICK q : q = p.holds /\ q \in {x.holds : x \in Predicate}
    OBVIOUS
  <1>4. Preds' = [Preds EXCEPT ![t] = @ \cup {q}]
    BY <1>3 DEF Preds, Same
  <1>5. Store!Query(t, q)
    BY <1>1, <1>2, <1>4
       DEF Store!Query, Db, Running, Snap, Mine, Preds, SnapOf, MineOf, PredsOf
  <1> QED
    BY <1>3, <1>5 DEF StoreStep, Store!Next

LEMMA WritesStore ==
    ASSUME NEW t \in Txn, InProgress(t), InProgress(t)', \A u \in Txn : u # t => Same(u),
           Db' = Db, last_commit_ts' = last_commit_ts,
           SnapOf(t)' = SnapOf(t), PredsOf(t)' = PredsOf(t),
           NEW k \in Key, NEW x \in Value \cup {Absent},
           MineOf(t)' = [j \in DOMAIN MineOf(t) \cup {k} |-> IF j = k THEN x ELSE MineOf(t)[j]],
           \A u \in Txn : u # t => k \notin DOMAIN MineOf(u),
           Db[k] = SnapOf(t)[k]
    PROVE  StoreStep
  <1>1. Running' = Running /\ t \in Running
    BY DEF Running, Same
  <1>2. Snap' = Snap /\ Preds' = Preds
    BY DEF Snap, Preds, Same
  <1>3. Mine' = [Mine EXCEPT ![t] = [j \in DOMAIN @ \cup {k} |-> IF j = k THEN x ELSE @[j]]]
    BY DEF Mine, Same
  <1>4. \A u \in Running \ {t} : k \notin DOMAIN Mine[u]
    BY DEF Mine, Running
  <1>5. Db[k] = Snap[t][k]
    BY DEF Snap
  <1>6. Store!Write(t, k, x)
    BY <1>1, <1>2, <1>3, <1>4, <1>5
       DEF Store!Write, Db, Running, Snap, Mine, Preds, SnapOf, MineOf, PredsOf
  <1> QED
    BY <1>6 DEF StoreStep, Store!Next

\* What a query of t selects in the database is what it selected in the snapshot.
LEMMA CommitsStore ==
    ASSUME NEW t \in Txn, InProgress(t), ~InProgress(t)', \A u \in Txn : u # t => Same(u),
           last_commit_ts' = last_commit_ts + 1,
           \A k \in DOMAIN MineOf(t) : Db[k] = SnapOf(t)[k],
           DOMAIN MineOf(t) # {} => \A p \in PredsOf(t), k \in Key :
              Db[k] # SnapOf(t)[k] => ~Store!Selects(p, k, Db[k]) /\ ~Store!Selects(p, k, SnapOf(t)[k]),
           Db' = [k \in Key |-> IF k \in DOMAIN MineOf(t)
                                THEN [ts |-> last_commit_ts + 1, v |-> MineOf(t)[k]] ELSE Db[k]]
    PROVE  StoreStep
  <1>1. Store!End(t)
    BY Ends
  <1>2. t \in Running
    BY DEF Running
  <1>3. Snap[t] = SnapOf(t) /\ Mine[t] = MineOf(t) /\ Preds[t] = PredsOf(t)
    BY DEF Snap, Mine, Preds
  <1>4. \A k \in DOMAIN Mine[t] : Db[k] = Snap[t][k]
    BY <1>3
  <1>5. DOMAIN Mine[t] # {} => \A p \in Preds[t], k \in Key :
           Db[k] # Snap[t][k] => ~Store!Selects(p, k, Db[k]) /\ ~Store!Selects(p, k, Snap[t][k])
    BY <1>3
  <1>6. Db' = [k \in Key |-> IF k \in DOMAIN Mine[t]
                             THEN [ts |-> last_commit_ts + 1, v |-> Mine[t][k]] ELSE Db[k]]
    BY <1>3
  <1>7. Store!Commit(t)
    <2>1. DOMAIN Mine[t] # {} => Store!QueriesHold(t)
      BY <1>5 DEF Store!QueriesHold, Db, Snap, Mine, Preds, SnapOf, MineOf, PredsOf
    <2> QED
      BY <1>1, <1>2, <1>4, <1>6, <2>1
         DEF Store!Commit, Db, Running, Snap, Mine, Preds, SnapOf, MineOf, PredsOf
  <1> QED
    BY <1>7 DEF StoreStep, Store!Next

-----------------------------------------------------------------------------
(* The versions of the keys, by an account of the past. *)

\* The version of a key at a timestamp is the answer of the row that the index has for it.
VersionsTold(N) ==
    \A k \in Key, ts \in Nat : ts >= GetWatermark =>
        /\ index[k] = NoRid => StoreVersion(k, ts) = Nothing
        /\ \A r : index[k] = r /\ r # NoRid => StoreVersion(k, ts) = Answer(N, r, ts)

LEMMA KeysTold ==
    \A N : IInv /\ GetWatermark >= 1 /\ Told(N) => VersionsTold(N)
  BY StoreVersionIs DEF IInv, VersionsTold

LEMMA KeysToldNow ==
    ASSUME IInv', GetWatermark' >= 1, NEW M, Told(M)'
    PROVE  VersionsTold(M)'
  <1>1. (\A N : IInv /\ GetWatermark >= 1 /\ Told(N) => VersionsTold(N))'
    BY KeysTold, PTL
  <1> QED
    BY <1>1

LEMMA VersionsToldNow ==
    ASSUME NEW M, VersionsTold(M)', NEW k \in Key, NEW ts \in Nat, ts >= GetWatermark'
    PROVE  /\ index'[k] = NoRid => StoreVersion(k, ts)' = Nothing
           /\ \A r : index'[k] = r /\ r # NoRid => StoreVersion(k, ts)' = Answer(M, r, ts)'
  BY DEF VersionsTold

\* The row that a key is entered with has no version that others could read.
LEMMA EnteredVersion ==
    ASSUME IInv, IInv', GetWatermark' >= 1, KeysInv, Enterer, NEW M, Told(M)', NEW u \in Txn,
           EnterKey(u), NEW k \in Key, index'[k] # index[k],
           NEW ts \in Nat, ts >= GetWatermark', ts <= last_commit_ts
    PROVE  /\ index[k] = NoRid /\ StoreVersion(k, ts)' = Nothing
           /\ k = Head(at[u].rows).id /\ index'[k] = at[u].rid
           /\ at[u].rid \in DOMAIN heap /\ heap[at[u].rid].ts = u
           /\ UNCHANGED <<heap, undo_link, txn_map>> /\ Goto(u, NextRow(u))
  <1>1. /\ index[k] = NoRid /\ k = Head(at[u].rows).id /\ index'[k] = at[u].rid
        /\ UNCHANGED <<heap, undo_link, txn_map>> /\ Goto(u, NextRow(u))
    <2>1. PICK j : j = Head(at[u].rows).id
      OBVIOUS
    <2>2. IF index[j] # NoRid THEN ThrowWriteConflict(u)
          ELSE /\ index' = [index EXCEPT ![j] = at[u].rid]
               /\ Goto(u, NextRow(u))
               /\ UNCHANGED <<heap, undo_link, txn_map>>
      BY <2>1 DEF EnterKey
    <2>3. index[j] = NoRid
      BY <2>2 DEF ThrowWriteConflict, table
    <2>4. k = j
      BY <2>2, <2>3 DEF IInv, TypeOK
    <2> QED
      BY <2>1, <2>2, <2>3, <2>4 DEF IInv, TypeOK
  <1>2. PICK r : /\ r = at[u].rid /\ r \in DOMAIN heap /\ heap[r].ts = u
                 /\ heap[r].tuple.id = k
    BY <1>1 DEF EnterKey, IInv, RowsKnown, StepRows, Enterer, KeysInv, StepKeys
  <1>3. r # NoRid
    BY <1>2, IndexedFacts DEF IInv
  <1>4. undo_link[r] = InvalidLink
    <2>1. ~Indexed(r)
      BY <1>1, <1>2, <1>3 DEF Indexed
    <2> QED
      BY <1>2, <2>1 DEF KeysInv, RowsIndexed, Orphan
  <1>5. Answer(M, r, ts)' = Nothing
    <2>1. ~(u <= ts)
      BY AboveReaders DEF IInv
    <2>2. heap'[r].ts = u /\ undo_link'[r] = InvalidLink
      BY <1>1, <1>2, <1>4
    <2> QED
      BY <2>1, <2>2, AnswerNow DEF AnswerOf, IsValid, InvalidLink
  <1>6. VersionsTold(M)'
    BY KeysToldNow
  <1>7. StoreVersion(k, ts)' = Nothing
    BY <1>1, <1>2, <1>3, <1>5, <1>6, VersionsToldNow
  <1> QED
    BY <1>1, <1>2, <1>7

\* What a reader finds of a key does not change.
LEMMA VersionOn ==
    ASSUME IInv, IInv', GetWatermark >= 1, GetWatermark' >= 1, GetWatermark <= GetWatermark',
           GetWatermark \in Nat, GetWatermark' \in Nat,
           NEW N, Told(N), NEW M, Goes(N, M), NEW k \in Key, index'[k] = index[k],
           NEW ts \in Nat, ts >= GetWatermark', ts <= last_commit_ts
    PROVE  StoreVersion(k, ts)' = StoreVersion(k, ts)
  <1>1. VersionsTold(M)' /\ VersionsTold(N)
    BY KeysTold, KeysToldNow DEF Goes
  <1>2. ts >= GetWatermark
    OBVIOUS
  <1>3. CASE index[k] = NoRid
    <2>1. StoreVersion(k, ts)' = Nothing
      BY <1>1, <1>3, VersionsToldNow
    <2> QED
      BY <1>1, <1>2, <1>3, <2>1 DEF VersionsTold
  <1>4. CASE index[k] # NoRid
    <2>1. PICK r : r = index[k] /\ r \in DOMAIN heap
      BY <1>4 DEF IInv, TypeOK
    <2>2. StoreVersion(k, ts)' = Answer(M, r, ts)'
      BY <1>1, <1>4, <2>1, VersionsToldNow
    <2>3. StoreVersion(k, ts) = Answer(N, r, ts)
      BY <1>1, <1>2, <1>4, <2>1 DEF VersionsTold
    <2>4. Answer(M, r, ts)' = Answer(N, r, ts)
      BY <2>1 DEF Goes
    <2> QED
      BY <2>2, <2>3, <2>4
  <1> QED
    BY <1>3, <1>4

\* No step changes a version that was committed and is still in use.
LEMMA StepVersions ==
    ASSUME IInv, IInv', GetWatermark >= 1, KeysInv, Enterer, NEW N, Told(N), NEW M, Goes(N, M),
           [Next]_vars, NEW k \in Key, NEW ts \in Nat, ts >= GetWatermark', ts <= last_commit_ts
    PROVE  StoreVersion(k, ts)' = StoreVersion(k, ts)
  <1>1. GetWatermark \in Nat /\ GetWatermark' \in Nat /\ GetWatermark <= GetWatermark'
    BY WatermarkGrows
  <1>2. GetWatermark' >= 1 /\ ts >= GetWatermark
    BY <1>1
  <1>3. CASE index'[k] = index[k]
    BY <1>1, <1>2, <1>3, VersionOn
  <1>4. CASE index'[k] # index[k]
    <2>1. PICK u \in Txn : EnterKey(u)
      <3>1. GarbageCollection \/ UNCHANGED vars => UNCHANGED index
        BY DEF GarbageCollection, vars, table
      <3>2. ASSUME NEW u \in Txn,
                   Begin(u) \/ Statement(u) \/ Write(u) \/ Join(u) \/ Commit(u) \/ Abort(u)
            PROVE  EnterKey(u)
        BY <1>4, <3>2, StepsOnly DEF IInv
      <3> QED
        BY <1>4, <3>1, <3>2 DEF Next
    <2>2. /\ index[k] = NoRid /\ StoreVersion(k, ts)' = Nothing
      BY <1>2, <1>4, <2>1, EnteredVersion DEF Goes
    <2>3. VersionsTold(N)
      BY KeysTold
    <2> QED
      BY <1>2, <2>2, <2>3 DEF VersionsTold
  <1> QED
    BY <1>3, <1>4

-----------------------------------------------------------------------------
(* What the others see. *)

\* Nobody begins in the place of another.
LEMMA TxnMapGrows ==
    ASSUME TypeOK, WatermarkInv, RowsKnown, ChainInv, KeysInv, NEW u \in Txn,
           Begin(u) \/ Statement(u) \/ Write(u) \/ Join(u) \/ Commit(u) \/ Abort(u)
    PROVE  DOMAIN txn_map' \subseteq DOMAIN txn_map \cup {u}
  <1>1. CASE Begin(u)
    BY <1>1 DEF Begin
  <1>2. CASE StartScan(u)
    BY <1>2, StartScanTxn DEF Continues
  <1>3. CASE EndCommit(u)
    BY <1>3, EndCommitTxn DEF Continues, WatermarkInv
  <1>4. CASE EndAbort(u)
    BY <1>4, EndAbortTxn DEF Continues, WatermarkInv
  <1> QED
    BY <1>1, <1>2, <1>3, <1>4, StepCarries DEF Carries, Continues

\* A transaction has the same writes when its rows are the same.
LEMMA SameMine ==
    ASSUME NEW t, InProgress(t)' <=> InProgress(t),
           \A k \in Key : (index[k] # NoRid /\ WrittenBy(t, index[k]))'
                             <=> index[k] # NoRid /\ WrittenBy(t, index[k]),
           \A k \in Key : index[k] # NoRid /\ WrittenBy(t, index[k]) =>
              Content(heap[index[k]])' = Content(heap[index[k]])
    PROVE  MineOf(t)' = MineOf(t)
  <1>1. PICK K : K = {k \in Key : index[k] # NoRid /\ WrittenBy(t, index[k])}
    OBVIOUS
  <1>2. K = {k \in Key : (index[k] # NoRid /\ WrittenBy(t, index[k]))'}
    BY <1>1
  <1>3. MineOf(t) = IF ~InProgress(t) THEN <<>> ELSE [k \in K |-> Content(heap[index[k]])]
    BY <1>1 DEF MineOf
  <1>4. MineOf(t)' = IF ~InProgress(t)' THEN <<>> ELSE [k \in K |-> Content(heap[index[k]])']
    BY <1>2 DEF MineOf
  <1>5. \A k \in K : Content(heap[index[k]])' = Content(heap[index[k]])
    BY <1>1
  <1> QED
    BY <1>3, <1>4, <1>5

LEMMA WrittenTs ==
    ASSUME NEW t, NEW r, WrittenBy(t, r)
    PROVE  heap[r].ts = t \/ heap[r].ts = last_commit_ts + 1
  BY DEF WrittenBy

\* A row in progress has no committed version, and one writer.
LEMMA OneWriter ==
    ASSUME IInv, CommitInv, NEW t \in Txn, NEW u \in Txn, t # u, NEW r \in DOMAIN heap,
           WrittenBy(t, r)
    PROVE  ~WrittenBy(u, r) /\ ~(heap[r].ts <= last_commit_ts)
  <1>1. last_commit_ts \in Nat /\ last_commit_ts + 1 \notin Txn
    <2>1. last_commit_ts \in Nat /\ last_commit_ts + 1 \in Nat
      BY DEF IInv, TypeOK
    <2> QED
      BY <2>1, CommitIsNoTxn DEF IInv
  <1>2. ~(t <= last_commit_ts)
    BY AboveReaders DEF IInv
  <1>3. at[t].do = "stamp" => at[u].do # "stamp"
    BY DEF CommitInv, Mutex
  <1> QED
    BY <1>1, <1>2, <1>3 DEF WrittenBy

\* The same, by rows: a key may enter the index with a row that is not its own.
LEMMA MineRows ==
    ASSUME TypeOK, NEW t, InProgress(t)' <=> InProgress(t),
           \A r \in DOMAIN heap : /\ WrittenBy(t, r)' <=> WrittenBy(t, r)
                                  /\ WrittenBy(t, r) => Content(heap'[r]) = Content(heap[r]),
           \A k \in Key : \/ index'[k] = index[k]
                          \/ /\ index[k] = NoRid
                             /\ \E r : r = index'[k] /\ ~WrittenBy(t, r)'
    PROVE  MineOf(t)' = MineOf(t)
  <1>1. ASSUME NEW k \in Key
        PROVE  /\ (index[k] # NoRid /\ WrittenBy(t, index[k]))'
                      <=> index[k] # NoRid /\ WrittenBy(t, index[k])
               /\ index[k] # NoRid /\ WrittenBy(t, index[k]) =>
                      Content(heap[index[k]])' = Content(heap[index[k]])
    <2>1. CASE index'[k] = index[k] /\ index[k] # NoRid
      <3>1. PICK r : r = index[k] /\ r \in DOMAIN heap
        BY <2>1 DEF TypeOK
      <3>2. /\ WrittenBy(t, r)' <=> WrittenBy(t, r)
            /\ WrittenBy(t, r) => Content(heap'[r]) = Content(heap[r])
        BY <3>1
      <3>3. WrittenBy(t, index[k])' <=> WrittenBy(t, r)'
        BY <2>1, <3>1 DEF WrittenBy
      <3>4. Content(heap[index[k]])' = Content(heap'[r])
        BY <2>1, <3>1 DEF Content
      <3> QED
        BY <2>1, <3>1, <3>2, <3>3, <3>4
    <2>2. CASE index'[k] = index[k] /\ index[k] = NoRid
      BY <2>2
    <2>3. CASE index[k] = NoRid /\ \E r : r = index'[k] /\ ~WrittenBy(t, r)'
      <3>1. PICK r : r = index'[k] /\ ~WrittenBy(t, r)'
        BY <2>3
      <3>2. WrittenBy(t, index[k])' <=> WrittenBy(t, r)'
        BY <3>1 DEF WrittenBy
      <3> QED
        BY <2>3, <3>1, <3>2
    <2> QED
      BY <2>1, <2>2, <2>3
  <1> QED
    BY <1>1, SameMine

\* The snapshot of a transaction in progress is at or above the watermark.
LEMMA ActiveAbove ==
    \A x : IInv /\ x \in DOMAIN txn_map /\ Active(x) => txn_map[x].read_ts >= GetWatermark
  BY ReadersAbove DEF IInv

\* A snapshot that is in use stays.
LEMMA SnapOn ==
    ASSUME IInv, IInv', GetWatermark >= 1, KeysInv, Enterer, NEW N, Told(N), NEW M, Goes(N, M),
           [Next]_vars, NEW t \in Txn, InProgress(t), InProgress(t)',
           txn_map'[t].read_ts = txn_map[t].read_ts
    PROVE  SnapOf(t)' = SnapOf(t)
  <1>1. PICK ts : ts = txn_map[t].read_ts
    OBVIOUS
  <1>2. ts \in Nat /\ ts <= last_commit_ts /\ ts >= GetWatermark
    BY <1>1, ReadersAbove DEF IInv, InProgress, Active
  <1>3. ts >= GetWatermark'
    <2>1. t \in DOMAIN txn_map' /\ Active(t)'
      BY DEF InProgress, Active
    <2>2. (\A x : IInv /\ x \in DOMAIN txn_map /\ Active(x) => txn_map[x].read_ts >= GetWatermark)'
      BY ActiveAbove, PTL
    <2> QED
      BY <1>1, <2>1, <2>2
  <1>4. \A k \in Key : StoreVersion(k, ts)' = StoreVersion(k, ts)
    BY <1>2, <1>3, StepVersions
  <1>5. SnapOf(t)' = [k \in Key |-> StoreVersion(k, ts)']
    BY <1>1 DEF SnapOf
  <1>6. SnapOf(t) = [k \in Key |-> StoreVersion(k, ts)]
    BY <1>1 DEF SnapOf
  <1> QED
    BY <1>4, <1>5, <1>6

\* A step of u leaves the snapshot, the writes and the queries of everybody else.
LEMMA OthersSame ==
    ASSUME IInv, IInv', GetWatermark >= 1, KeysInv, CommitInv, NEW N, Told(N), NEW M, Goes(N, M),
           NEW u \in Txn, Begin(u) \/ Statement(u) \/ Write(u) \/ Join(u) \/ Commit(u) \/ Abort(u),
           NEW t \in Txn, t # u
    PROVE  Same(t)
  <1> USE DEF IInv, WatermarkInv, ChainInv
  <1>1. /\ at'[t] = at[t]
        /\ t \in DOMAIN txn_map' <=> t \in DOMAIN txn_map
        /\ t \in DOMAIN txn_map => txn_map'[t] = txn_map[t]
    BY StepsOnly, TxnMapGrows DEF OnlyOf
  <1>2. InProgress(t)' <=> InProgress(t)
    BY <1>1 DEF InProgress, Active
  <1>3. PredsOf(t)' = PredsOf(t)
    BY <1>1, <1>2 DEF PredsOf, InProgress, Active
  <1>4. [Next]_vars
    BY DEF Next
  <1>5. SnapOf(t)' = SnapOf(t)
    <2>1. CASE InProgress(t)
      BY <1>1, <1>2, <1>4, <2>1, SnapOn DEF InProgress, Active, CommitInv
    <2>2. CASE ~InProgress(t)
      BY <1>2, <2>2, NotRunning
    <2> QED
      BY <2>1, <2>2
  <1>6. MineOf(t)' = MineOf(t)
    <2>1. \A r \in DOMAIN heap : /\ WrittenBy(t, r)' <=> WrittenBy(t, r)
                                 /\ WrittenBy(t, r) => Content(heap'[r]) = Content(heap[r])
      BY OthersWritten DEF CommitInv, Untouched
    <2>2. ASSUME NEW k \in Key, index'[k] # index[k]
          PROVE  index[k] = NoRid /\ \E r : r = index'[k] /\ ~WrittenBy(t, r)'
      <3>1. EnterKey(u)
        BY <2>2, StepsOnly
      <3>2. index[k] = NoRid
        BY <2>2, StepIndex DEF IndexGrows
      <3>3. PICK r : r = at[u].rid /\ r \in DOMAIN heap /\ heap[r].ts = u
        BY <3>1 DEF EnterKey, RowsKnown, StepRows, CommitInv, Enterer
      <3>4. index'[k] = r
        <4>1. PICK j : j = Head(at[u].rows).id
          OBVIOUS
        <4>2. IF index[j] # NoRid THEN ThrowWriteConflict(u)
              ELSE index' = [index EXCEPT ![j] = at[u].rid]
          BY <3>1, <4>1 DEF EnterKey
        <4> QED
          BY <2>2, <3>3, <4>2 DEF TypeOK, ThrowWriteConflict, table
      <3>5. WrittenBy(u, r)
        BY <3>3 DEF WrittenBy
      <3>6. ~WrittenBy(t, r)'
        BY <2>1, <3>3, <3>5, OneWriter
      <3> QED
        BY <3>2, <3>4, <3>6
    <2> QED
      BY <1>2, <2>1, <2>2, MineRows
  <1> QED
    BY <1>2, <1>3, <1>5, <1>6 DEF Same

-----------------------------------------------------------------------------
(* Steps that the store does not see. *)

LEMMA WatermarkBelow == IInv => GetWatermark \in Nat /\ GetWatermark <= last_commit_ts
  BY WatermarkIs DEF IInv, WatermarkLeast

\* As long as no commit ends, the committed versions stay.
LEMMA DbOn ==
    ASSUME IInv, IInv', GetWatermark >= 1, KeysInv, Enterer, NEW N, Told(N), NEW M, Goes(N, M),
           [Next]_vars, UNCHANGED last_commit_ts
    PROVE  Db' = Db
  <1>1. PICK ts : ts = last_commit_ts
    OBVIOUS
  <1>2. (GetWatermark \in Nat /\ GetWatermark <= last_commit_ts)'
    BY WatermarkBelow, PTL
  <1>3. ts \in Nat /\ ts >= GetWatermark' /\ ts <= last_commit_ts
    BY <1>1, <1>2 DEF IInv, TypeOK
  <1>4. \A k \in Key : StoreVersion(k, ts)' = StoreVersion(k, ts)
    BY <1>3, StepVersions
  <1>5. Db' = [k \in Key |-> StoreVersion(k, ts)'] /\ Db = [k \in Key |-> StoreVersion(k, ts)]
    BY <1>1 DEF Db
  <1> QED
    BY <1>4, <1>5

\* At work on a statement, t neither commits nor aborts.
LEMMA WorkFrom ==
    ASSUME BusyActive, NEW u \in Txn, Statement(u) \/ Write(u) \/ Join(u)
    PROVE  at[u].do \notin {"stamp", "verify", "abort"} /\ Active(u) /\ InProgress(u)
           /\ u \in DOMAIN txn_map
  <1>1. \/ at[u] = Idle /\ Runs(u)
        \/ at[u].do \in {"scan", "modify", "append", "revive", "enter", "join", "joined"}
    BY DEF Statement, StartScan, Visit, Collect, EndScan, Drained, StartInsert, Write, Modify,
       LookUpKey, Revive, AppendRow, EnterKey, Join, StartJoin, JoinRead, EndJoin
  <1>2. Idle.do = "idle"
    BY DEF Idle
  <1>3. at[u].do \notin {"stamp", "verify", "abort"}
    BY <1>1, <1>2
  <1>4. Active(u) /\ u \in DOMAIN txn_map
    BY <1>1, AtWork, RunsIsActive
  <1> QED
    BY <1>3, <1>4, SMTT(30) DEF InProgress

\* Nor does it begin to commit or to abort in a step of a statement.
LEMMA WorkTo ==
    ASSUME TypeOK, WatermarkInv, RowsKnown, NEW u \in Txn, Statement(u) \/ Write(u) \/ Join(u)
    PROVE  at'[u].do \notin {"stamp", "verify", "abort"}
  BY WorkOn DEF Working

\* A step that changes neither the rows of its transaction nor its view.
LEMMA HiddenStep ==
    ASSUME IInv, IInv', GetWatermark >= 1, KeysInv, CommitInv, NEW N, Told(N), NEW M, Goes(N, M),
           NEW u \in Txn, Statement(u) \/ Write(u) \/ Join(u) \/ Commit(u) \/ Abort(u),
           UNCHANGED <<last_commit_ts, index>>,
           InProgress(u), InProgress(u)', PredsOf(u)' = PredsOf(u),
           txn_map'[u].read_ts = txn_map[u].read_ts,
           \A r \in DOMAIN heap : /\ WrittenBy(u, r)' <=> WrittenBy(u, r)
                                  /\ WrittenBy(u, r) => Content(heap'[r]) = Content(heap[r])
    PROVE  StoreStep
  <1>1. [Next]_vars
    BY DEF Next
  <1>2. Db' = Db
    BY <1>1, DbOn DEF CommitInv
  <1>3. SnapOf(u)' = SnapOf(u)
    BY <1>1, SnapOn DEF CommitInv
  <1>4. MineOf(u)' = MineOf(u)
    BY MineRows DEF IInv
  <1>5. Same(u)
    BY <1>3, <1>4 DEF Same
  <1>6. \A t \in Txn : t # u => Same(t)
    BY OthersSame
  <1> QED
    BY <1>2, <1>5, <1>6, Stutters

\* A transaction whose step changes nothing of it stays in progress.
LEMMA CarriesOn ==
    ASSUME NEW u \in DOMAIN txn_map, Active(u), Carries(u)
    PROVE  /\ Active(u)' /\ txn_map'[u].read_ts = txn_map[u].read_ts
           /\ at[u].do # "abort" /\ at'[u].do # "abort" =>
                 InProgress(u) /\ InProgress(u)' /\ PredsOf(u)' = PredsOf(u)
  BY DEF Active, Carries, Continues, InProgress, PredsOf

\* Reads, conflicts and joins.
LEMMA WorkHidden ==
    ASSUME IInv, IInv', GetWatermark >= 1, KeysInv, CommitInv, NEW N, Told(N), NEW M, Goes(N, M),
           NEW u \in Txn, Statement(u) \/ Write(u) \/ Join(u), ~StartScan(u), UNCHANGED index,
           \A r \in DOMAIN heap : heap'[r] = heap[r]
    PROVE  StoreStep
  <1> USE DEF IInv, WatermarkInv, ChainInv
  <1>1. at[u].do \notin {"stamp", "verify", "abort"} /\ Active(u) /\ u \in DOMAIN txn_map
    BY WorkFrom
  <1>2. at'[u].do \notin {"stamp", "verify", "abort"} /\ UNCHANGED last_commit_ts
    BY WorkTo, WorkMutex
  <1>3. Carries(u)
    <2>1. ~EndCommit(u) /\ ~EndAbort(u)
      BY <1>1 DEF EndCommit, EndAbort
    <2> QED
      BY <2>1, StepCarries
  <1>4. /\ InProgress(u) /\ InProgress(u)' /\ PredsOf(u)' = PredsOf(u)
        /\ txn_map'[u].read_ts = txn_map[u].read_ts
    BY <1>1, <1>2, <1>3, CarriesOn
  <1>5. \A r \in DOMAIN heap : /\ WrittenBy(u, r)' <=> WrittenBy(u, r)
                               /\ WrittenBy(u, r) => Content(heap'[r]) = Content(heap[r])
    BY <1>1, <1>2 DEF WrittenBy
  <1> QED
    BY <1>2, <1>4, <1>5, HiddenStep

-----------------------------------------------------------------------------
(* A transaction begins; it asks a query. *)

\* A transaction without rows has written nothing.
LEMMA NoWritesNow ==
    ASSUME NEW t, InProgress(t)', \A k \in Key : index'[k] # NoRid => ~WrittenBy(t, index[k])'
    PROVE  MineOf(t)' = <<>>
  <1>1. {j \in Key : index'[j] # NoRid /\ WrittenBy(t, index[j])'} = {}
    OBVIOUS
  <1>2. MineOf(t)' = [k \in {} |-> Content(heap[index[k]])']
    BY <1>1 DEF MineOf
  <1> QED
    BY <1>2

\* Begin: the snapshot is what is committed now.
LEMMA BeginStep ==
    ASSUME IInv, IInv', GetWatermark >= 1, KeysInv, CommitInv, NEW N, Told(N), NEW M, Goes(N, M),
           NEW u \in Txn, Begin(u)
    PROVE  StoreStep
  <1> USE DEF IInv, WatermarkInv, ChainInv
  <1>1. u = next_txn_id /\ UNCHANGED <<heap, index, last_commit_ts, at>>
    BY DEF Begin, table
  <1>2. u \notin DOMAIN txn_map
    BY <1>1, TransactionFields, TxnFacts DEF IdsIssued
  <1>3. at[u].do = "idle" /\ at'[u].do = "idle"
    BY <1>1, <1>2, AtWork
  <1>4. PICK ts : ts = last_commit_ts
    OBVIOUS
  <1>5. /\ u \in DOMAIN txn_map' /\ txn_map'[u].state = "RUNNING"
        /\ txn_map'[u].read_ts = ts /\ txn_map'[u].scan_predicates = {}
    BY <1>4 DEF Begin
  <1>6. ~InProgress(u) /\ InProgress(u)'
    BY <1>2, <1>3, <1>5 DEF InProgress, Active
  <1>7. Db' = Db
    <2>1. [Next]_vars
      BY DEF Next
    <2> QED
      BY <1>1, <2>1, DbOn DEF CommitInv
  <1>8. SnapOf(u)' = Db
    <2>1. SnapOf(u)' = [k \in Key |-> StoreVersion(k, ts)']
      BY <1>5, <1>6 DEF SnapOf
    <2>2. Db' = [k \in Key |-> StoreVersion(k, ts)']
      BY <1>1, <1>4 DEF Db
    <2> QED
      BY <1>7, <2>1, <2>2
  <1>9. MineOf(u)' = <<>>
    <2>1. ASSUME NEW k \in Key, index'[k] # NoRid
          PROVE  ~WrittenBy(u, index[k])'
      <3>1. PICK r : r = index[k] /\ r \in DOMAIN heap
        BY <1>1, <2>1 DEF TypeOK
      <3>2. heap[r].ts # u
        BY <1>2, <3>1 DEF KeysInv, Owners
      <3> QED
        BY <1>1, <1>3, <3>1, <3>2 DEF WrittenBy
    <2> QED
      BY <1>6, <2>1, NoWritesNow
  <1>10. PredsOf(u)' = {}
    BY <1>5 DEF PredsOf
  <1>11. \A t \in Txn : t # u => Same(t)
    BY OthersSame
  <1> QED
    BY <1>1, <1>6, <1>7, <1>8, <1>9, <1>10, <1>11, BeginsStore

\* The start of a scan is a query.
LEMMA StartScanStep ==
    ASSUME IInv, IInv', GetWatermark >= 1, KeysInv, CommitInv, NEW N, Told(N), NEW M, Goes(N, M),
           NEW u \in Txn, StartScan(u)
    PROVE  StoreStep
  <1> USE DEF IInv, WatermarkInv, ChainInv
  <1>1. Statement(u)
    BY DEF Statement
  <1>2. at[u].do \notin {"stamp", "verify", "abort"} /\ Active(u) /\ u \in DOMAIN txn_map
    BY <1>1, WorkFrom
  <1>3. at'[u].do \notin {"stamp", "verify", "abort"} /\ UNCHANGED last_commit_ts
    BY <1>1, WorkTo, WorkMutex
  <1>4. UNCHANGED <<heap, index>>
    BY DEF StartScan, table
  <1>5. PICK p : p = Head(program[u].todo).where /\ p \in Predicate
    BY TodoType, CommandFields, ScanningFields DEF StartScan
  <1>6. /\ DOMAIN txn_map' = DOMAIN txn_map
        /\ txn_map'[u].state = txn_map[u].state
        /\ txn_map'[u].read_ts = txn_map[u].read_ts
        /\ txn_map'[u].isolation_level = txn_map[u].isolation_level
        /\ txn_map'[u].scan_predicates = txn_map[u].scan_predicates \cup {p}
    BY <1>5, StartScanTxn DEF Continues
  <1>7. InProgress(u) /\ InProgress(u)'
    BY <1>2, <1>3, <1>6 DEF InProgress, Active
  <1>8. \A r \in DOMAIN heap : /\ WrittenBy(u, r)' <=> WrittenBy(u, r)
                               /\ WrittenBy(u, r) => Content(heap'[r]) = Content(heap[r])
    BY <1>2, <1>3, <1>4 DEF WrittenBy
  <1>9. CASE txn_map[u].isolation_level = "SERIALIZABLE"
    <2>1. [Next]_vars
      BY <1>1 DEF Next
    <2>2. Db' = Db /\ SnapOf(u)' = SnapOf(u)
      BY <1>3, <1>6, <1>7, <2>1, DbOn, SnapOn DEF CommitInv
    <2>3. MineOf(u)' = MineOf(u)
      BY <1>4, <1>7, <1>8, MineRows
    <2>4. PredsOf(u)' = PredsOf(u) \cup {p.holds}
      BY <1>6, <1>7, <1>9 DEF PredsOf
    <2>5. \A t \in Txn : t # u => Same(t)
      BY <1>1, OthersSame
    <2> QED
      BY <1>3, <1>5, <1>7, <2>2, <2>3, <2>4, <2>5, QueriesStore
  <1>10. CASE txn_map[u].isolation_level # "SERIALIZABLE"
    <2>1. PredsOf(u)' = PredsOf(u)
      BY <1>6, <1>10 DEF PredsOf
    <2> QED
      BY <1>1, <1>3, <1>4, <1>6, <1>7, <1>8, <2>1, HiddenStep
  <1> QED
    BY <1>9, <1>10

-----------------------------------------------------------------------------
(* A transaction writes a row. *)

\* A row that t has written is in the database as it is in the snapshot of t.
LEMMA OwnAnswer ==
    ASSUME IInv, GetWatermark >= 1, CommitInv, NEW N, Told(N),
           NEW t \in DOMAIN txn_map, Active(t), NEW r \in DOMAIN heap, WrittenBy(t, r),
           NEW low, low = txn_map[t].read_ts, NEW ts \in Nat, ts >= low, ts <= last_commit_ts
    PROVE  Answer(N, r, ts) = Answer(N, r, low)
  <1> USE DEF IInv, WatermarkInv, ChainInv
  <1>1. /\ low \in Nat /\ low >= GetWatermark /\ GetWatermark \in Nat /\ last_commit_ts \in Nat
        /\ low <= last_commit_ts
    BY ReadersAbove DEF TypeOK
  <1>2. ~(heap[r].ts <= ts) /\ ~(heap[r].ts <= low) /\ heap[r].ts > GetWatermark
    <2>1. heap[r].ts = t \/ heap[r].ts = last_commit_ts + 1
      BY WrittenTs
    <2>2. heap[r].ts > last_commit_ts /\ heap[r].ts \in Nat
      BY <1>1, <2>1, AboveReaders, TransactionFields
    <2> QED
      BY <1>1, <2>2
  <1>3. PICK l : l = undo_link[r] /\ l \in Link
    BY RowType
  <1>4. CASE l = InvalidLink
    BY <1>2, <1>3, <1>4 DEF Answer, AnswerOf, IsValid, InvalidLink
  <1>5. CASE l.txn = t /\ LogAt(l).ts <= low
    <2>1. IsValid(l)
      BY <1>5, TransactionFields, TxnFacts DEF IsValid
    <2>2. l \in DOMAIN N
      BY <1>2, <1>3, <2>1 DEF Told, RowLeads, Leads
    <2>3. \A x \in Nat : x >= GetWatermark =>
             N[l].past[x] = AnswerOf(N, LogAt(l).ts, N[l].v, LogAt(l).prev_version, x)
      BY <2>2 DEF Told, Recorded
    <2>4. LogAt(l).ts \in Nat
      BY <2>2, ToldLog
    <2>5. LogAt(l).ts <= ts
      BY <1>1, <1>5, <2>4
    <2>6. N[l].past[ts] = [ts |-> LogAt(l).ts, v |-> N[l].v]
      BY <1>1, <2>3, <2>5 DEF AnswerOf
    <2>7. N[l].past[low] = [ts |-> LogAt(l).ts, v |-> N[l].v]
      BY <1>1, <1>5, <2>3 DEF AnswerOf
    <2> QED
      BY <1>2, <1>3, <2>1, <2>6, <2>7 DEF Answer, AnswerOf
  <1> QED
    BY <1>3, <1>4, <1>5 DEF CommitInv, OwnBase

\* The keys that t has written.
LEMMA MineDomain ==
    ASSUME NEW t
    PROVE  /\ InProgress(t) => DOMAIN MineOf(t) = {j \in Key : index[j] # NoRid /\ WrittenBy(t, index[j])}
           /\ ~InProgress(t) => DOMAIN MineOf(t) = {}
  <1>1. CASE InProgress(t)
    <2>1. PICK D : D = {j \in Key : index[j] # NoRid /\ WrittenBy(t, index[j])}
      OBVIOUS
    <2>2. MineOf(t) = [k \in D |-> Content(heap[index[k]])]
      BY <1>1, <2>1 DEF MineOf
    <2>3. DOMAIN MineOf(t) = D
      BY <2>2
    <2> QED
      BY <1>1, <2>1, <2>3
  <1>2. CASE ~InProgress(t)
    BY <1>2 DEF MineOf
  <1> QED
    BY <1>1, <1>2

\* A row of t that enters its writes, or is written again.
LEMMA MineWith ==
    ASSUME NEW t, InProgress(t), InProgress(t)', NEW k \in Key, NEW r, r # NoRid, index'[k] = r,
           WrittenBy(t, r)', NEW x, Content(heap'[r]) = x,
           \A j \in Key : j # k => index'[j] = index[j],
           \A j \in Key : j # k /\ index[j] # NoRid => \A s : s = index[j] =>
              (WrittenBy(t, s)' <=> WrittenBy(t, s)) /\ Content(heap'[s]) = Content(heap[s])
    PROVE  MineOf(t)' = [j \in DOMAIN MineOf(t) \cup {k} |-> IF j = k THEN x ELSE MineOf(t)[j]]
  <1>1. PICK D : D = {j \in Key : index[j] # NoRid /\ WrittenBy(t, index[j])}
    OBVIOUS
  <1>2. MineOf(t) = [j \in D |-> Content(heap[index[j]])]
    BY <1>1 DEF MineOf
  <1>3. D \cup {k} = {j \in Key : index'[j] # NoRid /\ WrittenBy(t, index[j])'}
    <2>1. index'[k] # NoRid /\ WrittenBy(t, index[k])'
      BY DEF WrittenBy
    <2>2. ASSUME NEW j \in Key, j # k
          PROVE  j \in D <=> index'[j] # NoRid /\ WrittenBy(t, index[j])'
      <3>1. PICK s : s = index[j] /\ s = index'[j]
        BY <2>2
      <3>2. WrittenBy(t, index[j])' <=> WrittenBy(t, s)'
        BY <3>1 DEF WrittenBy
      <3>3. s # NoRid => (WrittenBy(t, s)' <=> WrittenBy(t, s))
        BY <2>2, <3>1
      <3> QED
        BY <1>1, <2>2, <3>1, <3>2, <3>3
    <2> QED
      BY <1>1, <2>1, <2>2
  <1>4. MineOf(t)' = [j \in D \cup {k} |-> Content(heap[index[j]])']
    BY <1>3 DEF MineOf
  <1>5. Content(heap[index[k]])' = x
    BY DEF Content
  <1>6. ASSUME NEW j \in D, j # k
        PROVE  Content(heap[index[j]])' = Content(heap[index[j]])
    <2>1. PICK s : s = index[j] /\ s = index'[j] /\ s # NoRid /\ j \in Key
      BY <1>1, <1>6
    <2>2. Content(heap'[s]) = Content(heap[s])
      BY <1>6, <2>1
    <2>3. Content(heap[index[j]])' = Content(heap'[s])
      BY <2>1 DEF Content
    <2> QED
      BY <2>1, <2>2, <2>3
  <1>7. DOMAIN MineOf(t) = D /\ \A j \in D : MineOf(t)[j] = Content(heap[index[j]])
    BY <1>2
  <1>8. \A j \in D \cup {k} :
           Content(heap[index[j]])' = IF j = k THEN x ELSE MineOf(t)[j]
    BY <1>5, <1>6, <1>7
  <1> QED
    BY <1>4, <1>7, <1>8

\* A key that t has written, or that nobody wrote since t began, is in the database as it is in
\* the snapshot of t.
LEMMA KeyUnchanged ==
    ASSUME IInv, GetWatermark >= 1, CommitInv, NEW N, Told(N),
           NEW t \in Txn, InProgress(t), NEW k \in Key,
           index[k] # NoRid => \E r : /\ r = index[k]
                                      /\ WrittenBy(t, r) \/ heap[r].ts <= txn_map[t].read_ts
    PROVE  Db[k] = SnapOf(t)[k]
  <1> USE DEF IInv, WatermarkInv, ChainInv
  <1>1. t \in DOMAIN txn_map /\ Active(t)
    BY DEF InProgress, Active
  <1>2. PICK low : low = txn_map[t].read_ts
    OBVIOUS
  <1>3. /\ low \in Nat /\ low >= GetWatermark /\ GetWatermark \in Nat /\ last_commit_ts \in Nat
        /\ low <= last_commit_ts
    BY <1>1, <1>2, ReadersAbove DEF TypeOK
  <1>4. Db[k] = StoreVersion(k, last_commit_ts) /\ SnapOf(t)[k] = StoreVersion(k, low)
    BY <1>2 DEF Db, SnapOf
  <1>5. last_commit_ts >= GetWatermark
    BY <1>3
  <1>6. VersionsTold(N)
    BY KeysTold
  <1>7. CASE index[k] = NoRid
    BY <1>3, <1>4, <1>5, <1>6, <1>7 DEF VersionsTold
  <1>8. CASE index[k] # NoRid
    <2>1. PICK r : /\ r = index[k] /\ r \in DOMAIN heap
                   /\ WrittenBy(t, r) \/ heap[r].ts <= txn_map[t].read_ts
      BY <1>8 DEF TypeOK
    <2>2. /\ StoreVersion(k, last_commit_ts) = Answer(N, r, last_commit_ts)
          /\ StoreVersion(k, low) = Answer(N, r, low)
      BY <1>3, <1>5, <1>6, <1>8, <2>1 DEF VersionsTold
    <2>3. CASE WrittenBy(t, r)
      BY <1>1, <1>2, <1>3, <1>4, <2>1, <2>2, <2>3, OwnAnswer
    <2>4. CASE heap[r].ts <= low
      <3>1. heap[r].ts \in Nat
        BY <2>1, RowType
      <3>2. heap[r].ts <= last_commit_ts
        BY <1>3, <2>4, <3>1
      <3>3. Answer(N, r, last_commit_ts) = Answer(N, r, low)
        BY <2>4, <3>2 DEF Answer, AnswerOf
      <3> QED
        BY <1>4, <2>2, <3>3
    <2> QED
      BY <1>2, <2>1, <2>3, <2>4
  <1> QED
    BY <1>7, <1>8

\* No other transaction in progress has written the key.
LEMMA KeyFree ==
    ASSUME IInv, CommitInv, NEW t \in Txn, t \in DOMAIN txn_map, Active(t), NEW k \in Key,
           index[k] # NoRid => \E r : /\ r = index[k]
                                      /\ WrittenBy(t, r) \/ heap[r].ts <= txn_map[t].read_ts,
           NEW u \in Txn, u # t
    PROVE  k \notin DOMAIN MineOf(u)
  <1> USE DEF IInv, WatermarkInv
  <1>1. CASE index[k] = NoRid \/ ~InProgress(u)
    BY <1>1, MineDomain
  <1>2. CASE index[k] # NoRid
    <2>1. PICK r : /\ r = index[k] /\ r \in DOMAIN heap
                   /\ WrittenBy(t, r) \/ heap[r].ts <= txn_map[t].read_ts
      BY <1>2 DEF TypeOK
    <2>2. heap[r].ts <= txn_map[t].read_ts => heap[r].ts <= last_commit_ts
      <3>1. /\ txn_map[t].read_ts \in Nat /\ last_commit_ts \in Nat /\ heap[r].ts \in Nat
            /\ txn_map[t].read_ts <= last_commit_ts
        BY <2>1, ReadersAbove, RowType DEF TypeOK
      <3> QED
        BY <3>1
    <2>3. ~WrittenBy(u, r)
      BY <2>1, <2>2, OneWriter
    <2> QED
      BY <2>1, <2>3, MineDomain
  <1> QED
    BY <1>1, <1>2

\* A step of a statement that writes one key.
LEMMA WriteKey ==
    ASSUME IInv, IInv', GetWatermark >= 1, KeysInv, CommitInv, NEW N, Told(N), NEW M, Goes(N, M),
           NEW u \in Txn, Write(u), NEW k \in Key, NEW x \in Value \cup {Absent},
           index[k] # NoRid => \E r : /\ r = index[k]
                                      /\ WrittenBy(u, r) \/ heap[r].ts <= txn_map[u].read_ts,
           MineOf(u)' = [j \in DOMAIN MineOf(u) \cup {k} |-> IF j = k THEN x ELSE MineOf(u)[j]]
    PROVE  StoreStep
  <1> USE DEF IInv, WatermarkInv, ChainInv
  <1>1. at[u].do \notin {"stamp", "verify", "abort"} /\ Active(u) /\ u \in DOMAIN txn_map
    BY WorkFrom
  <1>2. at'[u].do \notin {"stamp", "verify", "abort"} /\ UNCHANGED last_commit_ts
    BY WorkTo, WorkMutex
  <1>3. Carries(u)
    BY WriteCarries
  <1>4. /\ InProgress(u) /\ InProgress(u)' /\ PredsOf(u)' = PredsOf(u)
        /\ txn_map'[u].read_ts = txn_map[u].read_ts
    BY <1>1, <1>2, <1>3, CarriesOn
  <1>5. [Next]_vars
    BY DEF Next
  <1>6. Db' = Db /\ SnapOf(u)' = SnapOf(u)
    BY <1>2, <1>4, <1>5, DbOn, SnapOn DEF CommitInv
  <1>7. Db[k] = SnapOf(u)[k]
    BY <1>4, KeyUnchanged
  <1>8. \A t \in Txn : t # u => k \notin DOMAIN MineOf(t)
    BY <1>1, KeyFree
  <1>9. \A t \in Txn : t # u => Same(t)
    BY OthersSame
  <1> QED
    BY <1>2, <1>4, <1>6, <1>7, <1>8, <1>9, WritesStore

-----------------------------------------------------------------------------
(* What a write does to the store. *)

\* A write of a row in place: of its key, or refused.
LEMMA ModifyTupleStore ==
    ASSUME IInv, IInv', GetWatermark >= 1, KeysInv, CommitInv, NEW N, Told(N), NEW M, Goes(N, M),
           NEW u \in Txn, Write(u), NEW r \in DOMAIN heap, Indexed(r),
           NEW target \in Tuple \cup {Deleted}, NEW dead, NEW next,
           ModifyTuple(u, r, target, dead, next),
           target # Deleted => target.id = heap[r].tuple.id
    PROVE  StoreStep
  <1> USE DEF IInv, WatermarkInv, ChainInv
  <1>1. at[u].do \notin {"stamp", "verify", "abort"} /\ Active(u) /\ u \in DOMAIN txn_map
    BY WorkFrom
  <1>2. CASE Conflicts(u, r, dead)
    <2>1. UNCHANGED <<heap, index>>
      BY <1>2 DEF ModifyTuple, ThrowWriteConflict, table
    <2>2. ~StartScan(u)
      <3>1. at[u].do \in {"modify", "revive", "append", "enter"}
        BY DEF Write, Modify, LookUpKey, Revive, AppendRow, EnterKey
      <3> QED
        BY <3>1 DEF StartScan, Idle
    <2> QED
      BY <2>1, <2>2, WorkHidden
  <1>3. CASE ~Conflicts(u, r, dead)
    <2>1. /\ DOMAIN heap' = DOMAIN heap
          /\ \A s \in DOMAIN heap : s # r => heap'[s] = heap[s] /\ undo_link'[s] = undo_link[s]
          /\ heap'[r].ts = u /\ heap'[r].tuple.id = heap[r].tuple.id
          /\ Content(heap'[r]) = Becomes(target)
          /\ UNCHANGED index
      BY <1>1, <1>3, Modified
    <2>2. at'[u].do \notin {"stamp", "verify", "abort"} /\ UNCHANGED last_commit_ts
      BY WorkTo, WorkMutex
    <2>3. PICK k : k = heap[r].tuple.id /\ k \in Key /\ index[k] = r /\ r # NoRid
      BY IndexedFacts DEF Indexed
    <2>4. PICK x : x = Becomes(target) /\ x \in Value \cup {Absent}
      <3>1. target = Deleted \/ target \in Tuple
        BY TargetFacts
      <3> QED
        BY <3>1 DEF Becomes, Tuple
    <2>5. WrittenBy(u, r) \/ heap[r].ts <= txn_map[u].read_ts
      <3>1. heap[r].ts = u \/ ~(heap[r].ts > txn_map[u].read_ts)
        BY <1>3 DEF Conflicts
      <3>2. txn_map[u].read_ts \in Nat /\ heap[r].ts \in Nat
        BY <1>1, ReadersAbove, RowType
      <3> QED
        BY <3>1, <3>2 DEF WrittenBy
    <2>6. InProgress(u) /\ InProgress(u)'
      <3>1. Carries(u)
        BY WriteCarries
      <3> QED
        BY <1>1, <2>2, <3>1, CarriesOn
    <2>7. ASSUME NEW j \in Key, j # k, index[j] # NoRid, NEW s, s = index[j]
          PROVE  (WrittenBy(u, s)' <=> WrittenBy(u, s)) /\ Content(heap'[s]) = Content(heap[s])
      <3>1. s \in DOMAIN heap
        BY <2>7 DEF TypeOK
      <3>2. s # r
        BY <2>3, <2>7 DEF KeysInv, IndexKeys
      <3>3. heap'[s] = heap[s]
        BY <2>1, <3>1, <3>2
      <3> QED
        BY <1>1, <2>2, <3>3 DEF WrittenBy
    <2>8. WrittenBy(u, r)'
      BY <2>1 DEF WrittenBy
    <2>9. MineOf(u)' = [j \in DOMAIN MineOf(u) \cup {k} |-> IF j = k THEN x ELSE MineOf(u)[j]]
      BY <2>1, <2>3, <2>4, <2>6, <2>7, <2>8, MineWith
    <2> QED
      BY <2>3, <2>4, <2>5, <2>9, WriteKey
  <1> QED
    BY <1>2, <1>3

\* An insert is a write when the row enters the index.
LEMMA EnterKeyStep ==
    ASSUME IInv, IInv', GetWatermark >= 1, KeysInv, CommitInv, NEW N, Told(N), NEW M, Goes(N, M),
           NEW u \in Txn, EnterKey(u)
    PROVE  StoreStep
  <1> USE DEF IInv, WatermarkInv, ChainInv
  <1>1. Write(u) /\ ~StartScan(u)
    BY DEF Write, EnterKey, StartScan, Idle
  <1>2. CASE index' = index
    <2>1. UNCHANGED heap
      BY DEF EnterKey, ThrowWriteConflict, table
    <2> QED
      BY <1>1, <1>2, <2>1, WorkHidden
  <1>3. CASE index' # index
    <2>1. PICK k \in Key : index'[k] # index[k]
      BY <1>3 DEF TypeOK
    <2>2. PICK r, wm : r = at[u].rid /\ wm = GetWatermark'
      OBVIOUS
    <2>3. /\ wm \in Nat /\ GetWatermark' >= 1 /\ wm <= last_commit_ts
      <3>1. (GetWatermark \in Nat /\ GetWatermark <= last_commit_ts)'
        BY WatermarkBelow, PTL
      <3>2. UNCHANGED last_commit_ts
        BY DEF EnterKey, Others
      <3>3. GetWatermark <= GetWatermark' /\ GetWatermark \in Nat
        BY <1>1, WatermarkGrows DEF Next
      <3> QED
        BY <2>2, <3>1, <3>2, <3>3
    <2>4. /\ index[k] = NoRid /\ k = Head(at[u].rows).id /\ index'[k] = r
          /\ r \in DOMAIN heap /\ heap[r].ts = u
          /\ UNCHANGED <<heap, undo_link, txn_map>> /\ Goto(u, NextRow(u))
      <3>1. wm >= GetWatermark'
        BY <2>2, <2>3
      <3> QED
        BY <2>1, <2>2, <2>3, <3>1, EnteredVersion DEF CommitInv, Goes
    <2>5. at[u].do \notin {"stamp", "verify", "abort"} /\ Active(u) /\ u \in DOMAIN txn_map
      BY <1>1, WorkFrom
    <2>6. at'[u].do \notin {"stamp", "verify", "abort"} /\ UNCHANGED last_commit_ts
      BY <1>1, WorkTo, WorkMutex
    <2>7. InProgress(u) /\ InProgress(u)'
      BY <2>4, <2>5, <2>6 DEF InProgress, Active
    <2>8. r # NoRid
      BY <2>4, IndexedFacts
    <2>9. PICK x : x = Content(heap[r]) /\ x \in Value \cup {Absent}
      BY <2>4, RowContent
    <2>10. ASSUME NEW j \in Key, j # k
           PROVE  index'[j] = index[j]
      <3>1. PICK i : i = Head(at[u].rows).id
        OBVIOUS
      <3>2. IF index[i] # NoRid THEN ThrowWriteConflict(u)
            ELSE index' = [index EXCEPT ![i] = at[u].rid]
        BY <3>1 DEF EnterKey
      <3> QED
        BY <2>4, <2>10, <3>1, <3>2 DEF TypeOK
    <2>11. \A j \in Key : j # k /\ index[j] # NoRid => \A s : s = index[j] =>
              (WrittenBy(u, s)' <=> WrittenBy(u, s)) /\ Content(heap'[s]) = Content(heap[s])
      BY <2>4, <2>5, <2>6 DEF WrittenBy
    <2>12. WrittenBy(u, r)' /\ Content(heap'[r]) = x
      BY <2>4, <2>9 DEF WrittenBy
    <2>13. MineOf(u)' = [j \in DOMAIN MineOf(u) \cup {k} |-> IF j = k THEN x ELSE MineOf(u)[j]]
      BY <2>4, <2>7, <2>8, <2>10, <2>11, <2>12, MineWith
    <2> QED
      BY <1>1, <2>4, <2>9, <2>13, WriteKey
  <1> QED
    BY <1>2, <1>3

\* A step of an update, a delete or an insert.
LEMMA WriteStep ==
    ASSUME IInv, IInv', GetWatermark >= 1, KeysInv, CommitInv, NEW N, Told(N), NEW M, Goes(N, M),
           NEW u \in Txn, Write(u)
    PROVE  StoreStep
  <1> USE DEF IInv, WatermarkInv, ChainInv
  <1>1. CASE Modify(u)
    <2>1. at[u].do = "modify" /\ at[u].mods # <<>>
      BY <1>1 DEF Modify
    <2>2. PICK m, next : /\ m = Head(at[u].mods)
                         /\ ModifyTuple(u, m.rid, m.target, FALSE, next)
      BY <1>1 DEF Modify
    <2>3. /\ 1 \in DOMAIN at[u].mods /\ m = at[u].mods[1]
          /\ m.rid \in DOMAIN heap /\ m.target \in Tuple \cup {Deleted}
      BY <2>1, <2>2, FirstChange
    <2>4. Indexed(m.rid) /\ (m.target # Deleted => m.target.id = heap[m.rid].tuple.id)
      BY <2>1, <2>3 DEF KeysInv, StepKeys
    <2> QED
      BY <2>2, <2>3, <2>4, ModifyTupleStore
  <1>2. CASE Revive(u)
    <2>1. at[u].do = "revive"
      BY <1>2 DEF Revive
    <2>2. /\ at[u].rid \in DOMAIN heap
          /\ Head(at[u].rows) \in Tuple /\ Head(at[u].rows).id = heap[at[u].rid].tuple.id
      BY <2>1, RevivedKey, PlaceFields, SMTT(30) DEF RowsKnown, StepRows
    <2>3. Indexed(at[u].rid)
      BY <2>1, <2>2 DEF KeysInv, StepKeys, Indexed
    <2>4. PICK next : ModifyTuple(u, at[u].rid, Head(at[u].rows), TRUE, next)
      BY <1>2 DEF Revive
    <2> QED
      BY <2>2, <2>3, <2>4, ModifyTupleStore
  <1>3. CASE LookUpKey(u)
    <2>1. UNCHANGED <<heap, index>> /\ ~StartScan(u)
      BY <1>3 DEF LookUpKey, table, StartScan, Idle
    <2> QED
      BY <2>1, WorkHidden
  <1>4. CASE AppendRow(u)
    <2>1. u \in DOMAIN txn_map /\ ~StartScan(u)
      BY <1>4, WorkFrom DEF AppendRow, StartScan, Idle
    <2>2. UNCHANGED index /\ \A r \in DOMAIN heap : heap'[r] = heap[r]
      BY <1>4, <2>1, Appended
    <2> QED
      BY <2>1, <2>2, WorkHidden
  <1>5. CASE EnterKey(u)
    BY <1>5, EnterKeyStep
  <1> QED
    BY <1>1, <1>2, <1>3, <1>4, <1>5 DEF Write

\* A step of a scan or of a join.
LEMMA StatementStep ==
    ASSUME IInv, IInv', GetWatermark >= 1, KeysInv, CommitInv, NEW N, Told(N), NEW M, Goes(N, M),
           NEW u \in Txn, Statement(u) \/ Join(u)
    PROVE  StoreStep
  <1>1. CASE StartScan(u)
    BY <1>1, StartScanStep
  <1>2. CASE ~StartScan(u)
    <2>1. UNCHANGED <<heap, index>>
      BY <1>2 DEF Statement, Visit, Collect, EndScan, StartInsert, Join, StartJoin, JoinRead,
         EndJoin, table
    <2> QED
      BY <1>2, <2>1, WorkHidden, SMTT(30)
  <1> QED
    BY <1>1, <1>2

-----------------------------------------------------------------------------
(* The verification of one row.  t checks the versions of a row that were   *)
(* committed since it began, and the one that each of them replaced: it     *)
(* finds no phantom only if what it asked for does not tell the last        *)
(* committed version of the row from the one in its snapshot.               *)

\* A query of t selects the row [id, v].
Asked(t, id, v) ==
    v # Absent /\ \E p \in txn_map[t].scan_predicates : [id |-> id, v |-> v] \in p.holds

\* The queries of t do not tell a from b.
Unasked(t, id, a, b) == a = b \/ (~Asked(t, id, a.v) /\ ~Asked(t, id, b.v))

\* What the queries of t select of the row is what they selected.
Checked(N, t, r) ==
    Unasked(t, heap[r].tuple.id, Answer(N, r, last_commit_ts), Answer(N, r, txn_map[t].read_ts))

\* From version x one finds of row r what one finds from its base version.
Fetched(N, t, x, r) ==
    /\ Stands(N, r, x)
    /\ \A ts \in {last_commit_ts, txn_map[t].read_ts} :
          AnswerOf(N, x.ts, Content(x), x.link, ts) = Answer(N, r, ts)

\* The check after n steps back from x, at a version newer than the snapshot.
PassedAt(N, t, r, x, low, high, n) ==
    \E y : /\ Older(x)[n] = {y} /\ Stands(N, r, y) /\ y.ts > low
           /\ n # 0 => y.ts + n <= last_commit_ts + 1
           /\ AnswerOf(N, x.ts, Content(x), x.link, low) = AnswerOf(N, y.ts, Content(y), y.link, low)
           /\ \/ AnswerOf(N, x.ts, Content(x), x.link, high)
                    = AnswerOf(N, y.ts, Content(y), y.link, high)
              \/ /\ y.ts <= high
                 /\ ~Asked(t, heap[r].tuple.id, AnswerOf(N, x.ts, Content(x), x.link, high).v)

\* The test of the code on one version.
LEMMA MatchesAsked ==
    ASSUME NEW t, NEW y \in Version
    PROVE  Matches(t, y) <=> Asked(t, y.tuple.id, Content(y))
  <1>1. Content(y) = Absent <=> y.deleted
    BY ContentIs
  <1>2. CASE y.deleted
    BY <1>1, <1>2 DEF Matches, Asked
  <1>3. CASE ~y.deleted
    <2>1. y.tuple \in Tuple
      BY DEF Version
    <2>2. y.tuple = [id |-> y.tuple.id, v |-> y.tuple.v] /\ Content(y) = y.tuple.v
      BY <1>3, <2>1, ContentIs DEF Tuple
    <2>3. PICK id, v : id = y.tuple.id /\ v = y.tuple.v
      OBVIOUS
    <2>4. y.tuple = [id |-> id, v |-> v] /\ Content(y) = v
      BY <2>2, <2>3, SMTT(30)
    <2> QED
      BY <1>1, <1>3, <2>3, <2>4, Zenon DEF Matches, Asked
  <1> QED
    BY <1>2, <1>3

\* What an undo log restores was committed.
LEMMA BackCommitted ==
    ASSUME ChainInv, NEW N, NEW r, NEW y, Stands(N, r, y), IsValid(y.link), Exists(y.link)
    PROVE  Undone(y, LogAt(y.link)).ts <= last_commit_ts
  <1>1. Undone(y, LogAt(y.link)).ts = LogAt(y.link).ts
    BY DEF Undone
  <1>2. y.link.txn \in DOMAIN txn_map /\ y.link.idx \in DOMAIN txn_map[y.link.txn].undo_logs
    BY SMTT(30) DEF Stands, Known, Exists, IsValid
  <1> QED
    BY <1>1, <1>2 DEF LogAt, ChainInv, VersionsOrdered

\* From one version to the one before it: the queries of t do not tell the answers apart, or
\* the verification goes on with the same two.
LEMMA PassOn ==
    ASSUME TypeOK, ChainInv, NEW N, Told(N), NEW t, NEW r, NEW x, Stands(N, r, x),
           GetWatermark \in Nat, NEW low \in Nat, NEW high \in Nat, low >= GetWatermark, low <= high,
           low = txn_map[t].read_ts, high < TxnStart,
           ~Phantom(t, x), NEW n \in 0..MaxTxns, PassedAt(N, t, r, x, low, high, n),
           NEW a, a = AnswerOf(N, x.ts, Content(x), x.link, high),
           NEW b, b = AnswerOf(N, x.ts, Content(x), x.link, low)
    PROVE  Unasked(t, heap[r].tuple.id, a, b) \/ PassedAt(N, t, r, x, low, high, n + 1)
  <1> DEFINE back == Older(x)
  <1>1. /\ n \in Nat /\ n \in 0..MaxTxns + 1 /\ n + 1 \in 0..MaxTxns + 1 /\ n + 1 # 0
        /\ back[n + 1] = Before(back[n])
    BY TxnFacts, OlderIs
  <1>2. PICK id : id = heap[r].tuple.id
    OBVIOUS
  <1>3. PICK y : /\ back[n] = {y} /\ Stands(N, r, y) /\ y.ts > low
                 /\ n # 0 => y.ts + n <= last_commit_ts + 1
                 /\ b = AnswerOf(N, y.ts, Content(y), y.link, low)
                 /\ \/ a = AnswerOf(N, y.ts, Content(y), y.link, high)
                    \/ y.ts <= high /\ ~Asked(t, id, a.v)
    BY <1>2 DEF PassedAt
  <1>4. \A w \in back[n] : w.ts > low /\ w.ts < TxnStart =>
           ~Matches(t, w) /\ \A z \in back[n + 1] : ~Matches(t, z)
    BY DEF Phantom
  <1> HIDE DEF back
  <1>5. y \in Version /\ y.ts \in Nat /\ y.ts > GetWatermark /\ y.tuple.id = id
    BY <1>2, <1>3 DEF Stands, Version
  <1>6. CASE y.ts <= high
    <2>1. ~Matches(t, y) /\ \A z \in back[n + 1] : ~Matches(t, z)
      BY <1>3, <1>4, <1>5, <1>6, TxnFacts
    <2>2. ~Asked(t, id, a.v)
      <3>1. AnswerOf(N, y.ts, Content(y), y.link, high) = [ts |-> y.ts, v |-> Content(y)]
        BY <1>6 DEF AnswerOf
      <3>2. ~Asked(t, id, Content(y))
        BY <1>5, <2>1, MatchesAsked
      <3> QED
        BY <1>3, <3>1, <3>2
    <2>3. CASE ~IsValid(y.link)
      <3>1. b = Nothing
        BY <1>3, <1>5, <2>3 DEF AnswerOf
      <3>2. ~Asked(t, id, b.v)
        BY <3>1 DEF Asked, Nothing
      <3> QED
        BY <1>2, <2>2, <3>2 DEF Unasked
    <2>4. CASE IsValid(y.link)
      <3>1. PICK z : z = Undone(y, LogAt(y.link))
        OBVIOUS
      <3>2. /\ Exists(y.link) /\ Stands(N, r, z) /\ z.ts < y.ts
            /\ N[y.link].past[low] = AnswerOf(N, z.ts, Content(z), z.link, low)
        BY <1>3, <1>5, <2>4, <3>1, StepBack
      <3>3. back[n + 1] = {z}
        BY <1>1, <1>3, <2>4, <3>1, <3>2 DEF Before
      <3>4. z \in Version /\ z.ts \in Nat /\ z.tuple.id = id
        BY <1>2, <3>2 DEF Stands, Version
      <3>5. b = AnswerOf(N, z.ts, Content(z), z.link, low)
        BY <1>3, <1>5, <2>4, <3>2 DEF AnswerOf
      <3>6. CASE z.ts <= low
        <4>1. b = [ts |-> z.ts, v |-> Content(z)]
          BY <3>5, <3>6 DEF AnswerOf
        <4>2. ~Asked(t, id, Content(z))
          BY <2>1, <3>3, <3>4, MatchesAsked
        <4> QED
          BY <1>2, <2>2, <4>1, <4>2 DEF Unasked
      <3>7. CASE z.ts > low
        <4>1. z.ts + (n + 1) <= last_commit_ts + 1
          <5>1. z.ts <= last_commit_ts
            BY <1>3, <2>4, <3>1, <3>2, BackCommitted
          <5>2. last_commit_ts \in Nat
            BY DEF TypeOK
          <5> QED
            BY <1>1, <1>3, <1>5, <3>2, <3>4, <5>1, <5>2
        <4>2. z.ts <= high
          BY <1>5, <1>6, <3>2, <3>4
        <4> QED
          BY <1>2, <2>2, <3>2, <3>3, <3>5, <3>7, <4>1, <4>2 DEF PassedAt, back
      <3> QED
        BY <3>4, <3>6, <3>7
    <2> QED
      BY <2>3, <2>4
  <1>7. CASE ~(y.ts <= high)
    <2>1. y.ts > high /\ a = AnswerOf(N, y.ts, Content(y), y.link, high)
      BY <1>3, <1>5, <1>7
    <2>2. CASE ~IsValid(y.link)
      <3>1. a = Nothing /\ b = Nothing
        BY <1>3, <1>5, <1>7, <2>1, <2>2 DEF AnswerOf
      <3>2. a = b
        BY <3>1
      <3> QED
        BY <3>2 DEF Unasked
    <2>3. CASE IsValid(y.link)
      <3>1. PICK z : z = Undone(y, LogAt(y.link))
        OBVIOUS
      <3>2. /\ Exists(y.link) /\ Stands(N, r, z) /\ z.ts < y.ts
            /\ \A ts \in Nat : ts >= GetWatermark =>
                  N[y.link].past[ts] = AnswerOf(N, z.ts, Content(z), z.link, ts)
        BY <1>3, <1>5, <2>3, <3>1, StepBack
      <3>3. back[n + 1] = {z}
        BY <1>1, <1>3, <2>3, <3>1, <3>2 DEF Before
      <3>4. z \in Version /\ z.ts \in Nat
        BY <3>2 DEF Stands, Version
      <3>5. /\ b = AnswerOf(N, z.ts, Content(z), z.link, low)
            /\ a = AnswerOf(N, z.ts, Content(z), z.link, high)
        <4>1. b = N[y.link].past[low] /\ a = N[y.link].past[high]
          BY <1>3, <1>5, <1>7, <2>1, <2>3 DEF AnswerOf
        <4> QED
          BY <3>2, <4>1
      <3>6. CASE z.ts <= low
        <4>1. b = [ts |-> z.ts, v |-> Content(z)]
          BY <3>5, <3>6 DEF AnswerOf
        <4>2. a = [ts |-> z.ts, v |-> Content(z)]
          BY <3>4, <3>5, <3>6 DEF AnswerOf
        <4>3. a = b
          BY <4>1, <4>2
        <4> QED
          BY <4>3 DEF Unasked
      <3>7. CASE z.ts > low
        <4>1. z.ts + (n + 1) <= last_commit_ts + 1
          <5>1. z.ts <= last_commit_ts
            BY <1>3, <2>3, <3>1, <3>2, BackCommitted
          <5>2. last_commit_ts \in Nat
            BY DEF TypeOK
          <5> QED
            BY <1>1, <1>3, <1>5, <3>2, <3>4, <5>1, <5>2
        <4> QED
          BY <3>2, <3>3, <3>5, <3>7, <4>1 DEF PassedAt, back
      <3> QED
        BY <3>4, <3>6, <3>7
    <2> QED
      BY <2>2, <2>3
  <1> QED
    BY <1>6, <1>7

\* A row that is passed is a row that the queries of t do not tell apart.
LEMMA NotPhantom ==
    ASSUME IInv, GetWatermark >= 1, NEW N, Told(N), NEW t \in DOMAIN txn_map, Active(t),
           NEW r \in DOMAIN heap, NEW x, Fetched(N, t, x, r), ~Phantom(t, x)
    PROVE  Checked(N, t, r)
  <1> USE DEF IInv
  <1>1. PICK low, high, id : /\ low = txn_map[t].read_ts /\ high = last_commit_ts
                             /\ id = heap[r].tuple.id
    OBVIOUS
  <1>2. /\ low \in Nat /\ high \in Nat /\ GetWatermark \in Nat
        /\ low >= GetWatermark /\ low <= high /\ high < TxnStart
    BY <1>1, ReadersAbove DEF TypeOK
  <1>3. PICK a, b : /\ a = AnswerOf(N, x.ts, Content(x), x.link, high)
                    /\ b = AnswerOf(N, x.ts, Content(x), x.link, low)
    OBVIOUS
  <1>4. a = Answer(N, r, last_commit_ts) /\ b = Answer(N, r, txn_map[t].read_ts) /\ Stands(N, r, x)
    BY <1>1, <1>3 DEF Fetched
  <1>5. SUFFICES ASSUME ~Unasked(t, id, a, b) PROVE FALSE
    BY <1>1, <1>4 DEF Checked
  <1>6. Older(x)[0] = {x} /\ x \in Version /\ x.ts \in Nat
    BY <1>4, OlderIs DEF Stands, Version
  <1> DEFINE S == {n \in Nat : n \in 0..MaxTxns + 1 => PassedAt(N, t, r, x, low, high, n)}
  <1>7. 0 \in S
    <2>1. ~(x.ts <= low)
      <3> SUFFICES ASSUME x.ts <= low PROVE FALSE
        OBVIOUS
      <3>1. b = [ts |-> x.ts, v |-> Content(x)]
        BY <1>3 DEF AnswerOf
      <3>2. x.ts <= high
        BY <1>2, <1>6
      <3>3. a = [ts |-> x.ts, v |-> Content(x)]
        BY <1>3, <3>2 DEF AnswerOf
      <3>4. a = b
        BY <3>1, <3>3
      <3> QED
        BY <1>5, <3>4 DEF Unasked
    <2>2. x.ts > low
      BY <1>2, <1>6, <2>1
    <2>3. PassedAt(N, t, r, x, low, high, 0)
      BY <1>4, <1>6, <2>2 DEF PassedAt
    <2> QED
      BY <2>3
  <1>8. ASSUME NEW n \in Nat, n \in S PROVE n + 1 \in S
    <2> SUFFICES ASSUME n + 1 \in 0..MaxTxns + 1 PROVE PassedAt(N, t, r, x, low, high, n + 1)
      OBVIOUS
    <2>1. n \in 0..MaxTxns /\ n \in 0..MaxTxns + 1
      BY TxnFacts
    <2>2. PassedAt(N, t, r, x, low, high, n)
      BY <1>8, <2>1
    <2>3. Unasked(t, heap[r].tuple.id, a, b) \/ PassedAt(N, t, r, x, low, high, n + 1)
      BY <1>1, <1>2, <1>3, <1>4, <2>1, <2>2, PassOn
    <2> QED
      BY <1>1, <1>5, <2>3
  <1> HIDE DEF S
  <1>9. \A n \in Nat : n \in S
    BY <1>7, <1>8, Induction
  <1>10. PICK last : last = MaxTxns + 1 /\ last \in Nat /\ last \in 0..MaxTxns + 1 /\ last # 0
    BY TxnFacts
  <1>11. PassedAt(N, t, r, x, low, high, last)
    BY <1>9, <1>10 DEF S
  <1>12. ASSUME NEW y, Stands(N, r, y), y.ts > low, y.ts + last <= last_commit_ts + 1 PROVE FALSE
    <2>1. y.ts \in Nat
      BY <1>12 DEF Stands, Version
    <2>2. last_commit_ts \in Nat /\ last_commit_ts <= MaxTxns + 1
      <3>1. Cardinality(ActiveTxns) \in Nat
        BY ActiveIsTxn, FS_CardinalityType
      <3> QED
        BY <3>1, TxnFacts DEF TypeOK, WatermarkInv, CommitsCounted
    <2> QED
      BY <1>2, <1>10, <1>12, <2>1, <2>2, TxnFacts
  <1> QED
    BY <1>10, <1>11, <1>12 DEF PassedAt

-----------------------------------------------------------------------------
(* The rows that a verification looks at.  A row whose last committed       *)
(* version is newer than the snapshot of t was written by a transaction     *)
(* that committed since t began, and is still known.                        *)

\* A row that was committed since t began is among those it has to look at.
ChangesSeen(N) ==
    \A t \in DOMAIN txn_map, r \in DOMAIN heap :
        /\ Active(t) /\ txn_map[t].isolation_level = "SERIALIZABLE"
        /\ Answer(N, r, last_commit_ts).ts > txn_map[t].read_ts
        => r \in ChangedSince(t)

\* The last committed answer, with its timestamp by name.
LEMMA AnswerAt ==
    ASSUME NEW M, NEW r, NEW c, last_commit_ts' = c
    PROVE  Answer(M, r, last_commit_ts)' = Answer(M, r, c)'
  BY DEF Answer, AnswerOf

\* It stays while no commit ends.
LEMMA LatestOn ==
    ASSUME IInv, IInv', NEW N, NEW M, Goes(N, M), UNCHANGED last_commit_ts, NEW r \in DOMAIN heap
    PROVE  Answer(M, r, last_commit_ts)' = Answer(N, r, last_commit_ts)
  <1>1. PICK c : c = last_commit_ts
    OBVIOUS
  <1>2. (GetWatermark \in Nat /\ GetWatermark <= last_commit_ts)'
    BY WatermarkBelow, PTL
  <1>3. c \in Nat /\ c >= GetWatermark' /\ c <= last_commit_ts
    BY <1>1, <1>2 DEF IInv, TypeOK
  <1>4. Answer(M, r, c)' = Answer(N, r, c)
    BY <1>3 DEF Goes
  <1>5. Answer(M, r, last_commit_ts)' = Answer(M, r, c)'
    BY <1>1, AnswerAt
  <1> QED
    BY <1>1, <1>4, <1>5

\* All that the logs hold is committed.
LEMMA LatestLog ==
    ASSUME IInv, NEW N, Told(N), NEW r \in DOMAIN heap, heap[r].ts > GetWatermark,
           IsValid(undo_link[r]), NEW ts \in Nat, ts >= last_commit_ts
    PROVE  LET l == undo_link[r] IN
           /\ l \in DOMAIN N /\ N[l].past[ts] = [ts |-> LogAt(l).ts, v |-> N[l].v]
           /\ LogAt(l).ts \in Nat /\ LogAt(l).ts <= last_commit_ts
  <1> USE DEF IInv, ChainInv
  <1>1. PICK l, log : l = undo_link[r] /\ log = LogAt(l)
    OBVIOUS
  <1>2. l \in DOMAIN N
    BY <1>1 DEF Told, RowLeads, Leads
  <1>3. l.txn \in DOMAIN txn_map /\ l.idx \in DOMAIN txn_map[l.txn].undo_logs /\ Recorded(N, l)
    BY <1>2, SMTT(30) DEF Told
  <1>4. log.ts \in Nat /\ log.ts <= last_commit_ts
    <2>1. log.ts \in Nat
      BY <1>1, <1>2, ToldLog
    <2> QED
      BY <1>1, <1>3, <2>1 DEF LogAt, VersionsOrdered
  <1>5. last_commit_ts \in Nat /\ GetWatermark \in Nat /\ GetWatermark <= last_commit_ts
    BY WatermarkBelow DEF TypeOK
  <1>6. ts >= GetWatermark /\ log.ts <= ts
    BY <1>4, <1>5
  <1>7. N[l].past[ts] = AnswerOf(N, log.ts, N[l].v, log.prev_version, ts)
    BY <1>1, <1>3, <1>6 DEF Recorded
  <1>8. N[l].past[ts] = [ts |-> log.ts, v |-> N[l].v]
    BY <1>6, <1>7 DEF AnswerOf
  <1> QED
    BY <1>1, <1>2, <1>4, <1>8

\* Its timestamp is at most the last one.
LEMMA LatestBelow ==
    ASSUME IInv, NEW N, Told(N), NEW r \in DOMAIN heap
    PROVE  Answer(N, r, last_commit_ts).ts \in Nat
           /\ Answer(N, r, last_commit_ts).ts <= last_commit_ts
  <1>1. heap[r].ts \in Nat /\ last_commit_ts \in Nat /\ GetWatermark \in Nat
        /\ GetWatermark <= last_commit_ts
    BY RowType, WatermarkBelow DEF IInv, TypeOK
  <1>2. PICK a : a = Answer(N, r, last_commit_ts)
    OBVIOUS
  <1>3. CASE heap[r].ts <= last_commit_ts
    BY <1>1, <1>3 DEF Answer, AnswerOf
  <1>4. CASE ~(heap[r].ts <= last_commit_ts) /\ IsValid(undo_link[r])
    <2>1. heap[r].ts > GetWatermark
      BY <1>1, <1>4
    <2>2. PICK l : l = undo_link[r]
      OBVIOUS
    <2>3. /\ N[l].past[last_commit_ts] = [ts |-> LogAt(l).ts, v |-> N[l].v]
          /\ LogAt(l).ts \in Nat /\ LogAt(l).ts <= last_commit_ts
      BY <1>1, <1>4, <2>1, <2>2, LatestLog
    <2>4. a = N[l].past[last_commit_ts]
      BY <1>2, <1>4, <2>2 DEF Answer, AnswerOf
    <2> QED
      BY <1>2, <2>3, <2>4
  <1>5. CASE ~(heap[r].ts <= last_commit_ts) /\ ~IsValid(undo_link[r])
    <2>1. a = Nothing
      BY <1>2, <1>5 DEF Answer, AnswerOf
    <2> QED
      BY <1>1, <1>2, <2>1 DEF Nothing
  <1> QED
    BY <1>3, <1>4, <1>5

\* The commit of u shows the rows it stamped.
LEMMA CommitAnswer ==
    ASSUME IInv, CommitInv, NEW N, Told(N), NEW M, Goes(N, M),
           NEW u \in Txn, EndCommit(u), NEW r \in DOMAIN heap
    PROVE  Answer(M, r, last_commit_ts)' =
              IF heap[r].ts = last_commit_ts + 1
              THEN [ts |-> last_commit_ts + 1, v |-> Content(heap[r])]
              ELSE Answer(N, r, last_commit_ts)
  <1>1. UNCHANGED <<heap, undo_link>> /\ last_commit_ts' = last_commit_ts + 1
    BY DEF EndCommit, table
  <1>2. PICK c, link, v : c = last_commit_ts + 1 /\ link = undo_link[r] /\ v = Content(heap[r])
    OBVIOUS
  <1>3. /\ heap[r].ts \in Nat /\ last_commit_ts \in Nat /\ c \in Nat /\ GetWatermark \in Nat
        /\ GetWatermark <= last_commit_ts
    BY <1>2, RowType, WatermarkBelow DEF IInv, TypeOK
  <1>4. Answer(M, r, last_commit_ts)' = AnswerOf(M, heap[r].ts, v, link, c)
    <2>1. Answer(M, r, last_commit_ts)' = Answer(M, r, c)'
      BY <1>1, <1>2, AnswerAt
    <2>2. Answer(M, r, c)' = AnswerOf(M, heap'[r].ts, Content(heap'[r]), undo_link'[r], c)
      BY AnswerNow
    <2> QED
      BY <1>1, <1>2, <2>1, <2>2
  <1>5. Answer(N, r, last_commit_ts) = AnswerOf(N, heap[r].ts, v, link, last_commit_ts)
    BY <1>2 DEF Answer
  <1>6. CASE heap[r].ts = c
    BY <1>2, <1>3, <1>4, <1>6 DEF AnswerOf
  <1>7. CASE heap[r].ts <= last_commit_ts
    <2>1. heap[r].ts <= c /\ heap[r].ts # c
      BY <1>2, <1>3, <1>7
    <2>2. AnswerOf(M, heap[r].ts, v, link, c) = AnswerOf(N, heap[r].ts, v, link, last_commit_ts)
      BY <1>7, <2>1 DEF AnswerOf
    <2> QED
      BY <1>2, <1>4, <1>5, <2>1, <2>2
  <1>8. CASE ~(heap[r].ts <= c)
    <2>1. /\ heap[r].ts # c /\ ~(heap[r].ts <= last_commit_ts) /\ heap[r].ts > GetWatermark
          /\ c >= last_commit_ts /\ last_commit_ts >= last_commit_ts
      BY <1>2, <1>3, <1>8
    <2>2. CASE ~IsValid(link)
      <3>1. AnswerOf(M, heap[r].ts, v, link, c) = AnswerOf(N, heap[r].ts, v, link, last_commit_ts)
        BY <1>8, <2>1, <2>2 DEF AnswerOf
      <3> QED
        BY <1>2, <1>4, <1>5, <2>1, <3>1
    <2>3. CASE IsValid(link)
      <3>1. /\ link \in DOMAIN N /\ N[link].past[c] = [ts |-> LogAt(link).ts, v |-> N[link].v]
            /\ N[link].past[last_commit_ts] = [ts |-> LogAt(link).ts, v |-> N[link].v]
        BY <1>2, <1>3, <2>1, <2>3, LatestLog
      <3>2. M[link] = N[link]
        <4>1. at[u] # Idle
          BY DEF EndCommit, Idle
        <4>2. Extends(N, M)
          BY <4>1 DEF Goes, GarbageCollection
        <4> QED
          BY <3>1, <4>2 DEF Extends
      <3>3. AnswerOf(M, heap[r].ts, v, link, c) = AnswerOf(N, heap[r].ts, v, link, last_commit_ts)
        BY <1>8, <2>1, <2>3, <3>1, <3>2 DEF AnswerOf
      <3> QED
        BY <1>2, <1>4, <1>5, <2>1, <3>3
    <2> QED
      BY <2>2, <2>3
  <1> QED
    BY <1>2, <1>3, <1>6, <1>7, <1>8

\* Whoever takes a step begins or is active.
LEMMA Stepping ==
    ASSUME IInv, NEW u \in Txn,
           Begin(u) \/ Statement(u) \/ Write(u) \/ Join(u) \/ Commit(u) \/ Abort(u)
    PROVE  \/ Begin(u) /\ u \notin DOMAIN txn_map
           \/ ~Begin(u) /\ u \in DOMAIN txn_map /\ Active(u)
  <1> USE DEF IInv, WatermarkInv, ChainInv
  <1>1. u \in Nat /\ Idle.do = "idle"
    BY TxnFacts DEF Idle
  <1>2. CASE u \in DOMAIN txn_map
    <2>1. ~Begin(u)
      BY <1>1, <1>2 DEF Begin, IdsIssued
    <2>2. CASE Statement(u) \/ Write(u) \/ Join(u)
      BY <2>1, <2>2, WorkFrom
    <2>3. CASE Commit(u)
      <3>1. Runs(u) \/ at[u].do # "idle"
        BY <2>3, CommitMoves DEF StartCommit
      <3> QED
        BY <1>2, <2>1, <3>1, AtWork, RunsIsActive
    <2>4. CASE Abort(u)
      <3>1. Active(u) \/ at[u].do # "idle"
        BY <2>4 DEF Abort, StartAbort, RestoreRow, EndAbort
      <3> QED
        BY <1>2, <2>1, <3>1, AtWork
    <2> QED
      BY <2>1, <2>2, <2>3, <2>4
  <1>3. CASE u \notin DOMAIN txn_map
    <2>1. ~(Statement(u) \/ Write(u) \/ Join(u))
      BY <1>3, WorkFrom
    <2>2. ~Commit(u)
      <3>1. Commit(u) => Runs(u) \/ at[u].do # "idle"
        BY CommitMoves DEF StartCommit
      <3> QED
        BY <1>3, <3>1, AtWork, RunsIsActive
    <2>3. ~Abort(u)
      <3>1. Abort(u) => Active(u) \/ at[u].do # "idle"
        BY DEF Abort, StartAbort, RestoreRow, EndAbort
      <3> QED
        BY <1>3, <3>1, AtWork DEF Active
    <2> QED
      BY <1>3, <2>1, <2>2, <2>3
  <1> QED
    BY <1>2, <1>3

\* Every step but a begin keeps what it needs of its transaction.
LEMMA StepContinues ==
    ASSUME IInv, KeysInv, NEW u \in Txn,
           Statement(u) \/ Write(u) \/ Join(u) \/ Commit(u) \/ Abort(u)
    PROVE  Continues(u)
  <1> USE DEF IInv, WatermarkInv, ChainInv
  <1>1. CASE StartScan(u)
    BY <1>1, StartScanTxn
  <1>2. CASE EndCommit(u)
    BY <1>2, EndCommitTxn
  <1>3. CASE EndAbort(u)
    BY <1>3, EndAbortTxn
  <1>4. CASE ~StartScan(u) /\ ~EndCommit(u) /\ ~EndAbort(u)
    BY <1>4, StepCarries DEF Carries
  <1> QED
    BY <1>1, <1>2, <1>3, <1>4

\* A transaction that stays in progress keeps its snapshot, and what it has to look at.
LEMMA ChangedOn ==
    ASSUME IInv, KeysInv, NEW u \in Txn,
           Begin(u) \/ Statement(u) \/ Write(u) \/ Join(u) \/ Commit(u) \/ Abort(u),
           NEW t \in DOMAIN txn_map, Active(t)'
    PROVE  /\ Active(t) /\ txn_map'[t].read_ts = txn_map[t].read_ts
           /\ txn_map'[t].isolation_level = txn_map[t].isolation_level
           /\ ChangedSince(t) \subseteq ChangedSince(t)'
  <1> USE DEF IInv, WatermarkInv, ChainInv
  <1>1. /\ DOMAIN txn_map \subseteq DOMAIN txn_map'
        /\ \A x \in DOMAIN txn_map : x # u => txn_map'[x] = txn_map[x]
    BY StepsOnly DEF OnlyOf
  <1>2. /\ Begin(u) => u \notin DOMAIN txn_map
        /\ u \in DOMAIN txn_map => Active(u) /\ ~Begin(u)
    BY Stepping
  <1>3. /\ Active(t) /\ txn_map'[t].read_ts = txn_map[t].read_ts
        /\ txn_map'[t].isolation_level = txn_map[t].isolation_level
    <2>1. CASE t = u
      BY <1>2, <2>1, StepContinues DEF Continues
    <2>2. CASE t # u
      BY <1>1, <2>2 DEF Active
    <2> QED
      BY <2>1, <2>2
  <1>4. ASSUME NEW r \in ChangedSince(t) PROVE r \in ChangedSince(t)'
    <2>1. PICK x \in DOMAIN txn_map : /\ x # t /\ txn_map[x].state = "COMMITTED"
                                      /\ txn_map[x].commit_ts > txn_map[t].read_ts
                                      /\ r \in txn_map[x].write_set
      BY <1>4 DEF ChangedSince
    <2>2. x # u
      BY <1>2, <2>1 DEF Active
    <2>3. x \in DOMAIN txn_map' /\ txn_map'[x] = txn_map[x]
      BY <1>1, <2>2
    <2> QED
      BY <1>3, <2>1, <2>3 DEF ChangedSince
  <1> QED
    BY <1>3, <1>4

\* Garbage collection takes no transaction that a reader in progress has to look at.
LEMMA CollectionChanged ==
    ASSUME TypeOK, GarbageCollection, NEW t \in DOMAIN txn_map, t \in DOMAIN txn_map', Active(t)',
           txn_map[t].isolation_level = "SERIALIZABLE"
    PROVE  /\ Active(t) /\ txn_map'[t] = txn_map[t]
           /\ ChangedSince(t) \subseteq ChangedSince(t)'
  <1>1. DOMAIN txn_map' = DOMAIN txn_map \ Garbage /\ \A x \in DOMAIN txn_map' : txn_map'[x] = txn_map[x]
    BY DEF GarbageCollection
  <1>2. Active(t) /\ txn_map'[t] = txn_map[t]
    BY <1>1 DEF Active
  <1>3. ASSUME NEW r \in ChangedSince(t) PROVE r \in ChangedSince(t)'
    <2>1. PICK x \in DOMAIN txn_map : /\ x # t /\ txn_map[x].state = "COMMITTED"
                                      /\ txn_map[x].commit_ts > txn_map[t].read_ts
                                      /\ r \in txn_map[x].write_set
      BY <1>3 DEF ChangedSince
    <2>2. txn_map[t].read_ts \in SerialReadTs
      BY <1>2 DEF SerialReadTs
    <2>3. txn_map[t].read_ts \in Nat /\ txn_map[x].commit_ts \in Nat
      BY <2>1, TransactionFields DEF Transaction
    <2>4. x \notin Garbage
      BY <2>1, <2>2, <2>3 DEF Garbage
    <2>5. x \in DOMAIN txn_map' /\ txn_map'[x] = txn_map[x]
      BY <1>1, <2>4
    <2> QED
      BY <1>2, <2>1, <2>5 DEF ChangedSince
  <1> QED
    BY <1>2, <1>3

\* A row that is new has no committed version.
LEMMA NewAnswer ==
    ASSUME IInv, NEW u \in Txn, RowSteps(u), NEW M, NEW r \in DOMAIN heap', r \notin DOMAIN heap,
           NEW ts \in Nat, ts <= last_commit_ts
    PROVE  Answer(M, r, ts)' = Nothing
  <1>1. heap'[r].ts = u /\ undo_link'[r] = InvalidLink
    BY DEF RowSteps
  <1>2. u \in Nat /\ last_commit_ts < u /\ last_commit_ts \in Nat
    BY AboveReaders DEF IInv
  <1>3. ~(u <= ts) /\ ~IsValid(InvalidLink)
    BY <1>2 DEF IsValid, InvalidLink
  <1>4. Answer(M, r, ts)' = AnswerOf(M, heap'[r].ts, Content(heap'[r]), undo_link'[r], ts)
    BY AnswerNow
  <1> QED
    BY <1>1, <1>3, <1>4 DEF AnswerOf

\* A row that was just appended has nothing committed.
LEMMA NewLatest ==
    ASSUME IInv, NEW u \in Txn, RowSteps(u), NEW M, NEW r \in DOMAIN heap', r \notin DOMAIN heap,
           UNCHANGED last_commit_ts
    PROVE  Answer(M, r, last_commit_ts)' = Nothing
  <1>1. PICK c : c = last_commit_ts
    OBVIOUS
  <1>2. c \in Nat /\ c <= last_commit_ts
    BY <1>1 DEF IInv, TypeOK
  <1> QED
    BY <1>1, <1>2, NewAnswer, AnswerAt

LEMMA TransactionsRead ==
    TypeOK => \A x \in DOMAIN txn_map : x \in Txn /\ txn_map[x].read_ts \in Nat
  BY TransactionFields

\* Whoever holds the next timestamp wrote the row.
LEMMA StampedBy ==
    ASSUME IInv, CommitInv, NEW u \in Txn, at[u].do = "stamp", NEW r \in DOMAIN heap,
           heap[r].ts = last_commit_ts + 1
    PROVE  r \in txn_map[u].write_set
  <1>1. last_commit_ts \in Nat /\ u \in Nat /\ u # NoTxn
    BY TxnFacts DEF IInv, TypeOK
  <1>2. heap[r].ts \notin Txn
    BY <1>1, CommitIsNoTxn DEF IInv
  <1>3. ~(heap[r].ts <= last_commit_ts)
    BY <1>1
  <1>4. PICK x \in Txn : at[x].do = "stamp" /\ r \in txn_map[x].write_set
    BY <1>2, <1>3 DEF CommitInv, Stamps
  <1>5. x = u
    BY <1>4 DEF CommitInv, Mutex
  <1> QED
    BY <1>4, <1>5

\* A commit puts the rows it stamped among those that the others look at.
LEMMA ChangesSeenStep ==
    ASSUME IInv, IInv', GetWatermark >= 1, KeysInv, CommitInv, NEW N, Told(N), NEW M, Goes(N, M),
           ChangesSeen(N), [Next]_vars
    PROVE  ChangesSeen(M)'
  <1> USE DEF IInv, WatermarkInv, ChainInv
  <1>1. SUFFICES ASSUME NEW t \in DOMAIN txn_map', NEW r \in DOMAIN heap', Active(t)',
                        txn_map'[t].isolation_level = "SERIALIZABLE",
                        Answer(M, r, last_commit_ts)'.ts > txn_map'[t].read_ts
                 PROVE  r \in ChangedSince(t)'
    BY DEF ChangesSeen
  <1>2. t \in Txn /\ txn_map'[t].read_ts \in Nat /\ txn_map'[t].read_ts <= last_commit_ts'
    <2>1. (TypeOK => \A x \in DOMAIN txn_map : x \in Txn /\ txn_map[x].read_ts \in Nat)'
      BY TransactionsRead, PTL
    <2> QED
      BY <2>1 DEF SnapshotsPast
  <1>3. ASSUME NEW u \in Txn,
               Begin(u) \/ Statement(u) \/ Write(u) \/ Join(u) \/ Commit(u) \/ Abort(u)
        PROVE  r \in ChangedSince(t)'
    <2>1. RowSteps(u) /\ DOMAIN txn_map' \subseteq DOMAIN txn_map \cup {u}
      BY <1>3, StepRowSteps, TxnMapGrows
    <2>2. CASE t \notin DOMAIN txn_map
      <3>1. t = u /\ Begin(u)
        <4>1. t = u
          BY <2>1, <2>2
        <4> QED
          BY <1>3, <2>2, <4>1, Stepping
      <3>2. UNCHANGED <<heap, last_commit_ts>> /\ txn_map'[t].read_ts = last_commit_ts
        BY <3>1 DEF Begin, table
      <3>3. Answer(M, r, last_commit_ts)' = Answer(N, r, last_commit_ts)
        BY <3>2, LatestOn
      <3>4. Answer(N, r, last_commit_ts).ts \in Nat
            /\ Answer(N, r, last_commit_ts).ts <= last_commit_ts
        BY <3>2, LatestBelow
      <3>5. last_commit_ts \in Nat
        BY DEF TypeOK
      <3> QED
        BY <1>1, <3>2, <3>3, <3>4, <3>5
    <2>3. CASE t \in DOMAIN txn_map
      <3>1. /\ Active(t) /\ txn_map'[t].read_ts = txn_map[t].read_ts
            /\ txn_map'[t].isolation_level = txn_map[t].isolation_level
            /\ ChangedSince(t) \subseteq ChangedSince(t)'
        BY <1>1, <1>3, <2>3, ChangedOn
      <3>2. CASE UNCHANGED last_commit_ts /\ r \in DOMAIN heap
        <4>1. Answer(M, r, last_commit_ts)' = Answer(N, r, last_commit_ts)
          BY <3>2, LatestOn
        <4> QED
          BY <1>1, <2>3, <3>1, <3>2, <4>1 DEF ChangesSeen
      <3>3. CASE UNCHANGED last_commit_ts /\ r \notin DOMAIN heap
        <4>1. Answer(M, r, last_commit_ts)' = Nothing
          BY <2>1, <3>3, NewLatest
        <4> QED
          BY <1>1, <1>2, <4>1 DEF Nothing
      <3>4. CASE EndCommit(u)
        <4>1. UNCHANGED heap /\ at[u].do = "stamp" /\ last_commit_ts' = last_commit_ts + 1
          BY <3>4 DEF EndCommit, table
        <4>2. CASE heap[r].ts = last_commit_ts + 1
          <5>1. r \in txn_map[u].write_set
            BY <4>1, <4>2, StampedBy
          <5>2. /\ u \in DOMAIN txn_map /\ DOMAIN txn_map' = DOMAIN txn_map
                /\ txn_map'[u].state = "COMMITTED" /\ txn_map'[u].commit_ts = last_commit_ts + 1
                /\ txn_map'[u].write_set = txn_map[u].write_set
            BY <3>4, EndCommitTxn DEF Continues
          <5>3. u # t
            BY <1>1, <5>2 DEF Active
          <5>4. last_commit_ts + 1 > txn_map'[t].read_ts
            <6>1. txn_map[t].read_ts <= last_commit_ts /\ last_commit_ts \in Nat
              BY <2>3 DEF SnapshotsPast, TypeOK
            <6> QED
              BY <1>2, <3>1, <6>1
          <5> QED
            BY <5>1, <5>2, <5>3, <5>4 DEF ChangedSince
        <4>3. CASE heap[r].ts # last_commit_ts + 1
          <5>1. Answer(M, r, last_commit_ts)' = Answer(N, r, last_commit_ts)
            BY <3>4, <4>1, <4>3, CommitAnswer
          <5> QED
            BY <1>1, <2>3, <3>1, <4>1, <5>1 DEF ChangesSeen
        <4> QED
          BY <4>2, <4>3
      <3> QED
        BY <1>3, <3>2, <3>3, <3>4, NoCommit
    <2> QED
      BY <2>2, <2>3
  <1>4. CASE GarbageCollection
    <2>1. UNCHANGED <<heap, last_commit_ts>> /\ t \in DOMAIN txn_map /\ txn_map'[t] = txn_map[t]
      BY <1>4 DEF GarbageCollection, table, Others
    <2>2. Active(t) /\ ChangedSince(t) \subseteq ChangedSince(t)'
      BY <1>1, <1>4, <2>1, CollectionChanged
    <2>3. Answer(M, r, last_commit_ts)' = Answer(N, r, last_commit_ts)
      BY <2>1, LatestOn
    <2> QED
      BY <1>1, <2>1, <2>2, <2>3 DEF ChangesSeen
  <1>5. CASE UNCHANGED vars
    <2>1. UNCHANGED <<heap, last_commit_ts, txn_map>>
      BY <1>5 DEF vars, table
    <2>2. Active(t) /\ ChangedSince(t) = ChangedSince(t)'
      BY <1>1, <2>1 DEF Active, ChangedSince
    <2>3. Answer(M, r, last_commit_ts)' = Answer(N, r, last_commit_ts)
      BY <2>1, LatestOn
    <2> QED
      BY <1>1, <2>1, <2>2, <2>3 DEF ChangesSeen
  <1> QED
    BY <1>3, <1>4, <1>5 DEF Next

-----------------------------------------------------------------------------
(* What a verification has seen stays true while other transactions write. *)

\* Undo logs and transactions stay, and new ones are new.
LogsKeep ==
    /\ next_txn_id <= next_txn_id'
    /\ \A y \in DOMAIN txn_map' : y \in DOMAIN txn_map \/ y >= next_txn_id
    /\ \A y \in DOMAIN txn_map : \A i \in DOMAIN txn_map[y].undo_logs :
          i \in DOMAIN txn_map'[y].undo_logs
          /\ txn_map'[y].undo_logs[i].ts = txn_map[y].undo_logs[i].ts

LEMMA StepLogsKeep ==
    ASSUME IInv, KeysInv, NEW u \in Txn,
           Begin(u) \/ Statement(u) \/ Write(u) \/ Join(u) \/ Commit(u) \/ Abort(u)
    PROVE  LogsKeep
  <1> USE DEF IInv, WatermarkInv, ChainInv
  <1>1. /\ \A y \in DOMAIN txn_map : y # u => txn_map'[y] = txn_map[y]
        /\ DOMAIN txn_map' \subseteq DOMAIN txn_map \cup {u}
    BY StepsOnly, TxnMapGrows DEF OnlyOf
  <1>2. CASE Begin(u)
    <2>1. u \notin DOMAIN txn_map /\ u = next_txn_id /\ next_txn_id' = u + 1 /\ u \in Nat
      BY <1>2, Stepping, TxnFacts DEF Begin
    <2> QED
      BY <1>1, <2>1 DEF LogsKeep
  <1>3. CASE ~Begin(u)
    <2>1. Continues(u)
      BY <1>3, StepContinues
    <2>2. next_txn_id' = next_txn_id /\ next_txn_id \in Nat
      <3>1. next_txn_id' = next_txn_id
        BY <1>3 DEF Statement, StartScan, Visit, Collect, EndScan, StartInsert, Write, Modify, LookUpKey,
           Revive, AppendRow, EnterKey, Join, StartJoin, JoinRead, EndJoin, Commit, StartCommit, Fetch,
           VerifyRow, StampRow, EndCommit, Abort, StartAbort, RestoreRow, EndAbort, Others
      <3> QED
        BY <3>1, TxnFacts, SMTT(30) DEF TypeOK
    <2> QED
      BY <1>1, <2>1, <2>2 DEF LogsKeep, Continues
  <1> QED
    BY <1>2, <1>3

\* A snapshot that is in use tells the same of a row.
LEMMA SnapshotAnswer ==
    ASSUME IInv, IInv', NEW N, NEW M, Goes(N, M), NEW t \in DOMAIN txn_map, t \in DOMAIN txn_map',
           Active(t), Active(t)', txn_map'[t].read_ts = txn_map[t].read_ts, NEW r \in DOMAIN heap
    PROVE  /\ Answer(M, r, txn_map[t].read_ts)' = Answer(N, r, txn_map[t].read_ts)
           /\ txn_map[t].read_ts \in Nat /\ txn_map[t].read_ts >= GetWatermark'
           /\ txn_map[t].read_ts <= last_commit_ts
  <1>1. PICK c : c = txn_map[t].read_ts
    OBVIOUS
  <1>2. (IInv /\ t \in DOMAIN txn_map /\ Active(t) => txn_map[t].read_ts >= GetWatermark)'
    <2>1. (\A x : IInv /\ x \in DOMAIN txn_map /\ Active(x) => txn_map[x].read_ts >= GetWatermark)'
      BY ActiveAbove, PTL
    <2> QED
      BY <2>1
  <1>3. c \in Nat /\ c <= last_commit_ts /\ c >= GetWatermark'
    BY <1>1, <1>2, ReadersAbove DEF IInv
  <1>4. Answer(M, r, c)' = Answer(N, r, c)
    BY <1>3 DEF Goes
  <1>5. Answer(M, r, txn_map[t].read_ts)' = Answer(M, r, c)'
    BY <1>1 DEF Answer, AnswerOf
  <1> QED
    BY <1>1, <1>3, <1>4, <1>5

\* The parts of Checked, after a step.
LEMMA CheckedNow ==
    ASSUME NEW M, NEW t, NEW r, NEW a, NEW b, NEW id, Unasked(t, id, a, b),
           Answer(M, r, last_commit_ts)' = a, Answer(M, r, txn_map[t].read_ts)' = b,
           heap'[r].tuple.id = id,
           txn_map'[t].scan_predicates = txn_map[t].scan_predicates
    PROVE  Checked(M, t, r)'
  <1>1. Checked(M, t, r)' <=> Unasked(t, id, a, b)'
    BY DEF Checked, Unasked, Asked
  <1>2. Unasked(t, id, a, b)' <=> Unasked(t, id, a, b)
    BY DEF Unasked, Asked
  <1> QED
    BY <1>1, <1>2

\* A row that was passed stays passed while nobody commits.
LEMMA CheckedOn ==
    ASSUME IInv, IInv', NEW N, NEW M, Goes(N, M), UNCHANGED last_commit_ts,
           NEW t \in DOMAIN txn_map, t \in DOMAIN txn_map', Active(t), Active(t)',
           txn_map'[t].read_ts = txn_map[t].read_ts,
           txn_map'[t].scan_predicates = txn_map[t].scan_predicates,
           NEW r \in DOMAIN heap, Checked(N, t, r)
    PROVE  Checked(M, t, r)'
  <1>1. /\ Answer(M, r, last_commit_ts)' = Answer(N, r, last_commit_ts)
        /\ Answer(M, r, txn_map[t].read_ts)' = Answer(N, r, txn_map[t].read_ts)
    BY LatestOn, SnapshotAnswer
  <1>2. heap'[r].tuple.id = heap[r].tuple.id
    BY DEF Goes, SameRows
  <1> QED
    BY <1>1, <1>2, CheckedNow DEF Checked

\* A version that was read stays one from which a reader may go on.
LEMMA StandsOn ==
    ASSUME IInv, IInv', NEW N, Told(N), NEW M, Goes(N, M), Extends(N, M), LogsKeep,
           GetWatermark \in Nat, GetWatermark' \in Nat, GetWatermark <= GetWatermark',
           NEW r \in DOMAIN heap, NEW x, Stands(N, r, x)
    PROVE  Stands(M, r, x)'
  <1> USE DEF IInv
  <1>1. x \in Version /\ x.ts \in Nat /\ x.link \in Link
    BY DEF Stands, Version
  <1>2. x.link.txn \in DOMAIN txn_map' /\ IsValid(x.link) => x.link.txn \in DOMAIN txn_map
    <2>1. next_txn_id \in Nat /\ (IsValid(x.link) => x.link.txn \in Txn)
      BY <1>1, TxnFacts, SMTT(30) DEF TypeOK, Link, IsValid
    <2>2. IsValid(x.link) => x.link.txn \in Nat /\ x.link.txn < next_txn_id
      BY <2>1, TxnFacts DEF Stands, Known, IsValid
    <2> QED
      BY <2>1, <2>2 DEF LogsKeep
  <1>3. IsValid(x.link) \/ x.link.txn \notin DOMAIN txn_map'
    BY TxnFacts DEF IsValid, TypeOK
  <1>4. Exists(x.link)' => /\ Exists(x.link) /\ x.link.idx \in DOMAIN txn_map[x.link.txn].undo_logs
                           /\ x.link.idx \in DOMAIN txn_map'[x.link.txn].undo_logs
                           /\ LogAt(x.link)'.ts = LogAt(x.link).ts
    BY <1>2, <1>3 DEF Exists, Stands, Known, LogsKeep, LogAt, IsValid
  <1>5. Known(x.link)'
    <2>1. x.link.txn # NoTxn => x.link.txn < next_txn_id'
      <3>1. x.link.txn # NoTxn => x.link.txn \in Nat
        BY <1>1, TxnFacts DEF Link
      <3>2. next_txn_id \in Nat /\ next_txn_id' \in Nat
        BY TxnFacts DEF TypeOK
      <3> QED
        BY <3>1, <3>2 DEF Stands, Known, LogsKeep
    <2> QED
      BY <1>4, <2>1 DEF Known
  <1>6. Exists(x.link)' => LogAt(x.link)'.ts < x.ts
    BY <1>4 DEF Stands
  <1>7. x.tuple.id = heap'[r].tuple.id
    BY DEF Stands, Goes, SameRows
  <1>8. x.ts > GetWatermark' /\ IsValid(x.link) => Leads(M, x.link, r, Content(x))'
    <2>1. PICK v : v = Content(x)
      OBVIOUS
    <2>2. x.ts > GetWatermark' => x.ts > GetWatermark
      BY <1>1
    <2>3. x.ts > GetWatermark' /\ IsValid(x.link) => Leads(N, x.link, r, v)
      BY <2>1, <2>2 DEF Stands
    <2>4. Leads(N, x.link, r, v) => Leads(M, x.link, r, v)'
      BY DEF Extends, Leads
    <2>5. Leads(M, x.link, r, v)' => Leads(M, x.link, r, Content(x))'
      BY <2>1 DEF Content
    <2> QED
      BY <2>3, <2>4, <2>5
  <1> QED
    BY <1>1, <1>5, <1>6, <1>7, <1>8 DEF Stands

\* What was fetched of a row stays what it was.
LEMMA FetchedOn ==
    ASSUME IInv, IInv', NEW N, Told(N), NEW M, Goes(N, M), Extends(N, M), LogsKeep,
           GetWatermark \in Nat, GetWatermark' \in Nat, GetWatermark <= GetWatermark',
           UNCHANGED last_commit_ts,
           NEW t \in DOMAIN txn_map, t \in DOMAIN txn_map', Active(t), Active(t)',
           txn_map'[t].read_ts = txn_map[t].read_ts,
           NEW r \in DOMAIN heap, NEW x, Fetched(N, t, x, r)
    PROVE  Fetched(M, t, x, r)'
  <1> USE DEF IInv
  <1>1. Stands(N, r, x) /\ Stands(M, r, x)'
    BY StandsOn DEF Fetched
  <1>2. PICK v, low, high : v = Content(x) /\ low = txn_map[t].read_ts /\ high = last_commit_ts
    OBVIOUS
  <1>3. /\ Answer(M, r, last_commit_ts)' = Answer(N, r, high)
        /\ Answer(M, r, txn_map[t].read_ts)' = Answer(N, r, low)
        /\ low \in Nat /\ low >= GetWatermark' /\ low <= high /\ high \in Nat
    BY <1>2, LatestOn, SnapshotAnswer DEF TypeOK
  <1>4. x.ts \in Nat /\ (x.ts > GetWatermark /\ IsValid(x.link) => Leads(N, x.link, r, v))
    BY <1>1, <1>2 DEF Stands, Version
  <1>5. ASSUME NEW ts \in Nat, ts >= GetWatermark'
        PROVE  AnswerOf(M, x.ts, v, x.link, ts) = AnswerOf(N, x.ts, v, x.link, ts)
    <2>1. CASE x.ts > ts /\ IsValid(x.link)
      <3>1. x.ts > GetWatermark
        BY <1>4, <1>5, <2>1
      <3>2. M[x.link] = N[x.link]
        BY <1>4, <2>1, <3>1 DEF Extends, Leads
      <3> QED
        BY <3>2 DEF AnswerOf
    <2>2. CASE ~(x.ts > ts /\ IsValid(x.link))
      BY <1>4, <2>2 DEF AnswerOf
    <2> QED
      BY <2>1, <2>2
  <1>6. /\ AnswerOf(N, x.ts, v, x.link, low) = Answer(N, r, low)
        /\ AnswerOf(N, x.ts, v, x.link, high) = Answer(N, r, high)
    BY <1>2 DEF Fetched
  <1>7. high >= GetWatermark'
    BY <1>3
  <1>8. /\ AnswerOf(M, x.ts, v, x.link, low) = Answer(M, r, txn_map[t].read_ts)'
        /\ AnswerOf(M, x.ts, v, x.link, high) = Answer(M, r, last_commit_ts)'
    BY <1>3, <1>5, <1>6, <1>7
  <1>9. /\ AnswerOf(M, x.ts, Content(x), x.link, txn_map[t].read_ts)' = Answer(M, r, txn_map[t].read_ts)'
        /\ AnswerOf(M, x.ts, Content(x), x.link, last_commit_ts)' = Answer(M, r, last_commit_ts)'
    <2>1. Content(x)' = v
      BY <1>2 DEF Content
    <2> QED
      BY <1>2, <1>8, <2>1 DEF AnswerOf
  <1> QED
    BY <1>1, <1>9 DEF Fetched

\* The rows of a verification: seen, to be looked at, or the one at hand.
RowSeen(N, t, r) ==
    \/ Checked(N, t, r)
    \/ at[t].do = "verify" /\ r \in at[t].todo
    \/ at[t].do = "verify" /\ at[t].got # <<>> /\ Fetched(N, t, at[t].got[1], r)

\* t has to verify, and does or has done so.
Verifier(t) ==
    /\ at[t].do \in {"verify", "stamp"}
    /\ txn_map[t].isolation_level = "SERIALIZABLE"
    /\ txn_map[t].write_set # {} /\ txn_map[t].scan_predicates # {}

\* A verification has passed a row, holds a copy of it or has it still to visit.
VerifySees(N) == \A t \in Txn : Verifier(t) => \A r \in DOMAIN heap : RowSeen(N, t, r)

\* The transaction that verifies stands still.
LEMMA RowSeenOn ==
    ASSUME IInv, IInv', NEW N, Told(N), NEW M, Goes(N, M), Extends(N, M), LogsKeep,
           GetWatermark \in Nat, GetWatermark' \in Nat, GetWatermark <= GetWatermark',
           UNCHANGED last_commit_ts,
           NEW t \in DOMAIN txn_map, t \in DOMAIN txn_map', Active(t),
           txn_map'[t] = txn_map[t], at'[t] = at[t],
           NEW r \in DOMAIN heap, RowSeen(N, t, r)
    PROVE  RowSeen(M, t, r)'
  <1>1. Active(t)'
    BY DEF Active
  <1>2. CASE Checked(N, t, r)
    <2>1. Checked(M, t, r)'
      BY <1>1, <1>2, CheckedOn
    <2> QED
      BY <2>1 DEF RowSeen
  <1>3. CASE at[t].do = "verify" /\ r \in at[t].todo
    BY <1>3 DEF RowSeen
  <1>4. CASE at[t].do = "verify" /\ at[t].got # <<>> /\ Fetched(N, t, at[t].got[1], r)
    <2>1. PICK x : x = at[t].got[1]
      OBVIOUS
    <2>2. Fetched(M, t, x, r)'
      BY <1>1, <1>4, <2>1, FetchedOn
    <2>3. Fetched(M, t, at[t].got[1], r)'
      BY <2>1, <2>2 DEF Fetched, Stands
    <2> QED
      BY <1>4, <2>3 DEF RowSeen
  <1> QED
    BY <1>2, <1>3, <1>4 DEF RowSeen

\* A snapshot that is as new as the last commit.
LEMMA SameAnswer ==
    ASSUME IInv, NEW N, Told(N), NEW r \in DOMAIN heap, NEW low \in Nat, low >= GetWatermark,
           low <= last_commit_ts, Answer(N, r, last_commit_ts).ts <= low
    PROVE  Answer(N, r, low) = Answer(N, r, last_commit_ts)
  <1> USE DEF IInv, ChainInv
  <1>1. heap[r].ts \in Nat /\ last_commit_ts \in Nat /\ GetWatermark \in Nat
    BY RowType, WatermarkBelow DEF TypeOK
  <1>2. PICK link, v : link = undo_link[r] /\ v = Content(heap[r])
    OBVIOUS
  <1>3. \A ts : Answer(N, r, ts) = AnswerOf(N, heap[r].ts, v, link, ts)
    BY <1>2 DEF Answer
  <1>4. CASE heap[r].ts <= last_commit_ts
    <2>1. Answer(N, r, last_commit_ts) = [ts |-> heap[r].ts, v |-> v]
      BY <1>3, <1>4 DEF AnswerOf
    <2>2. heap[r].ts <= low
      BY <2>1
    <2> QED
      BY <1>3, <2>1, <2>2 DEF AnswerOf
  <1>5. CASE ~(heap[r].ts <= last_commit_ts)
    <2>1. ~(heap[r].ts <= low) /\ heap[r].ts > GetWatermark
      BY <1>1, <1>5
    <2>2. CASE ~IsValid(link)
      BY <1>3, <1>5, <2>1, <2>2 DEF AnswerOf
    <2>3. CASE IsValid(link)
      <3>1. Answer(N, r, last_commit_ts) = N[link].past[last_commit_ts]
            /\ Answer(N, r, low) = N[link].past[low]
        BY <1>3, <1>5, <2>1, <2>3 DEF AnswerOf
      <3>2. link \in DOMAIN N /\ N[link].past[last_commit_ts] = [ts |-> LogAt(link).ts, v |-> N[link].v]
        BY <1>1, <1>2, <2>1, <2>3, LatestLog
      <3>3. Recorded(N, link)
        BY <3>2 DEF Told
      <3>4. N[link].past[low] = AnswerOf(N, LogAt(link).ts, N[link].v, LogAt(link).prev_version, low)
        BY <3>3 DEF Recorded
      <3>5. LogAt(link).ts <= low
        BY <3>1, <3>2
      <3>6. N[link].past[low] = [ts |-> LogAt(link).ts, v |-> N[link].v]
        BY <3>4, <3>5 DEF AnswerOf
      <3> QED
        BY <3>1, <3>2, <3>6
    <2> QED
      BY <2>2, <2>3
  <1> QED
    BY <1>4, <1>5

\* A step of another leaves what the verification has seen.
LEMMA OthersVerify ==
    ASSUME IInv, IInv', GetWatermark >= 1, KeysInv, CommitInv, NEW N, Told(N), NEW M, Goes(N, M),
           VerifySees(N), NEW u \in Txn,
           Begin(u) \/ Statement(u) \/ Write(u) \/ Join(u) \/ Commit(u) \/ Abort(u),
           NEW t \in Txn, t # u, Verifier(t)', NEW r \in DOMAIN heap'
    PROVE  RowSeen(M, t, r)'
  <1> USE DEF IInv, WatermarkInv, ChainInv
  <1>1. /\ at'[t] = at[t] /\ t \in DOMAIN txn_map => txn_map'[t] = txn_map[t]
        /\ DOMAIN txn_map \subseteq DOMAIN txn_map'
    BY StepsOnly DEF OnlyOf
  <1>2. at[t].do \in {"verify", "stamp"} /\ at'[t] = at[t]
    BY StepsOnly DEF OnlyOf, Verifier
  <1>3. t \in DOMAIN txn_map /\ Active(t) /\ txn_map'[t] = txn_map[t] /\ t \in DOMAIN txn_map'
    BY <1>1, <1>2, AtWork, StepsOnly DEF OnlyOf
  <1>4. Verifier(t)
    BY <1>2, <1>3 DEF Verifier
  <1>5. UNCHANGED last_commit_ts
    <2>1. ~EndCommit(u)
      BY <1>2 DEF EndCommit, CommitInv, Mutex
    <2> QED
      BY <2>1, NoCommit
  <1>6. CASE r \in DOMAIN heap
    <2>1. RowSeen(N, t, r)
      BY <1>4, <1>6 DEF VerifySees
    <2>2. [Next]_vars
      BY DEF Next
    <2>3. GetWatermark \in Nat /\ GetWatermark' \in Nat /\ GetWatermark <= GetWatermark'
      BY <2>2, WatermarkGrows
    <2>4. Extends(N, M)
      <3>1. ~GarbageCollection
        BY <1>2 DEF GarbageCollection, Idle
      <3> QED
        BY <3>1 DEF Goes
    <2>5. LogsKeep
      BY StepLogsKeep
    <2> QED
      BY <1>2, <1>3, <1>5, <1>6, <2>1, <2>3, <2>4, <2>5, RowSeenOn
  <1>7. CASE r \notin DOMAIN heap
    <2>1. RowSteps(u)
      BY StepRowSteps
    <2>2. PICK c : c = txn_map[t].read_ts
      OBVIOUS
    <2>3. c \in Nat /\ c <= last_commit_ts
      BY <1>3, <2>2, TransactionFields DEF SnapshotsPast
    <2>4. Answer(M, r, c)' = Nothing /\ Answer(M, r, last_commit_ts)' = Nothing
      BY <1>5, <1>7, <2>1, <2>3, NewAnswer, NewLatest
    <2>5. Answer(M, r, txn_map[t].read_ts)' = Nothing
      BY <1>3, <2>2, <2>4 DEF Answer, AnswerOf
    <2>6. Checked(M, t, r)'
      BY <2>4, <2>5 DEF Checked, Unasked
    <2> QED
      BY <2>6 DEF RowSeen
  <1> QED
    BY <1>6, <1>7

\* t itself goes on with its commit.
LEMMA OwnVerify ==
    ASSUME IInv, IInv', GetWatermark >= 1, KeysInv, CommitInv, NEW N, Told(N), NEW M, Goes(N, M),
           VerifySees(N), ChangesSeen(N), NEW t \in Txn,
           Begin(t) \/ Statement(t) \/ Write(t) \/ Join(t) \/ Commit(t) \/ Abort(t),
           Verifier(t)', NEW r \in DOMAIN heap'
    PROVE  RowSeen(M, t, r)'
  <1> USE DEF IInv, WatermarkInv, ChainInv
  <1>1. at'[t].do \in {"verify", "stamp"}
    BY DEF Verifier
  <1>2. Commit(t) /\ ~Begin(t)
    <2>1. ~(Begin(t) \/ Statement(t) \/ Write(t) \/ Join(t))
      BY <1>1, WorkOn DEF Working
    <2>2. ~Abort(t)
      BY <1>1, AbortMoves
    <2> QED
      BY <2>1, <2>2
  <1>3. ~EndCommit(t) /\ (VerifyRow(t) => ~Phantom(t, at[t].got[1]))
    <2>1. ~EndCommit(t)
      BY <1>1, GotoMoves DEF EndCommit, Idle
    <2>2. ASSUME VerifyRow(t), Phantom(t, at[t].got[1]) PROVE FALSE
      <3>1. PICK next : Goto(t, next) /\ next.do = "abort"
        BY <2>2 DEF VerifyRow
      <3> QED
        BY <1>1, <3>1, GotoMoves
    <2> QED
      BY <2>1, <2>2
  <1>4. /\ UNCHANGED <<txn_map, last_commit_ts>> /\ DOMAIN heap' = DOMAIN heap
    <2>1. CASE StampRow(t)
      BY <2>1, Stamped DEF StampRow, Others
    <2>2. CASE ~StampRow(t)
      BY <1>2, <1>3, <2>2 DEF Commit, StartCommit, Fetch, VerifyRow, table, Others
    <2> QED
      BY <2>1, <2>2
  <1>5. t \in DOMAIN txn_map /\ Active(t) /\ Active(t)'
    BY <1>2, <1>4, Stepping DEF Active
  <1>6. r \in DOMAIN heap /\ t \in DOMAIN txn_map'
    BY <1>4, <1>5
  <1>7. Checked(N, t, r) => RowSeen(M, t, r)'
    <2>1. Checked(N, t, r) => Checked(M, t, r)'
      BY <1>4, <1>5, <1>6, CheckedOn
    <2> QED
      BY <2>1 DEF RowSeen
  <1>8. ASSUME NEW x, Fetched(N, t, x, r) PROVE Fetched(M, t, x, r)'
    <2>1. [Next]_vars
      BY DEF Next
    <2>2. GetWatermark \in Nat /\ GetWatermark' \in Nat /\ GetWatermark <= GetWatermark'
      BY <2>1, WatermarkGrows
    <2>3. Extends(N, M)
      <3>1. ~GarbageCollection
        BY <1>4, <1>5 DEF GarbageCollection, Garbage
      <3> QED
        BY <3>1 DEF Goes
    <2>4. LogsKeep
      BY StepLogsKeep
    <2> QED
      BY <1>4, <1>5, <1>6, <1>8, <2>2, <2>3, <2>4, FetchedOn
  <1>9. /\ txn_map[t].isolation_level = "SERIALIZABLE"
        /\ txn_map[t].write_set # {} /\ txn_map[t].scan_predicates # {}
    BY <1>4 DEF Verifier
  <1>10. \A todo : todo # {} => Verifying(t, todo) = [do |-> "verify", todo |-> todo, got |-> <<>>]
    BY DEF Verifying
  <1>11. CASE StartCommit(t)
    <2>1. at'[t] = Verifying(t, ChangedSince(t))
      BY <1>9, <1>11, GotoMoves DEF StartCommit, Unverified
    <2>2. CASE r \in ChangedSince(t)
      <3>1. at'[t].do = "verify" /\ r \in at'[t].todo
        BY <1>10, <2>1, <2>2
      <3> QED
        BY <3>1 DEF RowSeen
    <2>3. CASE r \notin ChangedSince(t)
      <3>1. PICK low : low = txn_map[t].read_ts
        OBVIOUS
      <3>2. low \in Nat /\ low >= GetWatermark /\ low <= last_commit_ts
        BY <1>5, <3>1, ReadersAbove
      <3>3. Answer(N, r, last_commit_ts).ts \in Nat
        BY <1>6, LatestBelow
      <3>4. Answer(N, r, last_commit_ts).ts <= low
        BY <1>5, <1>6, <1>9, <2>3, <3>1, <3>2, <3>3 DEF ChangesSeen
      <3>5. Answer(N, r, low) = Answer(N, r, last_commit_ts)
        BY <1>6, <3>2, <3>4, SameAnswer
      <3>6. Checked(N, t, r)
        BY <3>1, <3>5 DEF Checked, Unasked
      <3> QED
        BY <1>7, <3>6
    <2> QED
      BY <2>2, <2>3
  <1>12. ASSUME at[t].do \in {"verify", "stamp"}
         PROVE  RowSeen(N, t, r)
    BY <1>6, <1>9, <1>12 DEF VerifySees, Verifier
  <1>13. CASE Fetch(t)
    <2>1. at[t].do = "verify" /\ at[t].got = <<>>
      BY <1>13 DEF Fetch
    <2>2. PICK s \in at[t].todo :
             Goto(t, [do |-> "verify", todo |-> at[t].todo \ {s}, got |-> <<Base(s)>>])
      BY <1>13 DEF Fetch
    <2>3. at'[t] = [do |-> "verify", todo |-> at[t].todo \ {s}, got |-> <<Base(s)>>]
      BY <2>2, GotoMoves
    <2>4. CASE r = s
      <3>1. PICK x : x = Base(r)
        OBVIOUS
      <3>2. Fetched(N, t, x, r)
        <4>1. Stands(N, r, x)
          BY <1>6, <3>1, BaseStands
        <4>2. x.ts = heap[r].ts /\ x.link = undo_link[r] /\ Content(x) = Content(heap[r])
          BY <3>1, BaseContent DEF Base
        <4> QED
          BY <4>1, <4>2 DEF Fetched, Answer
      <3>3. Fetched(M, t, x, r)'
        BY <1>8, <3>2
      <3>4. at'[t].do = "verify" /\ at'[t].got # <<>> /\ at'[t].got[1] = x
        BY <2>3, <2>4, <3>1
      <3>5. Fetched(M, t, at[t].got[1], r)'
        BY <3>3, <3>4 DEF Fetched, Stands
      <3> QED
        BY <3>4, <3>5 DEF RowSeen
    <2>5. CASE r # s
      <3>1. CASE r \in at[t].todo
        <4>1. at'[t].do = "verify" /\ r \in at'[t].todo
          BY <2>3, <2>5, <3>1
        <4> QED
          BY <4>1 DEF RowSeen
      <3>2. CASE r \notin at[t].todo
        <4>1. Checked(N, t, r)
          BY <1>12, <2>1, <3>2 DEF RowSeen
        <4> QED
          BY <1>7, <4>1
      <3> QED
        BY <3>1, <3>2
    <2> QED
      BY <2>4, <2>5
  <1>14. CASE VerifyRow(t)
    <2>1. at[t].do = "verify" /\ at[t].got # <<>>
      BY <1>14 DEF VerifyRow
    <2>2. at'[t] = Verifying(t, at[t].todo)
      BY <1>3, <1>14, GotoMoves DEF VerifyRow
    <2>3. CASE r \in at[t].todo
      <3>1. at'[t].do = "verify" /\ r \in at'[t].todo
        BY <1>10, <2>2, <2>3
      <3> QED
        BY <3>1 DEF RowSeen
    <2>4. CASE r \notin at[t].todo
      <3>1. Checked(N, t, r) \/ Fetched(N, t, at[t].got[1], r)
        BY <1>12, <2>1, <2>4 DEF RowSeen
      <3>2. Checked(N, t, r)
        BY <1>3, <1>5, <1>6, <1>14, <3>1, NotPhantom
      <3> QED
        BY <1>7, <3>2
    <2> QED
      BY <2>3, <2>4
  <1>15. CASE StampRow(t)
    <2>1. at[t].do = "stamp"
      BY <1>15 DEF StampRow
    <2>2. Checked(N, t, r)
      BY <1>12, <2>1 DEF RowSeen
    <2> QED
      BY <1>7, <2>2
  <1> QED
    BY <1>2, <1>3, <1>11, <1>13, <1>14, <1>15 DEF Commit

\* The step of a verification, and the steps of the others.
LEMMA VerifySeesStep ==
    ASSUME IInv, IInv', GetWatermark >= 1, KeysInv, CommitInv, NEW N, Told(N), NEW M, Goes(N, M),
           VerifySees(N), ChangesSeen(N), [Next]_vars
    PROVE  VerifySees(M)'
  <1> SUFFICES ASSUME NEW t \in Txn, Verifier(t)', NEW r \in DOMAIN heap'
               PROVE  RowSeen(M, t, r)'
    BY DEF VerifySees
  <1>1. CASE \E u \in Txn :
                Begin(u) \/ Statement(u) \/ Write(u) \/ Join(u) \/ Commit(u) \/ Abort(u)
    BY <1>1, OwnVerify, OthersVerify
  <1>2. CASE GarbageCollection
    BY <1>2 DEF GarbageCollection, Verifier, Idle
  <1>3. CASE UNCHANGED vars
    <2>1. UNCHANGED <<heap, undo_link, txn_map, next_txn_id, last_commit_ts, at>>
      BY <1>3 DEF vars, table
    <2>2. at[t].do \in {"verify", "stamp"} /\ Verifier(t)
      BY <2>1 DEF Verifier
    <2>3. t \in DOMAIN txn_map /\ Active(t) /\ t \in DOMAIN txn_map'
      BY <2>1, <2>2, AtWork DEF IInv, WatermarkInv
    <2>4. GetWatermark \in Nat /\ GetWatermark' \in Nat /\ GetWatermark <= GetWatermark'
      BY WatermarkGrows
    <2>5. Extends(N, M)
      <3>1. ~GarbageCollection
        BY <2>2 DEF GarbageCollection, Idle
      <3> QED
        BY <3>1 DEF Goes
    <2>6. LogsKeep
      <3>1. next_txn_id \in Nat
        BY TxnFacts DEF IInv, TypeOK
      <3> QED
        BY <2>1, <3>1 DEF LogsKeep
    <2>7. r \in DOMAIN heap /\ RowSeen(N, t, r)
      BY <2>1, <2>2 DEF VerifySees
    <2> QED
      BY <2>1, <2>3, <2>4, <2>5, <2>6, <2>7, RowSeenOn
  <1> QED
    BY <1>1, <1>2, <1>3 DEF Next

-----------------------------------------------------------------------------
(* A commit and an abort, as the store sees them. *)

\* No row bears the next commit timestamp while nobody else commits.
LEMMA NoneStamped ==
    ASSUME IInv, CommitInv, NEW u \in Txn, at[u].do # "stamp", commit_mutex \in {NoTxn, u},
           NEW r \in DOMAIN heap
    PROVE  heap[r].ts # last_commit_ts + 1
  <1> SUFFICES ASSUME heap[r].ts = last_commit_ts + 1 PROVE FALSE
    OBVIOUS
  <1>1. last_commit_ts \in Nat
    BY DEF IInv, TypeOK
  <1>2. heap[r].ts \notin Txn
    BY <1>1, CommitIsNoTxn DEF IInv
  <1>3. ~(heap[r].ts <= last_commit_ts)
    BY <1>1
  <1>4. PICK x \in Txn : at[x].do = "stamp"
    BY <1>2, <1>3 DEF CommitInv, Stamps
  <1>5. commit_mutex = x
    BY <1>4 DEF CommitInv, Mutex
  <1> QED
    BY <1>4, <1>5, TxnFacts

\* A transaction that is no longer in progress has aborted, for the store.
LEMMA AbortedStore ==
    ASSUME IInv, IInv', GetWatermark >= 1, KeysInv, CommitInv, NEW N, Told(N), NEW M, Goes(N, M),
           NEW u \in Txn, Commit(u) \/ Abort(u), UNCHANGED last_commit_ts, ~InProgress(u)'
    PROVE  StoreStep
  <1>1. [Next]_vars
    BY DEF Next
  <1>2. Db' = Db
    BY <1>1, DbOn DEF CommitInv
  <1>3. \A t \in Txn : t # u => Same(t)
    BY OthersSame
  <1>4. CASE InProgress(u)
    BY <1>2, <1>3, <1>4, AbortsStore
  <1>5. CASE ~InProgress(u)
    <2>1. Same(u)
      BY <1>5, NotRunning DEF Same
    <2> QED
      BY <1>2, <1>3, <2>1, Stutters
  <1> QED
    BY <1>4, <1>5

\* An abort, from its first step on: the rows it has yet to restore are nobody's.
LEMMA AbortStep ==
    ASSUME IInv, IInv', GetWatermark >= 1, KeysInv, CommitInv, NEW N, Told(N), NEW M, Goes(N, M),
           NEW u \in Txn, Abort(u)
    PROVE  StoreStep
  <1> USE DEF IInv, WatermarkInv, ChainInv
  <1>1. UNCHANGED last_commit_ts
    BY AbortMoves
  <1>2. ~InProgress(u)'
    <2>1. CASE StartAbort(u)
      <3>1. PICK next : Goto(u, next) /\ next.do = "abort"
        BY <2>1 DEF StartAbort
      <3> QED
        BY <3>1, GotoMoves DEF InProgress
    <2>2. CASE RestoreRow(u)
      <3>1. PICK next : Goto(u, next) /\ next.do = "abort"
        BY <2>2, Unwritten
      <3> QED
        BY <3>1, GotoMoves DEF InProgress
    <2>3. CASE EndAbort(u)
      BY <2>3, EndAbortTxn DEF InProgress, Active
    <2> QED
      BY <2>1, <2>2, <2>3 DEF Abort
  <1> QED
    BY <1>1, <1>2, AbortedStore

\* The commit goes on, and nothing is published.
LEMMA CommitHidden ==
    ASSUME IInv, IInv', GetWatermark >= 1, KeysInv, CommitInv, NEW N, Told(N), NEW M, Goes(N, M),
           NEW u \in Txn, Commit(u), ~EndCommit(u), at'[u].do # "abort"
    PROVE  StoreStep
  <1> USE DEF IInv, WatermarkInv, ChainInv
  <1>1. /\ at[u].do # "abort" /\ at'[u].do \in {"verify", "stamp"}
        /\ at[u].do = "stamp" \/ commit_mutex \in {NoTxn, u}
    <2>1. Idle.do = "idle"
      BY DEF Idle
    <2> QED
      BY <2>1, CommitMoves DEF CommitInv, Mutex
  <1>2. UNCHANGED <<txn_map, index, last_commit_ts>>
    BY DEF Commit, StartCommit, Fetch, VerifyRow, StampRow, table, Others
  <1>3. u \in DOMAIN txn_map /\ Active(u)
    <2>1. ~Begin(u)
      BY WorkOn, <1>1 DEF Working
    <2> QED
      BY <2>1, Stepping
  <1>4. /\ InProgress(u) /\ InProgress(u)' /\ PredsOf(u)' = PredsOf(u)
        /\ txn_map'[u].read_ts = txn_map[u].read_ts
    BY <1>1, <1>2, <1>3 DEF InProgress, Active, PredsOf
  <1>5. ASSUME NEW r \in DOMAIN heap
        PROVE  /\ WrittenBy(u, r)' <=> WrittenBy(u, r)
               /\ Content(heap'[r]) = Content(heap[r])
    <2>1. CASE StampRow(u)
      <3>1. at[u].do = "stamp" /\ at'[u].do = "stamp"
        <4>1. PICK next : Goto(u, next) /\ next.do = "stamp"
          BY <2>1, Stamped
        <4> QED
          BY <2>1, <4>1, GotoMoves DEF StampRow
      <3>2. PICK s : /\ s \in DOMAIN heap
                     /\ \A q \in DOMAIN heap : q # s \/ heap[q].ts # u => heap'[q] = heap[q]
                     /\ heap[s].ts = u => heap'[s].ts = last_commit_ts + 1
        BY <2>1, Stamped
      <3>3. Content(heap'[r]) = Content(heap[r])
        <4>1. PICK q : heap' = IF heap[q].ts = u THEN [heap EXCEPT ![q].ts = last_commit_ts + 1] ELSE heap
          BY <2>1 DEF StampRow
        <4>2. heap[r] \in [tuple : Tuple, ts : Nat, deleted : BOOLEAN]
          BY RowType
        <4>3. heap'[r].tuple = heap[r].tuple /\ heap'[r].deleted = heap[r].deleted
          BY <4>1, <4>2
        <4> QED
          BY <4>3 DEF Content
      <3>4. CASE r = s /\ heap[r].ts = u
        BY <1>2, <3>1, <3>2, <3>3, <3>4 DEF WrittenBy
      <3>5. CASE ~(r = s /\ heap[r].ts = u)
        BY <1>2, <3>1, <3>2, <3>3, <3>5 DEF WrittenBy
      <3> QED
        BY <3>4, <3>5
    <2>2. CASE ~StampRow(u)
      <3>1. UNCHANGED heap
        BY <2>2 DEF Commit, StartCommit, Fetch, VerifyRow, table
      <3>2. at[u].do # "stamp"
        BY <2>2 DEF Commit, StartCommit, Fetch, VerifyRow, Idle
      <3>3. heap[r].ts # last_commit_ts + 1
        BY <1>1, <3>2, NoneStamped
      <3> QED
        BY <1>2, <3>1, <3>3 DEF WrittenBy
    <2> QED
      BY <2>1, <2>2
  <1> QED
    BY <1>2, <1>4, <1>5, HiddenStep

\* All that u wrote is stamped.
LEMMA AllStamped ==
    ASSUME IInv, KeysInv, CommitInv, NEW u \in Txn, at[u].do = "stamp", at[u].todo = {},
           NEW r \in DOMAIN heap
    PROVE  /\ WrittenBy(u, r) <=> heap[r].ts = last_commit_ts + 1
           /\ WrittenBy(u, r) => r \in txn_map[u].write_set
  <1>1. heap[r].ts # u
    BY OwnersNone
  <1>2. WrittenBy(u, r) <=> heap[r].ts = last_commit_ts + 1
    BY <1>1 DEF WrittenBy
  <1> QED
    BY <1>2, StampedBy

\* The versions of a key that are in use are those of its row.
LEMMA KeyAnswer ==
    ASSUME IInv, GetWatermark >= 1, NEW N, Told(N), NEW u \in Txn, InProgress(u), NEW k \in Key
    PROVE  /\ index[k] = NoRid => Db[k] = Nothing /\ SnapOf(u)[k] = Nothing
           /\ \A r : r = index[k] /\ r # NoRid =>
                 /\ r \in DOMAIN heap
                 /\ Db[k] = Answer(N, r, last_commit_ts)
                 /\ SnapOf(u)[k] = Answer(N, r, txn_map[u].read_ts)
  <1>1. PICK low, high : low = txn_map[u].read_ts /\ high = last_commit_ts
    OBVIOUS
  <1>2. low \in Nat /\ high \in Nat /\ low >= GetWatermark /\ high >= GetWatermark
    BY <1>1, ReadersAbove, WatermarkBelow DEF IInv, TypeOK, InProgress, Active
  <1>3. VersionsTold(N)
    BY KeysTold
  <1>4. Db[k] = StoreVersion(k, high) /\ SnapOf(u)[k] = StoreVersion(k, low)
    BY <1>1 DEF Db, SnapOf
  <1>5. \A r : r = index[k] /\ r # NoRid => r \in DOMAIN heap
    BY DEF IInv, TypeOK
  <1> QED
    BY <1>1, <1>2, <1>3, <1>4, <1>5 DEF VersionsTold

\* At its end a commit finds what its queries selected unchanged.
LEMMA QueriesStill ==
    ASSUME IInv, GetWatermark >= 1, KeysInv, CommitInv, NEW N, Told(N), VerifySees(N),
           NEW u \in Txn, at[u].do = "stamp", at[u].todo = {},
           DOMAIN MineOf(u) # {}, NEW p \in PredsOf(u), NEW k \in Key, Db[k] # SnapOf(u)[k]
    PROVE  ~Store!Selects(p, k, Db[k]) /\ ~Store!Selects(p, k, SnapOf(u)[k])
  <1> USE DEF IInv, WatermarkInv, ChainInv
  <1>1. u \in DOMAIN txn_map /\ InProgress(u)
    BY AtWork DEF InProgress
  <1>2. PICK q \in txn_map[u].scan_predicates :
           p = q.holds /\ txn_map[u].isolation_level = "SERIALIZABLE"
    BY <1>1 DEF PredsOf
  <1>3. txn_map[u].write_set # {}
    <2>1. PICK j \in Key : index[j] # NoRid /\ WrittenBy(u, index[j])
      BY <1>1, MineDomain
    <2>2. PICK s : s = index[j] /\ s \in DOMAIN heap
      BY <2>1 DEF TypeOK
    <2>3. WrittenBy(u, s)
      BY <2>1, <2>2
    <2> QED
      BY <2>2, <2>3, AllStamped
  <1>4. index[k] # NoRid
    BY <1>1, KeyAnswer
  <1>5. PICK r : r = index[k]
    OBVIOUS
  <1>6. /\ r \in DOMAIN heap
        /\ Db[k] = Answer(N, r, last_commit_ts)
        /\ SnapOf(u)[k] = Answer(N, r, txn_map[u].read_ts)
    BY <1>1, <1>4, <1>5, KeyAnswer
  <1>7. heap[r].tuple.id = k
    BY <1>4, <1>5 DEF KeysInv, IndexKeys
  <1>8. Checked(N, u, r)
    BY <1>2, <1>3, <1>6 DEF VerifySees, Verifier, RowSeen
  <1>9. ~Asked(u, k, Db[k].v) /\ ~Asked(u, k, SnapOf(u)[k].v)
    BY <1>6, <1>7, <1>8 DEF Checked, Unasked
  <1> QED
    BY <1>2, <1>9 DEF Asked, Store!Selects

\* EndCommit is the commit of the store: one step for all the rows that were stamped.
LEMMA EndCommitStep ==
    ASSUME IInv, IInv', GetWatermark >= 1, KeysInv, CommitInv, NEW N, Told(N), VerifySees(N),
           NEW M, Goes(N, M), NEW u \in Txn, EndCommit(u)
    PROVE  StoreStep
  <1> USE DEF IInv, WatermarkInv, ChainInv
  <1>1. /\ at[u].do = "stamp" /\ at[u].todo = {} /\ last_commit_ts' = last_commit_ts + 1
        /\ UNCHANGED <<heap, undo_link, index>>
    BY DEF EndCommit, table
  <1>2. InProgress(u) /\ ~InProgress(u)'
    <2>1. u \in DOMAIN txn_map /\ InProgress(u)
      BY <1>1, AtWork DEF InProgress
    <2>2. ~InProgress(u)'
      BY EndCommitTxn DEF InProgress, Active
    <2> QED
      BY <2>1, <2>2
  <1>3. \A t \in Txn : t # u => Same(t)
    BY OthersSame DEF Commit
  <1>4. DOMAIN MineOf(u) = {j \in Key : index[j] # NoRid /\ WrittenBy(u, index[j])}
    BY <1>2, MineDomain
  <1>5. \A k \in DOMAIN MineOf(u) : Db[k] = SnapOf(u)[k]
    BY <1>2, <1>4, KeyUnchanged
  <1>6. DOMAIN MineOf(u) # {} => \A p \in PredsOf(u), k \in Key :
           Db[k] # SnapOf(u)[k] => ~Store!Selects(p, k, Db[k]) /\ ~Store!Selects(p, k, SnapOf(u)[k])
    BY <1>1, QueriesStill
  <1>7. PICK c : c = last_commit_ts + 1
    OBVIOUS
  <1>8. (GetWatermark \in Nat /\ GetWatermark <= last_commit_ts)' /\ c \in Nat /\ GetWatermark' >= 1
    <2>1. (IInv => GetWatermark \in Nat /\ GetWatermark <= last_commit_ts)'
      BY WatermarkBelow, PTL
    <2>2. GetWatermark \in Nat /\ GetWatermark' \in Nat /\ GetWatermark <= GetWatermark'
      <3>1. [Next]_vars
        BY DEF Next, Commit
      <3> QED
        BY <3>1, WatermarkGrows
    <2> QED
      BY <1>7, <2>1, <2>2, SMTT(30) DEF TypeOK
  <1>9. Told(M)' /\ VersionsTold(M)'
    BY <1>8, KeysToldNow DEF Goes
  <1>10. Db' = [k \in Key |-> StoreVersion(k, c)']
    BY <1>1, <1>7 DEF Db
  <1>11. ASSUME NEW k \in Key
         PROVE  StoreVersion(k, c)' = IF k \in DOMAIN MineOf(u)
                                      THEN [ts |-> last_commit_ts + 1, v |-> MineOf(u)[k]] ELSE Db[k]
    <2>1. c >= GetWatermark'
      BY <1>1, <1>7, <1>8
    <2>2. PICK r : r = index[k]
      OBVIOUS
    <2>3. CASE r = NoRid
      <3>1. StoreVersion(k, c)' = Nothing
        BY <1>1, <1>7, <1>8, <1>9, <2>1, <2>2, <2>3, VersionsToldNow
      <3>2. Db[k] = Nothing /\ k \notin DOMAIN MineOf(u)
        BY <1>2, <1>4, <2>2, <2>3, KeyAnswer
      <3> QED
        BY <3>1, <3>2
    <2>4. CASE r # NoRid
      <3>1. StoreVersion(k, c)' = Answer(M, r, c)'
        BY <1>1, <1>8, <1>9, <2>1, <2>2, <2>4, VersionsToldNow
      <3>2. r \in DOMAIN heap /\ Db[k] = Answer(N, r, last_commit_ts)
        BY <1>2, <2>2, <2>4, KeyAnswer
      <3>3. Answer(M, r, c)' = Answer(M, r, last_commit_ts)'
        BY <1>1, <1>7, AnswerAt
      <3>4. Answer(M, r, last_commit_ts)' =
               IF heap[r].ts = last_commit_ts + 1
               THEN [ts |-> last_commit_ts + 1, v |-> Content(heap[r])]
               ELSE Answer(N, r, last_commit_ts)
        BY <3>2, CommitAnswer
      <3>5. WrittenBy(u, r) <=> heap[r].ts = last_commit_ts + 1
        BY <1>1, <3>2, AllStamped
      <3>6. k \in DOMAIN MineOf(u) <=> WrittenBy(u, r)
        BY <1>4, <2>2, <2>4
      <3>7. k \in DOMAIN MineOf(u) => MineOf(u)[k] = Content(heap[r])
        <4>1. MineOf(u) = [j \in {i \in Key : index[i] # NoRid /\ WrittenBy(u, index[i])} |->
                              Content(heap[index[j]])]
          BY <1>2 DEF MineOf
        <4> QED
          BY <1>4, <2>2, <4>1
      <3> QED
        BY <3>1, <3>2, <3>3, <3>4, <3>5, <3>6, <3>7
    <2> QED
      BY <2>3, <2>4
  <1>12. Db' = [k \in Key |-> IF k \in DOMAIN MineOf(u)
                              THEN [ts |-> last_commit_ts + 1, v |-> MineOf(u)[k]] ELSE Db[k]]
    BY <1>10, <1>11
  <1> QED
    BY <1>1, <1>2, <1>3, <1>5, <1>6, <1>12, CommitsStore

\* A step of a commit.
LEMMA CommitStep ==
    ASSUME IInv, IInv', GetWatermark >= 1, KeysInv, CommitInv, NEW N, Told(N), VerifySees(N),
           NEW M, Goes(N, M), NEW u \in Txn, Commit(u)
    PROVE  StoreStep
  <1>1. CASE EndCommit(u)
    BY <1>1, EndCommitStep
  <1>2. CASE ~EndCommit(u) /\ at'[u].do # "abort"
    BY <1>2, CommitHidden
  <1>3. CASE ~EndCommit(u) /\ at'[u].do = "abort"
    <2>1. UNCHANGED last_commit_ts
      BY <1>3, NoCommit
    <2>2. ~InProgress(u)'
      BY <1>3 DEF InProgress
    <2> QED
      BY <2>1, <2>2, AbortedStore
  <1> QED
    BY <1>1, <1>2, <1>3

-----------------------------------------------------------------------------
(* The refinement. *)

\* Garbage collection takes transactions that are over: nobody in progress sees a difference.
LEMMA StillStore ==
    ASSUME IInv, IInv', GetWatermark >= 1, KeysInv, CommitInv, NEW N, Told(N), NEW M, Goes(N, M),
           GarbageCollection \/ UNCHANGED vars
    PROVE  StoreStep
  <1> USE DEF IInv, WatermarkInv, ChainInv
  <1>1. UNCHANGED <<heap, undo_link, index, at, last_commit_ts>>
    BY DEF GarbageCollection, vars, table, Others
  <1>2. [Next]_vars
    BY DEF Next
  <1>3. Db' = Db
    BY <1>1, <1>2, DbOn DEF CommitInv
  <1>4. ASSUME NEW t \in Txn
        PROVE  /\ InProgress(t)' <=> InProgress(t)
               /\ InProgress(t) => txn_map'[t] = txn_map[t]
    <2>1. CASE GarbageCollection
      <3>1. t \in Garbage => ~Active(t)
        BY DEF Garbage, Active
      <3>2. /\ DOMAIN txn_map' = DOMAIN txn_map \ Garbage
            /\ t \in DOMAIN txn_map' => txn_map'[t] = txn_map[t]
        BY <2>1 DEF GarbageCollection
      <3>3. Active(t) => t \in DOMAIN txn_map
        BY DEF Active
      <3> QED
        BY <1>1, <3>1, <3>2, <3>3 DEF InProgress, Active
    <2>2. CASE UNCHANGED vars
      BY <1>1, <2>2 DEF vars, InProgress, Active
    <2> QED
      BY <2>1, <2>2
  <1>5. ASSUME NEW t \in Txn PROVE SnapOf(t)' = SnapOf(t)
    <2>1. CASE InProgress(t)
      BY <1>2, <1>4, <2>1, SnapOn DEF CommitInv
    <2>2. CASE ~InProgress(t)
      BY <1>4, <2>2, NotRunning
    <2> QED
      BY <2>1, <2>2
  <1>6. ASSUME NEW t \in Txn PROVE MineOf(t)' = MineOf(t)
    <2>1. \A r \in DOMAIN heap : /\ WrittenBy(t, r)' <=> WrittenBy(t, r)
                                 /\ Content(heap'[r]) = Content(heap[r])
      BY <1>1 DEF WrittenBy
    <2> QED
      BY <1>1, <1>4, <2>1, MineRows
  <1>7. ASSUME NEW t \in Txn PROVE PredsOf(t)' = PredsOf(t)
    BY <1>4, <1>7 DEF PredsOf
  <1>8. \A t \in Txn : Same(t)
    BY <1>4, <1>5, <1>6, <1>7 DEF Same
  <1> QED
    BY <1>1, <1>3, <1>8, Stutters

\* One account N of the past bears out every undo log, every serializable transaction knows the
\* rows that changed since it began, and no verifier has passed a row its queries tell apart.
SerialInv == \E N : Told(N) /\ ChangesSeen(N) /\ VerifySees(N)

\* The rows that were loaded have the first timestamp.
LEMMA InitHeap == ASSUME Init PROVE \A r \in DOMAIN heap : heap[r].ts = 1
  <1>1. \A r \in 1..Len(Loaded) : heap[r].ts = 1
    BY DEF Init
  <1>2. DOMAIN heap = 1..Len(Loaded)
    BY DEF Init
  <1> QED
    BY <1>1, <1>2

LEMMA InitSerial == ASSUME Init PROVE SerialInv
  <1>1. GetWatermark = 1
    BY DEF Init, GetWatermark
  <1>2. \A t \in Txn : at[t].do = "idle"
    BY DEF Init, Idle
  <1>3. \A r \in DOMAIN heap : heap[r].ts = 1
    BY InitHeap
  <1>4. DOMAIN txn_map = {}
    BY DEF Init
  <1>5. PICK N : N = <<>> /\ DOMAIN N = {}
    OBVIOUS
  <1>6. Told(N)
    BY <1>1, <1>3, <1>5 DEF Told, RowLeads
  <1>7. ChangesSeen(N)
    BY <1>4 DEF ChangesSeen
  <1>8. VerifySees(N)
    BY <1>2 DEF VerifySees, Verifier
  <1> QED
    BY <1>6, <1>7, <1>8 DEF SerialInv

\* Every step keeps the account, and is a step of the store or none.
LEMMA SerialStep ==
    ASSUME IInv, IInv', ReadsInv, CommitInv, SerialInv, [Next]_vars
    PROVE  SerialInv' /\ StoreStep
  <1>1. GetWatermark >= 1 /\ KeysInv
    BY DEF ReadsInv
  <1>2. PICK N : Told(N) /\ ChangesSeen(N) /\ VerifySees(N)
    BY DEF SerialInv
  <1>3. PICK M : Goes(N, M)
    BY <1>1, <1>2, ToldStep
  <1>4. Told(M)' /\ ChangesSeen(M)' /\ VerifySees(M)'
    BY <1>1, <1>2, <1>3, ChangesSeenStep, VerifySeesStep DEF Goes
  <1>5. ASSUME NEW u \in Txn,
               Begin(u) \/ Statement(u) \/ Write(u) \/ Join(u) \/ Commit(u) \/ Abort(u)
        PROVE  StoreStep
    <2>1. CASE Begin(u)
      BY <1>1, <1>2, <1>3, <2>1, BeginStep
    <2>2. CASE Statement(u) \/ Join(u)
      BY <1>1, <1>2, <1>3, <2>2, StatementStep
    <2>3. CASE Write(u)
      BY <1>1, <1>2, <1>3, <2>3, WriteStep
    <2>4. CASE Commit(u)
      BY <1>1, <1>2, <1>3, <2>4, CommitStep
    <2>5. CASE Abort(u)
      BY <1>1, <1>2, <1>3, <2>5, AbortStep
    <2> QED
      BY <1>5, <2>1, <2>2, <2>3, <2>4, <2>5
  <1>6. ASSUME GarbageCollection \/ UNCHANGED vars PROVE StoreStep
    BY <1>1, <1>2, <1>3, <1>6, StillStore
  <1>7. StoreStep
    BY <1>5, <1>6 DEF Next
  <1> QED
    BY <1>4, <1>7 DEF SerialInv

\* The loaded rows are a state the store may begin in.
LEMMA InitStore == ASSUME Init, IInv PROVE Store!Init
  <1>1. GetWatermark = 1 /\ last_commit_ts = 1
    BY DEF Init, GetWatermark
  <1>2. \A r \in DOMAIN heap : heap[r].ts = 1
    BY InitHeap
  <1>3. \A t : ~InProgress(t)
    BY DEF Init, InProgress, Active
  <1>4. PICK N : Told(N)
    BY InitSerial DEF SerialInv
  <1>5. VersionsTold(N)
    BY <1>1, <1>4, KeysTold
  <1>6. ASSUME NEW k \in Key PROVE Db[k] \in Store!Version /\ Db[k].ts <= 1
    <2>1. Db[k] = StoreVersion(k, 1)
      BY <1>1 DEF Db
    <2>2. CASE index[k] = NoRid
      <3>1. StoreVersion(k, 1) = Nothing
        BY <1>1, <1>5, <2>2 DEF VersionsTold
      <3> QED
        BY <2>1, <3>1 DEF Nothing, Store!Version
    <2>3. CASE index[k] # NoRid
      <3>1. PICK r : r = index[k] /\ r \in DOMAIN heap
        BY <2>3 DEF IInv, TypeOK
      <3>2. StoreVersion(k, 1) = Answer(N, r, 1)
        BY <1>1, <1>5, <2>3, <3>1 DEF VersionsTold
      <3>3. Answer(N, r, 1) = [ts |-> 1, v |-> Content(heap[r])]
        BY <1>2, <3>1 DEF Answer, AnswerOf
      <3>4. Content(heap[r]) \in Value \cup {Absent}
        BY <3>1, RowContent DEF IInv
      <3> QED
        BY <2>1, <3>2, <3>3, <3>4 DEF Store!Version
    <2> QED
      BY <2>2, <2>3
  <1>7. \A t \in Txn : SnapOf(t) = Store!Nobody /\ MineOf(t) = <<>> /\ PredsOf(t) = {}
    BY <1>3, NotRunning
  <1>8. Db \in [Key -> Store!Version] /\ \A k \in Key : Db[k].ts <= last_commit_ts
    <2>1. Db = [k \in Key |-> Db[k]]
      BY DEF Db
    <2> QED
      BY <1>1, <1>6, <2>1
  <1>9. /\ Running = {}
        /\ Snap = [t \in Txn |-> Store!Nobody]
        /\ Mine = [t \in Txn |-> <<>>]
        /\ Preds = [t \in Txn |-> {}]
    BY <1>3, <1>7 DEF Running, Snap, Mine, Preds
  <1>10. last_commit_ts \in Nat
    BY <1>1
  <1> QED
    BY <1>8, <1>9, <1>10
    DEF Store!Init, Db, Running, Snap, Mine, Preds, SnapOf, MineOf, PredsOf

\* CommitInv: transactions verify and stamp their rows one at a time (the commit mutex that
\* TransactionManager::Commit holds), so the rows with the timestamp that is not published yet
\* are those the committing transaction wrote; and a row that a transaction wrote keeps, one
\* undo log back, what its snapshot has of it.
THEOREM MvccCommits == Spec => []CommitInv
  <1>1. Init => ReadsInv /\ CommitInv
    BY InitReads, InitCommits
  <1>2. IInv /\ IInv' /\ ReadsInv /\ CommitInv /\ [Next]_vars => ReadsInv' /\ CommitInv'
    BY NextReads, CommitsStep DEF ReadsInv
  <1> QED
    BY <1>1, <1>2, MvccInvariant, PTL DEF Spec

\* ImplementsStore: whatever interleaving of begins, scans, inserts, updates, deletes, joins,
\* verifications, row-by-row commits and aborts, and garbage collections, the transactions do
\* what SnapshotStore promises.  A commit shows all its writes in one step (EndCommit, where
\* TransactionManager::Commit publishes last_commit_ts_), a transaction keeps the snapshot it
\* began with, of two writers of a key one commits, and a serializable writer whose queries
\* would select something else does not (TransactionManager::VerifyTxn).
THEOREM MvccImplementsStore == Spec => ImplementsStore
  <1>1. Init => ReadsInv /\ SerialInv
    BY InitReads, InitSerial
  <1>2. IInv /\ IInv' /\ ReadsInv /\ CommitInv /\ SerialInv /\ [Next]_vars
           => ReadsInv' /\ SerialInv' /\ StoreStep
    BY NextReads, SerialStep
  <1>3. Init /\ IInv => Store!Init
    BY InitStore
  <1> QED
    BY <1>1, <1>2, <1>3, MvccInvariant, MvccCommits, PTL
    DEF Spec, ImplementsStore, Store!Spec, StoreStep
=============================================================================
