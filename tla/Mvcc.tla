-------------------------------- MODULE Mvcc --------------------------------
(***************************************************************************)
(* concurrency/transaction_manager.cpp, the MVCC part of                   *)
(* execution/execution_common.cpp and the executors that read and write a  *)
(* table: transactions, each in a thread of its own, over one table with a *)
(* primary key index.                                                      *)
(*                                                                         *)
(* A row of the heap is read with its undo link, and is changed with its   *)
(* undo link and its log, under the latch of its page: each of these is    *)
(* one step, and so is one entry into the index or into txn_map_.  A       *)
(* reader follows the undo logs after it released the page; all but the    *)
(* first belong to transactions that have ended and never change, so it    *)
(* does that in one more step.                                             *)
(***************************************************************************)
EXTENDS Naturals, FiniteSets, Sequences

CONSTANTS Key, Value, Absent,
          TxnStart,      \* TXN_START_ID: larger than every commit timestamp
          MaxTxns,       \* bound: transactions
          MaxRows,       \* bound: rows of the table heap
          Loaded,        \* rows a first transaction committed, a sequence of tuples
          Predicate,     \* filters of queries, see below
          Workloads,     \* what the clients run: sequences of [level, todo], todo a
                         \* sequence of statements, one for each transaction
          Joining        \* the keys an index join may look up

Txn    == TxnStart + 1 .. TxnStart + MaxTxns
NoTxn  == 0                    \* INVALID_TXN_ID
Rid    == 1..MaxRows
NoRid  == 0
Tuple  == [id : Key, v : Value]          \* id is the primary key
Column == {"id", "v"}
Level  == {"SNAPSHOT_ISOLATION", "SERIALIZABLE"}

ASSUME BoundsAssumption ==
    /\ MaxTxns \in Nat /\ MaxRows \in Nat
    /\ TxnStart \in Nat /\ TxnStart > MaxTxns + 1
    /\ Loaded \in Seq(Tuple) /\ Len(Loaded) <= MaxRows
    /\ Absent \notin Value

\* The rows of the first transaction went through InsertTupleMvcc.
ASSUME LoadedAssumption ==
    \A i, j \in DOMAIN Loaded : Loaded[i].id = Loaded[j].id => i = j

\* A filter: the keys an index scan looks up ({} for a sequential scan), and
\* the tuples it holds for.
ASSUME PredicateAssumption ==
    /\ Predicate \subseteq [keys : SUBSET Key, holds : SUBSET Tuple]
    /\ \A p \in Predicate : p.keys # {} => \A x \in p.holds : x.id \in p.keys

\* Some columns of a tuple.
Fields == {f \in UNION {[S -> Key \cup Value] : S \in SUBSET Column} :
              /\ "id" \in DOMAIN f => f["id"] \in Key
              /\ "v" \in DOMAIN f => f["v"] \in Value}

\* What a client may ask for.
Scanning == [kind : {"select", "delete"}, where : Predicate]
            \cup [kind : {"update"}, where : Predicate, set : Fields]
Command  == Scanning \cup [kind : {"insert"}, rows : Seq(Tuple)]

ASSUME WorkloadsAssumption ==
    \A w \in Workloads : \A i \in DOMAIN w : w[i] \in [level : Level, todo : Seq(Command)]

ASSUME JoiningAssumption == Joining \subseteq Key

VARIABLES heap,            \* the latest version of each row, with its meta data
          undo_link,       \* the head of the version chain of each row
          index,           \* the primary key index: the row of a key
          txn_map,
          next_txn_id,
          last_commit_ts,
          commit_mutex,    \* who is in Commit
          running_txns,    \* the Watermark
          at,              \* what the thread of a transaction is doing
          program          \* its isolation level, and the statements it still has to run

table == <<heap, undo_link, index>>
vars  == <<table, txn_map, next_txn_id, last_commit_ts, commit_mutex, running_txns, at, program>>

InvalidLink == [txn |-> NoTxn, idx |-> 0]
IsValid(link) == link.txn # NoTxn

Deleted == [id |-> Absent, v |-> Absent]   \* target of a deletion
Idle == [do |-> "idle"]

Least(S) == CHOOSE x \in S : \A y \in S : x <= y
Overlay(f, g) == [c \in DOMAIN g |-> IF c \in DOMAIN f THEN f[c] ELSE g[c]]

\* Every order in which the members of a finite set can be listed.
Orders(S) == {s \in [1..Cardinality(S) -> S] : \A i, j \in DOMAIN s : s[i] = s[j] => i = j}
Ascending(S) == {s \in Orders(S) : \A i, j \in DOMAIN s : i < j => s[i] < s[j]}

-----------------------------------------------------------------------------
(* Versions and undo logs.                                                 *)

\* What GetTupleAndUndoLink finds.
Base(r) == [tuple |-> heap[r].tuple, ts |-> heap[r].ts, deleted |-> heap[r].deleted,
            link |-> undo_link[r]]

LogAt(link) == txn_map[link.txn].undo_logs[link.idx]
Exists(link) == link.txn \in DOMAIN txn_map

\* Mutant: the tuple of an undo log is taken for the whole tuple.
UndonePartial(ver, log) == [tuple |-> log.fields, ts |-> log.ts,
                            deleted |-> log.is_deleted, link |-> log.prev_version]

\* ReconstructTuple with one undo log; the version before `ver`.
Undone(ver, log) == [tuple |-> Overlay(log.fields, ver.tuple), ts |-> log.ts,
                     deleted |-> log.is_deleted, link |-> log.prev_version]

\* The version n undo logs before `ver`, as a set: none past the end of the chain.
Older(ver) ==
    LET back[n \in 0..MaxTxns + 1] ==
            IF n = 0 THEN {ver}
            ELSE {Undone(x, LogAt(x.link)) :
                     x \in {y \in back[n - 1] : IsValid(y.link) /\ Exists(y.link)}}
    IN  back

\* The newest version at or before ts, as a set: none if there was no row.
AsOf(ver, ts) ==
    LET old == {n \in 0..MaxTxns + 1 : \E x \in Older(ver)[n] : x.ts <= ts}
    IN  IF old = {} THEN {} ELSE Older(ver)[Least(old)]

Own(t, ver) == ver.ts = t                \* GetTransactionTempTs

\* Mutant: a version is returned without a look at is_deleted.
VisibleDeleted(t, ver) ==
    {x.tuple : x \in IF Own(t, ver) THEN {ver} ELSE AsOf(ver, txn_map[t].read_ts)}

\* CollectUndoLogs and ReconstructTuple: the tuple a transaction sees, as a set.
Visible(t, ver) ==
    {x.tuple : x \in {y \in IF Own(t, ver) THEN {ver} ELSE AsOf(ver, txn_map[t].read_ts) :
                          ~y.deleted}}

Changed(before, target) ==
    {c \in Column : target = Deleted \/ before[c] # target[c]}

GenerateNewUndoLog(ver, target) ==
    [is_deleted   |-> ver.deleted,
     fields       |-> IF ver.deleted THEN <<>>
                      ELSE [c \in Changed(ver.tuple, target) |-> ver.tuple[c]],
     ts           |-> ver.ts,
     prev_version |-> ver.link]

GenerateUpdatedUndoLog(ver, target, log) ==
    IF log.is_deleted \/ ver.deleted THEN log
    ELSE [log EXCEPT !.fields =
             [c \in DOMAIN @ \cup Changed(ver.tuple, target) |->
                 IF c \in DOMAIN @ THEN @[c] ELSE ver.tuple[c]]]

-----------------------------------------------------------------------------
(* The watermark.                                                          *)

Counted(ts) == IF ts \in DOMAIN running_txns.reads THEN running_txns.reads[ts] ELSE 0

AddTxn(ts) ==
    LET reads == [x \in DOMAIN running_txns.reads \cup {ts} |->
                     IF x = ts THEN Counted(ts) + 1 ELSE running_txns.reads[x]]
    IN  [reads |-> reads, commit_ts |-> running_txns.commit_ts,
         watermark |-> Least(DOMAIN reads)]

\* Mutant: the timestamp is erased although others read at it.
RemoveTxnForgetting(ts, commit) ==
    LET left == DOMAIN running_txns.reads \ {ts}
    IN  [reads |-> [x \in left |-> running_txns.reads[x]], commit_ts |-> commit,
         watermark |-> IF left = {} THEN commit ELSE Least(left)]

\* RemoveTxn once UpdateCommitTs has set commit_ts_ to `commit`.
RemoveTxn(ts, commit) ==
    LET left  == {x \in DOMAIN running_txns.reads : x # ts \/ Counted(ts) > 1}
        reads == [x \in left |-> IF x = ts THEN Counted(ts) - 1 ELSE running_txns.reads[x]]
    IN  [reads |-> reads, commit_ts |-> commit,
         watermark |-> IF left = {} THEN commit ELSE Least(left)]

GetWatermark ==
    IF DOMAIN running_txns.reads = {} THEN running_txns.commit_ts ELSE running_txns.watermark

-----------------------------------------------------------------------------
Init ==
    /\ heap = [r \in 1..Len(Loaded) |-> [tuple |-> Loaded[r], ts |-> 1, deleted |-> FALSE]]
    /\ undo_link = [r \in Rid |-> InvalidLink]
    /\ index = [k \in Key |-> IF \E r \in DOMAIN Loaded : Loaded[r].id = k
                              THEN CHOOSE r \in DOMAIN Loaded : Loaded[r].id = k ELSE NoRid]
    /\ txn_map = <<>>
    /\ next_txn_id = TxnStart + 1
    /\ last_commit_ts = 1
    /\ commit_mutex = NoTxn
    /\ running_txns = [reads |-> <<>>, commit_ts |-> 1, watermark |-> 1]
    /\ at = [t \in Txn |-> Idle]
    /\ \E w \in Workloads :
          program = [t \in Txn |-> IF t - TxnStart \in DOMAIN w THEN w[t - TxnStart]
                                   ELSE [level |-> "SNAPSHOT_ISOLATION", todo |-> <<>>]]

Begin(t) ==
    /\ t = next_txn_id /\ program[t].todo # <<>>
    /\ next_txn_id' = t + 1
    /\ txn_map' = [u \in DOMAIN txn_map \cup {t} |->
                      IF u = t THEN [state |-> "RUNNING", isolation_level |-> program[t].level,
                                     read_ts |-> last_commit_ts, commit_ts |-> 0,
                                     undo_logs |-> <<>>, write_set |-> {},
                                     scan_predicates |-> {}]
                      ELSE txn_map[u]]
    /\ running_txns' = AddTxn(last_commit_ts)
    /\ UNCHANGED <<table, last_commit_ts, commit_mutex, at, program>>

Active(t) == t \in DOMAIN txn_map /\ txn_map[t].state \in {"RUNNING", "TAINTED"}
Runs(t)   == t \in DOMAIN txn_map /\ txn_map[t].state = "RUNNING"

Goto(t, where) == at' = [at EXCEPT ![t] = where]
Others == <<next_txn_id, last_commit_ts, commit_mutex, running_txns>>

-----------------------------------------------------------------------------
(* Statements.  A scan lists the rows it will visit, sees one row after    *)
(* the other, and hands what it found to the rest of the statement.        *)

SeqScanned == [i \in 1..Len(heap) |-> i]
IndexScanned(keys) == Orders({index[k] : k \in keys} \ {NoRid})

StartScan(t) ==
    /\ Runs(t) /\ at[t] = Idle /\ program[t].todo # <<>>
    /\ LET s == Head(program[t].todo) IN
       /\ s.kind \in {"select", "update", "delete"}
       /\ txn_map' = [txn_map EXCEPT ![t].scan_predicates = @ \cup {s.where}]
       /\ \E todo \in IF s.where.keys = {} THEN {SeqScanned} ELSE IndexScanned(s.where.keys) :
             Goto(t, [do |-> "scan", stmt |-> s, todo |-> todo, got |-> <<>>, rows |-> <<>>])
    /\ program' = [program EXCEPT ![t].todo = Tail(@)]
    /\ UNCHANGED <<table, Others>>

\* The rows of the scan, with one more if it is visible and the filter holds.
Found(t, r, ver) ==
    LET seen == Visible(t, ver) \cap at[t].stmt.where.holds
    IN  at[t].rows \o IF seen = {} THEN <<>>
                      ELSE <<[rid |-> r, tuple |-> CHOOSE x \in seen : TRUE]>>

\* The base version answers the scan.
Visit(t) ==
    /\ at[t].do = "scan" /\ at[t].got = <<>> /\ at[t].todo # <<>>
    /\ LET r == Head(at[t].todo)
           ver == Base(r)
       IN  IF Own(t, ver) \/ ver.ts <= txn_map[t].read_ts \/ ~IsValid(ver.link)
           THEN Goto(t, [at[t] EXCEPT !.todo = Tail(@), !.rows = Found(t, r, ver)])
           ELSE Goto(t, [at[t] EXCEPT !.got = <<ver>>])
    /\ UNCHANGED <<table, txn_map, Others, program>>

\* The undo logs answer it.
Collect(t) ==
    /\ at[t].do = "scan" /\ at[t].got # <<>>
    /\ Goto(t, [at[t] EXCEPT !.todo = Tail(@), !.got = <<>>,
                             !.rows = Found(t, Head(at[t].todo), at[t].got[1])])
    /\ UNCHANGED <<table, txn_map, Others, program>>

Drained(t) == at[t].do = "scan" /\ at[t].todo = <<>>

\* What is left of a write: rows to modify and rows to insert.
Rest(mods, rows) ==
    IF mods = <<>> /\ rows = <<>> THEN Idle
    ELSE [do |-> "modify", mods |-> mods, rows |-> rows]

Moves(row, set) == "id" \in DOMAIN set /\ set.id # row.tuple.id

\* The changes of an update or delete: rows whose key changes are deleted
\* first and inserted afterwards.
EndScan(t) ==
    /\ Drained(t)
    /\ LET s == at[t].stmt
           changed == IF s.kind = "select" THEN <<>> ELSE at[t].rows
           Target(row) == CASE s.kind = "delete" -> Deleted
                            [] OTHER -> IF Moves(row, s.set) THEN Deleted
                                        ELSE Overlay(s.set, row.tuple)
           moved == {i \in DOMAIN changed : s.kind = "update" /\ Moves(changed[i], s.set)}
       IN  \E order \in Ascending(moved) :
               Goto(t, Rest([i \in DOMAIN changed |->
                                [rid |-> changed[i].rid, target |-> Target(changed[i])]],
                            [n \in DOMAIN order |->
                                Overlay(s.set, changed[order[n]].tuple)]))
    /\ UNCHANGED <<table, txn_map, Others, program>>

-----------------------------------------------------------------------------
(* Writes.                                                                 *)

ThrowWriteConflict(t) ==
    /\ txn_map' = [txn_map EXCEPT ![t].state = "TAINTED"]
    /\ Goto(t, Idle)
    /\ UNCHANGED table

\* Mutant: only the write of a transaction in progress is a conflict.
ConflictsUncommitted(t, r, require_deleted) ==
    \/ heap[r].ts # t /\ heap[r].ts > TxnStart
    \/ require_deleted /\ ~heap[r].deleted

Conflicts(t, r, require_deleted) ==
    \/ heap[r].ts # t /\ heap[r].ts > txn_map[t].read_ts
    \/ require_deleted /\ ~heap[r].deleted

\* Mutant: every change of a row appends an undo log.
LoggedAlways(t, r, target) ==
    [logs |-> Append(txn_map[t].undo_logs, GenerateNewUndoLog(Base(r), target)),
     link |-> [txn |-> t, idx |-> Len(txn_map[t].undo_logs) + 1]]

\* The undo logs of t after it changed row r, and the link of the row.
Logged(t, r, target) ==
    LET ver  == Base(r)
        logs == txn_map[t].undo_logs
    IN  IF ~Own(t, ver)
        THEN [logs |-> Append(logs, GenerateNewUndoLog(ver, target)),
              link |-> [txn |-> t, idx |-> Len(logs) + 1]]
        ELSE IF ver.link.txn = t
        THEN [logs |-> [logs EXCEPT ![ver.link.idx] = GenerateUpdatedUndoLog(ver, target, @)],
              link |-> ver.link]
        ELSE [logs |-> logs, link |-> ver.link]

ModifyTuple(t, r, target, require_deleted, next) ==
    IF Conflicts(t, r, require_deleted) THEN ThrowWriteConflict(t)
    ELSE LET new == Logged(t, r, target) IN
         /\ heap' = [heap EXCEPT ![r] = [tuple |-> IF target = Deleted THEN @.tuple ELSE target,
                                         ts |-> t, deleted |-> target = Deleted]]
         /\ undo_link' = [undo_link EXCEPT ![r] = new.link]
         /\ txn_map' = [txn_map EXCEPT ![t].undo_logs = new.logs,
                                       ![t].write_set = @ \cup {r}]
         /\ Goto(t, next)
         /\ UNCHANGED index

Modify(t) ==
    /\ at[t].do = "modify" /\ at[t].mods # <<>>
    /\ LET m == Head(at[t].mods)
       IN  ModifyTuple(t, m.rid, m.target, FALSE, Rest(Tail(at[t].mods), at[t].rows))
    /\ UNCHANGED <<Others, program>>

StartInsert(t) ==
    /\ Runs(t) /\ at[t] = Idle /\ program[t].todo # <<>>
    /\ Head(program[t].todo).kind = "insert"
    /\ Goto(t, Rest(<<>>, Head(program[t].todo).rows))
    /\ program' = [program EXCEPT ![t].todo = Tail(@)]
    /\ UNCHANGED <<table, txn_map, Others>>

\* InsertTupleMvcc, up to the answer of the index.
LookUpKey(t) ==
    /\ at[t].do = "modify" /\ at[t].mods = <<>>
    /\ LET r == index[Head(at[t].rows).id]
       IN  Goto(t, [do |-> IF r = NoRid THEN "append" ELSE "revive", rid |-> r,
                    rows |-> at[t].rows])
    /\ UNCHANGED <<table, txn_map, Others, program>>

NextRow(t) == Rest(<<>>, Tail(at[t].rows))

Revive(t) ==
    /\ at[t].do = "revive"
    /\ ModifyTuple(t, at[t].rid, Head(at[t].rows), TRUE, NextRow(t))
    /\ UNCHANGED <<Others, program>>

AppendRow(t) ==
    /\ at[t].do = "append" /\ Len(heap) < MaxRows
    /\ heap' = Append(heap, [tuple |-> Head(at[t].rows), ts |-> t, deleted |-> FALSE])
    /\ txn_map' = [txn_map EXCEPT ![t].write_set = @ \cup {Len(heap) + 1}]
    /\ Goto(t, [at[t] EXCEPT !.do = "enter", !.rid = Len(heap) + 1])
    /\ UNCHANGED <<undo_link, index, Others, program>>

EnterKey(t) ==
    /\ at[t].do = "enter"
    /\ LET k == Head(at[t].rows).id IN
       IF index[k] # NoRid THEN ThrowWriteConflict(t)
       ELSE /\ index' = [index EXCEPT ![k] = at[t].rid]
            /\ Goto(t, NextRow(t))
            /\ UNCHANGED <<heap, undo_link, txn_map>>
    /\ UNCHANGED <<Others, program>>

Write(t) == Modify(t) \/ LookUpKey(t) \/ Revive(t) \/ AppendRow(t) \/ EnterKey(t)

-----------------------------------------------------------------------------
(* NestedIndexJoinExecutor: the inner row of a key, straight from the heap. *)

StartJoin(t, k) ==
    /\ Runs(t) /\ at[t] = Idle
    /\ index[k] # NoRid
    /\ Goto(t, [do |-> "join", key |-> k])
    /\ UNCHANGED <<table, txn_map, Others, program>>

JoinRead(t) ==
    /\ at[t].do = "join"
    /\ LET row == heap[index[at[t].key]]
       IN  Goto(t, [do |-> "joined", key |-> at[t].key,
                    found |-> IF row.deleted THEN {} ELSE {row.tuple}])
    /\ UNCHANGED <<table, txn_map, Others, program>>

EndJoin(t) ==
    /\ at[t].do = "joined"
    /\ Goto(t, Idle)
    /\ UNCHANGED <<table, txn_map, Others, program>>

-----------------------------------------------------------------------------
(* Commit.                                                                 *)

\* The rows VerifyTxn looks at.
ChangedSince(t) ==
    UNION {txn_map[u].write_set : u \in {x \in DOMAIN txn_map \ {t} :
              txn_map[x].state = "COMMITTED" /\ txn_map[x].commit_ts > txn_map[t].read_ts}}

Unverified(t) ==
    IF txn_map[t].isolation_level = "SERIALIZABLE" /\ txn_map[t].write_set # {}
       /\ txn_map[t].scan_predicates # {}
    THEN ChangedSince(t) ELSE {}

Verifying(t, todo) ==
    IF todo = {} THEN [do |-> "stamp", todo |-> txn_map[t].write_set]
    ELSE [do |-> "verify", todo |-> todo, got |-> <<>>]

StartCommit(t) ==
    /\ Runs(t) /\ at[t] = Idle /\ program[t].todo = <<>>
    /\ commit_mutex = NoTxn
    /\ commit_mutex' = t
    /\ Goto(t, Verifying(t, Unverified(t)))
    /\ UNCHANGED <<table, txn_map, next_txn_id, last_commit_ts, running_txns, program>>

Fetch(t) ==
    /\ at[t].do = "verify" /\ at[t].got = <<>>
    /\ \E r \in at[t].todo :
          Goto(t, [do |-> "verify", todo |-> at[t].todo \ {r}, got |-> <<Base(r)>>])
    /\ UNCHANGED <<table, txn_map, Others, program>>

Matches(t, ver) ==
    ~ver.deleted /\ \E p \in txn_map[t].scan_predicates : ver.tuple \in p.holds

\* A version committed since t began, or the one it replaced, is what t scanned for.
Phantom(t, ver) ==
    \E n \in 0..MaxTxns : \E version \in Older(ver)[n] :
        /\ version.ts > txn_map[t].read_ts /\ version.ts < TxnStart
        /\ \E x \in {version} \cup Older(ver)[n + 1] : Matches(t, x)

VerifyRow(t) ==
    /\ at[t].do = "verify" /\ at[t].got # <<>>
    /\ IF Phantom(t, at[t].got[1])
       THEN /\ Goto(t, [do |-> "abort", todo |-> txn_map[t].write_set])
            /\ commit_mutex' = NoTxn
       ELSE /\ Goto(t, Verifying(t, at[t].todo))
            /\ UNCHANGED commit_mutex
    /\ UNCHANGED <<table, txn_map, next_txn_id, last_commit_ts, running_txns, program>>

StampRow(t) ==
    /\ at[t].do = "stamp"
    /\ \E r \in at[t].todo :
          /\ heap' = IF heap[r].ts = t THEN [heap EXCEPT ![r].ts = last_commit_ts + 1] ELSE heap
          /\ Goto(t, [at[t] EXCEPT !.todo = @ \ {r}])
    /\ UNCHANGED <<undo_link, index, txn_map, Others, program>>

EndCommit(t) ==
    /\ at[t].do = "stamp" /\ at[t].todo = {}
    /\ last_commit_ts' = last_commit_ts + 1
    /\ txn_map' = [txn_map EXCEPT ![t].state = "COMMITTED", ![t].commit_ts = last_commit_ts + 1]
    /\ running_txns' = RemoveTxn(txn_map[t].read_ts, last_commit_ts + 1)
    /\ commit_mutex' = NoTxn
    /\ Goto(t, Idle)
    /\ UNCHANGED <<table, next_txn_id, program>>

-----------------------------------------------------------------------------
(* Abort.                                                                  *)

StartAbort(t) ==
    /\ Active(t) /\ at[t] = Idle
    /\ Goto(t, [do |-> "abort", todo |-> txn_map[t].write_set])
    /\ program' = [program EXCEPT ![t].todo = <<>>]
    /\ UNCHANGED <<table, txn_map, Others>>

\* The version before the changes of t; a row that t appended has none.
Restored(t, ver) ==
    IF ver.link.txn = t THEN Undone(ver, LogAt(ver.link))
    ELSE [tuple |-> ver.tuple, ts |-> 0, deleted |-> TRUE, link |-> ver.link]

RestoreRow(t) ==
    /\ at[t].do = "abort"
    /\ \E r \in at[t].todo :
          /\ Goto(t, [at[t] EXCEPT !.todo = @ \ {r}])
          /\ IF heap[r].ts # t THEN UNCHANGED <<heap, undo_link>>
             ELSE LET old == Restored(t, Base(r)) IN
                  /\ heap' = [heap EXCEPT ![r] =
                        [tuple |-> IF old.deleted THEN @.tuple ELSE old.tuple,
                         ts |-> old.ts, deleted |-> old.deleted]]
                  /\ undo_link' = [undo_link EXCEPT ![r] = old.link]
    /\ UNCHANGED <<index, txn_map, Others, program>>

EndAbort(t) ==
    /\ at[t].do = "abort" /\ at[t].todo = {}
    /\ txn_map' = [txn_map EXCEPT ![t].state = "ABORTED"]
    /\ running_txns' = RemoveTxn(txn_map[t].read_ts, running_txns.commit_ts)
    /\ Goto(t, Idle)
    /\ UNCHANGED <<table, next_txn_id, last_commit_ts, commit_mutex, program>>

-----------------------------------------------------------------------------
(* GarbageCollection, called while no thread is at work on the table.      *)

\* Mutant: only the first undo log of a row is kept.
NeededFirst(r) ==
    {x.link.txn : x \in {y \in Older(Base(r))[0] :
                            y.ts > GetWatermark /\ IsValid(y.link) /\ Exists(y.link)}}

\* The transactions whose logs the chain of a row needs down to the watermark.
NeededBy(r) ==
    {x.link.txn : x \in {y \in UNION {Older(Base(r))[n] : n \in 0..MaxTxns} :
                            y.ts > GetWatermark /\ IsValid(y.link) /\ Exists(y.link)}}

SerialReadTs == {txn_map[t].read_ts : t \in {u \in DOMAIN txn_map :
                    Active(u) /\ txn_map[u].isolation_level = "SERIALIZABLE"}}

Garbage ==
    {t \in DOMAIN txn_map :
        /\ txn_map[t].state \in {"COMMITTED", "ABORTED"}
        /\ \A r \in DOMAIN heap : t \notin NeededBy(r)
        /\ txn_map[t].state = "COMMITTED" => \A ts \in SerialReadTs : txn_map[t].commit_ts <= ts}

GarbageCollection ==
    /\ \A t \in Txn : at[t] = Idle
    /\ Garbage # {}
    /\ txn_map' = [t \in DOMAIN txn_map \ Garbage |-> txn_map[t]]
    /\ UNCHANGED <<table, Others, at, program>>

-----------------------------------------------------------------------------
Statement(t) == StartScan(t) \/ Visit(t) \/ Collect(t) \/ EndScan(t) \/ StartInsert(t)
Join(t)   == (\E k \in Joining : StartJoin(t, k)) \/ JoinRead(t) \/ EndJoin(t)
Commit(t) == StartCommit(t) \/ Fetch(t) \/ VerifyRow(t) \/ StampRow(t) \/ EndCommit(t)
Abort(t)  == StartAbort(t) \/ RestoreRow(t) \/ EndAbort(t)

Next ==
    \/ \E t \in Txn : \/ Begin(t) \/ Statement(t) \/ Write(t) \/ Join(t) \/ Commit(t) \/ Abort(t)
    \/ GarbageCollection

Spec == Init /\ [][Next]_vars

-----------------------------------------------------------------------------
(* Properties.                                                             *)

Link    == [txn : Txn \cup {NoTxn}, idx : Nat]
Version == [tuple : Tuple, ts : Nat, deleted : BOOLEAN, link : Link]
UndoLog == [is_deleted : BOOLEAN, fields : Fields, ts : Nat, prev_version : Link]

Transaction == [state : {"RUNNING", "TAINTED", "COMMITTED", "ABORTED"}, isolation_level : Level,
                read_ts : Nat, commit_ts : Nat, undo_logs : Seq(UndoLog),
                write_set : SUBSET Rid, scan_predicates : SUBSET Predicate]

\* What a thread may be at.
Scan  == [do : {"scan"}, stmt : Scanning, todo : Seq(Rid), got : Seq(Version),
          rows : Seq([rid : Rid, tuple : Tuple])]
Apply == [do : {"modify"}, mods : Seq([rid : Rid, target : Tuple \cup {Deleted}]),
          rows : Seq(Tuple)]
Place == [do : {"append", "revive", "enter"}, rid : Rid \cup {NoRid}, rows : Seq(Tuple)]
Probe == [do : {"join"}, key : Key] \cup [do : {"joined"}, key : Key, found : SUBSET Tuple]
Sweep == [do : {"stamp", "abort"}, todo : SUBSET Rid]
Check == [do : {"verify"}, todo : SUBSET Rid, got : Seq(Version)]
Step  == {Idle} \cup Scan \cup Apply \cup Place \cup Probe \cup Sweep \cup Check

\* The types of the table heap, the transaction map, the threads and the
\* watermark; commit timestamps stay below the ids of transactions, which they
\* share a field with.
TypeOK ==
    /\ heap \in Seq([tuple : Tuple, ts : Nat, deleted : BOOLEAN]) /\ Len(heap) <= MaxRows
    /\ undo_link \in [Rid -> Link]
    /\ index \in [Key -> {NoRid} \cup DOMAIN heap]
    /\ DOMAIN txn_map \subseteq Txn
    /\ \A t \in DOMAIN txn_map : txn_map[t] \in Transaction
    /\ next_txn_id \in TxnStart + 1 .. TxnStart + MaxTxns + 1
    /\ last_commit_ts \in Nat /\ last_commit_ts < TxnStart
    /\ commit_mutex \in Txn \cup {NoTxn}
    /\ running_txns.commit_ts \in Nat /\ running_txns.watermark \in Nat
    /\ at \in [Txn -> Step]
    /\ program \in [Txn -> [level : Level, todo : Seq(Command)]]

\* The version of a key at a timestamp, of the row the index has for it.
Committed(k, ts) ==
    IF index[k] = NoRid THEN {} ELSE AsOf(Base(index[k]), ts)

InProgress(t) == Active(t) /\ at[t].do # "abort"

\* The row is written by t, and t has not published its commit.
WrittenBy(t, r) ==
    \/ heap[r].ts = t
    \/ at[t].do = "stamp" /\ heap[r].ts = last_commit_ts + 1

Content(ver) == IF ver.deleted THEN Absent ELSE ver.tuple.v

StoreVersion(k, ts) ==
    CHOOSE x \in LET found == {[ts |-> y.ts, v |-> Content(y)] : y \in Committed(k, ts)}
                 IN  IF found = {} THEN {[ts |-> 0, v |-> Absent]} ELSE found : TRUE

Store == INSTANCE SnapshotStore WITH
    Predicate <- {p.holds : p \in Predicate},
    db      <- [k \in Key |-> StoreVersion(k, last_commit_ts)],
    clock   <- last_commit_ts,
    running <- {t \in Txn : InProgress(t)},
    snap    <- [t \in Txn |-> [k \in Key |->
                   IF InProgress(t) THEN StoreVersion(k, txn_map[t].read_ts)
                   ELSE [ts |-> 0, v |-> Absent]]],
    mine    <- [t \in Txn |->
                   IF ~InProgress(t) THEN <<>>
                   ELSE [k \in {j \in Key : index[j] # NoRid /\ WrittenBy(t, index[j])} |->
                            Content(heap[index[k]])]],
    preds   <- [t \in Txn |->
                   IF InProgress(t) /\ txn_map[t].isolation_level = "SERIALIZABLE"
                   THEN {p.holds : p \in txn_map[t].scan_predicates} ELSE {}]

\* Transactions, with their undo logs, timestamps and row-by-row commits and
\* aborts, do what SnapshotStore promises: every commit shows all its writes at
\* once, every transaction keeps its snapshot until it ends, and a serializable
\* writer whose queries would select something else does not commit.
ImplementsStore == Store!Spec

\* A scan that ran while other transactions wrote, committed and aborted found
\* exactly the rows of the transaction's view, each of them once.
SnapshotReads ==
    \A t \in Txn : Drained(t) =>
        LET rows == at[t].rows
            view == {x \in Tuple : x.v = Store!Sees(t, x.id)} \cap at[t].stmt.where.holds
        IN  /\ {rows[i].tuple : i \in DOMAIN rows} = view
            /\ Len(rows) = Cardinality(view)

\* Whatever garbage collection erased, a transaction that is still running finds
\* every undo log it follows: GetUndoLog does not throw.
UndoLogsKept ==
    \A t \in DOMAIN txn_map, r \in DOMAIN heap : Active(t) /\ ~Own(t, Base(r)) =>
        \A n \in 0..MaxTxns : \A ver \in Older(Base(r))[n] :
            ver.ts > txn_map[t].read_ts /\ IsValid(ver.link) => Exists(ver.link)

\* Only the version in the heap may be uncommitted, and a version chain goes
\* back in time: the version an undo log restores is older than the one it undoes.
VersionsOrdered ==
    /\ \A r \in DOMAIN heap : Exists(undo_link[r]) => LogAt(undo_link[r]).ts < heap[r].ts
    /\ \A t \in DOMAIN txn_map : \A i \in DOMAIN txn_map[t].undo_logs :
          LET log == txn_map[t].undo_logs[i] IN
          /\ log.ts <= last_commit_ts
          /\ Exists(log.prev_version) => LogAt(log.prev_version).ts < log.ts

\* The watermark, kept with counts as transactions begin and end in any order,
\* is the oldest snapshot in use.
WatermarkIsOldestReader ==
    LET used == {txn_map[t].read_ts : t \in {u \in DOMAIN txn_map : Active(u)}}
    IN  GetWatermark = IF used = {} THEN last_commit_ts ELSE Least(used)

\* What an index join shows of its inner table is what the transaction may see.
JoinReadsSnapshot ==
    \A t \in Txn : at[t].do = "joined" =>
        at[t].found = {x \in Tuple : x.id = at[t].key /\ x.v = Store!Sees(t, x.id)}
=============================================================================
