------------------------------ MODULE Session ------------------------------
(***************************************************************************)
(* common/bustub_instance.cpp with the statements on transactions and      *)
(* variables of common/bustub_ddl.cpp, and the two programs around it:     *)
(* tools/shell, one prompt with managed transactions, and tools/nc-shell,  *)
(* one prompt without them and a connection per client, each with a        *)
(* transaction of its own.  They share the instance and its transactions.  *)
(*                                                                         *)
(* A SQL string is a sequence of statements; a statement is what it does   *)
(* to the rows: a write has a filter that selects its rows and no others,  *)
(* a select looks at all rows, "leave" and "switch" are \txn -1 and \txn N. *)
(* What concurrent statements read and write at a finer grain is Mvcc; a   *)
(* row here is its committed version and who has overwritten it since.     *)
(***************************************************************************)
EXTENDS Naturals, Sequences, FiniteSets

CONSTANTS Client,      \* connections of nc-shell
          Key,
          MaxTxns,     \* bound: transactions
          Strings,     \* the SQL strings users send
          Modes,       \* the programs: [managed, level], see below
          AnyTxn       \* users switch to transactions that have ended, too

Txn     == 1..MaxTxns
NoTxn   == 0
Prompt  == "prompt"                  \* the thread of ExecuteSql: the shell, or Cli
Thread  == Client \cup {Prompt}
State   == {"RUNNING", "TAINTED", "COMMITTED", "ABORTED"}
Level   == {"SNAPSHOT_ISOLATION", "SERIALIZABLE"}
Version == [ts : Nat, v : Txn \cup {NoTxn}]      \* v names the transaction that wrote it

Setting   == {"", "snapshot_isolation", "serializable", "other"}
Statement == [do : {"write"}, keys : Seq(Key)]
             \cup [do : {"select", "bad", "begin", "commit", "abort", "leave", "switch"}]
             \cup [do : {"set"}, value : Setting]

ASSUME SessionAssumption ==
    /\ MaxTxns \in Nat
    /\ Prompt \notin Client
    /\ Strings \subseteq Seq(Statement)
    /\ \A sql \in Strings : \A i \in DOMAIN sql :
          /\ sql[i].do = "write" => sql[i].keys # <<>>
          /\ sql[i].do \in {"leave", "switch"} => Len(sql) = 1
    /\ Modes \subseteq [managed : BOOLEAN, level : Level]
    /\ AnyTxn \in BOOLEAN

\* What is assumed of users where it says so: a COMMIT or ROLLBACK ends its
\* string, and nobody switches to a transaction that has ended.
Orderly ==
    /\ ~AnyTxn
    /\ \A sql \in Strings : \A i \in DOMAIN sql : sql[i].do \in {"commit", "abort"} => i = Len(sql)

VARIABLES txns,            \* txn_map_
          rows,            \* per key the committed version, and by whom it is overwritten
          last_commit_ts,
          current_txn,     \* of the instance
          setting,         \* its variable global_isolation_level
          mode,            \* managed_txn_mode_, and the level of nc-shell's clients
          at,              \* what a thread is doing
          terminated       \* an assertion or std::terminate has ended the process

vars == <<txns, rows, last_commit_ts, current_txn, setting, mode, at, terminated>>

Active(x)    == x \in DOMAIN txns /\ txns[x].state \in {"RUNNING", "TAINTED"}
Wrote(x)     == {k \in Key : rows[k].by = x}
Committed(k) == [ts |-> rows[k].ts, v |-> rows[k].v]

Idle      == [do |-> "idle"]
Away      == [do |-> "away"]
Connected(x) == [do |-> "connected", txn |-> x]
Running(x, own, sql) == [do |-> "running", txn |-> x, own |-> own, todo |-> sql, ok |-> TRUE]

Init ==
    /\ txns = <<>>
    /\ rows = [k \in Key |-> [ts |-> 0, v |-> NoTxn, by |-> NoTxn]]
    /\ last_commit_ts = 0
    /\ current_txn = NoTxn
    /\ setting = ""
    /\ mode \in Modes
    /\ at = [t \in Thread |-> IF t = Prompt THEN Idle ELSE Away]
    /\ terminated = FALSE

-----------------------------------------------------------------------------
(* What a session uses of the transaction manager.                         *)

New == Len(txns) + 1                         \* next_txn_id_

Begun(level) ==
    Append(txns, [state |-> "RUNNING", level |-> level, read_ts |-> last_commit_ts,
                  snapshot |-> [k \in Key |-> Committed(k)], scanned |-> FALSE])

\* Mutant: a row that another transaction has overwritten is not looked at.
ConflictsCommitted(x, k) == rows[k].ts > txns[x].read_ts

\* The write-write conflict of ModifyTuple.
Conflicts(x, k) == rows[k].by # x /\ (rows[k].by # NoTxn \/ rows[k].ts > txns[x].read_ts)

\* VerifyTxn: nothing a query of the transaction has scanned was committed since.
Verified(x) ==
    txns[x].scanned /\ Wrote(x) # {} =>
        \A k \in Key : rows[k].ts <= txns[x].read_ts

Ended(x, state) == txns' = [txns EXCEPT ![x].state = state]

Abort(x) ==
    /\ rows' = [k \in Key |-> IF rows[k].by = x THEN [rows[k] EXCEPT !.by = NoTxn] ELSE rows[k]]
    /\ Ended(x, "ABORTED")
    /\ UNCHANGED last_commit_ts

Publish(x) ==
    /\ last_commit_ts' = last_commit_ts + 1
    /\ rows' = [k \in Key |-> IF rows[k].by = x
                              THEN [ts |-> last_commit_ts + 1, v |-> x, by |-> NoTxn] ELSE rows[k]]
    /\ Ended(x, "COMMITTED")

\* Commit of a RUNNING transaction: true, or false after an abort.
Commit(x) == IF Verified(x) THEN Publish(x) ELSE Abort(x)

store == <<txns, rows, last_commit_ts>>
shared == <<current_txn, setting, mode>>

-----------------------------------------------------------------------------
(* The prompt: the string goes to ExecuteSql, in a transaction that the    *)
(* call owns unless there is a current one.                                *)

ExecuteSql ==
    /\ at[Prompt].do = "idle"
    /\ \E sql \in Strings :
          IF current_txn # NoTxn
          THEN /\ at' = [at EXCEPT ![Prompt] = Running(current_txn, FALSE, sql)]
               /\ UNCHANGED txns
          ELSE /\ New \in Txn
               /\ txns' = Begun("SNAPSHOT_ISOLATION")
               /\ at' = [at EXCEPT ![Prompt] = Running(New, TRUE, sql)]
    /\ UNCHANGED <<rows, last_commit_ts, shared, terminated>>

-----------------------------------------------------------------------------
(* A client of nc-shell: Serve.                                            *)

Connect(c) ==
    /\ ~mode.managed /\ at[c] = Away
    /\ New \in Txn
    /\ txns' = Begun(mode.level)
    /\ at' = [at EXCEPT ![c] = Connected(New)]
    /\ UNCHANGED <<rows, last_commit_ts, shared, terminated>>

\* The top of the loop: the connection is closed when its transaction is not
\* RUNNING any more.
CloseEnded(c) ==
    /\ at[c].do = "connected" /\ txns[at[c].txn].state # "RUNNING"
    /\ at' = [at EXCEPT ![c] = Away]
    /\ UNCHANGED <<store, shared, terminated>>

Query(c) ==
    /\ at[c].do = "connected" /\ txns[at[c].txn].state = "RUNNING"
    /\ \E sql \in Strings : at' = [at EXCEPT ![c] = Running(at[c].txn, FALSE, sql)]
    /\ UNCHANGED <<store, shared, terminated>>

\* The client has gone while Serve waits for a line of it.
Disconnect(c) ==
    /\ at[c].do = "connected" /\ txns[at[c].txn].state = "RUNNING"
    /\ Abort(at[c].txn)
    /\ at' = [at EXCEPT ![c] = Away]
    /\ UNCHANGED <<shared, terminated>>

-----------------------------------------------------------------------------
(* ExecuteSqlTxn: one statement after the other.                           *)

Doing(t, what) == at[t].do = "running" /\ at[t].todo # <<>> /\ Head(at[t].todo).do = what
Done(t)        == at' = [at EXCEPT ![t].todo = Tail(@)]
Raise(t)       == at' = [at EXCEPT ![t].do = "raised"]
Stop           == terminated' = TRUE /\ UNCHANGED <<store, shared, at>>

\* An executor raises ExecutionException at the first row it may not write;
\* the string goes on with its next statement.
Conflict(t) ==
    /\ Doing(t, "write")
    /\ Conflicts(at[t].txn, Head(Head(at[t].todo).keys))
    /\ txns[at[t].txn].state = "RUNNING"
    /\ txns' = [txns EXCEPT ![at[t].txn].state = "TAINTED"]
    /\ at' = [at EXCEPT ![t].todo = Tail(@), ![t].ok = FALSE]
    /\ UNCHANGED <<rows, last_commit_ts, shared, terminated>>

\* SetTainted of a transaction that is not RUNNING.
ConflictAgain(t) ==
    /\ Doing(t, "write")
    /\ Conflicts(at[t].txn, Head(Head(at[t].todo).keys))
    /\ txns[at[t].txn].state # "RUNNING"
    /\ Stop

\* One row; nobody looks at the state of the transaction.
WriteRow(t) ==
    /\ Doing(t, "write")
    /\ LET keys == Head(at[t].todo).keys IN
       /\ ~Conflicts(at[t].txn, Head(keys))
       /\ rows' = [rows EXCEPT ![Head(keys)].by = at[t].txn]
       /\ IF Tail(keys) = <<>> THEN Done(t)
          ELSE at' = [at EXCEPT ![t].todo[1].keys = Tail(keys)]
    /\ UNCHANGED <<txns, last_commit_ts, shared, terminated>>

\* Only the scans of a SERIALIZABLE transaction are ever looked at.
Select(t) ==
    /\ Doing(t, "select")
    /\ txns' = [txns EXCEPT ![at[t].txn].scanned = txns[at[t].txn].level = "SERIALIZABLE"]
    /\ Done(t)
    /\ UNCHANGED <<rows, last_commit_ts, shared, terminated>>

\* A statement that cannot be bound or planned.
Bad(t) ==
    /\ Doing(t, "bad")
    /\ Raise(t)
    /\ UNCHANGED <<store, shared, terminated>>

\* Only BEGIN in managed mode reads the variable.
SetVariable(t) ==
    /\ Doing(t, "set")
    /\ setting' = IF mode.managed THEN Head(at[t].todo).value ELSE setting
    /\ Done(t)
    /\ UNCHANGED <<store, current_txn, mode, terminated>>

-----------------------------------------------------------------------------
(* HandleTxnStatement and CmdTxn.                                          *)

OnTxn(t) == \E what \in {"begin", "commit", "abort"} : Doing(t, what)

\* "txn mismatched??"
Mismatch(t) == mode.managed /\ current_txn # NoTxn /\ current_txn # at[t].txn

MismatchStops(t) ==
    /\ OnTxn(t) /\ Mismatch(t)
    /\ Stop

LevelOf(s) == IF s = "serializable" THEN "SERIALIZABLE" ELSE "SNAPSHOT_ISOLATION"

Begin(t) ==
    /\ Doing(t, "begin") /\ ~Mismatch(t) /\ mode.managed /\ setting # "other"
    /\ New \in Txn
    /\ txns' = Begun(LevelOf(setting))
    /\ current_txn' = New
    /\ Done(t)
    /\ UNCHANGED <<rows, last_commit_ts, setting, mode, terminated>>

BeginRefused(t) ==
    /\ Doing(t, "begin") /\ ~Mismatch(t)
    /\ IF ~mode.managed THEN Done(t) ELSE setting = "other" /\ Raise(t)
    /\ UNCHANGED <<store, shared, terminated>>

CommitTxn(t) ==
    /\ Doing(t, "commit") /\ ~Mismatch(t)
    /\ txns[at[t].txn].state = "RUNNING"
    /\ Commit(at[t].txn)
    /\ current_txn' = NoTxn
    /\ Done(t)
    /\ UNCHANGED <<setting, mode, terminated>>

\* Mutant: the transaction stays the current one.
AbortTxnStaying(t) ==
    /\ Doing(t, "abort") /\ ~Mismatch(t)
    /\ Active(at[t].txn)
    /\ Abort(at[t].txn)
    /\ Done(t)
    /\ UNCHANGED <<shared, terminated>>

AbortTxn(t) ==
    /\ Doing(t, "abort") /\ ~Mismatch(t)
    /\ Active(at[t].txn)
    /\ Abort(at[t].txn)
    /\ current_txn' = NoTxn
    /\ Done(t)
    /\ UNCHANGED <<setting, mode, terminated>>

\* Commit and Abort throw when the state is not the one they want.
EndRefused(t) ==
    /\ \/ Doing(t, "commit") /\ txns[at[t].txn].state # "RUNNING"
       \/ Doing(t, "abort") /\ ~Active(at[t].txn)
    /\ ~Mismatch(t)
    /\ Raise(t)
    /\ UNCHANGED <<store, shared, terminated>>

Leave(t) ==
    /\ Doing(t, "leave")
    /\ IF mode.managed /\ current_txn = NoTxn
       THEN Stop                                  \* dump_current_txn of no transaction
       ELSE /\ current_txn' = NoTxn
            /\ Done(t)
            /\ UNCHANGED <<store, setting, mode, terminated>>

Switch(t) ==
    /\ Doing(t, "switch")
    /\ \/ /\ mode.managed
          /\ \E x \in DOMAIN txns :
                /\ AnyTxn \/ (Active(x) /\ ~(at[t].own /\ x = at[t].txn))
                /\ current_txn' = x
       \/ UNCHANGED current_txn                \* not managed, or "cannot find txn."
    /\ Done(t)
    /\ UNCHANGED <<store, setting, mode, terminated>>

-----------------------------------------------------------------------------
(* The end of a string.                                                    *)

Finished(t) == at[t].do = "running" /\ at[t].todo = <<>>

\* Mutant: what Commit returns is not looked at, and a TAINTED transaction is left.
FinishOwnSilently(t) ==
    /\ Finished(t) /\ at[t].own
    /\ IF txns[at[t].txn].state = "RUNNING" THEN Commit(at[t].txn) ELSE UNCHANGED store
    /\ at' = [at EXCEPT ![t] = Idle]
    /\ UNCHANGED <<shared, terminated>>

\* ExecuteSql commits what it has begun.
FinishOwn(t) ==
    /\ Finished(t) /\ at[t].own
    /\ IF txns[at[t].txn].state = "RUNNING" THEN Commit(at[t].txn) ELSE UNCHANGED store
    /\ IF txns[at[t].txn].state = "RUNNING" /\ Verified(at[t].txn)
       THEN at' = [at EXCEPT ![t] = Idle]
       ELSE Raise(t)
    /\ UNCHANGED <<shared, terminated>>

Return(t) == at' = [at EXCEPT ![t] = IF t = Prompt THEN Idle ELSE Connected(at[t].txn)]

Finish(t) ==
    /\ Finished(t) /\ ~at[t].own
    /\ Return(t)
    /\ UNCHANGED <<store, shared, terminated>>

\* The handler in ExecuteSql aborts the transaction; Abort throws again when it
\* has ended already.  Serve reports the error and goes on.
Catch(t) ==
    /\ at[t].do = "raised"
    /\ Return(t)
    /\ IF t = Prompt /\ Active(at[t].txn)
       THEN Abort(at[t].txn) /\ current_txn' = NoTxn
       ELSE UNCHANGED <<store, current_txn>>
    /\ UNCHANGED <<setting, mode, terminated>>

-----------------------------------------------------------------------------
Execute(t) ==
    \/ Conflict(t) \/ ConflictAgain(t) \/ WriteRow(t) \/ Select(t) \/ Bad(t) \/ SetVariable(t)
    \/ MismatchStops(t) \/ Begin(t) \/ BeginRefused(t) \/ CommitTxn(t) \/ AbortTxn(t) \/ EndRefused(t)
    \/ Leave(t) \/ Switch(t)
    \/ FinishOwn(t) \/ Finish(t) \/ Catch(t)

Next ==
    /\ ~terminated
    /\ \/ ExecuteSql
       \/ \E c \in Client : Connect(c) \/ CloseEnded(c) \/ Query(c) \/ Disconnect(c)
       \/ \E t \in Thread : Execute(t)

Spec == Init /\ [][Next]_vars

-----------------------------------------------------------------------------
(* Properties.                                                             *)

Work == [do : {"running", "raised"}, txn : Txn, own : BOOLEAN, todo : Seq(Statement), ok : BOOLEAN]

Transaction == [state : State, level : Level, read_ts : Nat, snapshot : [Key -> Version],
                scanned : BOOLEAN]

\* The fields keep their types; a session's transaction is one of the map's.
TypeOK ==
    /\ txns \in Seq(Transaction)
    /\ Len(txns) \in 0..MaxTxns
    /\ rows \in [Key -> [ts : Nat, v : Txn \cup {NoTxn}, by : Txn \cup {NoTxn}]]
    /\ last_commit_ts \in Nat
    /\ current_txn \in DOMAIN txns \cup {NoTxn}
    /\ setting \in Setting /\ mode \in [managed : BOOLEAN, level : Level]
    /\ at \in [Thread -> {Idle, Away} \cup [do : {"connected"}, txn : Txn] \cup Work]
    /\ \A t \in Thread : at[t].do \in {"connected", "running", "raised"} => at[t].txn \in DOMAIN txns
    /\ terminated \in BOOLEAN

\* What a user is told of a string that runs in a transaction of its own: no
\* exception, and every statement has succeeded, all of its writes are
\* committed; an exception, and none of them is, nor will be (ExecuteSql).
AnswerTells ==
    [][at[Prompt].do \in {"running", "raised"} /\ at[Prompt].own /\ at'[Prompt] = Idle =>
          LET x == at[Prompt].txn IN
          /\ at[Prompt].do = "running" => at[Prompt].ok /\ txns'[x].state = "COMMITTED"
          /\ at[Prompt].do = "raised" => \A k \in Key : rows'[k].v # x
          /\ txns'[x].state \in {"COMMITTED", "ABORTED"}
          /\ \A k \in Key : rows'[k].by # x]_vars

\* The transaction that the shell's next statement will run in is one that
\* can still end (BEGIN, COMMIT, ROLLBACK, \txn, errors).
CurrentActive == current_txn # NoTxn => Active(current_txn)

Store == INSTANCE SnapshotStore WITH
    Value     <- Txn,
    Absent    <- NoTxn,
    Predicate <- {[id : Key, v : Txn]},
    db        <- [k \in Key |-> Committed(k)],
    clock     <- last_commit_ts,
    running   <- {x \in Txn : Active(x)},
    snap      <- [x \in Txn |-> IF Active(x) THEN txns[x].snapshot
                                ELSE [k \in Key |-> [ts |-> 0, v |-> NoTxn]]],
    mine      <- [x \in Txn |-> [k \in Wrote(x) |-> x]],
    preds     <- [x \in Txn |-> IF Active(x) /\ txns[x].scanned
                                THEN {[id : Key, v : Txn]} ELSE {}]

\* Whatever users and clients send, and whatever fails in the middle of a
\* string, the rows change as the transactions of the store do: nothing is
\* written in a transaction that has ended, and each ends once (ExecuteSql,
\* ExecuteSqlTxn, HandleTxnStatement, CmdTxn, Serve).
ImplementsStore == Store!Spec
=============================================================================
