---------------------------- MODULE SnapshotStore ----------------------------
(***************************************************************************)
(* What the transactions promise, without versions, undo logs or latches:  *)
(* a transaction works on the rows as they were when it began, its writes  *)
(* become visible in one step when it commits, and of two transactions     *)
(* that write the same key one commits.  A serializable writer commits     *)
(* only when what its queries select is still what they selected.          *)
(***************************************************************************)
EXTENDS Naturals

CONSTANTS Txn, Key, Value,
          Absent,        \* no row with this key
          Predicate      \* sets of rows [id, v]

(* The last committed write of a key: its commit timestamp, 0 for never.   *)
Version == [ts : Nat, v : Value \cup {Absent}]
Never   == [ts |-> 0, v |-> Absent]

Nobody == [k \in Key |-> Never]

VARIABLES db,        \* the committed version of each key
          clock,     \* the last commit timestamp
          running,   \* the transactions in progress
          snap,      \* the versions a transaction works on
          mine,      \* the keys it wrote, with their rows
          preds      \* the predicates of a serializable one; {} for the others

vars == <<db, clock, running, snap, mine, preds>>

Selects(p, k, ver) == ver.v # Absent /\ [id |-> k, v |-> ver.v] \in p

(* The rows a transaction sees: its own writes over its snapshot.          *)
Sees(t, k) == IF k \in DOMAIN mine[t] THEN mine[t][k] ELSE snap[t][k].v

Init ==
    /\ db \in [Key -> Version]
    /\ clock \in Nat
    /\ \A k \in Key : db[k].ts <= clock
    /\ running = {}
    /\ snap = [t \in Txn |-> Nobody]
    /\ mine = [t \in Txn |-> <<>>]
    /\ preds = [t \in Txn |-> {}]

Begin(t) ==
    /\ t \notin running
    /\ running' = running \cup {t}
    /\ snap' = [snap EXCEPT ![t] = db]
    /\ UNCHANGED <<db, clock, mine, preds>>

Query(t, p) ==
    /\ t \in running
    /\ preds' = [preds EXCEPT ![t] = @ \cup {p}]
    /\ UNCHANGED <<clock, running, mine, db, snap>>

Write(t, k, x) ==
    /\ t \in running
    /\ mine' = [mine EXCEPT ![t] = [j \in DOMAIN @ \cup {k} |-> IF j = k THEN x ELSE @[j]]]
    /\ \A u \in running \ {t} : k \notin DOMAIN mine[u]
    /\ db[k] = snap[t][k]
    /\ UNCHANGED <<clock, running, preds, db, snap>>

End(t) ==
    /\ running' = running \ {t}
    /\ snap' = [snap EXCEPT ![t] = Nobody]
    /\ mine' = [mine EXCEPT ![t] = <<>>]
    /\ preds' = [preds EXCEPT ![t] = {}]

QueriesHold(t) ==
    \A p \in preds[t], k \in Key :
        db[k] # snap[t][k] => ~Selects(p, k, db[k]) /\ ~Selects(p, k, snap[t][k])

Commit(t) ==
    /\ t \in running
    /\ clock' = clock + 1
    /\ \A k \in DOMAIN mine[t] : db[k] = snap[t][k]
    /\ DOMAIN mine[t] # {} => QueriesHold(t)
    /\ db' = [k \in Key |-> IF k \in DOMAIN mine[t]
                            THEN [ts |-> clock + 1, v |-> mine[t][k]] ELSE db[k]]
    /\ End(t)

Abort(t) ==
    /\ t \in running
    /\ End(t)
    /\ UNCHANGED <<db, clock>>

Next ==
    \E t \in Txn :
        \/ Begin(t) \/ Commit(t) \/ Abort(t)
        \/ \E p \in Predicate : Query(t, p)
        \/ \E k \in Key, x \in Value \cup {Absent} : Write(t, k, x)

Spec == Init /\ [][Next]_vars
=============================================================================
