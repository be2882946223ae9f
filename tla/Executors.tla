----------------------------- MODULE Executors -----------------------------
(***************************************************************************)
(* The executors.  Each node of a plan has one, a tree of records of the   *)
(* same shape as the plan: what an executor keeps between two calls.  Init *)
(* and Next are called from the parent and may be called again and again:  *)
(* a join starts its right child anew for every row of its left child.     *)
(* Next hands over at most about n rows and says whether it had any.       *)
(*                                                                         *)
(* Init yields the executors, and Next the replies, that may come out: in  *)
(* which order a hash table is read and std::sort leaves equal keys is not *)
(* known.                                                                  *)
(*                                                                         *)
(* db holds the rows a transaction sees in each table, in the order of     *)
(* their slots; what it sees is modelled by Mvcc.                          *)
(***************************************************************************)
EXTENDS Planner

CONSTANT BatchSize       \* BUSTUB_BATCH_SIZE

\* The members of all the executor classes: pos is the cursor, offset or
\* count of the class, rows the rows it buffers; left.. and current belong to
\* the outer side of a join, right.. to its inner side.
Fresh(kids) ==
    [kids |-> kids, pos |-> 0, rows |-> <<>>,
     left |-> <<>>, leftPos |-> 0, current |-> {}, matched |-> FALSE, right |-> <<>>, rightPos |-> 0]

RECURSIVE CreateExecutor(_)
CreateExecutor(p) == Fresh(FoldLeft(LAMBDA made, kid : Append(made, CreateExecutor(kid)), <<>>, p.kids))

\* What Next returns, and the executor after it.
Reply(exec, rows) == [more |-> rows # <<>>, rows |-> rows, exec |-> exec]

RECURSIVE Init(_, _, _), Next(_, _, _, _), Drain(_, _, _), Loop(_, _, _, _, _)

InitKid(p, x, i, db) == {[x EXCEPT !.kids[i] = k] : k \in Init(p.kids[i], x.kids[i], db)}

\* Next until there is no more: all the rows, and the exhausted executor.
Drain(p, x, db) ==
    UNION {IF r.more THEN {Reply(rest.exec, r.rows \o rest.rows) : rest \in Drain(p, r.exec, db)}
           ELSE {Reply(r.exec, <<>>)} : r \in Next(p, x, BatchSize, db)}

---------------------------------------------------------------------------
(* What is computed when an executor starts.                               *)

\* The slots an index scan visits: those of the keys, each slot once, or all
\* of them in the order of the index.
IndexSlots(p, db) ==
    LET table == db[p.table]
        at(k) == SelectSeq([i \in DOMAIN table |-> i], LAMBDA i : table[i][p.column] = k)
    IN  IF p.keys # <<>> THEN Distinct(FlattenSeq([i \in DOMAIN p.keys |-> at(p.keys[i])]))
        ELSE SortSeq([i \in DOMAIN table |-> i], LAMBDA i, j : table[i][p.column] < table[j][p.column])

\* SimpleAggregationHashTable: the initial value of an aggregate, and the one
\* that takes in one more row.
InitialAggregate(f) == IF f = "count(*)" THEN 0 ELSE Null
CombineAggregate(f, so_far, v) ==
    CASE f = "count(*)"                     -> so_far + 1
      [] f # "count(*)" /\ v = Null         -> so_far
      [] f = "count" /\ so_far = Null       -> 1
      [] f = "count"                        -> so_far + 1
      [] so_far = Null                      -> v
      [] f = "sum"                          -> so_far + v
      [] f = "min"                          -> IF v < so_far THEN v ELSE so_far
      [] f = "max"                          -> IF v > so_far THEN v ELSE so_far

InsertCombine(p, ht, row) ==
    LET key == EvaluateAll(p.groupBy, row)
        n   == Len(p.groupBy)
        old == SelectSeq(ht, LAMBDA e : SubSeq(e, 1, n) = key)
        before == IF old # <<>> THEN SubSeq(Head(old), n + 1, Len(Head(old)))
                  ELSE [j \in DOMAIN p.aggregates |-> InitialAggregate(p.aggregates[j].f)]
        entry == key \o [j \in DOMAIN p.aggregates |->
                            CombineAggregate(p.aggregates[j].f, before[j], Evaluate(p.aggregates[j].expr, row))]
    IN  IF old = <<>> THEN Append(ht, entry) ELSE ReplaceAll(ht, Head(old), entry)

RECURSIVE HashTable(_, _)
HashTable(p, rows) ==
    IF rows = <<>> THEN {<<>>} ELSE {InsertCombine(p, ht, Last(rows)) : ht \in HashTable(p, Front(rows))}

\* The groups in any order; one group of no row when there is no GROUP BY.
Aggregates(p, rows) ==
    UNION {IF ht = <<>> /\ p.groupBy = <<>>
           THEN {<< [j \in DOMAIN p.aggregates |-> InitialAggregate(p.aggregates[j].f)] >>}
           ELSE SetToSeqs(ToSet(ht)) : ht \in HashTable(p, rows)}

\* The orders std::sort may leave the rows in.
Sorts(orderBy, rows) ==
    LET keys == [i \in DOMAIN rows |-> SortKey(orderBy, rows[i])]
    IN  {[i \in DOMAIN rows |-> rows[f[i]]] : f \in
            {g \in SetToSeqs(DOMAIN rows) :
                \A i, j \in DOMAIN rows : i < j => ~Before(orderBy, keys[g[j]], keys[g[i]])}}

\* The i-th child drained, and the executor with its rows.
Built(p, x, i, db) ==
    UNION {{[y EXCEPT !.kids[i] = d.exec, !.rows = d.rows, !.pos = 0] :
               d \in Drain(p.kids[i], y.kids[i], db)} : y \in InitKid(p, x, i, db)}

\* The left child starts and nothing of it is held.
StartLeft(p, x, db) == InitKid(p, [x EXCEPT !.left = <<>>, !.leftPos = 0, !.current = {}], 1, db)

\* A filter and a projection start their child and nothing else.
Init(p, x, db) ==
    CASE p.node \in {"filter", "projection"} -> InitKid(p, x, 1, db)
      [] p.node = "limit"                    -> InitKid(p, [x EXCEPT !.pos = 0], 1, db)
      [] p.node = "values"                   -> {[x EXCEPT !.rows = p.rows, !.pos = 0]}
      [] p.node = "seq_scan"                 -> {[x EXCEPT !.rows = db[p.table], !.pos = 0]}
      [] p.node = "index_scan"               ->
           LET slots == IndexSlots(p, db)
           IN  {[x EXCEPT !.rows = [i \in DOMAIN slots |-> db[p.table][slots[i]]], !.pos = 0]}
      [] p.node = "aggregation"              ->
           UNION {{[y EXCEPT !.rows = a] : a \in Aggregates(p, y.rows)} : y \in Built(p, x, 1, db)}
      [] p.node = "sort"                     ->
           UNION {{[y EXCEPT !.rows = a] : a \in Sorts(p.orderBy, y.rows)} : y \in Built(p, x, 1, db)}
      [] p.node \in {"nested_loop_join", "nested_index_join"} -> StartLeft(p, x, db)
      [] p.node = "hash_join"                -> UNION {Built(p, y, 2, db) : y \in StartLeft(p, x, db)}

---------------------------------------------------------------------------
(* Next.                                                                   *)

\* Up to n of the buffered rows that pass, from the cursor on.
Scan(x, pred, n) ==
    LET hits == SelectSeq([i \in DOMAIN x.rows |-> i], LAMBDA i : i > x.pos /\ Passes(pred, x.rows[i]))
        last == IF Len(hits) < n THEN Len(x.rows) ELSE hits[n]
        taken == FirstOf(n, hits)
    IN  Reply([x EXCEPT !.pos = last], [i \in DOMAIN taken |-> x.rows[taken[i]]])

\* The rows of the child's last batch from the offset on.
Held(x) == IF x.pos = 0 THEN <<>> ELSE SubSeq(x.rows, x.pos + 1, Len(x.rows))

\* A batch is full: what is left of the child's batch waits for the next call.
Kept(x, batch, used) == [x EXCEPT !.rows = batch, !.pos = IF used < Len(batch) THEN used ELSE 0]

\* A loop goes round until its last round; out is what it has so far.
Round(exec, out, last) == [exec |-> exec, out |-> out, last |-> last]
Looped(rounds, p, n, db) ==
    UNION {IF s.last THEN {Reply(s.exec, s.out)} ELSE Loop(p, s.exec, s.out, n, db) : s \in rounds}

\* The rows held from the call before this one are taken first.
FilterRound(p, x, out, n, db) ==
    LET passing == SelectSeq(Held(x), LAMBDA row : Passes(p.pred, row))
        so_far  == out \o passing
        room    == IF Len(so_far) < n THEN n - Len(so_far) ELSE 1
        after(r) ==
            LET here == [x EXCEPT !.kids[1] = r.exec, !.rows = r.rows, !.pos = 0]
                hits == SelectSeq([i \in DOMAIN r.rows |-> i], LAMBDA i : Passes(p.pred, r.rows[i]))
                rows(k) == [i \in 1..k |-> r.rows[hits[i]]]
            IN  CASE ~r.more           -> Round(here, so_far, TRUE)
                  [] Len(hits) >= room -> Round(Kept(here, r.rows, hits[room]), so_far \o rows(room), TRUE)
                  [] OTHER             -> Round(here, so_far \o rows(Len(hits)), FALSE)
    IN  {after(r) : r \in Next(p.kids[1], x.kids[1], n, db)}

ProjectionNext(p, x, n, db) ==
    LET project(rows) == [i \in DOMAIN rows |-> EvaluateAll(p.exprs, rows[i])]
        so_far == project(Held(x))
        room   == IF Len(so_far) < n THEN n - Len(so_far) ELSE 1
        after(r) ==
            LET here == [x EXCEPT !.kids[1] = r.exec, !.rows = r.rows, !.pos = 0]
                used == Capped(Len(r.rows), room)
            IN  Reply(IF Len(r.rows) >= room THEN Kept(here, r.rows, used) ELSE here,
                      so_far \o project(FirstOf(used, r.rows)))
    IN  {after(r) : r \in Next(p.kids[1], x.kids[1], n, db)}

\* The child is asked for what remains, and what it gives beyond it is cut off.
Limited(p, x, n, db) ==
    LET remaining == Capped(n, p.limit - x.pos)
        after(r) == LET rows == FirstOf(remaining, r.rows)
                    IN  Reply([x EXCEPT !.kids[1] = r.exec, !.pos = @ + Len(rows)], rows)
    IN  {after(r) : r \in Next(p.kids[1], x.kids[1], remaining, db)}

LimitNext(p, x, n, db) ==
    IF x.pos >= p.limit THEN {Reply(x, <<>>)} ELSE Limited(p, x, n, db)

---------------------------------------------------------------------------
(* Joins.                                                                  *)

\* The rows of the inner side that the outer row meets: in a hash join those
\* under its key, in an index join those the index has for it.
HashMatches(p, x, row) ==
    SelectSeq(x.rows, LAMBDA r : \A i \in DOMAIN p.leftKeys :
        Compare("=", Evaluate(p.leftKeys[i], row), Evaluate(p.rightKeys[i], r)) = TRUE)
IndexMatches(p, row, db) ==
    LET key == Evaluate(p.key, row)
    IN  IF key = Null THEN <<>> ELSE SelectSeq(db[p.table], LAMBDA r : r[p.column] = key)

\* A nested loop join starts its right child again for a new left row.
InnerSide(p, x, row, db) ==
    CASE p.node = "nested_loop_join"  -> InitKid(p, x, 2, db)
      [] p.node = "hash_join"         -> {[x EXCEPT !.right = HashMatches(p, x, row)]}
      [] p.node = "nested_index_join" -> {[x EXCEPT !.right = IndexMatches(p, row, db)]}

\* The next left row is taken, with nothing yet of its inner side.
Current(x, row) ==
    [x EXCEPT !.current = {row}, !.leftPos = @ + 1, !.matched = FALSE, !.right = <<>>, !.rightPos = 0]

NextLeft(p, x, out, db) ==
    LET row == x.left[x.leftPos + 1]
    IN  {Round(y, out, FALSE) : y \in InnerSide(p, Current(x, row), row, db)}

PullLeft(p, x, out, db) ==
    {Round([x EXCEPT !.kids[1] = r.exec, !.left = r.rows, !.leftPos = IF r.more THEN 0 ELSE @], out, ~r.more) :
        r \in Next(p.kids[1], x.kids[1], BatchSize, db)}

\* The next row of the inner side, and the row of the join if the two meet.
TryRight(p, x, left, out) ==
    LET right == x.right[x.rightPos + 1]
        meets == p.node = "nested_loop_join" => EvaluateJoin(p.pred, left, right) = TRUE
    IN  {Round([x EXCEPT !.rightPos = @ + 1, !.matched = @ \/ meets],
               IF meets THEN Append(out, left \o right) ELSE out, FALSE)}

InnerWidth(p) == IF p.node = "nested_index_join" THEN Width[p.table] ELSE Columns(p.kids[2])

\* A left row that met nothing is joined with NULLs if the join is a LEFT one.
LeaveLeft(p, x, left, out) ==
    Round([x EXCEPT !.current = {}, !.right = <<>>, !.rightPos = 0],
          IF p.outer /\ ~x.matched THEN Append(out, left \o Nulls(InnerWidth(p))) ELSE out, FALSE)

\* Mutant: a new batch of the inner side forgets that the left row has met one.
PullRightAnew(p, x, left, out, db) ==
    IF p.node # "nested_loop_join" THEN {LeaveLeft(p, x, left, out)}
    ELSE {LET y == [x EXCEPT !.kids[2] = r.exec, !.right = r.rows, !.rightPos = 0]
          IN  IF r.more THEN Round([y EXCEPT !.matched = FALSE], out, FALSE) ELSE LeaveLeft(p, y, left, out) :
             r \in Next(p.kids[2], x.kids[2], BatchSize, db)}

\* The inner side has more batches, or the left row is done with.
PullRight(p, x, left, out, db) ==
    IF p.node # "nested_loop_join" THEN {LeaveLeft(p, x, left, out)}
    ELSE {LET y == [x EXCEPT !.kids[2] = r.exec, !.right = r.rows, !.rightPos = 0]
          IN  IF r.more THEN Round(y, out, FALSE) ELSE LeaveLeft(p, y, left, out) :
             r \in Next(p.kids[2], x.kids[2], BatchSize, db)}

\* An index join is done with its left row before it looks at the size of the batch.
Full(p, x, out, n) == Len(out) >= n /\ (p.node = "nested_index_join" => x.current = {})

JoinRound(p, x, out, n, db) ==
    LET left == CHOOSE t \in x.current : TRUE
    IN  CASE Full(p, x, out, n) -> {Round(x, out, TRUE)}
          [] x.current # {} /\ x.rightPos < Len(x.right)          -> TryRight(p, x, left, out)
          [] x.current # {} /\ x.rightPos >= Len(x.right)         -> PullRight(p, x, left, out, db)
          [] x.current = {} /\ x.leftPos < Len(x.left)            -> NextLeft(p, x, out, db)
          [] x.current = {} /\ x.leftPos >= Len(x.left)           -> PullLeft(p, x, out, db)

---------------------------------------------------------------------------
Loop(p, x, out, n, db) ==
    Looped(IF p.node = "filter" THEN FilterRound(p, x, out, n, db) ELSE JoinRound(p, x, out, n, db), p, n, db)

Next(p, x, n, db) ==
    CASE p.node \in {"seq_scan", "index_scan"}         -> {Scan(x, p.pred, n)}
      [] p.node \in {"values", "aggregation", "sort"}  -> {Scan(x, {}, n)}
      [] p.node = "filter"                             -> Loop(p, x, <<>>, n, db)
      [] p.node = "projection"                         -> ProjectionNext(p, x, n, db)
      [] p.node = "limit"                              -> LimitNext(p, x, n, db)
      [] p.node \in {"nested_loop_join", "hash_join", "nested_index_join"} -> Loop(p, x, <<>>, n, db)

\* The rows a plan may return.
Execute(p, db) ==
    {d.rows : d \in UNION {Drain(p, x, db) : x \in Init(p, CreateExecutor(p), db)}}
=============================================================================
