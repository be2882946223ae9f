-------------------------------- MODULE Sql --------------------------------
(***************************************************************************)
(* The part of SQL the query engine is asked to answer: expressions over   *)
(* integers, Booleans and NULL as the expression classes evaluate them,    *)
(* SELECT statements as the binder hands them over, and Answer, what a     *)
(* statement returns.  Answer knows nothing of plans, batches or indexes:  *)
(* it is what the planner, the optimizer and the executors are held to.    *)
(*                                                                         *)
(* A row is a sequence of values.  In a statement a column is already a    *)
(* position: select and orderBy of a grouped statement count the group-by  *)
(* columns and then the aggregates.                                        *)
(***************************************************************************)
EXTENDS Integers, Sequences, SequencesExt, TLC

CONSTANTS
    Null,        \* the SQL NULL, of any type
    Width        \* [table |-> number of columns]

---------------------------------------------------------------------------
(* Expressions.  side is the tuple_idx_ of a column: 1 only for a column   *)
(* of the right input in the condition of a join.                          *)

Comparisons == {"=", "<>", "<", "<=", ">", ">="}

Compare(c, x, y) ==
    IF Null \in {x, y} THEN Null
    ELSE CASE c = "="  -> x = y
           [] c = "<>" -> x # y
           [] c = "<"  -> x < y
           [] c = "<=" -> x <= y
           [] c = ">"  -> x > y
           [] c = ">=" -> x >= y

\* LogicExpression::PerformComputation
Logic(op, x, y) ==
    LET wins == op = "or"           \* the value that decides alone
    IN  CASE wins \in {x, y}         -> wins
          [] x = ~wins /\ y = ~wins  -> ~wins
          [] OTHER                   -> Null

Arithmetic(op, x, y) ==
    CASE Null \in {x, y} -> Null
      [] op = "+"        -> x + y
      [] op = "-"        -> x - y

RECURSIVE EvaluateJoin(_, _, _)
EvaluateJoin(e, left, right) ==
    CASE e.op = "column"   -> IF e.side = 0 THEN left[e.col] ELSE right[e.col]
      [] e.op = "constant" -> e.val
      [] OTHER ->
         LET x == EvaluateJoin(e.args[1], left, right)
             y == EvaluateJoin(e.args[2], left, right)
         IN  CASE e.op \in Comparisons    -> Compare(e.op, x, y)
               [] e.op \in {"and", "or"}  -> Logic(e.op, x, y)
               [] e.op \in {"+", "-"}     -> Arithmetic(e.op, x, y)

\* Evaluate ignores the tuple_idx_ of a column.
Evaluate(e, row) == EvaluateJoin(e, row, row)
EvaluateAll(es, row) == [i \in DOMAIN es |-> Evaluate(es[i], row)]

\* A predicate keeps a row unless it is false or NULL; pred is {} or {e}.
Passes(pred, row) == \A e \in pred : Evaluate(e, row) = TRUE

Nulls(n) == [i \in 1..n |-> Null]

\* TupleComparator: NULL comes last in ascending order, first in descending.
RECURSIVE Before(_, _, _)
Before(orderBy, a, b) ==
    /\ orderBy # <<>>
    /\ LET desc == Head(orderBy).desc
           x == Head(a)
           y == Head(b)
       IN  CASE x = y     -> Before(Tail(orderBy), Tail(a), Tail(b))
             [] x = Null  -> desc
             [] y = Null  -> ~desc
             [] OTHER     -> IF desc THEN x > y ELSE x < y

SortKey(orderBy, row) == [i \in DOMAIN orderBy |-> Evaluate(orderBy[i].expr, row)]
Sorted(orderBy, rows) ==
    SortSeq(rows, LAMBDA a, b : Before(orderBy, SortKey(orderBy, a), SortKey(orderBy, b)))

Capped(n, limit) == IF n < limit THEN n ELSE limit
FirstOf(n, rows) == SubSeq(rows, 1, Capped(Len(rows), n))

\* The elements of s without repetitions, in the order of their first use.
Distinct(s) == FoldLeft(LAMBDA seen, x : IF Contains(seen, x) THEN seen ELSE Append(seen, x), <<>>, s)

---------------------------------------------------------------------------
(* Statements.                                                             *)

IsGrouped(s) == s.having # {} \/ s.groupBy # <<>> \/ s.aggregates # <<>>

RECURSIVE RefWidth(_)
RefWidth(ref) ==
    CASE ref.kind = "table"             -> Width[ref.table]
      [] ref.kind = "values"            -> Len(Head(ref.rows))
      [] ref.kind = "subquery"          -> Len(ref.stmt.select)
      [] ref.kind \in {"cross", "join"} -> RefWidth(ref.left) + RefWidth(ref.right)

\* COUNT of no value but NULL is NULL here: the engine has no other zero
\* than that of COUNT(*).
Aggregated(f, values) ==
    LET known == SelectSeq(values, LAMBDA v : v # Null)
    IN  CASE f = "count(*)"           -> Len(values)
          [] known = <<>>             -> Null
          [] f = "count"              -> Len(known)
          [] f = "sum"                -> FoldLeft(+, 0, known)
          [] f = "min"                -> CHOOSE m \in ToSet(known) : \A v \in ToSet(known) : m <= v
          [] f = "max"                -> CHOOSE m \in ToSet(known) : \A v \in ToSet(known) : m >= v

Grouped(s, rows) ==
    LET groups == IF s.groupBy = <<>> THEN << <<>> >>
                  ELSE Distinct([i \in DOMAIN rows |-> EvaluateAll(s.groupBy, rows[i])])
        members(g) == SelectSeq(rows, LAMBDA r : EvaluateAll(s.groupBy, r) = g)
        values(a, g) == LET m == members(g) IN [i \in DOMAIN m |-> Evaluate(a.expr, m[i])]
    IN  [i \in DOMAIN groups |->
            groups[i] \o [j \in DOMAIN s.aggregates |->
                Aggregated(s.aggregates[j].f, values(s.aggregates[j], groups[i]))]]

Joined(left, right, on, outer, width) ==
    FlattenSeq([i \in DOMAIN left |->
        LET mates == SelectSeq(right, LAMBDA r : EvaluateJoin(on, left[i], r) = TRUE)
        IN  IF mates = <<>> /\ outer THEN << left[i] \o Nulls(width) >>
            ELSE [j \in DOMAIN mates |-> left[i] \o mates[j]]])

RECURSIVE Answer(_, _), RowsOf(_, _)
Answer(s, db) ==
    LET where   == SelectSeq(RowsOf(s.from, db), LAMBDA r : Passes(s.where, r))
        grouped == IF IsGrouped(s) THEN SelectSeq(Grouped(s, where), LAMBDA r : Passes(s.having, r))
                   ELSE where
        listed  == [i \in DOMAIN grouped |-> EvaluateAll(s.select, grouped[i])]
        sorted  == Sorted(s.orderBy, IF s.distinct THEN Distinct(listed) ELSE listed)
    IN  IF s.limit = {} THEN sorted ELSE FirstOf(CHOOSE n \in s.limit : TRUE, sorted)

RowsOf(ref, db) ==
    CASE ref.kind = "table"    -> db[ref.table]
      [] ref.kind = "values"   -> ref.rows
      [] ref.kind = "subquery" -> Answer(ref.stmt, db)
      [] ref.kind = "cross"    ->
           Joined(RowsOf(ref.left, db), RowsOf(ref.right, db), [op |-> "constant", val |-> TRUE], FALSE, 0)
      [] ref.kind = "join"     ->
           Joined(RowsOf(ref.left, db), RowsOf(ref.right, db), ref.on, ref.outer, RefWidth(ref.right))

\* rows answers the statement: which rows a LIMIT keeps, and how equal keys
\* are ordered, is left to the engine.
Answers(s, db, rows) ==
    LET all == Answer([s EXCEPT !.limit = {}], db)
        keys(t) == [i \in DOMAIN t |-> SortKey(s.orderBy, t[i])]
        size == IF s.limit = {} THEN Len(all) ELSE Capped(Len(all), CHOOSE n \in s.limit : TRUE)
        times(r, t) == Len(SelectSeq(t, LAMBDA x : x = r))
    IN  /\ Len(rows) = size
        /\ \A r \in ToSet(rows) : times(r, rows) <= times(r, all)
        /\ keys(rows) = keys(FirstOf(size, all))
=============================================================================
