------------------------------ MODULE Planner ------------------------------
(***************************************************************************)
(* The planner: a bound SELECT statement becomes a tree of plan nodes, the *)
(* same tree whatever the tables hold.  Every node has kids; the other     *)
(* fields are those of its plan node class.                                *)
(***************************************************************************)
EXTENDS Sql

Column(i)   == [op |-> "column", side |-> 0, col |-> i]
Constant(v) == [op |-> "constant", val |-> v]

Filter(pred, kid)     == [node |-> "filter", pred |-> {pred}, kids |-> <<kid>>]
Projection(exprs, kid) == [node |-> "projection", exprs |-> exprs, kids |-> <<kid>>]
NestedLoopJoin(pred, outer, left, right) ==
    [node |-> "nested_loop_join", pred |-> pred, outer |-> outer, kids |-> <<left, right>>]
Aggregation(groupBy, aggregates, kid) ==
    [node |-> "aggregation", groupBy |-> groupBy, aggregates |-> aggregates, kids |-> <<kid>>]

\* The number of columns of a plan's output schema.
RECURSIVE Columns(_)
Columns(p) ==
    CASE p.node \in {"seq_scan", "index_scan"} -> Width[p.table]
      [] p.node = "values"                     -> Len(Head(p.rows))
      [] p.node = "projection"                 -> Len(p.exprs)
      [] p.node = "aggregation"                -> Len(p.groupBy) + Len(p.aggregates)
      [] p.node \in {"nested_loop_join", "hash_join"} -> Columns(p.kids[1]) + Columns(p.kids[2])
      [] p.node = "nested_index_join"          -> Columns(p.kids[1]) + Width[p.table]
      [] p.node \in {"filter", "sort", "limit"} -> Columns(p.kids[1])

AllColumns(p) == [i \in 1..Columns(p) |-> Column(i)]

\* An optional clause: the plan below it stays as it is when there is none.
Clause(some, with, plan) == IF some THEN with ELSE plan

\* Two phases: the aggregation first, HAVING and the select list above it.
PlanSelectAgg(s, child) ==
    LET agg == Aggregation(s.groupBy, s.aggregates, child)
        having == CHOOSE e \in s.having : TRUE
    IN  Projection(s.select, Clause(s.having # {}, Filter(having, agg), agg))

RECURSIVE PlanSelect(_), PlanTableRef(_)
PlanSelect(s) ==
    LET from     == PlanTableRef(s.from)
        where    == Clause(s.where # {}, Filter(CHOOSE e \in s.where : TRUE, from), from)
        selected == IF IsGrouped(s) THEN PlanSelectAgg(s, where) ELSE Projection(s.select, where)
        distinct == Clause(s.distinct, Aggregation(AllColumns(selected), <<>>, selected), selected)
        sorted   == Clause(s.orderBy # <<>>,
                           [node |-> "sort", orderBy |-> s.orderBy, kids |-> <<distinct>>], distinct)
    IN  Clause(s.limit # {},
               [node |-> "limit", limit |-> CHOOSE n \in s.limit : TRUE, kids |-> <<sorted>>], sorted)

PlanTableRef(ref) ==
    CASE ref.kind = "table"    -> [node |-> "seq_scan", table |-> ref.table, pred |-> {}, kids |-> <<>>]
      [] ref.kind = "values"   -> [node |-> "values", rows |-> ref.rows, kids |-> <<>>]
      [] ref.kind = "cross"    -> NestedLoopJoin(Constant(TRUE), FALSE,
                                                 PlanTableRef(ref.left), PlanTableRef(ref.right))
      [] ref.kind = "join"     -> NestedLoopJoin(ref.on, ref.outer,
                                                 PlanTableRef(ref.left), PlanTableRef(ref.right))
      [] ref.kind = "subquery" -> LET p == PlanSelect(ref.stmt) IN Projection(AllColumns(p), p)
=============================================================================
