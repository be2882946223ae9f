----------------------------- MODULE Optimizer -----------------------------
(***************************************************************************)
(* The rules of the optimizer.  Each one walks the plan from the leaves up *)
(* and replaces the nodes it matches; Rewrite does the walk, AtNode names  *)
(* what the rule does at a node whose children are rewritten already.      *)
(***************************************************************************)
EXTENDS Planner

CONSTANT Indexed      \* {<<table, column>>}: the columns that have an index of their own

\* The optimizer's two pipelines, in the order it applies their rules:
\* OptimizeSortLimitAsTopN is written, and returns the plan it is given.
CustomRules == <<"MergeProjection", "MergeFilterNLJ", "NLJAsHashJoin", "OrderByAsIndexScan",
                 "SortLimitAsTopN", "MergeFilterScan", "SeqScanAsIndexScan">>
StarterRules == <<"MergeProjection", "MergeFilterNLJ", "NLJAsIndexJoin", "OrderByAsIndexScan",
                  "MergeFilterScan", "SeqScanAsIndexScan">>

IsColumn(e)   == e.op = "column"
IsConstant(e) == e.op = "constant"
IndexScan(table, column, pred, keys) ==
    [node |-> "index_scan", table |-> table, column |-> column, pred |-> pred, keys |-> keys, kids |-> <<>>]

---------------------------------------------------------------------------
\* A projection of all the columns in their order is its child.
MergeProjection(p) ==
    IF p.node = "projection" /\ p.exprs = AllColumns(p.kids[1]) THEN p.kids[1] ELSE p

\* A column of the joined row is a column of the left row or of the right one.
RECURSIVE RewriteExpressionForJoin(_, _)
RewriteExpressionForJoin(e, width) ==
    CASE IsColumn(e)   -> IF e.col <= width THEN [e EXCEPT !.side = 0]
                          ELSE [e EXCEPT !.side = 1, !.col = @ - width]
      [] IsConstant(e) -> e
      [] OTHER         -> [e EXCEPT !.args = [i \in DOMAIN e.args |->
                                                 RewriteExpressionForJoin(e.args[i], width)]]

IsPredicateTrue(e) == IsConstant(e) /\ e.val = TRUE

\* A filter over a join on TRUE becomes the condition of the join.
MergeFilterNLJ(p) ==
    IF p.node = "filter" /\ p.kids[1].node = "nested_loop_join" /\ IsPredicateTrue(p.kids[1].pred)
    THEN LET join == p.kids[1]
         IN  [join EXCEPT !.pred = RewriteExpressionForJoin(CHOOSE e \in p.pred : TRUE,
                                                            Columns(join.kids[1]))]
    ELSE p

---------------------------------------------------------------------------
\* Mutant: a disjunction is taken for a conjunction.
RECURSIVE ExtractEquiConditionsAny(_)
ExtractEquiConditionsAny(e) ==
    CASE e.op \in {"and", "or"} ->
           LET a == ExtractEquiConditionsAny(e.args[1])
               b == ExtractEquiConditionsAny(e.args[2])
           IN  IF <<>> \in {a, b} THEN <<>> ELSE a \o b
      [] e.op = "=" /\ IsColumn(e.args[1]) /\ IsColumn(e.args[2]) /\ e.args[1].side # e.args[2].side ->
           << IF e.args[1].side = 0 THEN e.args ELSE Reverse(e.args) >>
      [] OTHER -> <<>>

\* The conditions of a conjunction that all compare a column of the left
\* side with one of the right side, as pairs of them; <<>> if some do not.
RECURSIVE ExtractEquiConditions(_)
ExtractEquiConditions(e) ==
    CASE e.op = "and" ->
           LET a == ExtractEquiConditions(e.args[1])
               b == ExtractEquiConditions(e.args[2])
           IN  IF <<>> \in {a, b} THEN <<>> ELSE a \o b
      [] e.op = "=" /\ IsColumn(e.args[1]) /\ IsColumn(e.args[2]) /\ e.args[1].side # e.args[2].side ->
           << IF e.args[1].side = 0 THEN e.args ELSE Reverse(e.args) >>
      [] OTHER -> <<>>

NLJAsHashJoin(p) ==
    IF p.node = "nested_loop_join" /\ ExtractEquiConditions(p.pred) # <<>>
    THEN LET pairs == ExtractEquiConditions(p.pred)
         IN  [node |-> "hash_join", outer |-> p.outer, kids |-> p.kids,
              leftKeys  |-> [i \in DOMAIN pairs |-> pairs[i][1]],
              rightKeys |-> [i \in DOMAIN pairs |-> pairs[i][2]]]
    ELSE p

\* One equality, and an index on the right table's column: the right table
\* is looked up there for every row of the left child.
NLJAsIndexJoin(p) ==
    IF /\ p.node = "nested_loop_join"
       /\ p.pred.op = "="
       /\ Len(ExtractEquiConditions(p.pred)) = 1
       /\ p.kids[2].node = "seq_scan"
       /\ <<p.kids[2].table, ExtractEquiConditions(p.pred)[1][2].col>> \in Indexed
    THEN LET pair == ExtractEquiConditions(p.pred)[1]
         IN  [node |-> "nested_index_join", outer |-> p.outer, kids |-> <<p.kids[1]>>,
              key |-> pair[1], table |-> p.kids[2].table, column |-> pair[2].col]
    ELSE p

---------------------------------------------------------------------------
\* A table sorted by the column of an index is read in the order of the index.
OrderByAsIndexScan(p) ==
    IF /\ p.node = "sort"
       /\ \A i \in DOMAIN p.orderBy : ~p.orderBy[i].desc /\ IsColumn(p.orderBy[i].expr)
       /\ p.kids[1].node = "seq_scan"
       /\ Len(p.orderBy) = 1
       /\ <<p.kids[1].table, p.orderBy[1].expr.col>> \in Indexed
    THEN IndexScan(p.kids[1].table, p.orderBy[1].expr.col, {}, <<>>)
    ELSE p

MergeFilterScan(p) ==
    IF p.node = "filter" /\ p.kids[1].node = "seq_scan" /\ p.kids[1].pred = {}
    THEN [p.kids[1] EXCEPT !.pred = p.pred]
    ELSE p

\* The column and the constants of a disjunction of equalities between one
\* column and constants: [col, keys], with no keys when it is anything else.
RECURSIVE CollectEqualityKeys(_)
CollectEqualityKeys(e) ==
    LET nothing == [col |-> 0, keys |-> <<>>]
    IN  CASE e.op = "or" ->
               LET a == CollectEqualityKeys(e.args[1])
                   b == CollectEqualityKeys(e.args[2])
               IN  IF a.keys # <<>> /\ b.keys # <<>> /\ a.col = b.col
                   THEN [a EXCEPT !.keys = @ \o b.keys] ELSE nothing
          [] e.op = "=" /\ IsColumn(e.args[1]) /\ IsConstant(e.args[2]) ->
               [col |-> e.args[1].col, keys |-> <<e.args[2].val>>]
          [] e.op = "=" /\ IsConstant(e.args[1]) /\ IsColumn(e.args[2]) ->
               [col |-> e.args[2].col, keys |-> <<e.args[1].val>>]
          [] OTHER -> nothing

SeqScanAsIndexScan(p) ==
    IF p.node = "seq_scan" /\ p.pred # {}
    THEN LET found == CollectEqualityKeys(CHOOSE e \in p.pred : TRUE)
         IN  IF found.keys # <<>> /\ <<p.table, found.col>> \in Indexed
             THEN IndexScan(p.table, found.col, p.pred, found.keys)
             ELSE p
    ELSE p

---------------------------------------------------------------------------
AtNode(rule, p) ==
    CASE rule = "MergeProjection"    -> MergeProjection(p)
      [] rule = "MergeFilterNLJ"     -> MergeFilterNLJ(p)
      [] rule = "NLJAsHashJoin"      -> NLJAsHashJoin(p)
      [] rule = "NLJAsIndexJoin"     -> NLJAsIndexJoin(p)
      [] rule = "OrderByAsIndexScan" -> OrderByAsIndexScan(p)
      [] rule = "SortLimitAsTopN"    -> p
      [] rule = "MergeFilterScan"    -> MergeFilterScan(p)
      [] rule = "SeqScanAsIndexScan" -> SeqScanAsIndexScan(p)

RECURSIVE Rewrite(_, _)
Rewrite(rule, p) ==
    AtNode(rule, [p EXCEPT !.kids = [i \in DOMAIN p.kids |-> Rewrite(rule, p.kids[i])]])
=============================================================================
