------------------------------- MODULE Query -------------------------------
(***************************************************************************)
(* A SELECT statement on its way through the engine: BusTubInstance plans  *)
(* it and lets the optimizer rewrite the plan, ExecutionEngine creates the *)
(* executors, starts them and polls the root until it has no more rows.    *)
(***************************************************************************)
EXTENDS Optimizer, Executors

CONSTANTS
    Statements,      \* the statements asked
    Databases        \* what the tables may hold

VARIABLES
    asked,           \* the statement
    db,              \* the tables
    starter,         \* force_optimizer_starter_rule
    plan,            \* {} or the plan so far
    rules,           \* the rules the optimizer has yet to apply
    exec,            \* {} or the root executor
    out,             \* result_set
    done             \* the root had no more rows

vars == <<asked, db, starter, plan, rules, exec, out, done>>

Tree == CHOOSE p \in plan : TRUE
Root == CHOOSE x \in exec : TRUE

---------------------------------------------------------------------------
Begin ==
    /\ asked \in Statements
    /\ db \in Databases
    /\ starter \in BOOLEAN
    /\ plan = {} /\ rules = <<>>
    /\ exec = {} /\ out = <<>> /\ done = FALSE

PlanQuery ==
    /\ plan = {}
    /\ plan' = {PlanSelect(asked)}
    /\ rules' = IF starter THEN StarterRules ELSE CustomRules
    /\ UNCHANGED <<asked, db, starter, exec, out, done>>

Optimize ==
    /\ rules # <<>>
    /\ plan' = {Rewrite(Head(rules), Tree)}
    /\ rules' = Tail(rules)
    /\ UNCHANGED <<asked, db, starter, exec, out, done>>

StartExecutors ==
    /\ plan # {} /\ rules = <<>> /\ exec = {}
    /\ \E x \in Init(Tree, CreateExecutor(Tree), db) : exec' = {x}
    /\ UNCHANGED <<asked, db, starter, plan, rules, out, done>>

\* Mutant: the loop goes on once it has rows.
PollOnceAnswered ==
    /\ exec # {} /\ ~done
    /\ \E r \in Next(Tree, Root, BatchSize, db) :
          /\ exec' = {r.exec}
          /\ out' = out \o r.rows
          /\ done' = (out' = <<>>)
    /\ UNCHANGED <<asked, db, starter, plan, rules>>

\* PollExecutor: one round of its loop.
PollExecutor ==
    /\ exec # {} /\ ~done
    /\ \E r \in Next(Tree, Root, BatchSize, db) :
          /\ exec' = {r.exec}
          /\ out' = out \o r.rows
          /\ done' = ~r.more
    /\ UNCHANGED <<asked, db, starter, plan, rules>>

Step == PlanQuery \/ Optimize \/ StartExecutors \/ PollExecutor

\* One thread plans and polls, and nothing it calls waits for another one.
Spec == Begin /\ [][Step]_vars /\ WF_vars(Step)

---------------------------------------------------------------------------
(* Properties.                                                             *)

RECURSIVE ExprFits(_, _, _)
ExprFits(e, left, right) ==
    CASE IsColumn(e)   -> e.col \in 1..(IF e.side = 0 THEN left ELSE right)
      [] IsConstant(e) -> TRUE
      [] OTHER         -> \A i \in DOMAIN e.args : ExprFits(e.args[i], left, right)

\* Every column a plan node names is a column of the rows it reads.
RECURSIVE WellFormed(_)
WellFormed(p) ==
    LET w(i) == Columns(p.kids[i])
        fits(e) == ExprFits(e, w(1), 0)
    IN  /\ \A i \in DOMAIN p.kids : WellFormed(p.kids[i])
        /\ CASE p.node = "filter"            -> \A e \in p.pred : fits(e)
             [] p.node = "projection"        -> \A i \in DOMAIN p.exprs : fits(p.exprs[i])
             [] p.node = "sort"              -> \A i \in DOMAIN p.orderBy : fits(p.orderBy[i].expr)
             [] p.node = "aggregation"       -> /\ \A i \in DOMAIN p.groupBy : fits(p.groupBy[i])
                                                /\ \A i \in DOMAIN p.aggregates : fits(p.aggregates[i].expr)
             [] p.node = "nested_loop_join"  -> ExprFits(p.pred, w(1), w(2))
             [] p.node = "hash_join"         -> \A i \in DOMAIN p.leftKeys :
                                                   /\ ExprFits(p.leftKeys[i], w(1), 0)
                                                   /\ ExprFits(p.rightKeys[i], 0, w(2))
             [] p.node = "nested_index_join" -> fits(p.key) /\ <<p.table, p.column>> \in Indexed
             [] p.node = "index_scan"        -> /\ \A e \in p.pred : ExprFits(e, Width[p.table], 0)
                                                /\ <<p.table, p.column>> \in Indexed
             [] p.node = "seq_scan"          -> \A e \in p.pred : ExprFits(e, Width[p.table], 0)
             [] OTHER                        -> TRUE

\* Through all the rewriting, a column number stays one of the node's input:
\* merge_filter_nlj.cpp and seqscan_as_indexscan.cpp renumber and move them.
TypeOK ==
    /\ asked \in Statements /\ db \in Databases
    /\ starter \in BOOLEAN /\ done \in BOOLEAN
    /\ \A p \in plan : WellFormed(p) /\ Columns(p) = Len(asked.select)
    /\ \A i \in DOMAIN out : Len(out[i]) = Len(asked.select)

\* Whatever rules have been applied, in either pipeline, the plan they leave
\* is well formed and gives an answer to the statement: no rule relies on a
\* later one to mend what it did.
RulesKeepAnswer ==
    /\ TypeOK
    /\ exec = {} => \A p \in plan : \A rows \in Execute(p, db) : Answers(asked, db, rows)

\* What the poll loop has collected when it ends answers the statement, batch
\* boundaries, restarted inner sides and left-over rows notwithstanding.
AnswerIsRight == done => Answers(asked, db, out)

\* The poll loop ends.
QueryEnds == <>done
=============================================================================
