------------------------------ MODULE MCQuery ------------------------------
(***************************************************************************)
(* Statements over t(k, v) and u(k, w), both with an index on k.           *)
(***************************************************************************)
EXTENDS Query

MCWidth == [t |-> 2, u |-> 2]
MCIndexed == {<<"t", 1>>, <<"u", 1>>}

Op(f, a, b) == [op |-> f, args |-> <<a, b>>]
Eq(a, b) == Op("=", a, b)
C(i) == Column(i)
R(i) == [op |-> "column", side |-> 1, col |-> i]
K(x) == Constant(x)

Table(name)           == [kind |-> "table", table |-> name]
Cross(a, b)           == [kind |-> "cross", left |-> a, right |-> b]
Join(a, b, on)        == [kind |-> "join", outer |-> FALSE, on |-> on, left |-> a, right |-> b]
LeftJoin(a, b, on)    == [kind |-> "join", outer |-> TRUE, on |-> on, left |-> a, right |-> b]
Subquery(s)           == [kind |-> "subquery", stmt |-> s]
Values(rows)          == [kind |-> "values", rows |-> rows]

Cs(n) == [i \in 1..n |-> C(i)]
From(ref, select) ==
    [select |-> select, from |-> ref, where |-> {}, groupBy |-> <<>>, aggregates |-> <<>>, having |-> {},
     distinct |-> FALSE, orderBy |-> <<>>, limit |-> {}]
Where(s, e)   == [s EXCEPT !.where = {e}]
OrderBy(s, i, desc) == [s EXCEPT !.orderBy = <<[expr |-> C(i), desc |-> desc]>>]
Limit(s, n)   == [s EXCEPT !.limit = {n}]
Grouping(s, by, aggs, having) == [s EXCEPT !.groupBy = by, !.aggregates = aggs, !.having = having]
Agg(f, e)     == [f |-> f, expr |-> e]

T == Table("t")
U == Table("u")
AllOfT == From(T, Cs(2))

\* v, COUNT( * ), SUM(k) GROUP BY v
ByV(table, having) ==
    Grouping(From(table, Cs(3)), <<C(2)>>, <<Agg("count(*)", K(1)), Agg("sum", C(1))>>, having)

Scans ==
    {AllOfT, From(T, <<C(2), Op("+", C(1), K(1))>>),
     Where(AllOfT, Op("or", Eq(C(1), K(2)), Op("or", Eq(K(1), C(1)), Eq(C(1), K(2))))),
     Where(AllOfT, Op("and", Eq(C(1), K(2)), Eq(C(2), K(1)))),
     Where(AllOfT, Op("or", Op("<>", C(2), K(1)), Op("<", C(1), K(2)))),
     Where(From(T, <<C(1)>>), Op("or", Eq(C(2), K(1)), Eq(C(1), K(3)))),
     From(Values(<< <<1, Null>>, <<2, 2>>, <<3, 1>> >>), <<C(2), C(1)>>)}

Orders ==
    {OrderBy(AllOfT, 1, FALSE), OrderBy(AllOfT, 1, TRUE), OrderBy(AllOfT, 2, FALSE), OrderBy(AllOfT, 2, TRUE),
     Limit(OrderBy(AllOfT, 1, FALSE), 2), Limit(OrderBy(AllOfT, 1, TRUE), 3),
     Limit(Where(AllOfT, Op(">", C(1), K(1))), 1), OrderBy(Where(AllOfT, Op(">=", C(1), K(2))), 1, FALSE)}

Groups ==
    {ByV(T, {}), ByV(T, {Op(">", C(2), K(1))}),
     Grouping(From(T, Cs(3)), <<>>, <<Agg("count", C(2)), Agg("min", C(2)), Agg("max", C(1))>>, {}),
     [From(T, <<C(2)>>) EXCEPT !.distinct = TRUE],
     OrderBy([From(U, <<C(2)>>) EXCEPT !.distinct = TRUE], 1, TRUE)}

Joins ==
    {From(Cross(T, U), Cs(4)),
     Where(From(Cross(T, U), Cs(4)), Eq(C(2), C(3))),
     Where(From(Cross(T, U), <<C(4), C(1)>>), Op("and", Eq(C(3), C(1)), Eq(C(2), C(4)))),
     Where(From(Cross(T, U), Cs(4)), Op("or", Eq(C(3), C(1)), Eq(C(2), C(4)))),
     Where(From(Cross(T, U), Cs(4)), Op("and", Eq(C(3), C(1)), Eq(C(2), K(1)))),
     From(Join(T, U, Eq(R(1), C(2))), Cs(4)),
     Where(From(Join(T, U, Op("<>", C(1), R(1))), Cs(4)), Op(">", C(3), K(1))),
     From(LeftJoin(T, U, Eq(C(2), R(1))), Cs(4)),
     From(LeftJoin(T, U, Eq(R(2), C(2))), Cs(4)),
     From(LeftJoin(T, U, Op("<", C(1), R(1))), Cs(4)),
     Where(From(LeftJoin(T, U, Eq(C(2), R(1))), Cs(4)), Op(">", C(1), K(1))),
     Limit(Where(From(LeftJoin(T, U, Op("<>", C(1), R(1))), <<C(3), C(1)>>), Op("<>", C(1), K(2))), 3)}

Nested ==
    {From(Cross(U, Subquery(ByV(T, {Op(">", C(2), K(1))}))), Cs(5)),
     Where(From(Cross(Cross(T, U), Subquery(From(T, <<C(2)>>))), Cs(5)), Op("and", Eq(C(1), C(3)), Eq(C(2), C(5)))),
     From(Join(U, Subquery(Limit(OrderBy(AllOfT, 1, TRUE), 2)), Op("<>", C(1), R(1))), Cs(4)),
     From(LeftJoin(Subquery(ByV(T, {})), Subquery(Where(From(U, Cs(2)), Eq(C(1), K(2)))), Eq(C(1), R(2))), Cs(5)),
     ByV(Subquery(Where(From(Cross(T, U), <<C(1), C(4)>>), Op("<>", C(1), C(3)))), {})}

MCStatements == Scans \cup Orders \cup Groups \cup Joins \cup Nested

\* The rows of a table in the order of their slots.
Filled(keys, values) == [i \in DOMAIN keys |-> <<keys[i], values[i]>>]

MCDatabases ==
    {[t |-> Filled(<<3, 1, 2>>, a), u |-> Filled(<<2, 1, 3>>, b)] :
        a \in {<<1, 2, 1>>, <<Null, 1, 1>>, <<2, Null, Null>>, <<2, 2, 2>>, <<1, 2, Null>>,
               <<Null, 1, 2>>, <<1, 1, 2>>},
        b \in {<<1, 2, 1>>, <<Null, 2, 2>>, <<2, 2, Null>>}}
    \cup {[t |-> a, u |-> b] : a \in {<<>>, << <<2, 1>> >>}, b \in {<<>>, << <<1, Null>> >>}}
=============================================================================
