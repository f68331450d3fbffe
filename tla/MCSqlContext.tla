----------------------------- MODULE MCSqlContext -----------------------------
(* Values for SqlContext.cfg: two tables with nulls, duplicates and names  *)
(* in common, in several versions, one with a boolean column, and queries  *)
(* with every clause and every aggregate.                                  *)
EXTENDS SqlMeaning

N(x) == <<x>>
Q(t, x) == <<t, ".", x>>
Ints(name, cells) == Series(N(name), "Int64", cells)
Texts(name, cells) == Series(N(name), "String", cells)
Bools(name, bits) == Series(N(name), "Boolean", bits)

MCInputs ==
  (N("t") :> {Frame(<<Ints("id", <<1, 2, Null, 2>>), Ints("v", <<3, Null, 1, 1>>), Texts("name", <<N("x"), N("y"), N("x"), N("AND")>>)>>),
              Frame(<<Ints("id", <<>>), Ints("v", <<>>), Texts("name", <<>>)>>),
              Frame(<<Ints("id", <<3, 2, 2, Null>>), Bools("ok", <<1, Null, 0, 1>>), Ints("v", <<1, 2, 4, 3>>),
                      Texts("name", <<N("y"), N("x"), N("y"), N("y")>>)>>)})
  @@ (N("u") :> {Frame(<<Ints("id", <<2, Null, 3>>), Ints("w", <<5, 1, 5>>)>>),
                 Frame(<<Ints("k", <<2, 2, 1>>), Ints("v", <<1, 2, Null>>)>>),
                 Frame(<<Ints("k", <<2, 1, 1>>), Ints("v", <<4, 3, 3>>), Ints("id", <<3, 4, 3>>), Ints("w", <<6, Null, 7>>)>>)})

MCSuffix == <<"_right">>

\* The statement of a SELECT list from t, to be extended
S(columns) == [NoStmt EXCEPT !.columns = columns, !.from = N("t")]
C(name) == SelectColumn(name, <<>>, <<>>)
CAs(name, alias) == SelectColumn(name, alias, <<>>)
Agg(fn, name, alias) == SelectColumn(name, alias, N(fn))
J(how, table, alias, l, r) == [alias |-> alias, how |-> how, leftOn |-> l, rightOn |-> r, table |-> table]
Asc(name) == [col |-> N(name), desc |-> FALSE]
Desc(name) == [col |-> N(name), desc |-> TRUE]

id == Col(N("id"))
v == Col(N("v"))
name == Col(N("name"))
ok == Col(N("ok"))
I(n) == Lit(n, "Int64")
T(x) == Lit(N(x), "String")
And(e, f) == BinaryOp("and", e, f)
Or(e, f) == BinaryOp("or", e, f)

All == [NoStmt EXCEPT !.selectAll = TRUE, !.from = N("t")]

MCStatements ==
  {All,
   [All EXCEPT !.orderBy = <<Desc("v"), Asc("id")>>, !.limit = 2],
   [All EXCEPT !.where = BinaryOp("gte", v, I(1)), !.orderBy = <<Asc("id")>>],
   S(<<C(N("v")), CAs(N("id"), N("key"))>>),
   [S(<<CAs(N("v"), N("id")), C(N("name"))>>) EXCEPT !.orderBy = <<Desc("id")>>, !.limit = 3],
   [S(<<C(Q("a", "v"))>>) EXCEPT !.alias = N("a"), !.where = Or(BinaryOp("eq", name, T("x")), And(BinaryOp("neq", id, I(2)), BinaryOp("lt", v, I(3))))],
   [S(<<C(N("v"))>>) EXCEPT !.where = And(Or(BinaryOp("lte", id, I(1)), BinaryOp("eq", T("AND"), name)), BinaryOp("gt", v, I(-1)))],
   [S(<<C(N("v"))>>) EXCEPT !.where = And(And(BinaryOp("gt", id, I(0)), BinaryOp("gt", v, I(0))), BinaryOp("gt", id, v))],
   [S(<<C(N("v"))>>) EXCEPT !.where = Or(And(BinaryOp("eq", id, I(5)), BinaryOp("eq", v, I(3))), BinaryOp("eq", v, I(1)))],
   [S(<<C(N("name")), Agg("COUNT", N("id"), N("id")), Agg("SUM", N("v"), N("total"))>>) EXCEPT
      !.groupBy = <<N("name")>>, !.orderBy = <<Desc("total")>>],
   [S(<<C(N("id")), C(N("v")), Agg("COUNT", N("name"), N("n"))>>) EXCEPT !.groupBy = <<N("id"), N("v")>>],
   [S(<<C(N("name")), Agg("MIN", N("v"), N("least")), Agg("MAX", N("v"), N("most"))>>) EXCEPT !.groupBy = <<N("name")>>],
   [S(<<C(N("name")), Agg("AVG", N("v"), N("mean")), Agg("MEAN", N("id"), N("id"))>>) EXCEPT
      !.groupBy = <<N("name")>>, !.orderBy = <<Asc("mean"), Desc("id")>>],
   [S(<<Agg("FIRST", N("v"), N("first")), C(N("name")), Agg("LAST", N("id"), N("last"))>>) EXCEPT !.groupBy = <<N("name")>>],
   [S(<<C(N("id")), Agg("FIRST", N("w"), N("w")), Agg("LAST", N("name"), N("last"))>>) EXCEPT
      !.joins = <<J("FULL", N("u"), <<>>, N("id"), N("id"))>>, !.groupBy = <<N("id")>>],
   [All EXCEPT !.where = Or(ok, BinaryOp("lt", v, I(4)))],
   [S(<<C(N("name")), Agg("COUNT", N("ok"), N("n")), Agg("MAX", N("v"), N("most"))>>) EXCEPT
      !.where = BinaryOp("gt", v, I(0)), !.groupBy = <<N("name")>>, !.orderBy = <<Desc("most")>>],
   [S(<<C(N("id")), Agg("FIRST", N("v"), N("v"))>>) EXCEPT !.groupBy = <<N("id")>>, !.orderBy = <<Desc("id")>>],
   [S(<<C(N("ok")), Agg("FIRST", N("v"), N("v"))>>) EXCEPT !.groupBy = <<N("ok")>>],
   [S(<<C(N("id")), Agg("LAST", N("ok"), N("ok"))>>) EXCEPT !.groupBy = <<N("id")>>],
   [All EXCEPT !.joins = <<J("INNER", N("u"), <<>>, Q("t", "id"), Q("u", "id"))>>],
   [S(<<C(Q("a", "id")), C(N("w"))>>) EXCEPT !.alias = N("a"),
      !.joins = <<J("LEFT", N("u"), N("b"), N("id"), N("id"))>>, !.orderBy = <<Asc("id")>>],
   [S(<<C(N("id")), C(N("w"))>>) EXCEPT !.joins = <<J("RIGHT", N("u"), <<>>, N("id"), N("id"))>>,
      !.where = BinaryOp("gt", id, I(0))],
   [S(<<C(N("id")), Agg("SUM", N("w"), N("w"))>>) EXCEPT
      !.joins = <<J("FULL", N("u"), N("b"), Q("t", "id"), Q("b", "id"))>>, !.groupBy = <<N("id")>>],
   [S(<<C(Q("t", "v")), CAs(Q("b", "v"), N("other")), C(Q("c", "w"))>>) EXCEPT
      !.joins = <<J("INNER", N("u"), N("b"), N("id"), N("k")), J("LEFT", N("u"), N("c"), Q("b", "v"), N("id"))>>],
   [S(<<C(Q("t", "id")), C(Q("b", "v"))>>) EXCEPT !.joins = <<J("LEFT", N("u"), N("b"), N("v"), N("k"))>>],
   [S(<<C(N("v"))>>) EXCEPT !.joins = <<J("CROSS", N("u"), <<>>, <<>>, <<>>)>>]}

\* Texts that no statement stands for
MCTexts ==
  {<<>>, <<"SELECT", " ", "v">>, <<"SELECT", " ", "SUM", "(", "v", " ", "FROM", " ", "t">>,
   <<"SELECT", " ", "v", " ", "FROM", " ", "t", " ", "WHERE", " ", "(", "v", "<", ">", "1", ";">>,
   <<"SELECT", " ", "v", " ", "FROM", " ", "t", " ", "LIMIT", " ", "v">>,
   <<"SELECT", " ", "v", " ", "FROM", " ", "t", " ", "GROUP", " ", "v">>,
   <<"SELECT", " ", "v", " ", "FROM", " ", "t", " ", "ORDER", " ", "v">>,
   <<"SELECT", " ", "v", " ", "FROM", " ", "t", " ", "LEFT", " ", "u">>,
   <<"SELECT", " ", "TOP", "(", "v", ")", " ", "FROM", " ", "t", " ", "GROUP", " ", "BY", " ", "v">>,
   <<"SELECT", " ", "t", ".", "v", " ", "AS", " ", "id", "_", "t", ",", "t", ".", "id", ",", "u", ".", "id", " ",
     "FROM", " ", "t", " ", "CROSS", " ", "JOIN", " ", "u", " ", "ON", " ", "id", "=", "id", " ", "LIMIT", " ", "1">>,
   <<"SELECT", " ", "SUM", "(", "v", ")", ",", "COUNT", "(", "v", ")", " ", "FROM", " ", "t", " ", "GROUP", " ", "BY", " ", "name", " ", "LIMIT", " ", "-", "1">>}

MCQueries ==
  {[stmt |-> s, text |-> Text(s)] : s \in MCStatements} \cup {[stmt |-> nil, text |-> text] : text \in MCTexts}
=============================================================================
