----------------------------- MODULE Expressions -----------------------------
(***************************************************************************)
(* internal/expr: expression trees, their evaluation against a data frame, *)
(* and what the optimizer asks of them (UsedColumns, IsConstant, String).  *)
(*                                                                         *)
(* One kind stands for each way an expression can behave: a column, a      *)
(* literal, an alias, arithmetic, comparisons, and/or, a null test and a   *)
(* cumulative sum (a cell of which depends on the rows before it).         *)
(* A series that cannot be computed is NoSeries.                           *)
(***************************************************************************)
EXTENDS Frames

Col(name) == [kind |-> "col", name |-> name]
Lit(value, dtype) == [kind |-> "lit", dtype |-> dtype, value |-> value]
Alias(e, name) == [kind |-> "alias", inner |-> e, name |-> name]
BinaryOp(kind, l, r) == [kind |-> kind, left |-> l, right |-> r]
Add(l, r) == BinaryOp("add", l, r)
Gt(l, r) == BinaryOp("gt", l, r)
IsNull(e) == [kind |-> "isNull", inner |-> e]
CumSum(e) == [kind |-> "cumSum", inner |-> e]

Comparison == {"eq", "neq", "lt", "gt", "lte", "gte"}
Logical == {"and", "or"}
Binary == {"add"} \cup Comparison \cup Logical
Unary == {"alias", "isNull", "cumSum"}

NoSeries == Series("", "None", <<>>)
IsSeries(s) == s.dtype # "None"

\* A kernel over two columns: null wherever one of them is null
Cellwise(left, right, dtype, f(_, _)) ==
  Series(left.name, dtype,
         [p \in DOMAIN left.cells |->
            IF left.cells[p] = Null \/ right.cells[p] = Null THEN Null
            ELSE f(left.cells[p], right.cells[p])])

\* A literal is as long as the data frame, and is called "literal".
Broadcast(e, n) == Series("literal", e.dtype, [p \in 1..n |-> e.value])

(* A literal operand is a scalar, so the result has the other one's name   *)
(* (a scalar on the right is looked for first); otherwise the left's       *)
NamedBy(e, left, right) == IF e.right.kind # "lit" /\ e.left.kind = "lit" THEN right ELSE left

RunningSum(cells) ==
  [p \in DOMAIN cells |->
     IF cells[p] = Null THEN Null
     ELSE MapThenSumSet(LAMBDA q : cells[q], {q \in 1..p : cells[q] # Null})]

\* Booleans have no order; that of texts is left out.
Combinable(kind, left, right) ==
  /\ left = right
  /\ \/ left = "Int64" /\ kind \notin Logical
     \/ left = "Boolean" /\ kind \in Logical
     \/ left \in {"String", "Boolean"} /\ kind \in {"eq", "neq"}

Holds(kind, a, b) ==
  CASE kind = "eq" -> a = b
    [] kind = "neq" -> a # b
    [] kind = "lt" -> a < b
    [] kind = "gt" -> a > b
    [] kind = "lte" -> a <= b
    [] kind = "gte" -> a >= b
    [] kind = "and" -> a = 1 /\ b = 1
    [] kind = "or" -> a = 1 \/ b = 1

Combine(e, left, right) ==
  IF ~Combinable(e.kind, left.dtype, right.dtype) THEN NoSeries
  ELSE RenameSeries(
         IF e.kind = "add" THEN Cellwise(left, right, "Int64", LAMBDA a, b : a + b)
         ELSE Cellwise(left, right, "Boolean", LAMBDA a, b : IF Holds(e.kind, a, b) THEN 1 ELSE 0),
         NamedBy(e, left, right).name)

Transform(e, s) ==
  IF ~IsSeries(s) THEN NoSeries
  ELSE CASE e.kind = "alias" -> RenameSeries(s, e.name)
         [] e.kind = "isNull" ->
              Series(s.name, "Boolean", [p \in DOMAIN s.cells |-> IF s.cells[p] = Null THEN 1 ELSE 0])
         [] e.kind = "cumSum" ->
              IF s.dtype = "Int64" THEN [s EXCEPT !.cells = RunningSum(@)] ELSE NoSeries

(* Evaluate against df; a literal is broadcast to n rows                   *)
RECURSIVE EvaluateAt(_, _, _)
EvaluateAt(e, df, n) ==
  CASE e.kind = "col" -> IF Has(df, e.name) THEN Column(df, e.name) ELSE NoSeries
    [] e.kind = "lit" -> Broadcast(e, n)
    [] e.kind \in Unary -> Transform(e, EvaluateAt(e.inner, df, n))
    [] e.kind \in Binary -> Combine(e, EvaluateAt(e.left, df, n), EvaluateAt(e.right, df, n))

Evaluate(e, df) == EvaluateAt(e, df, Height(df))

\* Evaluate(nil): a literal has one row
EvaluateNil(e) == EvaluateAt(e, Frame(<<>>), 1)

\* Two lists of names as one, each name once, where it appears first
mergeStrings(a, b) ==
  FoldLeft(LAMBDA acc, name : IF name \in ToSet(acc) THEN acc ELSE Append(acc, name), <<>>, a \o b)

(* The columns an expression reads, each once, in the order they appear    *)
RECURSIVE UsedColumns(_)
UsedColumns(e) ==
  CASE e.kind = "col" -> <<e.name>>
    [] e.kind = "lit" -> <<>>
    [] e.kind \in Unary -> UsedColumns(e.inner)
    [] e.kind \in Binary -> mergeStrings(UsedColumns(e.left), UsedColumns(e.right))

(* String(), as far as it tells expressions apart: a literal prints its    *)
(* value without its type, so that 1, 1.0 and "1" print alike (a boolean   *)
(* prints a word); the rest is printed with names quoted and operands in   *)
(* parentheses.                                                            *)
RECURSIVE Printed(_)
Printed(e) ==
  CASE e.kind = "col" -> e
    [] e.kind = "lit" -> [kind |-> "lit", value |-> e.value, word |-> e.dtype = "Boolean"]
    [] e.kind \in Unary -> [e EXCEPT !.inner = Printed(@)]
    [] e.kind \in Binary -> [e EXCEPT !.left = Printed(@), !.right = Printed(@)]

RECURSIVE IsConstant(_)
IsConstant(e) ==
  CASE e.kind \in {"col", "cumSum"} -> FALSE
    [] e.kind = "lit" -> TRUE
    [] e.kind \in Unary \ {"cumSum"} -> IsConstant(e.inner)
    [] e.kind \in Binary -> IsConstant(e.left) /\ IsConstant(e.right)
=============================================================================
