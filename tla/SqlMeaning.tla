------------------------------ MODULE SqlMeaning ------------------------------
(***************************************************************************)
(* What a SELECT statement means, said without the steps of the program:   *)
(* rows are functions from names to cells, and a table, a join or a group  *)
(* is a function from whatever identifies its rows to the rows.  Also how  *)
(* a statement is written, and the properties of SqlContext.               *)
(***************************************************************************)
EXTENDS SqlContext

-----------------------------------------------------------------------------
(* Writing a statement: only the parentheses that AND before OR needs      *)

SymbolOf == [k \in Comparison |-> CHOOSE op \in DOMAIN KindOf : KindOf[op] = k]

Spaced(words) == FlattenSeq([k \in DOMAIN words |-> words[k] \o <<" ">>])
Listed(items) == FlattenSeq([k \in DOMAIN items |-> IF k = 1 THEN items[k] ELSE <<",">> \o items[k]])

RECURSIVE Written(_)
Written(e) ==
  LET operand(f) == IF e.kind = "and" /\ f.kind = "or" THEN <<"(">> \o Written(f) \o <<")">> ELSE Written(f)
  IN  CASE e.kind = "col" -> e.name
        [] e.kind = "lit" /\ e.dtype = "String" -> <<"'">> \o e.value \o <<"'">>
        [] e.kind = "lit" /\ e.dtype = "Int64" -> IF e.value < 0 THEN <<"-", ToString(-e.value)>> ELSE <<ToString(e.value)>>
        [] e.kind \in Comparison -> Spaced(<<Written(e.left), SymbolOf[e.kind], Written(e.right)>>)
        [] e.kind = "and" -> Spaced(<<operand(e.left), <<"AND">>, operand(e.right)>>)
        [] e.kind = "or" -> Spaced(<<operand(e.left), <<"OR">>, operand(e.right)>>)

As(c) == IF c.alias = <<>> THEN <<>> ELSE <<" ", "AS", " ">> \o c.alias
WrittenColumn(c) == (IF c.agg = <<>> THEN c.name ELSE c.agg \o <<"(">> \o c.name \o <<")">>) \o As(c)
WrittenJoin(j) ==
  Spaced(<<<<j.how>>, <<"JOIN">>, j.table, j.alias>>)
  \o (IF j.leftOn = <<>> THEN <<>> ELSE Spaced(<<<<"ON">>, j.leftOn, <<"=">>, j.rightOn>>))
WrittenOrder(o) == o.col \o (IF o.desc THEN <<" ", "DESC">> ELSE <<>>)

Text(s) ==
  LET clause(words, items) == IF items = <<>> THEN <<>> ELSE Spaced(words \o <<Listed(items)>>)
  IN  Spaced(<<<<"SELECT">>, IF s.selectAll THEN <<"*">> ELSE Listed([k \in DOMAIN s.columns |-> WrittenColumn(s.columns[k])]),
               <<"FROM">>, s.from, s.alias>>)
      \o FlattenSeq([k \in DOMAIN s.joins |-> WrittenJoin(s.joins[k])])
      \o (IF s.where = nil THEN <<>> ELSE Spaced(<<<<"WHERE">>, Written(s.where)>>))
      \o clause(<<<<"GROUP">>, <<"BY">>>>, s.groupBy)
      \o clause(<<<<"ORDER">>, <<"BY">>>>, [k \in DOMAIN s.orderBy |-> WrittenOrder(s.orderBy[k])])
      \o (IF s.limit = 0 THEN <<>> ELSE Spaced(<<<<"LIMIT">>, <<ToString(s.limit)>>>>))

-----------------------------------------------------------------------------
(* Names                                                                   *)

\* The tables of a statement, in the order in which they are joined
Sources(s) ==
  <<[alias |-> AliasOr(s.alias, s.from), table |-> s.from]>>
  \o [k \in DOMAIN s.joins |-> [alias |-> AliasOr(s.joins[k].alias, s.joins[k].table), table |-> s.joins[k].table]]

NamesOf(source) == {source.alias \o <<".">> \o n : n \in Names(tables[source.table])}
NamesUpTo(s, k) == UNION {NamesOf(Sources(s)[l]) : l \in 1..k}
LeftKey(s, k) == KeyName(s.joins[k].leftOn, Sources(s)[1].alias)
RightKey(s, k) == KeyName(s.joins[k].rightOn, Sources(s)[k+1].alias)
RightKeysUpTo(s, k) == {RightKey(s, l) : l \in 1..k}

\* A join leaves its right key out, the left one stands for both.
Visible(s) == NamesUpTo(s, Len(s.joins) + 1) \ RightKeysUpTo(s, Len(s.joins))
Candidates(s, n) == {m \in Visible(s) : m = n \/ (~Dotted(n) /\ IsSuffix(<<".">> \o n, m))}
Full(s, n) == CHOOSE m \in Candidates(s, n) : TRUE

Outputs(s) == IF s.selectAll THEN {SelectColumn(n, <<>>, <<>>) : n \in Visible(s)} ELSE ToSet(s.columns)
OutName(c) == IF c.alias # <<>> THEN c.alias ELSE Last(Parts(c.name))

\* The output an ORDER BY item names, by its alias or its column
Ordering(s, item) == {c \in Outputs(s) : c.alias = item.col \/ Full(s, c.name) \in Candidates(s, item.col)}

-----------------------------------------------------------------------------
(* Rows                                                                    *)

Row(frame, r, alias) ==
  [n \in {alias \o <<".">> \o m : m \in Names(frame)} |->
     Column(frame, SubSeq(n, Len(alias) + 2, Len(n))).cells[r]]

NullRow(names) == [n \in names |-> Null]

\* The rows of the first k tables, joined
RECURSIVE JoinedRows(_, _)
JoinedRows(s, k) ==
  LET source == Sources(s)[k]
      own == [r \in 1..Height(tables[source.table]) |-> Row(tables[source.table], r, source.alias)]
  IN  IF k = 1 THEN own
      ELSE LET j == s.joins[k-1]
               before == JoinedRows(s, k - 1)
               lk == LeftKey(s, k - 1)
               rk == RightKey(s, k - 1)
               pairs == {<<i, r>> \in (DOMAIN before) \X (DOMAIN own) : before[i][lk] = own[r][rk]}
               leftOnly == {<<i, nil>> : i \in {i \in DOMAIN before : \A p \in pairs : p[1] # i}}
               rightOnly == {<<nil, r>> : r \in {r \in DOMAIN own : \A p \in pairs : p[2] # r}}
               l(p) == IF p[1] = nil THEN [NullRow(NamesUpTo(s, k - 1)) EXCEPT ![lk] = own[p[2]][rk]] ELSE before[p[1]]
               r(p) == IF p[2] = nil THEN NullRow(NamesOf(source)) ELSE own[p[2]]
           IN  [p \in pairs \cup (IF j.how \in {"LEFT", "FULL"} THEN leftOnly ELSE {})
                            \cup (IF j.how \in {"RIGHT", "FULL"} THEN rightOnly ELSE {}) |-> l(p) @@ r(p)]

RECURSIVE ValueIn(_, _, _)
ValueIn(s, e, row) ==
  CASE e.kind = "col" -> row[Full(s, e.name)]
    [] e.kind = "lit" -> e.value
    [] e.kind \in Binary -> IF Holds(e.kind, ValueIn(s, e.left, row), ValueIn(s, e.right, row)) THEN 1 ELSE 0

(* A condition passes a row when every column it reads has a value and it  *)
(* is true of them: nulls are not SQL's third truth value.                 *)
Passes(s, row) ==
  s.where # nil =>
    /\ \A n \in ToSet(UsedColumns(s.where)) : row[Full(s, n)] # Null
    /\ ValueIn(s, s.where, row) = 1

Selected(s) ==
  LET rows == JoinedRows(s, Len(s.joins) + 1)
  IN  [i \in {i \in DOMAIN rows : Passes(s, rows[i])} |-> rows[i]]

(* A table has an order of its rows, and a join that of its left rows; the *)
(* matches of one come in the order of the right rows, the right rows      *)
(* without a match at the end.                                             *)
RECURSIVE Earlier(_, _, _)
Earlier(k, p, q) ==
  IF k = 1 THEN p < q
  ELSE IF p[1] = q[1] THEN p[2] < q[2]
  ELSE p[1] # nil /\ (q[1] = nil \/ Earlier(k - 1, p[1], q[1]))

(* What an aggregate makes of the values that some rows have: a mean times *)
(* their number is their sum                                               *)
Summary(s, fn, value) ==
  LET ids == DOMAIN value
      vals == Range(value)
      total == MapThenSumSet(LAMBDA i : value[i], ids)
      least == CHOOSE x \in vals : \A y \in vals : x <= y
      most == CHOOSE x \in vals : \A y \in vals : x >= y
      before(i, j) == Earlier(Len(s.joins) + 1, i, j)
  IN  IF fn = "COUNT" THEN Cardinality(ids)
      ELSE IF ids = {} THEN Null
      ELSE CASE fn = "SUM" -> total
             [] fn \in {"AVG", "MEAN"} ->
                  CHOOSE m \in MeanParts * least..MeanParts * most : m * Cardinality(ids) = MeanParts * total
             [] fn = "MIN" -> least
             [] fn = "MAX" -> most
             [] fn = "FIRST" -> value[CHOOSE i \in ids : \A j \in ids \ {i} : before(i, j)]
             [] fn = "LAST" -> value[CHOOSE i \in ids : \A j \in ids \ {i} : before(j, i)]

\* One output row per row, or per group of rows with the same keys
Meaning(s) ==
  LET rows == Selected(s)
      keys == {Full(s, n) : n \in ToSet(s.groupBy)}
      keyOf(i) == [n \in keys |-> rows[i][n]]
      column(out) == CHOOSE c \in Outputs(s) : OutName(c) = out
      outs == {OutName(c) : c \in Outputs(s)}
      cell(g, c) ==
        IF c.agg = <<>> THEN g[Full(s, c.name)]
        ELSE LET valued == {i \in DOMAIN rows : keyOf(i) = g /\ rows[i][Full(s, c.name)] # Null}
             IN  Summary(s, c.agg[1], [i \in valued |-> rows[i][Full(s, c.name)]])
  IN  IF s.groupBy = <<>>
        THEN [i \in DOMAIN rows |-> [out \in outs |-> rows[i][Full(s, column(out).name)]]]
        ELSE [g \in {keyOf(i) : i \in DOMAIN rows} |-> [out \in outs |-> cell(g, column(out))]]

-----------------------------------------------------------------------------
(* The statements the program is right about                               *)

\* An AND that is followed by an OR would take it into its right operand.
RECURSIVE EndsInAnd(_), WellGrouped(_)
EndsInAnd(e) == e.kind = "and" \/ (e.kind = "or" /\ EndsInAnd(e.right))
WellGrouped(e) ==
  /\ e.kind = "or" => ~EndsInAnd(e.left)
  /\ e.kind \in Binary => WellGrouped(e.left) /\ WellGrouped(e.right)

(* What the writer writes: comparisons of columns and literals, without    *)
(* parentheses around an operand, and texts without a quote                *)
RECURSIVE Writable(_)
Writable(e) ==
  CASE e.kind = "lit" -> e.dtype = "Int64" \/ (e.dtype = "String" /\ "'" \notin ToSet(e.value))
    [] e.kind \in Comparison -> \A f \in {e.left, e.right} : f.kind \in {"col", "lit"} /\ Writable(f)
    [] e.kind \in Logical -> Writable(e.left) /\ Writable(e.right)
    [] OTHER -> e.kind = "col"

(* What the grammar of the parser can express, as the writer writes it     *)
(* (never with an AS before the alias of a table)                          *)
Expressible(s) ==
  /\ s.where # nil => Writable(s.where)
  /\ \A k \in DOMAIN s.joins : s.joins[k].leftOn # <<>>
  /\ \A n \in ToSet(s.groupBy) \cup {o.col : o \in ToSet(s.orderBy)} : ~Dotted(n)
  /\ \A c \in ToSet(s.columns) : c.agg # <<>> => ~Dotted(c.name)
  /\ s.limit >= 0

NamesResolve(s) ==
  /\ \A k \in DOMAIN Sources(s) : Sources(s)[k].table \in DOMAIN tables
  /\ \A k, l \in DOMAIN Sources(s) : Sources(s)[k].alias = Sources(s)[l].alias => k = l
  /\ \A k \in DOMAIN s.joins :
       /\ s.joins[k].how # "CROSS"
       /\ LeftKey(s, k) \in NamesUpTo(s, k) \ RightKeysUpTo(s, k - 1)
       /\ RightKey(s, k) \in NamesOf(Sources(s)[k+1])
  /\ \A n \in {c.name : c \in Outputs(s)} \cup ToSet(s.groupBy)
              \cup (IF s.where = nil THEN {} ELSE ToSet(UsedColumns(s.where))) :
       Cardinality(Candidates(s, n)) = 1
  /\ \A item \in ToSet(s.orderBy) : Cardinality(Ordering(s, item)) = 1
  /\ \A c, d \in Outputs(s) : OutName(c) = OutName(d) => c = d

\* Aggregates only of groups, one for a column, beside the keys
GroupsWell(s) ==
  LET keys == {Full(s, n) : n \in ToSet(s.groupBy)}
      plain == {c \in Outputs(s) : c.agg = <<>>}
      aggregated == Outputs(s) \ plain
  IN  IF s.groupBy = <<>> THEN aggregated = {}
      ELSE /\ {Full(s, c.name) : c \in plain} = keys
           /\ \A c \in aggregated : c.agg[1] \in AggNames /\ Full(s, c.name) \notin keys
           /\ \A c, d \in aggregated : Full(s, c.name) = Full(s, d.name) => c = d

\* The data type of a column of the joined tables
TypeOf(s, n) ==
  LET source == Sources(s)[CHOOSE k \in DOMAIN Sources(s) : n \in NamesOf(Sources(s)[k])]
  IN  Column(tables[source.table], SubSeq(n, Len(source.alias) + 2, Len(n))).dtype

RECURSIVE TypeIn(_, _)
TypeIn(s, e) ==
  CASE e.kind = "col" -> TypeOf(s, Full(s, e.name))
    [] e.kind = "lit" -> e.dtype
    [] e.kind \in Binary ->
         IF Combinable(e.kind, TypeIn(s, e.left), TypeIn(s, e.right)) THEN "Boolean" ELSE "None"

(* The types that the operations have a case for.  A condition compares    *)
(* numbers with numbers, and texts and booleans for equality.  Sorting and *)
(* grouping take rows with Series.Take, which leaves boolean columns as    *)
(* they are: none may be in the rows to be sorted or among the keys.  FIRST*)
(* and LAST are of numbers and texts, what computes is of numbers; and     *)
(* ORDER BY is by numbers (texts have an order in the program, none here). *)
TypesWell(s) ==
  LET type(n) == TypeOf(s, Full(s, n))
      ordering == UNION {Ordering(s, item) : item \in ToSet(s.orderBy)}
      valueOf(c) == c.agg = <<>> \/ c.agg[1] \in {"FIRST", "LAST"}
  IN  /\ s.where # nil => TypeIn(s, s.where) = "Boolean"
      /\ \A k \in DOMAIN s.joins :
           TypeOf(s, LeftKey(s, k)) = TypeOf(s, RightKey(s, k)) /\ TypeOf(s, LeftKey(s, k)) # "Boolean"
      /\ s.orderBy # <<>> /\ s.groupBy = <<>> => \A n \in Visible(s) : TypeOf(s, n) # "Boolean"
      /\ \A n \in ToSet(s.groupBy) : type(n) # "Boolean"
      /\ \A c \in Outputs(s) :
           /\ c.agg \in {<<"FIRST">>, <<"LAST">>} => type(c.name) \in {"Int64", "String"}
           /\ ~valueOf(c) /\ c.agg # <<"COUNT">> => type(c.name) = "Int64"
      /\ \A c \in ordering : valueOf(c) => type(c.name) = "Int64"

WellFormed(s) ==
  /\ Expressible(s)
  /\ s.where # nil => WellGrouped(s.where)
  /\ NamesResolve(s)
  /\ GroupsWell(s)
  /\ TypesWell(s)

-----------------------------------------------------------------------------
(* Properties                                                              *)

\* Conditions that differ only in how a chain of ANDs or ORs is grouped
RECURSIVE Chain(_, _)
Chain(e, kind) == IF e.kind = kind THEN Chain(e.left, kind) \o Chain(e.right, kind) ELSE <<e>>
RECURSIVE SameCondition(_, _)
SameCondition(e, f) ==
  /\ e.kind = f.kind
  /\ IF e.kind \notin Logical THEN e = f
     ELSE LET es == Chain(e, e.kind)
              fs == Chain(f, e.kind)
          IN  Len(es) = Len(fs) /\ \A k \in DOMAIN es : SameCondition(es[k], fs[k])

(* The parser reads what was written (tokenize, parseSelect): the whole    *)
(* text, and the same statement, for every statement the writer can write  *)
(* (Expressible) with a condition in which no AND comes before an OR       *)
(* (WellGrouped: the parser would take the OR into the AND).  Nothing is   *)
(* said of an AS before the alias of a table, which is never written.      *)
ParserReadsStatement ==
  pc = "from" /\ query.stmt # nil /\ Expressible(query.stmt)
  /\ (query.stmt.where # nil => WellGrouped(query.stmt.where)) =>
    /\ pos = Len(tokens) + 1
    /\ [stmt EXCEPT !.where = nil] = [query.stmt EXCEPT !.where = nil]
    /\ IF query.stmt.where = nil THEN stmt.where = nil
       ELSE stmt.where # nil /\ SameCondition(stmt.where, query.stmt.where)

\* Row x comes before row y by the outputs out that ORDER BY names
Sooner(s, out, x, y) ==
  \E k \in DOMAIN s.orderBy :
    /\ Precedes(x[out[k]], y[out[k]], s.orderBy[k].desc)
    /\ \A l \in 1..k-1 : x[out[l]] = y[out[l]]

Occurrences(rows, row) == Cardinality({i \in DOMAIN rows : rows[i] = row})

(* got lists rows of want, in an order that the ORDER BY of s allows: all  *)
(* of them or, with a LIMIT, the first.                                    *)
Answers(s, got, want) ==
  LET height == Cardinality(DOMAIN want)
      out == [k \in DOMAIN s.orderBy |-> OutName(CHOOSE c \in Ordering(s, s.orderBy[k]) : TRUE)]
  IN  /\ \A row \in Range(got) : Occurrences(got, row) <= Occurrences(want, row)
      /\ Len(got) = IF s.limit = 0 THEN height ELSE Min({height, s.limit})
      /\ \A p, q \in DOMAIN got : p < q => ~Sooner(s, out, got[q], got[p])
      /\ \A i \in DOMAIN want, p \in DOMAIN got :
           Sooner(s, out, want[i], got[p]) => Occurrences(got, want[i]) = Occurrences(want, want[i])

(* A well-formed query succeeds and returns what its statement means       *)
(* (executeStmt): the same rows with the same names as often as they       *)
(* should occur, in an order that ORDER BY allows, and with LIMIT the      *)
(* first of them.  Well-formed means that it can be written, that every    *)
(* name means one column, that groups have their keys and one aggregate    *)
(* for a column beside them (of two the program keeps the last), and that  *)
(* the columns have the types of TypesWell: of these, tables may hold any  *)
(* cells, nulls among them.                                                *)
QueryMeansResult ==
  pc = "done" /\ query.stmt # nil /\ WellFormed(query.stmt) =>
    /\ outcome = "ok" /\ df.ok
    /\ LET got == [r \in 1..Height(df) |-> [n \in Names(df) |-> Column(df, n).cells[r]]]
       IN  Answers(query.stmt, got, Meaning(query.stmt))
=============================================================================
