------------------------------ MODULE SqlContext ------------------------------
(***************************************************************************)
(* internal/sql/context.go: a registry of data frames and the execution of *)
(* a statement: it is parsed clause by clause (parser.go), and the clauses *)
(* are then applied to the data frame of FROM one after the other.         *)
(***************************************************************************)
EXTENDS SqlText

CONSTANTS
  nil,
  Inputs,   \* the data frames that may be registered, by table name
  Queries   \* what is asked: a text, with the statement it should mean or nil

VARIABLES
  tables,   \* c.tables
  query,    \* the query that is executed, or nil
  tokens, pos,
  stmt,
  df,       \* the data frame so far; Failed for a nil one
  pc,
  outcome   \* "running", "ok", "error", or "panic" for a nil dereference

vars == <<tables, query, tokens, pos, stmt, df, pc, outcome>>

NoStmt ==
  [alias |-> <<>>, columns |-> <<>>, from |-> <<>>, groupBy |-> <<>>, joins |-> <<>>,
   limit |-> 0, orderBy |-> <<>>, selectAll |-> FALSE, where |-> nil]

-----------------------------------------------------------------------------
(* Parse: every action reads one clause and moves on                       *)

Error ==
  /\ outcome' = "error" /\ pc' = "done"
  /\ UNCHANGED <<tables, query, tokens, pos, stmt, df>>

\* The clause has been read up to the place next, and s is the statement now.
Parsed(s, next, then) ==
  /\ stmt' = s /\ pos' = next /\ pc' = then
  /\ UNCHANGED <<tables, query, tokens, df, outcome>>

Execute(q) ==
  /\ pc = "idle"
  /\ query' = q /\ tokens' = tokenize(q.text) /\ pos' = 1
  /\ stmt' = NoStmt /\ df' = Failed /\ pc' = "select" /\ outcome' = "running"
  /\ UNCHANGED tables

\* Mutant: any name after the table is its alias
FromAliasAnyWord(p) == Typ(tokens, p) = "Ident"

FromAlias(p) == Typ(tokens, p) = "Ident" /\ ~IsOneOf(tokens, p, JoinWords \cup ClauseWords)

ParseSelect ==
  LET star == Typ(tokens, pos + 1) = "Star"
      list == ParseColumns(tokens, pos + 1)
      at == IF star THEN pos + 2 ELSE list.next
  IN  /\ pc = "select"
      /\ IF ~IsKeyword(tokens, pos, "SELECT") \/ at = 0 \/ ~IsKeyword(tokens, at, "FROM") THEN Error
         ELSE Parsed([stmt EXCEPT !.selectAll = star, !.columns = IF star THEN <<>> ELSE list.cols,
                                  !.from = Val(tokens, at + 1),
                                  !.alias = IF FromAlias(at + 2) THEN Val(tokens, at + 2) ELSE <<>>],
                     IF FromAlias(at + 2) THEN at + 3 ELSE at + 2, "joins")

ParseJoins ==
  LET j == ParseJoin(tokens, pos)
  IN  /\ pc = "joins"
      /\ IF ~IsOneOf(tokens, pos, JoinWords) THEN Parsed(stmt, pos, "where")
         ELSE IF j.next = 0 THEN Error
         ELSE Parsed([stmt EXCEPT !.joins = Append(@, j.join)], j.next, "joins")

ParseWhere ==
  LET e == ParseExpr(tokens, pos + 1)
  IN  /\ pc = "where"
      /\ IF ~IsKeyword(tokens, pos, "WHERE") THEN Parsed(stmt, pos, "group")
         ELSE IF e.next = 0 THEN Error
         ELSE Parsed([stmt EXCEPT !.where = e.expr], e.next, "group")

ParseGroupBy ==
  LET list == ParseNames(tokens, pos + 2)
  IN  /\ pc = "group"
      /\ IF ~IsKeyword(tokens, pos, "GROUP") THEN Parsed(stmt, pos, "order")
         ELSE IF ~IsKeyword(tokens, pos + 1, "BY") THEN Error
         ELSE Parsed([stmt EXCEPT !.groupBy = list.names], list.next, "order")

ParseOrderBy ==
  LET list == ParseOrder(tokens, pos + 2)
  IN  /\ pc = "order"
      /\ IF ~IsKeyword(tokens, pos, "ORDER") THEN Parsed(stmt, pos, "limit")
         ELSE IF ~IsKeyword(tokens, pos + 1, "BY") THEN Error
         ELSE Parsed([stmt EXCEPT !.orderBy = list.items], list.next, "limit")

(* What is left of the text after this clause is never looked at.          *)
ParseLimit ==
  LET n == Val(tokens, pos + 1)
  IN  /\ pc = "limit"
      /\ IF ~IsKeyword(tokens, pos, "LIMIT") THEN Parsed(stmt, pos, "from")
         ELSE IF ~IsInteger(n) THEN Error
         ELSE Parsed([stmt EXCEPT !.limit = Integer(n)], pos + 2, "from")

-----------------------------------------------------------------------------
(* executeStmt: every action applies one clause                            *)

\* An operation on data frames that fails ends the query with an error.
Applied(frame, s, then) ==
  IF ~frame.ok THEN Error
  ELSE df' = frame /\ stmt' = s /\ pc' = then /\ UNCHANGED <<tables, query, tokens, pos, outcome>>

Dotted(name) == "." \in ToSet(name)

prefixColumns(frame, prefix) ==
  IF prefix = <<>> THEN frame
  ELSE Frame([k \in DOMAIN frame.cols |->
                RenameSeries(frame.cols[k], prefix \o <<".">> \o frame.cols[k].name)])

AliasOr(alias, table) == IF alias = <<>> THEN table ELSE alias

\* Mutant: the alias is read and forgotten
fromAliasIgnored == stmt.from

fromAlias == AliasOr(stmt.alias, stmt.from)

ResolveFrom ==
  /\ pc = "from"
  /\ IF stmt.from \notin DOMAIN tables THEN Error
     ELSE Applied(prefixColumns(tables[stmt.from], fromAlias), stmt, "join")

\* A bare key belongs to the table of its side; no key stays no key.
KeyName(key, alias) == IF key = <<>> \/ Dotted(key) THEN key ELSE alias \o <<".">> \o key

(* The next of the joins, which is then taken off the list                 *)
JoinNext ==
  /\ pc = "join"
  /\ IF stmt.joins = <<>> THEN Applied(df, stmt, "resolve")
     ELSE LET j == Head(stmt.joins)
              alias == AliasOr(j.alias, j.table)
          IN  IF j.table \notin DOMAIN tables THEN Error
              ELSE Applied(JoinOn(df, prefixColumns(tables[j.table], alias),
                                  KeyName(j.leftOn, fromAlias), KeyName(j.rightOn, alias), j.how),
                           [stmt EXCEPT !.joins = Tail(@)], "join")

(* A bare name is that of the first column with it, whatever its table.    *)
resolveName(name) ==
  LET k == SelectInSeq(df.cols, LAMBDA c : IsSuffix(<<".">> \o name, c.name))
  IN  IF Dotted(name) \/ name = <<"*">> \/ k = 0 THEN name ELSE df.cols[k].name

RECURSIVE resolveExpr(_)
resolveExpr(e) ==
  IF e.kind = "col" THEN [e EXCEPT !.name = resolveName(@)]
  ELSE IF e.kind = "lit" THEN e
  ELSE [e EXCEPT !.left = resolveExpr(@), !.right = resolveExpr(@)]

Resolve ==
  LET columns == [k \in DOMAIN stmt.columns |-> [stmt.columns[k] EXCEPT !.name = resolveName(@)]]
      meant(name) == LET k == SelectInSeq(columns, LAMBDA c : c.alias = name)
                     IN  IF k = 0 THEN name ELSE columns[k].name
  IN  /\ pc = "resolve"
      /\ Applied(df, [stmt EXCEPT !.columns = columns,
                                  !.where = IF @ = nil THEN nil ELSE resolveExpr(@),
                                  !.groupBy = [k \in DOMAIN @ |-> resolveName(@[k])],
                                  !.orderBy = [k \in DOMAIN @ |-> [@[k] EXCEPT !.col = resolveName(meant(@))]]],
                 "filter")

FilterRows ==
  /\ pc = "filter"
  /\ Applied(IF stmt.where = nil THEN df ELSE Filter(df, Evaluate(stmt.where, df)), stmt, "aggregate")

AggNames == {"SUM", "AVG", "MEAN", "MIN", "MAX", "COUNT", "FIRST", "LAST"}

(* buildAggs: a map from columns to functions, in which the last of two    *)
(* aggregates of one column replaces the first                             *)
buildAggs ==
  LET agg(col) == SelectLastInSeq(stmt.columns, LAMBDA c : c.name = col /\ c.agg # <<>>)
      cols == {c.name : c \in {d \in ToSet(stmt.columns) : d.agg # <<>>}}
  IN  [col \in cols |-> stmt.columns[agg(col)].agg[1]]

(* Agg ranges over the map: the order of the aggregated columns is any.    *)
AggregateGroups ==
  /\ pc = "aggregate"
  /\ IF stmt.groupBy = <<>> THEN Applied(df, stmt, "sort")
     ELSE IF ~(Range(buildAggs) \subseteq AggNames) THEN Error
     ELSE \E cols \in SetToSeqs(DOMAIN buildAggs) :
            Applied(GroupAgg(df, stmt.groupBy, [k \in DOMAIN cols |-> [col |-> cols[k], fn |-> buildAggs[cols[k]]]]),
                    stmt, "sort")

SortRows ==
  /\ pc = "sort"
  /\ Applied(IF stmt.orderBy = <<>> THEN df
             ELSE SortBy(df, [k \in DOMAIN stmt.orderBy |-> stmt.orderBy[k].col],
                             [k \in DOMAIN stmt.orderBy |-> stmt.orderBy[k].desc]),
             stmt, "project")

\* What comes before the first dot, and what between the first and the next
Parts(name) ==
  LET dot == SelectInSeq(name, LAMBDA a : a = ".")
      second == SelectInSubSeq(name, dot + 1, Len(name), LAMBDA a : a = ".")
  IN  IF dot = 0 THEN <<name>>
      ELSE <<SubSeq(name, 1, dot - 1), SubSeq(name, dot + 1, IF second = 0 THEN Len(name) ELSE second - 1)>>

(* The alias of a column, or its name without the table; and what is done  *)
(* when a column before it has that name                                   *)
FinalName(cols, final, k) ==
  LET name == cols[k].name
      sc == SelectInSeq(stmt.columns, LAMBDA c : c.name = name)
      wanted == IF sc = 0 THEN name
                ELSE IF stmt.columns[sc].alias # <<>> THEN stmt.columns[sc].alias
                ELSE Last(Parts(name))
      avoid(n, c) == IF c.name = n THEN n \o <<"_">> \o Parts(name)[1] ELSE n
  IN  FoldLeft(avoid, wanted, final)

Renamed(cols) ==
  New(FoldLeftDomain(LAMBDA final, k : Append(final, RenameSeries(cols[k], FinalName(cols, final, k))),
                     <<>>, cols))

(* The error of New is dropped: two columns of one name give a nil data    *)
(* frame, and no error.                                                    *)
Project ==
  /\ pc = "project"
  /\ LET all == [k \in DOMAIN df.cols |-> SelectColumn(df.cols[k].name, <<>>, <<>>)]
     IN  IF stmt.selectAll
           THEN Applied(df, [stmt EXCEPT !.columns = @ \o all, !.selectAll = FALSE], "project")
         ELSE LET frame == IF stmt.groupBy # <<>> THEN df
                           ELSE Select(df, [k \in DOMAIN stmt.columns |-> stmt.columns[k].name])
              IN  IF ~frame.ok THEN Error
                  ELSE /\ df' = Renamed(frame.cols) /\ pc' = "cut"
                       /\ UNCHANGED <<tables, query, tokens, pos, stmt, outcome>>

(* LIMIT 0 and negative limits are no limit.                               *)
CutRows ==
  /\ pc = "cut"
  /\ pc' = "done"
  /\ IF stmt.limit > 0 /\ ~df.ok THEN outcome' = "panic" /\ UNCHANGED df
     ELSE outcome' = "ok" /\ df' = IF stmt.limit > 0 THEN HeadRows(df, stmt.limit) ELSE df
  /\ UNCHANGED <<tables, query, tokens, pos, stmt>>

-----------------------------------------------------------------------------
Init ==
  /\ tables = <<>>
  /\ query = nil /\ tokens = <<>> /\ pos = 1 /\ stmt = NoStmt /\ df = Failed
  /\ pc = "idle" /\ outcome = "running"

Register(name, frame) ==
  /\ pc = "idle"
  /\ tables' = (name :> frame) @@ tables
  /\ UNCHANGED <<query, tokens, pos, stmt, df, pc, outcome>>

\* The caller has what it asked for; the context is as it was.
Return ==
  /\ pc = "done"
  /\ query' = nil /\ tokens' = <<>> /\ pos' = 1 /\ stmt' = NoStmt /\ df' = Failed
  /\ pc' = "idle" /\ outcome' = "running"
  /\ UNCHANGED tables

Next ==
  \/ \E name \in DOMAIN Inputs : \E frame \in Inputs[name] : Register(name, frame)
  \/ \E q \in Queries : Execute(q)
  \/ ParseSelect \/ ParseJoins \/ ParseWhere \/ ParseGroupBy \/ ParseOrderBy \/ ParseLimit
  \/ ResolveFrom \/ JoinNext \/ Resolve \/ FilterRows \/ AggregateGroups \/ SortRows
  \/ Project \/ CutRows
  \/ Return

Spec == Init /\ [][Next]_vars
=============================================================================
