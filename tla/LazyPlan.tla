------------------------------ MODULE LazyPlan ------------------------------
(***************************************************************************)
(* internal/lazy: logical plans, the optimizer's rewrites (optimizer.go)   *)
(* and the executor (executor.go).                                         *)
(*                                                                         *)
(* A plan is a tree of records.  The optimizer clones a node before it     *)
(* changes it, so a rewrite is a function from plans to plans.  A file is  *)
(* the data frame that reading it returns.                                 *)
(***************************************************************************)
EXTENDS Expressions

NoPlan == [node |-> "None"]
NoPredicate == [kind |-> "none"]

(* The nodes, as the methods of LazyFrame make them                        *)
ScanNode(df) == [df |-> df, node |-> "Scan", projection |-> <<>>]
FileScanNode(node, df) == [df |-> df, node |-> node, predicate |-> NoPredicate, projection |-> <<>>]
FilterNode(p, e) == [node |-> "Filter", input |-> p, expr |-> e]
SelectNode(p, es) == [node |-> "Select", input |-> p, exprs |-> es]
WithColumnsNode(p, es) == [node |-> "WithColumns", input |-> p, exprs |-> es]
SortNode(p, col, desc) == [node |-> "Sort", input |-> p, col |-> col, desc |-> desc]
GroupByNode(p, key, col) == [node |-> "GroupBy", input |-> p, col |-> col, key |-> key]
JoinNode(p, q, on) == [on |-> on, node |-> "Join", input |-> p, inputR |-> q]
LimitNode(p, n) == [node |-> "Limit", input |-> p, limit |-> n]
UniqueNode(p, subset) == [subset |-> subset, node |-> "Unique", input |-> p]
DropNode(p, names) == [names |-> names, node |-> "Drop", input |-> p]
RenameNode(p, old, new) == [node |-> "Rename", input |-> p, new |-> new, old |-> old]

FileScans == {"ScanCSV", "ScanParquet"}
Scans == FileScans \cup {"Scan"}

\* The inputs of a node, in the order they are executed
Children(p) ==
  IF p.node \in Scans THEN <<>>
  ELSE IF p.node = "Join" THEN <<p.input, p.inputR>> ELSE <<p.input>>

\* A copy of a node over other inputs
WithChildren(p, inputs) ==
  CASE Len(inputs) = 0 -> p
    [] Len(inputs) = 1 -> [p EXCEPT !.input = inputs[1]]
    [] Len(inputs) = 2 -> [p EXCEPT !.input = inputs[1], !.inputR = inputs[2]]

-----------------------------------------------------------------------------
(* Execution                                                               *)

EvaluateAll(exprs, df) == [k \in DOMAIN exprs |-> Evaluate(exprs[k], df)]
AllSeries(cols) == \A k \in DOMAIN cols : IsSeries(cols[k])

FilterBy(df, e) ==
  LET mask == Evaluate(e, df) IN IF IsSeries(mask) THEN Filter(df, mask) ELSE Failed

ReadProjected(p) ==
  IF p.projection = <<>> THEN p.df ELSE Select(p.df, p.projection)

(* A scan: the projected columns (a missing one is an error), then the     *)
(* pushed-down predicate over what is left                                 *)
RunScan(p) ==
  LET df == ReadProjected(p)
  IN  IF p.node = "Scan" \/ ~df.ok THEN df
      ELSE IF p.predicate = NoPredicate THEN df ELSE FilterBy(df, p.predicate)

(* One node over the data frames of its inputs                             *)
RunNode(p, inputs) ==
  CASE p.node \in Scans -> RunScan(p)
    [] p.node = "Filter" -> FilterBy(inputs[1], p.expr)
    [] p.node = "Select" ->
         LET cols == EvaluateAll(p.exprs, inputs[1])
         IN  IF AllSeries(cols) THEN New(cols) ELSE Failed
    [] p.node = "WithColumns" ->
         LET cols == EvaluateAll(p.exprs, inputs[1])
         IN  IF AllSeries(cols) THEN WithColumns(inputs[1], cols) ELSE Failed
    [] p.node = "Sort" -> Sort(inputs[1], p.col, p.desc)
    [] p.node = "GroupBy" -> GroupAgg(inputs[1], <<p.key>>, <<[col |-> p.col, fn |-> "COUNT"]>>)
    [] p.node = "Join" -> JoinOn(inputs[1], inputs[2], p.on, p.on, "INNER")
    [] p.node = "Limit" -> HeadRows(inputs[1], p.limit)
    [] p.node = "Unique" -> Unique(inputs[1], p.subset)
    [] p.node = "Drop" -> Drop(inputs[1], p.names)
    [] p.node = "Rename" -> Rename(inputs[1], p.old, p.new)

RECURSIVE Execute(_)
Execute(p) ==
  LET inputs == [k \in DOMAIN Children(p) |-> Execute(Children(p)[k])]
  IN  IF \E k \in DOMAIN inputs : ~inputs[k].ok THEN Failed ELSE RunNode(p, inputs)

-----------------------------------------------------------------------------
(* Optimization rules                                                      *)

Swap(filter, child) == [child EXCEPT !.input = FilterNode(child.input, filter.expr)]

\* Mutant: a filter also sinks below a limit
pushdownPredicateBelowLimit(p) ==
  IF p.node = "Filter" /\ p.input.node \in {"Rename", "Drop", "Sort", "Limit"}
    THEN Swap(p, p.input) ELSE p

\* Mutant: a file scan that has a predicate takes another one in its place
pushdownPredicateOverwrites(p) ==
  IF p.node # "Filter" THEN p
  ELSE IF p.input.node \in {"Rename", "Drop", "Sort"} THEN Swap(p, p.input)
  ELSE IF p.input.node \in FileScans THEN [p.input EXCEPT !.predicate = p.expr]
  ELSE p

(* Rule 1: a filter sinks below a rename, a drop or a sort, and into a     *)
(* file scan that has no predicate yet                                     *)
pushdownPredicate(p) ==
  IF p.node # "Filter" THEN p
  ELSE IF p.input.node \in {"Rename", "Drop", "Sort"} THEN Swap(p, p.input)
  ELSE IF p.input.node \in FileScans /\ p.input.predicate = NoPredicate
    THEN [p.input EXCEPT !.predicate = p.expr]
  ELSE p

(* Rule 2: a select over a select takes its place                          *)
mergeProjections(p) ==
  IF p.node = "Select" /\ p.input.node = "Select"
    THEN [p EXCEPT !.input = p.input.input] ELSE p

(* A constant expression becomes the literal of its value, unless that is  *)
(* null or cannot be computed.                                             *)
foldExpr(e) ==
  IF ~IsConstant(e) THEN e
  ELSE LET s == EvaluateNil(e)
       IN  IF ~IsSeries(s) THEN e
           ELSE IF Len(s.cells) # 1 \/ s.cells[1] = Null THEN e
           ELSE Lit(s.cells[1], s.dtype)

(* Rule 3                                                                  *)
foldConstants(p) ==
  CASE p.node \in {"Select", "WithColumns"} ->
         [p EXCEPT !.exprs = [k \in DOMAIN @ |-> foldExpr(@[k])]]
    [] p.node = "Filter" -> [p EXCEPT !.expr = foldExpr(@)]
    [] OTHER -> p

(* Rule 4: of expressions that print alike only the first is kept          *)
eliminateCommonSubexprs(p) ==
  IF p.node \notin {"Select", "WithColumns"} THEN p
  ELSE LET keepFirst(acc, e) ==
             IF \E k \in DOMAIN acc : Printed(acc[k]) = Printed(e) THEN acc ELSE Append(acc, e)
       IN  [p EXCEPT !.exprs = FoldLeft(keepFirst, <<>>, @)]

(* One pass: the inputs first, then the four rules on the node             *)
RECURSIVE applyRules(_)
applyRules(p) ==
  LET inputs == [k \in DOMAIN Children(p) |-> applyRules(Children(p)[k])]
      pushed == mergeProjections(pushdownPredicate(WithChildren(p, inputs)))
  IN  eliminateCommonSubexprs(foldConstants(pushed))

-----------------------------------------------------------------------------
(* Projection pushdown: the scan below a select reads only the columns     *)
(* that the nodes between them name.                                       *)

collectExprColumns(exprs) ==
  FoldLeft(LAMBDA acc, e : mergeStrings(acc, UsedColumns(e)), <<>>, exprs)

\* What a filter, select or with_columns asks of its input
neededBelow(p, needed) ==
  CASE p.node = "Filter" -> mergeStrings(needed, UsedColumns(p.expr))
    [] p.node = "Select" -> collectExprColumns(p.exprs)
    [] p.node = "WithColumns" -> mergeStrings(needed, collectExprColumns(p.exprs))

RECURSIVE annotateProjection(_, _), pushdownProjection(_)
annotateProjection(p, needed) ==
  IF needed = <<>> THEN p
  ELSE IF p.node \in Scans THEN [p EXCEPT !.projection = needed]
  ELSE IF p.node \in {"Filter", "Select", "WithColumns"}
    THEN [p EXCEPT !.input = annotateProjection(@, neededBelow(p, needed))]
  ELSE WithChildren(p, [k \in DOMAIN Children(p) |-> pushdownProjection(Children(p)[k])])

pushdownProjection(p) ==
  IF p.node = "Select"
    THEN [p EXCEPT !.input = annotateProjection(@, collectExprColumns(p.exprs))]
    ELSE WithChildren(p, [k \in DOMAIN Children(p) |-> pushdownProjection(Children(p)[k])])
=============================================================================
