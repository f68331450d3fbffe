------------------------------ MODULE LazyFrame ------------------------------
(***************************************************************************)
(* internal/lazy: a query from its first method call to its result.  The   *)
(* caller builds a plan, Collect or CollectWithContext optimizes it, and   *)
(* the executor runs it.  With a context the nodes run one by one, each    *)
(* between checks of the context, which may be cancelled at any moment.    *)
(***************************************************************************)
EXTENDS LazyPlan

CONSTANTS
  Sources,     \* the plans a query starts from
  FilterExprs, SelectLists, WithLists, SortSpecs, GroupSpecs, JoinKeys,
  Limits, Subsets, DropLists, Renames,   \* the arguments of the methods
  Others,      \* the plans a query is joined with
  MaxOps,      \* bound: the method calls on one LazyFrame
  MaxRunOps    \* bound: those of a query that is run with a context

VARIABLES
  plan,       \* the LazyFrame's plan
  nOps,       \* how many methods have been called
  pc,         \* "build", "rules", "project", "ready", "run" or "done"
  pass,       \* the passes of applyRules made
  opt,        \* the plan as optimized so far
  stack,      \* the calls of ExecuteWithContext, innermost last
  cancelled,  \* ctx.Err() # nil
  late,       \* how many nodes have run since then
  result      \* what the caller gets

vars == <<plan, nOps, pc, pass, opt, stack, cancelled, late, result>>

\* What is not a data frame: no result yet, and the context's error
Pending == [ok |-> FALSE, cols |-> <<NoSeries>>]
Cancelled == [ok |-> FALSE, cols |-> <<NoSeries, NoSeries>>]

Init ==
  /\ plan \in Sources
  /\ nOps = 0
  /\ pc = "build"
  /\ pass = 0
  /\ opt = NoPlan
  /\ stack = <<>>
  /\ cancelled = FALSE
  /\ late = 0
  /\ result = Pending

-----------------------------------------------------------------------------
(* The methods of LazyFrame: each puts a node over the plan                *)

Extend(p) ==
  /\ pc = "build"
  /\ nOps < MaxOps
  /\ plan' = p
  /\ nOps' = nOps + 1
  /\ UNCHANGED <<pc, pass, opt, stack, cancelled, late, result>>

CallFilter == \E e \in FilterExprs : Extend(FilterNode(plan, e))
CallSelect == \E es \in SelectLists : Extend(SelectNode(plan, es))
CallWithColumns == \E es \in WithLists : Extend(WithColumnsNode(plan, es))
CallSort == \E s \in SortSpecs : Extend(SortNode(plan, s[1], s[2]))
CallGroupByAgg == \E g \in GroupSpecs : Extend(GroupByNode(plan, g[1], g[2]))
CallJoin == \E other \in Others, on \in JoinKeys : Extend(JoinNode(plan, other, on))
CallHead == \E n \in Limits : Extend(LimitNode(plan, n))
CallUnique == \E subset \in Subsets : Extend(UniqueNode(plan, subset))
CallDrop == \E names \in DropLists : Extend(DropNode(plan, names))
CallRename == \E r \in Renames : Extend(RenameNode(plan, r[1], r[2]))

Build ==
  \/ CallFilter \/ CallSelect \/ CallWithColumns \/ CallSort \/ CallGroupByAgg
  \/ CallJoin \/ CallHead \/ CallUnique \/ CallDrop \/ CallRename

-----------------------------------------------------------------------------
(* Optimize: three passes of the rules, then the projections               *)

Passes == 3

StartOptimize ==
  /\ pc = "build"
  /\ pc' = "rules"
  /\ opt' = plan
  /\ UNCHANGED <<plan, nOps, pass, stack, cancelled, late, result>>

ApplyRules ==
  /\ pc = "rules"
  /\ opt' = applyRules(opt)
  /\ pass' = pass + 1
  /\ pc' = IF pass + 1 = Passes THEN "project" ELSE "rules"
  /\ UNCHANGED <<plan, nOps, stack, cancelled, late, result>>

PushProjections ==
  /\ pc = "project"
  /\ opt' = pushdownProjection(opt)
  /\ pc' = "ready"
  /\ UNCHANGED <<plan, nOps, pass, stack, cancelled, late, result>>

-----------------------------------------------------------------------------
(* Collect runs the plan at one go.                                        *)
Collect ==
  /\ pc = "ready"
  /\ result' = Execute(opt)
  /\ pc' = "done"
  /\ UNCHANGED <<plan, nOps, pass, opt, stack, cancelled, late>>

CollectWithContext ==
  /\ pc = "ready"
  /\ nOps <= MaxRunOps
  /\ pc' = "run"
  /\ UNCHANGED <<plan, nOps, pass, opt, stack, cancelled, late, result>>

Cancel ==
  /\ pc = "run"
  /\ ~cancelled
  /\ cancelled' = TRUE
  /\ UNCHANGED <<plan, nOps, pc, pass, opt, stack, late, result>>

Top == stack[Len(stack)]
Call(p) == [plan |-> p, inputs |-> <<>>, checked |-> FALSE]
Complete(f) == Len(f.inputs) = Len(Children(f.plan))
InputsDone == stack # <<>> /\ Complete(Top)

ReturnError(r) ==
  /\ result' = r
  /\ pc' = "done"
  /\ stack' = <<>>

(* ExecuteWithContext is entered, for the root or the next input of a call *)
EnterNode ==
  /\ pc = "run"
  /\ ~InputsDone
  /\ IF cancelled THEN ReturnError(Cancelled)
     ELSE /\ stack' = Append(stack, Call(IF stack = <<>> THEN opt
                                         ELSE Children(Top.plan)[Len(Top.inputs) + 1]))
          /\ UNCHANGED <<result, pc>>
  /\ UNCHANGED <<plan, nOps, pass, opt, cancelled, late>>

\* Mutant: the context is not checked again after the inputs
SkipSecondCheck ==
  /\ pc = "run"
  /\ InputsDone /\ ~Top.checked
  /\ stack' = [stack EXCEPT ![Len(stack)].checked = TRUE]
  /\ UNCHANGED <<plan, nOps, pc, pass, opt, cancelled, late, result>>

(* "Check context again after children"                                    *)
CheckAgain ==
  /\ pc = "run"
  /\ InputsDone /\ ~Top.checked
  /\ IF cancelled THEN ReturnError(Cancelled)
     ELSE /\ stack' = [stack EXCEPT ![Len(stack)].checked = TRUE]
          /\ UNCHANGED <<result, pc>>
  /\ UNCHANGED <<plan, nOps, pass, opt, cancelled, late>>

\* Mutant: the inputs of a join are handed over in the wrong order
TempPlanSwapped(f) ==
  WithChildren(f.plan, Reverse([k \in DOMAIN f.inputs |-> ScanNode(f.inputs[k])]))

\* The node over scans of what its inputs returned
TempPlan(f) == WithChildren(f.plan, [k \in DOMAIN f.inputs |-> ScanNode(f.inputs[k])])

RunTop ==
  /\ pc = "run"
  /\ stack # <<>> /\ Top.checked
  /\ late' = IF cancelled THEN late + 1 ELSE late
  /\ LET df == Execute(TempPlan(Top))
         callers == SubSeq(stack, 1, Len(stack) - 1)
     IN  IF ~df.ok \/ callers = <<>> THEN ReturnError(df)
         ELSE /\ stack' = [callers EXCEPT ![Len(callers)].inputs = Append(@, df)]
              /\ UNCHANGED <<result, pc>>
  /\ UNCHANGED <<plan, nOps, pass, opt, cancelled>>

Finished == pc = "done" /\ UNCHANGED vars

Next ==
  \/ Build \/ StartOptimize \/ ApplyRules \/ PushProjections
  \/ Collect \/ CollectWithContext \/ Cancel
  \/ EnterNode \/ CheckAgain \/ RunTop \/ Finished

Spec == Init /\ [][Next]_vars

-----------------------------------------------------------------------------
(* Plans the rewrites are sound for                                        *)

RECURSIVE Nodes(_)
Nodes(p) == {p} \cup UNION {Nodes(Children(p)[k]) : k \in DOMAIN Children(p)}

\* The nodes met from p down, up to and including the first not of kinds
RECURSIVE Path(_, _)
Path(p, kinds) == IF p.node \in kinds THEN <<p>> \o Path(p.input, kinds) ELSE <<p>>

Uses(e) == ToSet(UsedColumns(e))

RECURSIVE RowByRow(_)
RowByRow(e) ==
  CASE e.kind \in {"col", "lit"} -> TRUE
    [] e.kind = "cumSum" -> FALSE
    [] e.kind \in Unary \ {"cumSum"} -> RowByRow(e.inner)
    [] e.kind \in Binary -> RowByRow(e.left) /\ RowByRow(e.right)

HasTies(df, col) ==
  df.ok /\ Has(df, col) /\ \E i, j \in 1..Height(df) :
    i # j /\ Column(df, col).cells[i] # Null /\ Column(df, col).cells[i] = Column(df, col).cells[j]

HasBooleans(df) == \E k \in DOMAIN df.cols : df.cols[k].dtype = "Boolean"

(* A filter sinks below a rename although it reads the new name, and below *)
(* a sort although its mask depends on the order of the rows, or the order *)
(* of equal rows on which rows are there, or the sort leaves a column in   *)
(* its old order (Series.Take a boolean one).                              *)
FilterMaySink(f) ==
  LET below == ToSet(Path(f.input, {"Filter", "Rename", "Drop", "Sort"}))
  IN  \A q \in below :
        /\ q.node = "Rename" => q.new \notin Uses(f.expr)
        /\ q.node = "Sort" =>
             LET df == Execute(q.input)
             IN  RowByRow(f.expr) /\ ~HasTies(df, q.col) /\ ~HasBooleans(df)

(* The select that is replaced computes nothing of its own.                *)
MergeKeepsColumns(s) ==
  s.input.node = "Select" => \A k \in DOMAIN s.input.exprs : s.input.exprs[k].kind = "col"

(* The literal a constant becomes is called "literal".                     *)
FoldKeepsNames(p) ==
  \A k \in DOMAIN p.exprs : IsConstant(p.exprs[k]) => EvaluateNil(p.exprs[k]).name = "literal"

(* Of expressions that print alike the first one stays: they must be one   *)
(* expression, with none between them that writes the same column.         *)
DedupKeepsResult(p) ==
  LET es == [k \in DOMAIN p.exprs |-> foldExpr(p.exprs[k])]
      df == Execute(p.input)
      name(k) == Evaluate(es[k], df).name
  IN  \A k, l \in DOMAIN es :
        k < l /\ Printed(es[k]) = Printed(es[l]) =>
          es[k] = es[l] /\ \A m \in k+1..l-1 : name(m) # name(k)

ColumnsOf(q) ==
  CASE q.node = "Filter" -> Uses(q.expr)
    [] q.node = "WithColumns" -> ToSet(collectExprColumns(q.exprs))

(* The scan below a select has every column that is asked of it, and among *)
(* these are the columns of the predicate a file scan takes over.          *)
ScanHasColumns(s) ==
  LET selects == Path(s, {"Select"})
      chain == Path(selects[Len(selects)], {"Filter", "WithColumns"})
      scan == chain[Len(chain)]
      above(k) == (UNION {ColumnsOf(chain[i]) : i \in 1..k}) \cup ToSet(collectExprColumns(s.exprs))
      last == Len(chain) - 1
      absorbed == /\ scan.node \in FileScans /\ last > 0
                  /\ chain[last].node = "Filter"
  IN  scan.node \in Scans /\ ToSet(collectExprColumns(s.exprs)) # {} =>
        /\ above(IF absorbed THEN last - 1 ELSE last) \subseteq Names(scan.df)
        /\ absorbed => Uses(chain[last].expr) \subseteq above(last - 1)

Safe(p) ==
  \A q \in Nodes(p) :
    /\ q.node = "Filter" => FilterMaySink(q)
    /\ q.node = "Select" => MergeKeepsColumns(q) /\ ScanHasColumns(q)
    /\ q.node \in {"Select", "WithColumns"} => FoldKeepsNames(q) /\ DedupKeepsResult(q)

-----------------------------------------------------------------------------
(* Properties                                                              *)

(* After every pass a plan that meets Safe, and whose own execution does   *)
(* not fail, still has the result of the plan the caller built, to the     *)
(* order of its rows and columns.  Each condition of Safe leaves out       *)
(* queries whose result a rewrite does change; none of them is claimed.    *)
EveryPassKeepsResult ==
  pc \in {"rules", "project", "ready"} /\ Safe(plan) =>
    LET direct == Execute(plan) IN direct.ok => Execute(opt) = direct

(* The promise without the exceptions: Collect returns what the calls say. *)
CollectMeansTheCalls ==
  pc = "ready" => LET direct == Execute(plan) IN direct.ok => Execute(opt) = direct

RECURSIVE CountFilters(_)
CountFilters(p) ==
  LET own == IF \/ p.node = "Filter"
                \/ p.node \in FileScans /\ p.predicate # NoPredicate THEN 1 ELSE 0
  IN  own + FoldLeft(LAMBDA n, q : n + CountFilters(q), 0, Children(p))

(* No filter is lost, and none is applied twice, wherever it has sunk to.  *)
EveryFilterOnce == opt # NoPlan => CountFilters(opt) = CountFilters(plan)

(* A query without cancellation returns what Collect returns, whichever    *)
(* way the tree was walked; a cancelled one returns that or the context's  *)
(* error, never part of a result.                                          *)
ContextAgrees ==
  pc = "done" =>
    \/ result = Execute(opt)
    \/ cancelled /\ result = Cancelled

(* Once the context is cancelled at most the node that is already running  *)
(* is completed: no other one is started.                                  *)
CancelStopsWork == late <= 1
=============================================================================
