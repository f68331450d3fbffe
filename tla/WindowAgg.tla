------------------------------ MODULE WindowAgg ------------------------------
(***************************************************************************)
(* internal/expr/window.go: expressions over partitions.  The file has its *)
(* own copy of the group table (the packages may not import each other),   *)
(* told here as an algorithm, and two ways to a result: one pass over the  *)
(* column for Sum, Mean, Min and Max of a plain numeric column, a data     *)
(* frame for every group for all other expressions.                        *)
(***************************************************************************)
EXTENDS GroupBy

-----------------------------------------------------------------------------
(* The table.  A probe goes from slot to slot until one stops it; -1 when  *)
(* none does, which is a loop without end.                                 *)

StopAt(table, h, stop(_)) ==
  LET n == Cardinality(DOMAIN table)
      dists == {d \in 0..n-1 : stop(table[SlotAt(h, d, n)])}
  IN  IF dists = {} THEN -1 ELSE SlotAt(h, Min(dists), n)

IsEmpty(s) == s.firstRow = htEmpty
HoldsRow(i, s) == ~IsEmpty(s) /\ s.hash = Hash[key[i]] /\ rowsEqual(i, s.firstRow)

Moved(table, s) ==
  IF IsEmpty(s) THEN table
  ELSE [table EXCEPT ![StopAt(table, s.hash, IsEmpty)] = s]

Grown(table) ==
  LET n == Cardinality(DOMAIN table)
  IN  FoldLeft(Moved, EmptyTable(2 * n), [k \in 1..n |-> table[k-1]])

(* probe: ht is the table with its number of groups and the groups of the  *)
(* rows so far.                                                            *)
Probed(ht, i) ==
  LET h == Hash[key[i]]
      p == StopAt(ht.slots, h, LAMBDA s : IsEmpty(s) \/ HoldsRow(i, s))
      filled == [ht.slots EXCEPT ![p] = [hash |-> h, firstRow |-> i, gid |-> ht.nGroups]]
      grown == Grown(filled)
      found == StopAt(grown, h, LAMBDA s : HoldsRow(i, s))
  IN  IF ~IsEmpty(ht.slots[p]) THEN [ht EXCEPT !.groupIDs = Append(@, ht.slots[p].gid)]
      ELSE IF (ht.nGroups + 1) * 2 < Cardinality(DOMAIN ht.slots)
        THEN [slots |-> filled, nGroups |-> ht.nGroups + 1, groupIDs |-> Append(ht.groupIDs, ht.nGroups)]
      ELSE [slots |-> grown, nGroups |-> ht.nGroups + 1, groupIDs |-> Append(ht.groupIDs, grown[found].gid)]

\* MinSize doubled until it holds twice the estimate
TableSize ==
  LET est == IF height \div 4 < MinEst THEN MinEst ELSE height \div 4
      doubled[n \in Nat] == IF n < est * 2 THEN doubled[n * 2] ELSE n
  IN  doubled[MinSize]

\* The groups of the rows: the row number from 0 on is one less than the place.
windowBuildGroups ==
  FoldLeft(Probed, [slots |-> EmptyTable(TableSize), nGroups |-> 0, groupIDs |-> <<>>], Rows)

-----------------------------------------------------------------------------
(* The fast path: a value and a count for every group, filled in one pass  *)
(* and handed to every row.  The sums are of floating point numbers in the *)
(* code, here they are exact; a mean is the pair of its sum and count.     *)

FastAggs == {"sum", "mean", "min", "max"}

Combined(fn, a, v) ==
  CASE fn \in {"sum", "mean"} -> a.val + v
    [] fn = "min" -> IF a.count = 0 \/ v < a.val THEN v ELSE a.val
    [] fn = "max" -> IF a.count = 0 \/ v > a.val THEN v ELSE a.val

windowAggTyped(fn, col, ht) ==
  LET gid(i) == ht.groupIDs[i+1]
      add(acc, i) ==
        IF col[i] = Null THEN acc
        ELSE [acc EXCEPT ![gid(i)] = [count |-> @.count + 1, val |-> Combined(fn, @, col[i])]]
      accs == FoldLeft(add, [g \in 0..ht.nGroups-1 |-> [count |-> 0, val |-> 0]], Rows)
      cell(a) == IF a.count = 0 THEN Null ELSE IF fn = "mean" THEN <<a.val, a.count>> ELSE a.val
  IN  [i \in 0..height-1 |-> cell(accs[gid(i)])]

-----------------------------------------------------------------------------
(* The slow path: the expression is evaluated on the rows of each group,   *)
(* and its cells go back to the rows they come from.  One cell goes to all *)
(* of them; any other number than that of the rows is an error.            *)

\* A running sum passes over the null cells
Added(a, v) == IF v = Null THEN a ELSE a + v
Total(cells) == FoldLeft(Added, 0, cells)

\* applyAgg, and two expressions that are no aggregations: cumSum gives a cell for
\* every row, unique one for every different cell
InnerResult(fn, cells) ==
  LET valid == {k \in DOMAIN cells : cells[k] # Null}
      vals == {cells[k] : k \in valid}
      firsts == RowList({k \in DOMAIN cells : \A l \in 1..k-1 : cells[l] # cells[k]})
      orNull(v) == IF valid = {} THEN <<Null>> ELSE <<v>>
  IN  CASE fn = "sum" -> orNull(Total(cells))
        [] fn = "mean" -> orNull(<<Total(cells), Cardinality(valid)>>)
        [] fn = "min" -> orNull(Min(vals))
        [] fn = "max" -> orNull(Max(vals))
        [] fn = "count" -> <<Cardinality(valid)>>
        [] fn = "first" -> orNull(cells[Min(valid)])
        [] fn = "last" -> orNull(cells[Max(valid)])
        [] fn = "cumSum" ->
             [k \in DOMAIN cells |-> IF cells[k] = Null THEN Null ELSE Total(SubSeq(cells, 1, k))]
        [] fn = "unique" -> [k \in DOMAIN firsts |-> cells[firsts[k]]]

Error == [i \in {} |-> Null]

\* Mutant: the first cell is handed to all rows of the group
CellForFirst(result, rows, i) == result[1]

\* The cell of row i, one of these rows
CellFor(result, rows, i) ==
  result[IF Len(result) = 1 THEN 1 ELSE SelectInSeq(rows, LAMBDA j : j = i)]

windowSlowPath(fn, col, ht) ==
  LET members(g) == RowList({i \in 0..height-1 : ht.groupIDs[i+1] = g})
      result(g) == InnerResult(fn, [k \in DOMAIN members(g) |-> col[members(g)[k]]])
      gid(i) == ht.groupIDs[i+1]
  IN  IF \E g \in 0..ht.nGroups-1 : Len(result(g)) \notin {1, Len(members(g))} THEN Error
      ELSE [i \in 0..height-1 |-> CellFor(result(gid(i)), members(gid(i)), i)]

-----------------------------------------------------------------------------
(* Properties                                                              *)

(* A window gives every row what its own group has: the second table finds *)
(* the groups GroupBy finds, Sum, Mean, Min and Max are what GroupBy       *)
(* aggregates on either path, a running sum is that of the rows before it  *)
(* in the group, and an expression with fewer cells than a group has rows  *)
(* is refused unless one cell is for all of them (windowExpr.Evaluate).    *)
WindowsAreOverGroups ==
  pc = "done" /\ op = "groupby" =>
    LET ht == windowBuildGroups
        peers(i) == {j \in 0..height-1 : rowsEqual(i, j)}
        aggregated(fn, col) ==
          CASE fn = "sum" -> Sum(col) [] fn = "mean" -> Mean(col)
            [] fn = "min" -> Smallest(col) [] fn = "max" -> Largest(col) [] fn = "count" -> Count(col)
    IN  /\ ht.groupIDs = [k \in 1..height |-> gids[k-1]]
        /\ \A col \in Columns :
             LET values(fn) == [i \in 0..height-1 |-> aggregated(fn, col)[gids[i]]]
                 running == windowSlowPath("cumSum", col, ht)
                 uniques == windowSlowPath("unique", col, ht)
             IN  /\ \A fn \in FastAggs : windowAggTyped(fn, col, ht) = values(fn)
                 /\ \A fn \in FastAggs \cup {"count"} : windowSlowPath(fn, col, ht) = values(fn)
                 /\ \A i \in 0..height-1 :
                      LET valid == {j \in peers(i) : col[j] # Null}
                          before == {j \in valid : j <= i}
                      IN  /\ windowSlowPath("first", col, ht)[i] = IF valid = {} THEN Null ELSE col[Min(valid)]
                          /\ windowSlowPath("last", col, ht)[i] = IF valid = {} THEN Null ELSE col[Max(valid)]
                          /\ running[i] = IF col[i] = Null THEN Null ELSE MapThenSumSet(LAMBDA j : col[j], before)
                          /\ uniques # Error => uniques[i] = col[i]
                 /\ uniques = Error /\ height > 0 <=>
                      \E i \in 0..height-1 : \E j, k \in peers(i) : j # k /\ col[j] = col[k] /\ col[i] # col[j]
=============================================================================
