------------------------------ MODULE GroupBy ------------------------------
(***************************************************************************)
(* internal/dataframe/groupby.go: the aggregations of a GroupByResult.     *)
(* Each is one pass over a value column that accumulates into one cell per *)
(* group, indexed by the group numbers the hash table gave the rows.       *)
(***************************************************************************)
EXTENDS GroupTable, SequencesExt, RowLists

CONSTANTS Null,    \* a null cell
          Columns  \* the value columns: row -> value or Null

ASSUME ColumnAssumption ==
  /\ Null \notin Int
  /\ \A col \in Columns, h \in Heights : \A i \in 0..h-1 : col[i] \in Int \cup {Null}

Rows == [k \in 1..height |-> k - 1]
Groups == 0..nGroups-1

\* Mutant: a minimum starts from the zero the cells are made with
StartFromZero(fn) == IF fn = "sum" THEN <<0, 0>> ELSE 0

(* What a group's cell is before its first valid value: a sum is kept with *)
(* the number of values in it, and Null stands for a cell not yet set.     *)
Start(fn) ==
  CASE fn = "sum" -> <<0, 0>>
    [] fn = "count" -> 0
    [] fn \in {"min", "max", "first", "last"} -> Null

(* What a valid value v of the group makes of its cell.                    *)
Step(fn, a, v) ==
  CASE fn = "sum" -> <<a[1] + v, a[2] + 1>>
    [] fn = "count" -> a + 1
    [] fn = "min" -> IF a = Null THEN v ELSE IF v < a THEN v ELSE a
    [] fn = "max" -> IF a = Null THEN v ELSE IF v > a THEN v ELSE a
    [] fn = "first" -> IF a = Null THEN v ELSE a
    [] fn = "last" -> v

(* One pass over the rows: each valid cell of col goes, in row order, into *)
(* the cell of its group.                                                  *)
Accumulate(col, fn) ==
  LET cells[k \in 0..height] ==
        IF k = 0 THEN [g \in Groups |-> Start(fn)]
        ELSE IF col[k-1] = Null THEN cells[k-1]
        ELSE [cells[k-1] EXCEPT ![gids[k-1]] = Step(fn, @, col[k-1])]
  IN  cells[height]

Count(col) == Accumulate(col, "count")
Smallest(col) == Accumulate(col, "min")
Largest(col) == Accumulate(col, "max")

Sum(col) ==
  LET acc == Accumulate(col, "sum")
  IN  [g \in Groups |-> IF acc[g][2] > 0 THEN acc[g][1] ELSE Null]

(* The mean is kept as the pair of its sum and its count.                  *)
Mean(col) ==
  LET acc == Accumulate(col, "sum")
  IN  [g \in Groups |-> IF acc[g][2] > 0 THEN acc[g] ELSE Null]

(* First and Last have a case for two types; a column of any other type    *)
(* takes the default, which returns valid zeros.                           *)
FirstLastTypes == {"Int64", "String"}

FirstValid(col, dtype) ==
  IF dtype \in FirstLastTypes THEN Accumulate(col, "first") ELSE [g \in Groups |-> 0]

LastValid(col, dtype) ==
  IF dtype \in FirstLastTypes THEN Accumulate(col, "last") ELSE [g \in Groups |-> 0]

(* buildIndexLists: the rows of each group, for the expressions that need  *)
(* the group as a data frame.                                              *)
IndexLists ==
  LET lists[k \in 0..height] ==
        IF k = 0 THEN [g \in Groups |-> <<>>]
        ELSE [lists[k-1] EXCEPT ![gids[k-1]] = Append(@, k-1)]
  IN  lists[height]

-----------------------------------------------------------------------------
(* What an aggregation should be, said of the keys and not of the table:   *)
(* the values of the rows whose key is that of the group's first row.      *)

Members(g) == {i \in DOMAIN key : rowsEqual(i, firstRows[g])}
Valid(col, g) == {i \in Members(g) : col[i] # Null}

Aggregated == pc = "done" /\ op = "groupby"

(* First and Last of column col, taken as one of type dtype, give group g  *)
(* its first and its last valid value, and null when it has none.          *)
FirstAndLast(col, dtype, g) ==
  LET rows == Valid(col, g)
  IN  /\ FirstValid(col, dtype)[g] = IF rows = {} THEN Null ELSE col[Min(rows)]
      /\ LastValid(col, dtype)[g] = IF rows = {} THEN Null ELSE col[Max(rows)]

(* Each group gets the aggregate of the valid values of its members, and   *)
(* null exactly when it has none: Count for a column of any type; Sum,     *)
(* Mean, Min and Max for one of a numeric type without NaN (any other type *)
(* is an error of applyNumericGroupAgg); First and Last for an Int64 or a  *)
(* String column only.  The index lists have all of the members of a       *)
(* group, in row order.                                                    *)
AggregatesAreOfMembers ==
  Aggregated => \A col \in Columns : \A g \in Groups :
    LET rows == Valid(col, g)
        vals == {col[i] : i \in rows}
    IN  /\ IndexLists[g] = RowList(Members(g))
        /\ Count(col)[g] = Cardinality(rows)
        /\ rows = {} =>
             \A cell \in {Sum(col)[g], Mean(col)[g], Smallest(col)[g], Largest(col)[g]} : cell = Null
        /\ rows # {} =>
             /\ Sum(col)[g] = MapThenSumSet(LAMBDA i : col[i], rows)
             /\ Mean(col)[g] = <<Sum(col)[g], Cardinality(rows)>>
             /\ Smallest(col)[g] = Min(vals)
             /\ Largest(col)[g] = Max(vals)
        /\ \A dtype \in FirstLastTypes : FirstAndLast(col, dtype, g)
=============================================================================
