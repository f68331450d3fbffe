------------------------------- MODULE Frames -------------------------------
(***************************************************************************)
(* internal/dataframe: data frames as values, with the operations the      *)
(* query planner composes.  A series is a name, a data type and its cells; *)
(* a data frame is a sequence of series of one length and distinct names.  *)
(* An operation that returns an error returns Failed.                      *)
(*                                                                         *)
(* Rows are counted from 1.  A cell is an integer or Null, a boolean cell  *)
(* the bit of its bitmap.  A name is a string where nothing looks inside   *)
(* it, and a sequence of atoms where texts are taken apart.                *)
(***************************************************************************)
EXTENDS Integers, FiniteSets, SequencesExt

CONSTANTS
  Null,
  Suffix    \* "_right", a text as names are

Series(name, dtype, cells) == [cells |-> cells, name |-> name, dtype |-> dtype]
RenameSeries(s, name) == [s EXCEPT !.name = name]

Frame(cols) == [ok |-> TRUE, cols |-> cols]
Failed == [ok |-> FALSE, cols |-> <<>>]

Height(df) == IF df.cols = <<>> THEN 0 ELSE Len(df.cols[1].cells)
Names(df) == {df.cols[k].name : k \in DOMAIN df.cols}
Has(df, name) == name \in Names(df)

\* schema.Index, the place of a column that is there
Index(df, name) == CHOOSE k \in DOMAIN df.cols : df.cols[k].name = name
Column(df, name) == df.cols[Index(df, name)]

(* New: columns of one length and distinct names                           *)
New(cols) ==
  IF \A k, l \in DOMAIN cols :
       /\ Len(cols[k].cells) = Len(cols[l].cells)
       /\ cols[k].name = cols[l].name => k = l
    THEN Frame(cols) ELSE Failed

\* The cells of the given rows, of every column
Gather(df, rows) ==
  Frame([k \in DOMAIN df.cols |->
           [df.cols[k] EXCEPT !.cells = [p \in DOMAIN rows |-> @[rows[p]]]]])

(* take: Series.Take has no case for boolean columns and returns them as   *)
(* they are.  A nil data frame, when New then fails, is Failed here.       *)
TakeColumn(c, rows) ==
  IF c.dtype = "Boolean" THEN c ELSE [c EXCEPT !.cells = [p \in DOMAIN rows |-> @[rows[p]]]]

Take(df, rows) == New([k \in DOMAIN df.cols |-> TakeColumn(df.cols[k], rows)])

AllRows(df) == [i \in 1..Height(df) |-> i]

Select(df, names) ==
  IF ToSet(names) \subseteq Names(df)
    THEN New([k \in DOMAIN names |-> Column(df, names[k])])
    ELSE Failed

Drop(df, names) ==
  IF ToSet(names) \subseteq Names(df)
    THEN New(SelectSeq(df.cols, LAMBDA c : c.name \notin ToSet(names)))
    ELSE Failed

Rename(df, old, new) ==
  IF ~Has(df, old) \/ (old # new /\ Has(df, new)) THEN Failed
  ELSE Frame([df.cols EXCEPT ![Index(df, old)] = RenameSeries(@, new)])

\* A column replaces the one of its name or is appended.
WithColumn(df, col) ==
  IF ~df.ok \/ (Height(df) > 0 /\ Len(col.cells) # Height(df)) THEN Failed
  ELSE New(IF Has(df, col.name) THEN [df.cols EXCEPT ![Index(df, col.name)] = col]
                                ELSE Append(df.cols, col))

WithColumns(df, cols) == FoldLeft(WithColumn, df, cols)

(* Filter: the rows whose mask is true and not null; a mask that is not    *)
(* boolean or has another length is an error                               *)
Filter(df, mask) ==
  IF mask.dtype = "Boolean" /\ Len(mask.cells) = Height(df)
    THEN Gather(df, SelectSeq(AllRows(df), LAMBDA i : mask.cells[i] = 1))
    ELSE Failed

HeadRows(df, n) ==
  LET m == IF n > Height(df) THEN Height(df) ELSE IF n < 0 THEN 0 ELSE n
  IN  Gather(df, [i \in 1..m |-> i])

-----------------------------------------------------------------------------
(* Sort: nulls last whatever the direction.  One numeric column is sorted  *)
(* by ArgSort, which is stable except that data in the opposite order is   *)
(* reversed; otherwise a stable sort by comparators.  Cells are integers.  *)

Ordered(cells, rows, desc) ==
  \A p \in 1..Len(rows)-1 :
    IF desc THEN cells[rows[p]] >= cells[rows[p+1]] ELSE cells[rows[p]] <= cells[rows[p+1]]

StablyOrdered(cells, rows, desc) ==
  LET before(i, j) ==
        \/ IF desc THEN cells[i] > cells[j] ELSE cells[i] < cells[j]
        \/ cells[i] = cells[j] /\ i < j
  IN  SetToSortSeq(ToSet(rows), before)

SortedRows(cells, desc) ==
  LET rows == [i \in DOMAIN cells |-> i]
      nonNull == SelectSeq(rows, LAMBDA i : cells[i] # Null)
      nulls == SelectSeq(rows, LAMBDA i : cells[i] = Null)
  IN  (IF ~Ordered(cells, nonNull, desc) /\ Ordered(cells, nonNull, ~desc)
         THEN Reverse(nonNull) ELSE StablyOrdered(cells, nonNull, desc)) \o nulls

(* buildComparator: whether cell a sorts strictly before cell b            *)
Precedes(a, b, desc) ==
  /\ a # Null
  /\ b = Null \/ IF desc THEN a > b ELSE a < b

SortBy(df, names, descs) ==
  IF ~(ToSet(names) \subseteq Names(df)) THEN Failed
  ELSE LET cell(k, i) == Column(df, names[k]).cells[i]
           before(i, j) ==
             \/ \E k \in DOMAIN names :
                  /\ Precedes(cell(k, i), cell(k, j), descs[k])
                  /\ \A l \in 1..k-1 : cell(l, i) = cell(l, j)
             \/ i < j /\ \A k \in DOMAIN names : cell(k, i) = cell(k, j)
       IN  Take(df, IF Len(names) = 1 THEN SortedRows(Column(df, names[1]).cells, descs[1])
                    ELSE SetToSortSeq(1..Height(df), before))

Sort(df, name, desc) == SortBy(df, <<name>>, <<desc>>)

-----------------------------------------------------------------------------
(* Unique, GroupBy and Join: what their hash tables come to                *)

SameOn(df, names, i, j) == \A name \in names : Column(df, name).cells[i] = Column(df, name).cells[j]

FirstRows(df, names) ==
  SelectSeq(AllRows(df), LAMBDA i : \A j \in 1..i-1 : ~SameOn(df, names, i, j))

(* Unique: an empty data frame is returned before the subset is looked at  *)
Unique(df, subset) ==
  IF Height(df) = 0 THEN df
  ELSE IF ~(ToSet(subset) \subseteq Names(df)) THEN Failed
  ELSE LET firsts == FirstRows(df, IF subset = <<>> THEN Names(df) ELSE ToSet(subset))
       IN  IF Len(firsts) = Height(df) THEN df ELSE Take(df, firsts)

(* applyGroupAgg, one cell: the aggregate of the valid cells of some rows  *)
(* of a column; null if there are none, zero for a count.  Of a column     *)
(* that is neither Int64 nor String, FIRST and LAST are zeros, and valid.  *)
(* A mean is a number of MeanParts of one, whole for up to six cells; what *)
(* floats lose is left out.                                                *)
MeanParts == 60

Aggregate(fn, c, rows) ==
  LET valid == {i \in rows : c.cells[i] # Null}
      vals == {c.cells[i] : i \in valid}
      sum == MapThenSumSet(LAMBDA i : c.cells[i], valid)
  IN  IF fn = "COUNT" THEN Cardinality(valid)
      ELSE IF fn \in {"FIRST", "LAST"} /\ c.dtype \notin {"Int64", "String"} THEN 0
      ELSE IF valid = {} THEN Null
      ELSE CASE fn = "SUM" -> sum
             [] fn \in {"AVG", "MEAN"} -> (MeanParts * sum) \div Cardinality(valid)
             [] fn = "MIN" -> Min(vals)
             [] fn = "MAX" -> Max(vals)
             [] fn = "FIRST" -> c.cells[Min(valid)]
             [] fn = "LAST" -> c.cells[Max(valid)]

\* Columns are of numbers, texts or booleans; only numbers have a sum or extremes.
Aggregable(c, fn) == fn \in {"COUNT", "FIRST", "LAST"} \/ c.dtype = "Int64"

AggregateType(c, fn) ==
  IF fn = "COUNT" THEN "Int64"
  ELSE IF fn \in {"FIRST", "LAST"} /\ c.dtype \in {"Int64", "String"} THEN c.dtype
  ELSE "Float64"

(* GroupBy(keys).Agg: one row per key, in order of first appearance, the   *)
(* keys and then the aggregated columns; aggs is a sequence of columns     *)
(* with their functions, in the order in which the map is iterated         *)
GroupAgg(df, keys, aggs) ==
  IF \/ ~(ToSet(keys) \cup {aggs[k].col : k \in DOMAIN aggs} \subseteq Names(df))
     \/ \E k \in DOMAIN aggs : ~Aggregable(Column(df, aggs[k].col), aggs[k].fn)
    THEN Failed
  ELSE LET firsts == FirstRows(df, ToSet(keys))
           members(g) == {j \in 1..Height(df) : SameOn(df, ToSet(keys), firsts[g], j)}
           agg(a) == LET c == Column(df, a.col)
                     IN  Series(a.col, AggregateType(c, a.fn),
                                [g \in DOMAIN firsts |-> Aggregate(a.fn, c, members(g))])
       IN  New([k \in DOMAIN keys |-> TakeColumn(Column(df, keys[k]), firsts)]
               \o [k \in DOMAIN aggs |-> agg(aggs[k])])

(* JoinOn one key: each left row with its right matches in row order, then *)
(* the right rows without a match; the right key is left out, the left one *)
(* coalesced, and a right column whose name is taken gets a suffix.  A     *)
(* cross join has all pairs and all columns.                               *)
JoinOn(left, right, leftOn, rightOn, how) ==
  IF ~Has(left, leftOn) \/ ~Has(right, rightOn) THEN Failed
  ELSE LET matches(i) ==
             SelectSeq(AllRows(right), LAMBDA j :
               how = "CROSS" \/ Column(left, leftOn).cells[i] = Column(right, rightOn).cells[j])
           ofLeft(i) ==
             IF matches(i) = <<>> /\ how \in {"LEFT", "FULL"} THEN <<<<i, 0>>>>
             ELSE [k \in DOMAIN matches(i) |-> <<i, matches(i)[k]>>]
           unmatched ==
             IF how \in {"RIGHT", "FULL"}
               THEN SelectSeq(AllRows(right), LAMBDA j :
                      \A i \in 1..Height(left) : j \notin ToSet(matches(i)))
               ELSE <<>>
           rows == FlattenSeq([i \in 1..Height(left) |-> ofLeft(i)])
                   \o [k \in DOMAIN unmatched |-> <<0, unmatched[k]>>]
           gather(c, side) == [p \in DOMAIN rows |-> IF rows[p][side] = 0 THEN Null ELSE c.cells[rows[p][side]]]
           coalesced(c, d) == [p \in DOMAIN rows |->
                                 IF gather(c, 1)[p] = Null THEN gather(d, 2)[p] ELSE gather(c, 1)[p]]
           ofLeftColumn(c) ==
             [c EXCEPT !.cells = IF c.name = leftOn /\ how \in {"RIGHT", "FULL"}
                                   THEN coalesced(c, Column(right, rightOn)) ELSE gather(c, 1)]
           others == SelectSeq(right.cols, LAMBDA c : c.name # rightOn \/ how = "CROSS")
           ofRightColumn(c) ==
             Series(IF Has(left, c.name) THEN c.name \o Suffix ELSE c.name, c.dtype, gather(c, 2))
       IN  New([k \in DOMAIN left.cols |-> ofLeftColumn(left.cols[k])]
               \o [k \in DOMAIN others |-> ofRightColumn(others[k])])
=============================================================================
