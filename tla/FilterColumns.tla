---------------------------- MODULE FilterColumns ----------------------------
(***************************************************************************)
(* One query on a data frame, from the comparison of its cells to the      *)
(* columns of the result: a slice of the frame, then                       *)
(*                                                                         *)
(*   filter     a comparison kernel fills a boolean column word by word,   *)
(*              Not, And or Or combine it with another one, Filter makes   *)
(*              the mask and one goroutine per column picks the rows       *)
(*   take       one goroutine per column gathers rows in a given order,    *)
(*              as Sort, Unique and Sample ask for                         *)
(*   aggregate  the chunks of a typed column are reduced and merged        *)
(*                                                                         *)
(* or another arrangement of the cells: Concat of its parts, windows of    *)
(* rows, Unpivot and Pivot, Transpose, Explode.                            *)
(***************************************************************************)
EXTENDS Reshape, Rolling, RowLists

CONSTANTS FilterFrames,  \* frames to filter and to aggregate, as sequences of series
          TakeFrames,    \* frames to take from
          ShapeFrames,   \* frames to arrange in another way
          Slices,        \* the arguments <<start, end>> of Slice
          Conditions,    \* the comparisons asked for
          Windows,       \* the lengths of the windows
          Melts          \* the arguments <<idCols, valueCols>> of Unpivot

Frames == FilterFrames \cup TakeFrames \cup ShapeFrames

ASSUME FramesAssumption == \A cols \in Frames : IsFrame(cols)
ASSUME NamesAssumption == \A cols \in ShapeFrames : \A c \in DOMAIN cols : cols[c].name \in Seq(STRING)
ASSUME SlicesAssumption == \A sl \in Slices : sl[1] \in Int /\ sl[2] \in Nat
ASSUME ConditionsAssumption ==
  \A cond \in Conditions :
    /\ cond.left \in Nat \ {0} /\ cond.scalar \in Int
    /\ cond.op \in {"eq", "neq", "lt", "lte", "gt", "gte"}
    /\ cond.logic \in {"none", "not", "and", "or"}
ASSUME WindowsAssumption == \A window \in Windows : window \in Int
\* PivotBack takes the first identifier as the index: there has to be one
ASSUME MeltsAssumption ==
  \A melt \in Melts : melt[1] \in Seq(Nat) \ {<<>>} /\ melt[2] \in Seq(Nat) \ {<<>>}

VARIABLES phase,    \* what the query does next
          df,       \* the columns of the data frame
          request,  \* the operation and its arguments
          todo,     \* the words the comparison kernel has still to write
          pred,     \* the boolean array the condition evaluates to
          mask,     \* the bitmap the columns are filtered by
          cursor,   \* how far the goroutine of each column is, and its array
          result    \* what the operation returned

vars == <<phase, df, request, todo, pred, mask, cursor, result>>

Rows == 0 .. Height(df) - 1
MinOf(a, b) == IF a < b THEN a ELSE b

Init ==
  /\ phase = "slice"
  /\ df \in Frames
  /\ request = [op |-> "none", on |-> CASE df \in FilterFrames -> "filter"
                                       [] df \in TakeFrames -> "take"
                                       [] df \in ShapeFrames -> "shape"]
  /\ todo = {} /\ pred = nil /\ mask = nil
  /\ cursor = <<>>
  /\ result = nil

\* df.Slice: start and end are clamped
SliceFrame(start, end) ==
  /\ phase = "slice"
  /\ LET e == MinOf(end, Height(df))
         b == MinOf(IF start < 0 THEN 0 ELSE start, e)
     IN df' = [c \in DOMAIN df |-> SliceSeries(df[c], b, e)]
  /\ phase' = "start"
  /\ UNCHANGED <<request, todo, pred, mask, cursor, result>>

NoSlice ==
  /\ phase = "slice" /\ phase' = "start"
  /\ UNCHANGED <<df, request, todo, pred, mask, cursor, result>>

-----------------------------------------------------------------------------
(* The condition.  left and flag are the places of columns, right is one   *)
(* or 0, then the other operand is the scalar.                             *)

Compare(op, a, b) == CASE op = "eq" -> a = b
                       [] op = "neq" -> a # b
                       [] op = "lt" -> a < b
                       [] op = "lte" -> a <= b
                       [] op = "gt" -> a > b
                       [] op = "gte" -> a >= b

\* The conditions that are followed here: comparisons of Int64 columns, with a
\* boolean column as flag.  Those of Float64, String, Boolean and of mixed numeric
\* columns are evaluated by the code as well, and left out.
Evaluable(cond) ==
  /\ \A c \in {cond.left, cond.right} \ {0} : c \in DOMAIN df /\ df[c].dtype = "Int64"
  /\ cond.logic \in {"and", "or"} => cond.flag \in DOMAIN df /\ df[cond.flag].dtype = "Boolean"

StartCompare(cond) ==
  /\ phase = "start" /\ request.on = "filter"
  /\ Evaluable(cond)
  /\ LET left == df[cond.left].arr
     IN /\ todo' = WordIndexes(left.length)
        /\ pred' = BooleanArray(NewEmpty(left.length),
                                IF cond.right = 0 THEN left.validity
                                ELSE mergeValidity(left.validity, df[cond.right].arr.validity))
  /\ request' = [op |-> "filter", cond |-> cond]
  /\ phase' = "compare"
  /\ UNCHANGED <<df, mask, cursor, result>>

\* One word of the kernel.  The chunks of ParallelDo may be in any order.
CompareWord(wi) ==
  /\ phase = "compare" /\ wi \in todo
  /\ LET cond == request.cond
         left == df[cond.left].arr
         base == wi * wordSize
         limit == MinOf(base + wordSize, left.length)
         right(i) == IF cond.right = 0 THEN cond.scalar ELSE df[cond.right].arr.values[i]
         w == {i - base : i \in {i \in base .. limit - 1 :
                                   Compare(cond.op, left.values[i], right(i))}}
     IN pred' = [pred EXCEPT !.data = SetWord(@, wi, w)]
  /\ todo' = todo \ {wi}
  /\ UNCHANGED <<phase, df, request, mask, cursor, result>>

\* notExpr.Evaluate and logicalExpr.Evaluate, after their operands
Logical ==
  /\ phase = "compare" /\ todo = {}
  /\ LET cond == request.cond
         flag == df[cond.flag].arr
     IN pred' = CASE cond.logic = "none" -> pred
                  [] cond.logic = "not" -> BooleanArray(Not(pred.data), pred.validity)
                  [] cond.logic = "and" -> BooleanArray(And(pred.data, flag.data),
                                                        mergeValidity(pred.validity, flag.validity))
                  [] cond.logic = "or" -> BooleanArray(Or(pred.data, flag.data),
                                                       mergeValidity(pred.validity, flag.validity))
  /\ phase' = "mask"
  /\ UNCHANGED <<df, request, todo, mask, cursor, result>>

-----------------------------------------------------------------------------
(* Filter.  A goroutine goes through the words of the mask; it writes the  *)
(* rows it picks from place j on, the bytes of strings from pos on.        *)

\* All rows the word stands for are selected.
allSet(w, remaining) == w = AllOnes \/ (remaining < wordSize /\ w = LowBits(remaining))

\* The rows of one word in order: the whole span of a dense word, the set bits
\* below the length of a sparse one
PickedRows(a, w, wi) ==
  LET base == wi * wordSize
      remaining == MinOf(a.length - base, wordSize)
  IN IF allSet(w, remaining) THEN [k \in 1 .. remaining |-> base + k - 1]
     ELSE RowList({i \in {base + p : p \in w} : i < a.length})

\* What the kernel allocates before the first word; a type without a kernel
\* is done at once, its array unchanged
StartColumn(s, m) ==
  LET n == PopCount(m)
      a == s.arr
      v == NewValidity(a, n)
      bytes == [wi \in DOMAIN m.data |-> LET rows == PickedRows(a, m.data[wi], wi)
                                         IN Ends(a, rows, 0)[Len(rows)]]
      totalBytes == MapThenSumSet(LAMBDA wi : bytes[wi], DOMAIN m.data)
      zeros(len) == [p \in 0 .. len - 1 |-> 0]
  IN [wi |-> 0, j |-> 0, pos |-> 0,
      done |-> s.dtype \notin Filterable \/ DOMAIN m.data = {},
      arr |-> CASE s.dtype \notin Filterable -> a
                [] s.dtype = "Boolean" -> BooleanArray(NewEmpty(n), v)
                [] s.dtype = "String" -> StringArray(zeros(totalBytes), zeros(n + 1), v)
                [] OTHER -> TypedArray(zeros(n), v)]

FilterTyped(a, cur, rows) ==
  [cur.arr EXCEPT !.values = Put(@, cur.j, rows, LAMBDA i : a.values[i]),
                  !.validity = ClearNulls(@, a, rows, cur.j)]

\* Mutant: a dense word is copied wherever it goes to
IsAlignedAnywhere(cur) == TRUE

IsAligned(cur) == cur.j % wordSize = 0

\* A dense word that goes to the start of a word is copied as one.
FilterBoolean(a, cur, w, rows) ==
  LET remaining == MinOf(a.length - cur.wi * wordSize, wordSize)
      outWord == cur.j \div wordSize
      copied(b) == b.data[cur.wi] \cap LowBits(remaining)
  IN IF allSet(w, remaining) /\ IsAligned(cur)
       THEN [cur.arr EXCEPT
               !.data = SetWord(@, outWord, copied(a.data)),
               !.validity = IF a.validity = nil THEN @ ELSE SetWord(@, outWord, copied(a.validity))]
       ELSE [cur.arr EXCEPT
               !.data = SetAll(@, {cur.j + k - 1 : k \in {k \in DOMAIN rows : IsSet(a.data, rows[k])}}),
               !.validity = ClearNulls(@, a, rows, cur.j)]

\* A dense word's bytes are copied as one block and its offsets are shifted.
FilterString(a, cur, w, rows) ==
  LET base == cur.wi * wordSize
      remaining == MinOf(a.length - base, wordSize)
      byteStart == a.offsets[base]
      delta == cur.pos - byteStart
      ends == Ends(a, rows, cur.pos)
      dense == allSet(w, remaining)
  IN [cur.arr EXCEPT
        !.bytes = IF dense
                    THEN [p \in DOMAIN @ |-> IF cur.pos <= p /\ p < a.offsets[base + remaining] + delta
                                               THEN a.bytes[p - delta] ELSE @[p]]
                    ELSE CopyBytes(@, a, rows, ends),
        !.offsets = IF dense THEN Put(@, cur.j + 1, rows, LAMBDA i : a.offsets[i + 1] + delta)
                             ELSE [k \in DOMAIN @ |-> IF k - cur.j \in DOMAIN rows
                                                        THEN ends[k - cur.j] ELSE @[k]],
        !.validity = ClearNulls(@, a, rows, cur.j)]

\* Mutant: the data bits of null rows are selected
MaskOfDataOnly(p) == p.data

\* df.Filter: the rows where the mask is null are out
MaskOf(p) == IF HasNulls(p) THEN And(p.data, p.validity) ELSE p.data

StartFilter ==
  /\ phase = "mask"
  /\ mask' = MaskOf(pred)
  /\ cursor' = [c \in DOMAIN df |-> StartColumn(df[c], mask')]
  /\ phase' = "columns"
  /\ UNCHANGED <<df, request, todo, pred, result>>

\* One word in the goroutine of column c
FilterWord(c) ==
  /\ phase = "columns" /\ request.op = "filter" /\ ~cursor[c].done
  /\ LET cur == cursor[c]
         a == df[c].arr
         w == mask.data[cur.wi]
         rows == PickedRows(a, w, cur.wi)
     IN cursor' = [cursor EXCEPT ![c] =
          [wi |-> cur.wi + 1,
           j |-> cur.j + Len(rows),
           pos |-> IF df[c].dtype = "String" THEN Ends(a, rows, cur.pos)[Len(rows)] ELSE 0,
           done |-> cur.wi + 1 \notin DOMAIN mask.data,
           arr |-> CASE df[c].dtype = "Boolean" -> FilterBoolean(a, cur, w, rows)
                     [] df[c].dtype = "String" -> FilterString(a, cur, w, rows)
                     [] OTHER -> FilterTyped(a, cur, rows)]]
  /\ UNCHANGED <<phase, df, request, todo, pred, mask, result>>

-----------------------------------------------------------------------------
(* take, for a permutation of the rows (Sort), their first occurrences      *)
(* (Unique) or some of them in any order (Sample).                         *)

TakesRows == phase = "start" /\ request.on = "take"

StartTake(indices) ==
  /\ TakesRows
  /\ request' = [op |-> "take", indices |-> indices]
  /\ cursor' = [c \in DOMAIN df |-> [done |-> FALSE, arr |-> nil]]
  /\ phase' = "columns"
  /\ UNCHANGED <<df, todo, pred, mask, result>>

TakeColumn(c) ==
  /\ phase = "columns" /\ request.op = "take" /\ ~cursor[c].done
  /\ cursor' = [cursor EXCEPT ![c] = [done |-> TRUE,
                                      arr |-> TakeSeries(df[c], request.indices).arr]]
  /\ UNCHANGED <<phase, df, request, todo, pred, mask, result>>

\* wg.Wait, then New.  When New fails, FilterMask returns a frame without
\* columns and take a nil one.
Assemble ==
  /\ phase = "columns" /\ \A c \in DOMAIN df : cursor[c].done
  /\ LET cols == [c \in DOMAIN df |-> [df[c] EXCEPT !.arr = cursor[c].arr]]
     IN result' = IF \A c \in DOMAIN cols : cols[c].arr.length = Height(cols)
                    THEN [cols |-> cols, height |-> Height(cols)]
                  ELSE IF request.op = "filter" THEN [cols |-> <<>>, height |-> Height(cols)]
                  ELSE nil
  /\ phase' = "done"
  /\ UNCHANGED <<df, request, todo, pred, mask, cursor>>

-----------------------------------------------------------------------------
(* Sum, Mean, Variance, Min and Max: a partial result for every chunk, and *)
(* the partial results merged in order.  total and sq are of floating      *)
(* point numbers in the code, here they are exact.                         *)

ValidRows(a, start, end) == {i \in start .. end - 1 : ~IsNull(a, i)}

SumOf(cells) == MapThenSumSet(LAMBDA i : cells[i], DOMAIN cells)

\* min and max are 0, the zero value, while nothing is found.
Partial(a, start, end) ==
  LET R == ValidRows(a, start, end)
  IN [found |-> R # {},
      count |-> Cardinality(R),
      total |-> SumOf([i \in R |-> a.values[i]]),
      sq |-> SumOf([i \in R |-> a.values[i] * a.values[i]]),
      min |-> IF R = {} THEN 0 ELSE Min({a.values[i] : i \in R}),
      max |-> IF R = {} THEN 0 ELSE Max({a.values[i] : i \in R})]

NoPartial == [found |-> FALSE, count |-> 0, total |-> 0, sq |-> 0, min |-> 0, max |-> 0]

\* Mutant: the zero value of a chunk of nulls takes part
MergeUnfound(p, q) ==
  [found |-> p.found \/ q.found, count |-> p.count + q.count, total |-> p.total + q.total,
   sq |-> p.sq + q.sq,
   min |-> IF ~p.found \/ q.min < p.min THEN q.min ELSE p.min,
   max |-> IF ~p.found \/ q.max > p.max THEN q.max ELSE p.max]

Merge(p, q) ==
  [found |-> p.found \/ q.found,
   count |-> p.count + q.count,
   total |-> IF q.found THEN p.total + q.total ELSE p.total,
   sq |-> p.sq + q.sq,
   min |-> IF q.found /\ (~p.found \/ q.min < p.min) THEN q.min ELSE p.min,
   max |-> IF q.found /\ (~p.found \/ q.max > p.max) THEN q.max ELSE p.max]

\* cuts are the first rows of all chunks but the first one.
Aggregate(c, cuts) ==
  /\ phase = "start" /\ request.on = "filter"
  /\ df[c].dtype \notin {"Boolean", "String"}
  /\ LET a == df[c].arr
         bounds == RowList(cuts \cup {0, a.length})
         n == Len(bounds) - 1
         merged[k \in 0 .. n] == IF k = 0 THEN NoPartial
                                ELSE Merge(merged[k - 1], Partial(a, bounds[k], bounds[k + 1]))
     IN result' = merged[n]
  /\ request' = [op |-> "aggregate", column |-> c]
  /\ phase' = "done"
  /\ UNCHANGED <<df, todo, pred, mask, cursor>>

-----------------------------------------------------------------------------
(* Concat, rolling, Unpivot, Pivot, Transpose and Explode                  *)

Shaped(req, res) ==
  /\ phase = "start" /\ request.on = "shape"
  /\ request' = req
  /\ result' = res
  /\ phase' = IF req.op = "unpivot" /\ res # nil THEN "long" ELSE "done"
  /\ UNCHANGED <<df, todo, pred, mask, cursor>>

\* Three parts of the frame, cut at two rows, one below the other.  A part may be
\* empty; it is a slice, or was read by itself and has a validity only if it has a
\* null.
ConcatParts(a, b, read) ==
  LET series(s) == IF read /\ ~HasNulls(s.arr) THEN [s EXCEPT !.arr.validity = nil] ELSE s
      part(start, end) == [c \in DOMAIN df |-> series(SliceSeries(df[c], start, end))]
  IN /\ a <= b
     /\ \E parts \in {<<part(0, a), part(a, b), part(b, Height(df))>>} :
          Shaped([op |-> "concat"], ConcatFrames(parts))

\* The columns up to one side by side with those from another one on
ConcatColumns(last, first) ==
  Shaped([op |-> "beside", last |-> last, first |-> first],
         ConcatHorizontal(<<SubSeq(df, 1, last), SubSeq(df, first, Len(df))>>))

RollColumn(c, fn, window) ==
  LET s == rollingAgg(df[c], fn, window)
  IN Shaped([op |-> "rolling", column |-> c, fn |-> fn, window |-> window],
            IF s = nil THEN nil ELSE New(<<s>>))

UnpivotFrame(idCols, valueCols) ==
  /\ ToSet(idCols) \cup ToSet(valueCols) \subseteq DOMAIN df
  /\ Shaped([op |-> "unpivot", ids |-> idCols, vals |-> valueCols], Unpivot(df, idCols, valueCols))

\* The first identifier says which row, the variable which column
PivotBack ==
  /\ phase = "long"
  /\ LET n == Len(request.ids)
     IN result' = Pivot(result.cols, 1, n + 1, n + 2)
  /\ request' = [request EXCEPT !.op = "pivot"]
  /\ phase' = "done"
  /\ UNCHANGED <<df, todo, pred, mask, cursor>>

TransposeFrame == Shaped([op |-> "transpose"], Transpose(df))

ExplodeColumn(c) == Shaped([op |-> "explode", column |-> c], Explode(df, c))

-----------------------------------------------------------------------------
\* What Sort, Unique and Sample ask take for: different rows, in any order
IndexLists == {s \in SetToAllKPermutations(Rows) : s = <<>> => Rows = {}}

Finished == phase = "done" /\ UNCHANGED vars

Next ==
  \/ \E sl \in Slices : SliceFrame(sl[1], sl[2])
  \/ NoSlice
  \/ \E cond \in Conditions : StartCompare(cond)
  \/ \E wi \in todo : CompareWord(wi)
  \/ Logical
  \/ StartFilter
  \/ \E c \in DOMAIN df : FilterWord(c)
  \/ TakesRows /\ \E indices \in IndexLists : StartTake(indices)
  \/ \E c \in DOMAIN df : TakeColumn(c)
  \/ Assemble
  \/ \E c \in DOMAIN df : \E cuts \in SUBSET (1 .. Height(df) - 1) : Aggregate(c, cuts)
  \/ \E a \in 0 .. Height(df), b \in 0 .. Height(df), read \in BOOLEAN : ConcatParts(a, b, read)
  \/ \E last \in DOMAIN df, first \in DOMAIN df : ConcatColumns(last, first)
  \/ \E c \in DOMAIN df, fn \in {"sum", "mean", "std", "min", "max"}, window \in Windows :
       RollColumn(c, fn, window)
  \/ \E melt \in Melts : UnpivotFrame(melt[1], melt[2])
  \/ PivotBack
  \/ TransposeFrame
  \/ \E c \in DOMAIN df : ExplodeColumn(c)
  \/ Finished

Spec == Init /\ [][Next]_vars

-----------------------------------------------------------------------------
(* Properties.                                                             *)

BitmapsOf(s) == {s.arr.validity} \cup (IF s.dtype = "Boolean" THEN {s.arr.data} ELSE {})

\* No bitmap ever has a bit set past its length, whatever Slice, Not, a
\* comparison kernel, a copied word or Concat made of it: PopCount, which sizes the
\* arrays of a filter, and the dense path read whole words.
SlackBitsClear ==
  \A b \in (UNION {BitmapsOf(df[c]) : c \in DOMAIN df})
           \cup (IF pred = nil THEN {} ELSE BitmapsOf(Series("", "Boolean", pred)))
           \cup {mask}
           \cup (IF result = nil \/ request.op = "aggregate" THEN {}
                 ELSE UNION {BitmapsOf(result.cols[c]) : c \in DOMAIN result.cols})
           \cup (UNION {BitmapsOf([df[c] EXCEPT !.arr = cursor[c].arr]) :
                          c \in {d \in DOMAIN cursor : cursor[d].arr # nil}}) :
    b # nil => SlackClear(b)

\* While the columns are filtered, each goroutine at a word of its own, what
\* each has written are the cells of the rows selected by the words it has
\* done, in order: dense or sparse, aligned or not.
FilteredSoFar ==
  phase = "columns" /\ request.op = "filter" =>
    \A c \in {c \in DOMAIN df : df[c].dtype \in Filterable} :
      LET cur == cursor[c]
          out == [df[c] EXCEPT !.arr = cur.arr]
          rows == RowList({i \in Rows : i < cur.wi * wordSize /\ IsSet(mask, i)})
      IN /\ cur.j = Len(rows)
         /\ \A k \in DOMAIN rows : Cell(out, k - 1) = Cell(df[c], rows[k])

\* What the condition says of a row: null when an operand is
CondCell(cond, i) ==
  LET l == Cell(df[cond.left], i)
      r == IF cond.right = 0 THEN cond.scalar ELSE Cell(df[cond.right], i)
      holds == IF l = Null \/ r = Null THEN Null ELSE Compare(cond.op, l, r)
      f == Cell(df[cond.flag], i)
  IN CASE cond.logic = "none" -> holds
       [] cond.logic = "not" -> IF holds = Null THEN Null ELSE ~holds
       [] cond.logic = "and" -> IF holds = Null \/ f = Null THEN Null ELSE holds /\ f
       [] cond.logic = "or" -> IF holds = Null \/ f = Null THEN Null ELSE holds \/ f

ChosenRows ==
  IF request.op = "take" THEN request.indices
  ELSE RowList({i \in Rows : CondCell(request.cond, i) = TRUE})

\* A filter returns the rows its condition is true of and a take the rows asked
\* for, in order, and every column has the cells of the same rows: the columns
\* were made by different goroutines and kernels.
RowsStayTogether ==
  phase = "done" /\ request.op \in {"filter", "take"} =>
    /\ result # nil
    /\ DOMAIN result.cols = DOMAIN df
    /\ result.height = Len(ChosenRows)
    /\ \A c \in DOMAIN df : \A k \in 1 .. result.height :
         Cell(result.cols[c], k - 1) = Cell(df[c], ChosenRows[k])

\* An aggregate is that of the valid cells of the column, however the rows are
\* cut into chunks, chunks of nulls only among them.
AggregatesIgnoreChunks ==
  phase = "done" /\ request.op = "aggregate" =>
    LET s == df[request.column]
        V == {i \in Rows : Cell(s, i) # Null}
    IN /\ result.found <=> V # {}
       /\ result.count = Cardinality(V)
       /\ result.total = SumOf([i \in V |-> Cell(s, i)])
       /\ result.sq = SumOf([i \in V |-> Cell(s, i) * Cell(s, i)])
       /\ V # {} => /\ result.min = Min({Cell(s, i) : i \in V})
                    /\ result.max = Max({Cell(s, i) : i \in V})

\* Data frames one below the other keep their rows, whichever bits of a word the
\* next one starts at and whichever of them has a validity; columns side by
\* side stay as they are, and one that is there twice is an error (Concat,
\* ConcatHorizontal).
ConcatKeepsRows ==
  phase = "done" =>
    /\ request.op = "concat" =>
         /\ result # nil /\ result.height = Height(df) /\ Schema(result.cols) = Schema(df)
         /\ \A c \in DOMAIN df : \A i \in Rows : Cell(result.cols[c], i) = Cell(df[c], i)
    /\ request.op = "beside" =>
         IF request.first <= request.last THEN result = nil
         ELSE result.cols = SubSeq(df, 1, request.last) \o SubSeq(df, request.first, Len(df))

\* A cell of a rolling column is computed from the cells of its own window and
\* no others, and is null exactly if one of these is, or the window begins
\* before the first row (RollingSum, RollingMean, RollingStd, RollingMin, RollingMax).
RollingIsOfWindow ==
  phase = "done" /\ request.op = "rolling" /\ request.window > 0 /\ result # nil =>
    LET window == request.window
        cells(i) == [j \in i - window + 1 .. i |-> Cell(df[request.column], j)]
        sum(i) == SumOf(cells(i))
        off(i, j) == window * cells(i)[j] - sum(i)
        \* the sum of the squared deviations from the mean, times window squared
        deviations(i) == SumOf([j \in DOMAIN cells(i) |-> off(i, j) * off(i, j)])
    IN \A i \in Rows :
         LET out == Cell(result.cols[1], i)
         IN IF i < window - 1 THEN out = Null
            ELSE IF \E j \in DOMAIN cells(i) : cells(i)[j] = Null THEN out = Null
            ELSE CASE request.fn \in {"sum", "mean"} -> out = sum(i)
                   [] request.fn = "std" -> window * out = deviations(i)
                   [] request.fn = "min" -> out = Min({cells(i)[j] : j \in DOMAIN cells(i)})
                   [] request.fn = "max" -> out = Max({cells(i)[j] : j \in DOMAIN cells(i)})

\* The melted columns are of one type that can be built, or of integers and floats.
OneType(vals) ==
  \A k, l \in DOMAIN vals :
    /\ df[vals[k]].dtype \in Buildable
    /\ \/ df[vals[k]].dtype = df[vals[l]].dtype
       \/ {df[vals[k]].dtype, df[vals[l]].dtype} = {"Int64", "Float64"}

\* Pivot undoes Unpivot: one row for every text of the identifier, with the cells
\* of the first row that has it, each in its own column, unless the identifier is
\* a value column too.
PivotUndoesUnpivot ==
  phase = "done" /\ request.op = "pivot"
  /\ OneType(<<request.ids[1]>>) /\ OneType(request.vals) /\ IsInjective(request.vals) =>
    LET id == request.ids[1]
        firsts == RowList({i \in Rows : \A j \in 0 .. i - 1 : TextOf(df[id], j) # TextOf(df[id], i)})
    IN IF id \in ToSet(request.vals) /\ Rows # {} THEN result = nil
       ELSE \A r \in DOMAIN firsts :
              /\ result.height = Len(firsts)
              /\ Cell(result.cols[1], r - 1) = TextOf(df[id], firsts[r])
              /\ \A k \in DOMAIN request.vals :
                   /\ result.cols[k + 1].name = df[request.vals[k]].name
                   /\ Cell(result.cols[k + 1], r - 1) = Cell(df[request.vals[k]], firsts[r])

\* Columns of these types Transpose and Explode have a case for; of others they make
\* zeros and empty texts.
AllBuildable == \A c \in DOMAIN df : df[c].dtype \in Buildable

\* Transpose turns rows into columns, and no cell of them is lost, whatever the
\* common type of the columns is.
TransposeTurnsRows ==
  phase = "done" /\ request.op = "transpose" /\ result # nil /\ AllBuildable =>
    /\ Len(result.cols) = Height(df) + 1
    /\ \A i \in Rows : \A c \in DOMAIN df : Cell(result.cols[i + 2], c - 1) = Cell(df[c], i)

\* Explode leaves a row the pieces of its text, in order and without the spaces
\* around them, each next to the other cells of the row.
ExplodeKeepsPieces ==
  phase = "done" /\ request.op = "explode" /\ result # nil /\ AllBuildable =>
    LET text(i) == Cell(df[request.column], i)
        commas(i) == {k \in DOMAIN text(i) : text(i)[k] = Comma}
        count == [i \in Rows |-> IF text(i) = Null THEN 1 ELSE Cardinality(commas(i)) + 1]
        from(i) == MapThenSumSet(LAMBDA j : count[j], 0 .. i - 1)
        letters(t) == LET places == RowList({k \in DOMAIN t : t[k] \notin {Comma, Space}})
                      IN [n \in DOMAIN places |-> t[places[n]]]
        cellsOf(c, i) == [k \in 1 .. count[i] |-> Cell(result.cols[c], from(i) + k - 1)]
    IN /\ result.height = from(Height(df))
       /\ \A i \in Rows : \A c \in DOMAIN df :
            IF c # request.column THEN \A k \in 1 .. count[i] : cellsOf(c, i)[k] = Cell(df[c], i)
            ELSE IF text(i) = Null THEN cellsOf(c, i) = <<Null>>
            ELSE letters(FlattenSeq(cellsOf(c, i))) = letters(text(i))

\* Reshaped, every cell is still with those it belongs to.
ReshapeMovesCells == PivotUndoesUnpivot /\ TransposeTurnsRows /\ ExplodeKeepsPieces
=============================================================================
