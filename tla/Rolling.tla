------------------------------ MODULE Rolling ------------------------------
(***************************************************************************)
(* internal/series/rolling.go: a value for every window of rows.  Sums are *)
(* differences of prefix sums, the least and the greatest value is at the  *)
(* front of a queue of rows that may still become it.  Values are floating *)
(* point numbers in the code, here they are exact: a mean is the sum, a    *)
(* deviation is window * (sum of squares) - sum * sum.                     *)
(***************************************************************************)
EXTENDS Columns

\* toFloat64Values, a null is 0
FloatValues(a) == [i \in 0 .. a.length - 1 |-> IF IsNull(a, i) THEN 0 ELSE a.values[i]]

\* prefix[k] is the sum of the first k values
PrefixSum(values) ==
  LET n == Cardinality(DOMAIN values)
      prefix[k \in 0 .. n] == IF k = 0 THEN 0 ELSE prefix[k - 1] + values[k - 1]
  IN prefix

\* The sum of the window that ends in row i
WindowSum(prefix, window, i) == prefix[i + 1] - prefix[i - window + 1]

rollingSum(fn, values, window, i) ==
  LET sum == WindowSum(PrefixSum(values), window, i)
      sumSq == WindowSum(PrefixSum([k \in DOMAIN values |-> values[k] * values[k]]), window, i)
  IN IF fn = "std" THEN window * sumSq - sum * sum ELSE sum

\* Mutant: the front is kept one row too long
LeavesLate(front, i, window) == front < i - window

\* The row at the front of the queue has left the window that ends in row i
Leaves(front, i, window) == front <= i - window

\* The queue when the window ends in row i
Deque(fn, values, window, i) ==
  LET worse(a, b) == IF fn = "min" THEN b < a ELSE b > a
      \* the rows at the back are dropped while they are worse than row k
      kept(q, k) == Max({0} \cup {p \in DOMAIN q : ~worse(values[q[p]], values[k])})
      pushed(q, k) == Append(SubSeq(q, 1, kept(q, k)), k)
      step(q, k) == IF Leaves(pushed(q, k)[1], k, window) THEN Tail(pushed(q, k)) ELSE pushed(q, k)
      queue[k \in 0 .. i + 1] == IF k = 0 THEN <<>> ELSE step(queue[k - 1], k - 1)
  IN queue[i + 1]

rollingMinMax(fn, values, window, i) == values[Deque(fn, values, window, i)[1]]

\* A Float64 column, without a null when the window is not positive; nil for other
\* types than Int64 and Float64
rollingAgg(s, fn, window) ==
  LET n == s.arr.length
      values == FloatValues(s.arr)
      nulls == PrefixSum([i \in 0 .. n - 1 |-> IF IsNull(s.arr, i) THEN 1 ELSE 0])
      valid(i) == i >= window - 1 /\ WindowSum(nulls, window, i) = 0
      cell(i) == IF fn \in {"min", "max"} THEN rollingMinMax(fn, values, window, i)
                                          ELSE rollingSum(fn, values, window, i)
  IN IF window <= 0 \/ n = 0
       THEN Series(s.name, "Float64", TypedArray([i \in 0 .. n - 1 |-> 0], nil))
     ELSE IF s.dtype \notin {"Int64", "Float64"} THEN nil
     ELSE Series(s.name, "Float64",
                 TypedArray([i \in 0 .. n - 1 |-> IF valid(i) THEN cell(i) ELSE 0],
                            ClearAll(NewBitmap(n), {i \in 0 .. n - 1 : ~valid(i)})))
=============================================================================
