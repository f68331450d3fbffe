------------------------------ MODULE ArgSort ------------------------------
(***************************************************************************)
(* internal/array/radix_sort.go: the argument sorts behind Sort of a       *)
(* numeric column.  One call partitions the nulls off, tries the shortcuts *)
(* for sorted data, and else runs a stable comparison sort or an LSD radix *)
(* sort, one pass per digit of the sort key.                               *)
(*                                                                         *)
(* A value is its bit pattern in a word of Digits digits of base Base (8   *)
(* bytes in the code).  What a pattern means depends on its type: an       *)
(* unsigned number, a two's complement number, or a float: a sign and a    *)
(* magnitude whose largest pattern is NaN.                                 *)
(***************************************************************************)
EXTENDS Integers, Sequences, FiniteSets, SequencesExt, RowLists

CONSTANTS
  Types,     \* of "uint64", "int64", "float64" (radix) and "int16" (comparison)
  Patterns,  \* the bit patterns of a type that columns are made of
  Lengths,   \* the lengths of the columns
  Base,      \* the values of a digit (256 in the code)
  Digits,    \* the digits of a key (8, or 4 for the 32 bit types)
  RadixMin   \* radixSortThreshold (256 in the code)

(* The weight of a digit                                                   *)
Weight[d \in 0..Digits] == IF d = 0 THEN 1 ELSE Base * Weight[d-1]

ASSUME SortAssumption ==
  /\ Types \subseteq {"uint64", "int64", "float64", "int16"}
  /\ Base \in Nat \ {0, 1} /\ Base % 2 = 0
  /\ Digits \in Nat \ {0}
  /\ Patterns \in [Types -> SUBSET (0..Weight[Digits]-1)]
  /\ Lengths \subseteq Nat
  /\ RadixMin \in Nat

VARIABLES
  dtype,       \* the type of the column
  vals,        \* a.Values(): row -> bit pattern (whatever is there under a null)
  valid,       \* the rows whose validity bit is set
  descending,  \* the argument
  pc,          \* "partition", "shortcut", "sort", "radix" or "done"
  nonNull,     \* indices[:validCount]
  nulls,       \* the rest of indices
  pass         \* the next digit of radixArgSort64

vars == <<dtype, vals, valid, descending, pc, nonNull, nulls, pass>>

-----------------------------------------------------------------------------
(* Values                                                                  *)

Full == Weight[Digits]
Half == Full \div 2
NaN == Half - 1      \* the magnitude of NaN

IsNaN(v) == dtype = "float64" /\ v % Half = NaN

(* The number a pattern stands for; both zeros of a float are 0.           *)
Number(v) ==
  CASE dtype = "uint64" -> v
    [] dtype \in {"int64", "int16"} -> IF v >= Half THEN v - Full ELSE v
    [] dtype = "float64" -> IF v >= Half THEN -(v - Half) ELSE v

(* Go's < : false whenever a NaN takes part                                *)
Less(a, b) == ~IsNaN(a) /\ ~IsNaN(b) /\ Number(a) < Number(b)

\* Go's <=
AtMost(a, b) == ~IsNaN(a) /\ ~IsNaN(b) /\ Number(a) <= Number(b)

(* cmp.Compare(a, b) < 0 : NaN is below everything else                    *)
Below(a, b) == IF IsNaN(a) THEN ~IsNaN(b) ELSE Less(a, b)

\* Mutant: the sign bit of a negative float is flipped like that of a positive one
SortKeyNoComplement(v) == IF dtype = "uint64" THEN v ELSE (v + Half) % Full

(* int64ToSortableUint64 flips the sign bit; float64ToSortableUint64       *)
(* complements the bits of a negative number and sets the sign bit of a    *)
(* positive one.                                                           *)
SortKey(v) ==
  CASE dtype = "uint64" -> v
    [] dtype \in {"int64", "int16"} -> (v + Half) % Full
    [] dtype = "float64" -> IF v >= Half THEN Full - 1 - v ELSE v + Half

-----------------------------------------------------------------------------
(* Sequences of row indices                                                *)

(* The stable sort of indices by a strict weak order on values.            *)
StableSort(indices, before(_, _)) ==
  LET ahead(k) == {l \in DOMAIN indices :
                     \/ before(vals[indices[l]], vals[indices[k]])
                     \/ ~before(vals[indices[k]], vals[indices[l]]) /\ l < k}
  IN  [p \in DOMAIN indices |->
         indices[CHOOSE k \in DOMAIN indices : Cardinality(ahead(k)) = p - 1]]

Directed(before(_, _), a, b) == IF descending THEN before(b, a) ELSE before(a, b)

(* isSorted, isSortedDesc: no neighbours in the wrong order                *)
InOrder(indices, desc) ==
  \A k \in 1..Len(indices)-1 :
    IF desc THEN ~Less(vals[indices[k]], vals[indices[k+1]])
            ELSE ~Less(vals[indices[k+1]], vals[indices[k]])

(* checkSortedShortcut: sorted data is left alone, data sorted the other   *)
(* way round is reversed; empty when no shortcut applies                   *)
Shortcut(indices) ==
  IF InOrder(indices, descending) THEN indices
  ELSE IF InOrder(indices, ~descending) THEN Reverse(indices)
  ELSE <<>>

(* isMostlySorted on the whole column, the slots of nulls included: at     *)
(* least 90% of the neighbours are in order (columns below 256 rows)       *)
MostlySorted ==
  LET n == Cardinality(DOMAIN vals)
      good == {i \in 1..n-1 : Directed(AtMost, vals[i-1], vals[i])}
  IN  Cardinality(good) >= ((n - 1) * 9) \div 10

\* The byte a pass looks at
Digit(v, p) == (SortKey(v) \div Weight[p]) % Base

\* Mutant: a pass scatters the bucket of a digit in reverse
ScatterUnstable(indices, p) ==
  StableSort(Reverse(indices), LAMBDA a, b : Directed(LAMBDA x, y : Digit(x, p) < Digit(y, p), a, b))

\* Mutant: count[b]++ is forgotten, so rows of one digit overwrite each other
ScatterForgetsCount(indices, p) ==
  LET starts(k) == 1 + Cardinality({l \in DOMAIN indices :
                         Directed(LAMBDA x, y : Digit(x, p) < Digit(y, p),
                                  vals[indices[l]], vals[indices[k]])})
  IN  [q \in DOMAIN indices |->
         IF \E k \in DOMAIN indices : starts(k) = q
           THEN indices[CHOOSE k \in DOMAIN indices :
                  starts(k) = q /\ \A l \in DOMAIN indices : starts(l) = q => l <= k]
           ELSE 0]

(* one pass of radixArgSort64: count, prefix sums from the low or the high *)
(* end, scatter in index order; a pass whose digits are all equal is       *)
(* skipped, which moves nothing                                            *)
Scatter(indices, p) ==
  StableSort(indices, LAMBDA a, b : Directed(LAMBDA x, y : Digit(x, p) < Digit(y, p), a, b))

-----------------------------------------------------------------------------
Init ==
  /\ dtype \in Types
  /\ \E n \in Lengths :
       /\ vals \in [0..n-1 -> Patterns[dtype]]
       /\ valid \in SUBSET (0..n-1)
  /\ descending \in BOOLEAN
  /\ pc = "partition"
  /\ nonNull = <<>>
  /\ nulls = <<>>
  /\ pass = 0

(* partitionNulls: the non-null rows in order, then the null rows          *)
Partition ==
  /\ pc = "partition"
  /\ nonNull' = RowList(valid)
  /\ nulls' = RowList(DOMAIN vals \ valid)
  /\ pc' = IF Len(nonNull') <= 1 THEN "done"
           ELSE IF dtype = "int16" THEN "sort" ELSE "shortcut"
  /\ UNCHANGED <<dtype, vals, valid, descending, pass>>

TakeShortcut ==
  /\ pc = "shortcut"
  /\ Shortcut(nonNull) # <<>>
  /\ nonNull' = Shortcut(nonNull)
  /\ pc' = "done"
  /\ UNCHANGED <<dtype, vals, valid, descending, nulls, pass>>

NoShortcut ==
  /\ pc = "shortcut"
  /\ Shortcut(nonNull) = <<>>
  /\ pc' = IF MostlySorted THEN "sort" ELSE "radix"
  /\ UNCHANGED <<dtype, vals, valid, descending, nonNull, nulls, pass>>

\* Mutant: descending order is ascending order reversed
CompareSortReversed ==
  /\ pc = "sort"
  /\ LET up == StableSort(nonNull, Below)
     IN  nonNull' = IF descending THEN Reverse(up) ELSE up
  /\ pc' = "done"
  /\ UNCHANGED <<dtype, vals, valid, descending, nulls, pass>>

(* slices.SortStableFunc with cmp.Compare                                  *)
CompareSort ==
  /\ pc = "sort"
  /\ nonNull' = StableSort(nonNull, LAMBDA a, b : Directed(Below, a, b))
  /\ pc' = "done"
  /\ UNCHANGED <<dtype, vals, valid, descending, nulls, pass>>

(* radixArgSort64 below its threshold: a stable sort by the keys           *)
KeySort ==
  /\ pc = "radix"
  /\ Len(nonNull) < RadixMin
  /\ nonNull' = StableSort(nonNull, LAMBDA a, b :
                  Directed(LAMBDA x, y : SortKey(x) < SortKey(y), a, b))
  /\ pc' = "done"
  /\ UNCHANGED <<dtype, vals, valid, descending, nulls, pass>>

RadixPass ==
  /\ pc = "radix"
  /\ Len(nonNull) >= RadixMin
  /\ pass < Digits
  /\ nonNull' = Scatter(nonNull, pass)
  /\ pass' = pass + 1
  /\ pc' = IF pass' = Digits THEN "done" ELSE "radix"
  /\ UNCHANGED <<dtype, vals, valid, descending, nulls>>

Finished == pc = "done" /\ UNCHANGED vars

Next == Partition \/ TakeShortcut \/ NoShortcut \/ CompareSort \/ KeySort \/ RadixPass \/ Finished

Spec == Init /\ [][Next]_vars

-----------------------------------------------------------------------------
(* Properties                                                              *)

Result == nonNull \o nulls

(* The result names every row once, whatever path was taken; nulls come    *)
(* last even when descending, in row order.                                *)
NoRowLost ==
  pc # "partition" =>
    /\ Len(Result) = Cardinality(DOMAIN vals)
    /\ Range(Result) = DOMAIN vals
    /\ Range(nonNull) = valid
    /\ \A k, l \in DOMAIN nulls : k < l => nulls[k] < nulls[l]

HasNaN == \E i \in valid : IsNaN(vals[i])

(* A column without NaN comes out sorted by its numbers in the direction   *)
(* asked for: sign bits, negative floats and both zeros included.          *)
SortedByNumber ==
  pc = "done" /\ ~HasNaN => InOrder(nonNull, descending)

(* After k passes the rows are ordered by the k low digits of their keys,  *)
(* which is why the passes may go from the low digit to the high one.      *)
LowDigitsOrdered ==
  pass > 0 => \A k, l \in DOMAIN nonNull :
    k < l => LET low(i) == SortKey(vals[nonNull[i]]) % Weight[pass]
             IN  IF descending THEN low(k) >= low(l) ELSE low(k) <= low(l)

(* Rows of one value, that is of one bit pattern, keep their row order     *)
(* unless the shortcut for data sorted the other way round reversed them:  *)
(* then all of them are reversed.  The two zeros of a float are one number *)
(* and two patterns, so nothing is said of their order: a key or radix     *)
(* sort puts -0 before +0, the other paths leave them as they are.         *)
TiesKeptOrAllReversed ==
  pc = "done" /\ ~HasNaN =>
    LET tie(k, l) == k < l /\ vals[nonNull[k]] = vals[nonNull[l]]
    IN  \/ \A k, l \in DOMAIN nonNull : tie(k, l) => nonNull[k] < nonNull[l]
        \/ \A k, l \in DOMAIN nonNull : k < l => nonNull[k] > nonNull[l]
=============================================================================
