------------------------------ MODULE RowLists ------------------------------
(***************************************************************************)
(* Lists of row numbers, as the loops over the rows of a column build them *)
(* when they append the rows that meet a condition.                        *)
(***************************************************************************)
EXTENDS Integers, FiniteSets

(* The rows of a finite set, in row order.                                 *)
RowList(rows) ==
  [k \in 1..Cardinality(rows) |-> CHOOSE i \in rows : Cardinality({j \in rows : j < i}) = k - 1]

(* A list in row order                                                     *)
Ascending(rows) == \A k, l \in DOMAIN rows : k < l => rows[k] < rows[l]
=============================================================================
