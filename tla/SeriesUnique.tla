----------------------------- MODULE SeriesUnique -----------------------------
(***************************************************************************)
(* internal/series/unique.go: Unique and IsDuplicated of one column.  They *)
(* use hash sets of their own: as large as twice the rows from the start,  *)
(* so they never grow, and without the nulls, which are counted apart.     *)
(*                                                                         *)
(* The column is the key column of GroupTable; its cells are the keys, and *)
(* NullKey is the null.  A result is the numbers of the rows that are kept.*)
(***************************************************************************)
EXTENDS WindowAgg

CONSTANT NullKey   \* the key that is null in a column with nulls

ASSUME NullAssumption == \A k \in Keys : SameKey(k, NullKey) => k = NullKey

IsNullRow(i) == key[i] = NullKey
HasNulls == \E i \in 0..height-1 : IsNullRow(i)

\* nextPow2 of twice the rows, from MinSize on
Capacity ==
  LET doubled[n \in Nat] == IF n < height * 2 THEN doubled[n * 2] ELSE n
  IN  doubled[MinSize]

-----------------------------------------------------------------------------
(* Unique                                                                  *)

(* A hash set of rows stands for the values in it.  Values are compared    *)
(* alone; the strings, whose hashes are kept, cannot differ in them.       *)
NoRows == [p \in 0..Capacity-1 |-> htEmpty]

Inserted(acc, i) ==
  LET p == StopAt(acc.set, Hash[key[i]], LAMBDA j : j = htEmpty \/ rowsEqual(i, j))
  IN  IF acc.set[p] # htEmpty THEN acc
      ELSE [acc EXCEPT !.set = [@ EXCEPT ![p] = i], !.kept = Append(@, i)]

\* Mutant: every null is kept
NullKept(acc, i) == [acc EXCEPT !.kept = Append(@, i)]

\* The first null is kept
NullInserted(acc, i) ==
  IF acc.seenNull THEN acc ELSE [acc EXCEPT !.seenNull = TRUE, !.kept = Append(@, i)]

(* Without nulls the values go to a new array, with nulls the rows to a    *)
(* mask.                                                                   *)
UniqueHashed ==
  LET sets[k \in 0..height] ==
        IF k = 0 THEN [kept |-> <<>>, seenNull |-> FALSE, set |-> NoRows]
        ELSE IF HasNulls /\ IsNullRow(k-1) THEN NullInserted(sets[k-1], k-1)
        ELSE Inserted(sets[k-1], k-1)
  IN  sets[height].kept

(* uniqueBool and uniqueTypedFallback have no hash set of their own: three *)
(* flags, or a map of Go, say which values were seen.                      *)
Seen(kept, i) ==
  \E k \in DOMAIN kept :
    IF IsNullRow(i) THEN IsNullRow(kept[k])
    ELSE ~IsNullRow(kept[k]) /\ rowsEqual(i, kept[k])

UniqueSeen ==
  LET kept[k \in 0..height] ==
        IF k = 0 THEN <<>>
        ELSE IF Seen(kept[k-1], k-1) THEN kept[k-1] ELSE Append(kept[k-1], k-1)
  IN  kept[height]

(* The data types by what is done for them: those with a function of their *)
(* own, Float32 that has one for Unique only, Boolean, those that are kept *)
(* as int64 (dates and times), and all others.                             *)
Layouts == {"hashed", "Float32", "Boolean", "int64", "other"}

Unique(layout) ==
  CASE layout \in {"hashed", "Float32"} -> UniqueHashed
    [] layout \in {"Boolean", "int64"} -> UniqueSeen
    [] layout = "other" -> Rows

-----------------------------------------------------------------------------
(* IsDuplicated: a first pass counts the rows of every value, a second one *)
(* looks them up again.                                                    *)

NoEntry == [count |-> 0, row |-> htEmpty]

HoldsValue(e, i) ==
  e.row # htEmpty /\ Hash[key[e.row]] = Hash[key[i]] /\ rowsEqual(i, e.row)

Counted(entries, i) ==
  LET p == StopAt(entries, Hash[key[i]], LAMBDA e : e.row = htEmpty \/ HoldsValue(e, i))
  IN  IF IsNullRow(i) THEN entries
      ELSE IF entries[p].row = htEmpty THEN [entries EXCEPT ![p] = [count |-> 1, row |-> i]]
      ELSE [entries EXCEPT ![p].count = @ + 1]

Entries ==
  LET entries[k \in 0..height] ==
        IF k = 0 THEN [p \in 0..Capacity-1 |-> NoEntry] ELSE Counted(entries[k-1], k-1)
  IN  entries[height]

\* Where the second pass finds row i: it does not stop at an empty slot
Found(i) == StopAt(Entries, Hash[key[i]], LAMBDA e : HoldsValue(e, i))

IsDuplicated(layout) ==
  LET nullCount == Cardinality({i \in 0..height-1 : IsNullRow(i)})
  IN  [i \in 0..height-1 |->
         IF layout # "hashed" THEN FALSE
         ELSE IF IsNullRow(i) THEN nullCount > 1
         ELSE Entries[Found(i)].count > 1]

-----------------------------------------------------------------------------
(* Properties                                                              *)

(* The tables of a series and of a data frame tell the same rows apart:    *)
(* Unique keeps the rows that Unique of a data frame with this one column  *)
(* keeps, whatever collides and wherever the nulls are; the second pass of *)
(* IsDuplicated finds every row, and marks those with another of the same  *)
(* value.  (Series.Unique, Series.IsDuplicated; types that are handed back *)
(* unchanged, or without a mark, are left out.)                            *)
SeriesAgreesWithFrame ==
  pc = "done" /\ op = "unique" =>
    /\ \A layout \in Layouts \ {"other"} : Unique(layout) = indices
    /\ \A i \in 0..height-1 :
         /\ IsNullRow(i) \/ Found(i) \in 0..Capacity-1
         /\ IsDuplicated("hashed")[i] <=> \E j \in 0..height-1 : j # i /\ rowsEqual(i, j)
=============================================================================
