---------------------------- MODULE MCGroupTable ----------------------------
(* Values for GroupTable.cfg and GroupTableNaN.cfg.                        *)
EXTENDS SeriesUnique

(* Four keys: a and b have one hash, c falls into their slot of a small    *)
(* table and apart from it in a larger one, d is next to them.  e is       *)
(* another representation of a, equal to it and of the same hash.          *)
MCKeys == {"a", "b", "c", "d", "e"}
MCHash == [k \in MCKeys |-> CASE k \in {"a", "b", "e"} -> 3 [] k = "c" -> 7 [] k = "d" -> 4]
MCClass(k) == IF k = "e" THEN "a" ELSE k
MCSameKey(a, b) == MCClass(a) = MCClass(b)
MCHeights == {0, 1, 5}

(* A float column: NaN differs from itself.                                *)
NaNKeys == {"nan", "one", "two"}
NaNHash == [k \in NaNKeys |-> CASE k = "nan" -> 1 [] k = "one" -> 2 [] k = "two" -> 5]
NaNSameKey(a, b) == a = b /\ a # "nan"
NaNHeights == {2, 3}

(* Value columns of five rows, negative values and nulls among them; a     *)
(* shorter data frame uses the first cells.                                *)
MCColumns == {[i \in 0..4 |-> <<Null, 3, 1, 2, Null>>[i+1]],
              [i \in 0..4 |-> <<2, Null, 2, 1, 4>>[i+1]],
              [i \in 0..4 |-> <<-1, -2, Null, Null, -1>>[i+1]]}
=============================================================================
