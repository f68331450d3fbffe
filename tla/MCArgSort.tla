----------------------------- MODULE MCArgSort -----------------------------
(* Values for ArgSort.cfg: words of two digits of two bits.  The patterns  *)
(* of a type reach both digits, both signs and, of a float, both zeros and *)
(* NaN (7).                                                                *)
EXTENDS ArgSort

MCPatterns == [t \in {"uint64", "int64", "int16", "float64"} |->
  CASE t = "uint64" -> {0, 3, 4, 13}
    [] t \in {"int64", "int16"} -> {0, 5, 8, 14}
    [] t = "float64" -> {0, 2, 7, 8, 11}]
=============================================================================
