----------------------------- MODULE MCHashJoin -----------------------------
(* Values for HashJoin.cfg and HashJoinTypes.cfg: three keys, the null one *)
(* among them, have the last hash value, so that probes wrap around to the *)
(* hash of the fourth.                                                     *)
EXTENDS HashJoin

MCKeys == {Null, "x", "y", "z"}
MCHash == [k \in MCKeys |-> IF k = "z" THEN 0 ELSE 5]
=============================================================================
