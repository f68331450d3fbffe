------------------------------ MODULE Grouping ------------------------------
(***************************************************************************)
(* What GroupBy and Unique promise about the rows of a data frame: rows    *)
(* are taken in order, a row joins the group of the earlier rows it is     *)
(* equal to, and a row equal to none of them founds the next group.        *)
(* GroupTable, the hash table of the code, implements this module.         *)
(***************************************************************************)
EXTENDS Integers

CONSTANTS Heights,       \* the heights of the data frame
          Keys,          \* the key values a row can have
          SameKey(_, _)  \* rowsEqual on two key values

VARIABLES key,      \* the key of each row
          gids,     \* the group of each row taken so far: row -> group
          nGroups,  \* the number of groups so far
          founders  \* the first row of each group: group -> row

groupingVars == <<key, gids, nGroups, founders>>

Taken == DOMAIN gids

GroupingInit ==
  /\ \E height \in Heights : key \in [0..height-1 -> Keys]
  /\ gids = [i \in {} |-> 0]
  /\ nGroups = 0
  /\ founders = [g \in {} |-> 0]

(* Row i is the next one.                                                  *)
IsNext(i) == i \in DOMAIN key \ Taken /\ \A j \in DOMAIN key : j < i => j \in Taken

Join(i) ==
  /\ IsNext(i)
  /\ \E j \in Taken :
       /\ SameKey(key[i], key[j])
       /\ gids' = [k \in Taken \cup {i} |-> IF k = i THEN gids[j] ELSE gids[k]]
  /\ UNCHANGED <<key, nGroups, founders>>

Found(i) ==
  /\ IsNext(i)
  /\ \A j \in Taken : ~SameKey(key[i], key[j])
  /\ gids' = [k \in Taken \cup {i} |-> IF k = i THEN nGroups ELSE gids[k]]
  /\ founders' = [g \in 0..nGroups |-> IF g = nGroups THEN i ELSE founders[g]]
  /\ nGroups' = nGroups + 1
  /\ UNCHANGED key

GroupingNext == \E i \in DOMAIN key : Join(i) \/ Found(i)

GroupingSpec == GroupingInit /\ [][GroupingNext]_groupingVars
=============================================================================
