----------------------------- MODULE GroupTable -----------------------------
(***************************************************************************)
(* internal/dataframe/groupby.go and unique.go: the open-addressing hash   *)
(* table that gives every row of a data frame its group, with the loops of *)
(* GroupBy and Unique that drive it.                                       *)
(*                                                                         *)
(* A row is its key (the values of its key columns).  rowsEqual compares   *)
(* the values with Go's ==, so it is a relation of the model, not          *)
(* equality: a float NaN differs from itself, and 0.0 equals -0.0 although *)
(* their bits, which are hashed, differ.                                   *)
(***************************************************************************)
EXTENDS Integers, Sequences

CONSTANTS
  Keys,          \* the key values
  Hash,          \* hashRowFast on a key value: Keys -> Nat
  SameKey(_, _), \* rowsEqual on two key values
  Heights,       \* the heights of the data frame
  MinSize,       \* the size newGroupHashTable starts from (16 in the code)
  MinEst         \* the least estGroups of GroupBy (16 in the code)

ASSUME TableAssumption ==
  /\ Hash \in [Keys -> Nat]
  /\ \A a, b \in Keys : SameKey(a, b) \in BOOLEAN
  /\ Heights \subseteq Nat
  /\ MinSize \in Nat \ {0, 1}
  /\ MinEst \in Nat

(* Go's == is an equality on the keys and the hash respects it: true of    *)
(* every column type but the floats (NaN, and 0.0 next to -0.0).           *)
KeysWellBehaved ==
  /\ \A a \in Keys : SameKey(a, a)
  /\ \A a, b \in Keys : SameKey(a, b) => SameKey(b, a)
  /\ \A a, b, c \in Keys : SameKey(a, b) /\ SameKey(b, c) => SameKey(a, c)
  /\ \A a, b \in Keys : SameKey(a, b) => Hash[a] = Hash[b]

VARIABLES
  op,        \* "groupby" or "unique"
  height,    \* df.height
  key,       \* the key of each row: 0..height-1 -> Keys
  pc,        \* "alloc", "probe", "grow", "find" or "done"
  row,       \* the row being looked up
  size,      \* len(ht.slots)
  slots,     \* ht.slots: 0..size-1 -> [hash, firstRow, gid]
  nGroups,   \* ht.nGroups
  dist,      \* how far the probe is from the slot of the hash
  newSlots,  \* the table grow fills
  from,      \* the slot grow moves
  gids,      \* groupIDs: row -> group
  indices,   \* Unique's rows to keep
  firstRows  \* GroupBy's first row of each group

vars == <<op, height, key, pc, row, size, slots, nGroups, dist, newSlots, from, gids,
          indices, firstRows>>

htEmpty == -1
EmptySlot == [hash |-> 0, firstRow |-> htEmpty, gid |-> 0]
EmptyTable(n) == [p \in 0..n-1 |-> EmptySlot]

rowHash == Hash[key[row]]
rowsEqual(i, j) == SameKey(key[i], key[j])

\* The slot a probe for hash h has reached in a table of n slots.  The table's
\* size is a power of two, so (slot + 1) & mask steps through h % n, h+1 % n, ...
SlotAt(h, d, n) == (h + d) % n

-----------------------------------------------------------------------------
Init ==
  /\ op \in {"groupby", "unique"}
  /\ height \in Heights
  /\ key \in [0..height-1 -> Keys]
  /\ pc = "alloc"
  /\ row = 0
  /\ size = MinSize
  /\ slots = EmptyTable(0)
  /\ nGroups = 0
  /\ dist = 0
  /\ newSlots = EmptyTable(0)
  /\ from = 0
  /\ gids = [i \in {} |-> 0]
  /\ indices = <<>>
  /\ firstRows = [g \in {} |-> 0]

estGroups ==
  IF op = "groupby" THEN (IF height \div 4 < MinEst THEN MinEst ELSE height \div 4)
                    ELSE height \div 2

(* newGroupHashTable: double the size until it holds twice the estimate    *)
DoubleSize ==
  /\ pc = "alloc"
  /\ size < estGroups * 2
  /\ size' = size * 2
  /\ UNCHANGED <<op, height, key, pc, row, slots, nGroups, dist, newSlots, from, gids, indices, firstRows>>

Alloc ==
  /\ pc = "alloc"
  /\ size >= estGroups * 2
  /\ slots' = EmptyTable(size)
  /\ pc' = "probe"
  /\ UNCHANGED <<op, height, key, row, size, nGroups, dist, newSlots, from, gids, indices, firstRows>>

(* The loops of GroupBy and Unique take the group of the current row       *)
Assign(g) ==
  /\ gids' = [i \in DOMAIN gids \cup {row} |-> IF i = row THEN g ELSE gids[i]]
  /\ indices' = IF op = "unique" /\ g = Len(indices) THEN Append(indices, row) ELSE indices
  /\ row' = row + 1
  /\ dist' = 0
  /\ pc' = "probe"

Current == slots[SlotAt(rowHash, dist, size)]

Matches(s) == s.firstRow # htEmpty /\ s.hash = rowHash /\ rowsEqual(row, s.firstRow)

-----------------------------------------------------------------------------
\* Mutant: the table grows one group too late
GrowsLate(n) == n * 2 > size

\* Mutant: the table never grows
GrowsNever(n) == FALSE

\* "load factor reaches 0.5"
MustGrow(n) == n * 2 >= size

(* probe meets an empty slot: a new group, and perhaps a larger table      *)
ProbeInsert ==
  /\ pc = "probe"
  /\ row < height
  /\ Current.firstRow = htEmpty
  /\ slots' = [slots EXCEPT ![SlotAt(rowHash, dist, size)] =
                 [hash |-> rowHash, firstRow |-> row, gid |-> nGroups]]
  /\ nGroups' = nGroups + 1
  /\ IF MustGrow(nGroups + 1)
       THEN /\ pc' = "grow"
            /\ newSlots' = EmptyTable(size * 2)
            /\ from' = 0
            /\ dist' = 0
            /\ UNCHANGED <<row, gids, indices>>
       ELSE /\ Assign(nGroups)
            /\ UNCHANGED <<newSlots, from>>
  /\ UNCHANGED <<op, height, key, size, firstRows>>

\* Mutant: a row is taken to match a slot that has its hash
ProbeHitHashOnly ==
  /\ pc = "probe"
  /\ row < height
  /\ Current.firstRow # htEmpty
  /\ Current.hash = rowHash
  /\ Assign(Current.gid)
  /\ UNCHANGED <<op, height, key, size, slots, nGroups, newSlots, from, firstRows>>

\* Mutant: a slot remembers the last row of its group
ProbeHitKeepsLast ==
  /\ pc = "probe"
  /\ row < height
  /\ Matches(Current)
  /\ slots' = [slots EXCEPT ![SlotAt(rowHash, dist, size)].firstRow = row]
  /\ Assign(Current.gid)
  /\ UNCHANGED <<op, height, key, size, nGroups, newSlots, from, firstRows>>

(* probe meets the row's group                                             *)
ProbeHit ==
  /\ pc = "probe"
  /\ row < height
  /\ Matches(Current)
  /\ Assign(Current.gid)
  /\ UNCHANGED <<op, height, key, size, slots, nGroups, newSlots, from, firstRows>>

(* probe meets another group: on to the next slot                          *)
ProbeNext ==
  /\ pc = "probe"
  /\ row < height
  /\ Current.firstRow # htEmpty
  /\ ~Matches(Current)
  /\ dist' = (dist + 1) % size
  /\ UNCHANGED <<op, height, key, pc, row, size, slots, nGroups, newSlots, from, gids, indices, firstRows>>

Moving == slots[from]
Target == SlotAt(Moving.hash, dist, size * 2)

\* Mutant: the loop over the old slots runs one too far
GrowSkipPastEnd ==
  /\ pc = "grow"
  /\ from <= size
  /\ from = size \/ Moving.firstRow = htEmpty
  /\ from' = from + 1
  /\ UNCHANGED <<op, height, key, pc, row, size, slots, nGroups, dist, newSlots, gids, indices, firstRows>>

(* grow passes over an empty slot                                          *)
GrowSkip ==
  /\ pc = "grow"
  /\ from < size
  /\ Moving.firstRow = htEmpty
  /\ from' = from + 1
  /\ UNCHANGED <<op, height, key, pc, row, size, slots, nGroups, dist, newSlots, gids, indices, firstRows>>

(* grow meets an occupied slot of the new table: on to the next one        *)
GrowNext ==
  /\ pc = "grow"
  /\ from < size
  /\ Moving.firstRow # htEmpty
  /\ newSlots[Target].firstRow # htEmpty
  /\ dist' = (dist + 1) % (size * 2)
  /\ UNCHANGED <<op, height, key, pc, row, size, slots, nGroups, newSlots, from, gids, indices, firstRows>>

(* grow puts the entry into the first free slot                            *)
GrowPlace ==
  /\ pc = "grow"
  /\ from < size
  /\ Moving.firstRow # htEmpty
  /\ newSlots[Target].firstRow = htEmpty
  /\ newSlots' = [newSlots EXCEPT ![Target] = Moving]
  /\ from' = from + 1
  /\ dist' = 0
  /\ UNCHANGED <<op, height, key, pc, row, size, slots, nGroups, gids, indices, firstRows>>

(* grow installs the new table                                             *)
GrowDone ==
  /\ pc = "grow"
  /\ from = size
  /\ slots' = newSlots
  /\ size' = size * 2
  /\ dist' = 0
  /\ pc' = "find"
  /\ UNCHANGED <<op, height, key, row, nGroups, newSlots, from, gids, indices, firstRows>>

(* findGID: the group of the row that caused the growth                    *)
FindHit ==
  /\ pc = "find"
  /\ Matches(Current)
  /\ Assign(Current.gid)
  /\ UNCHANGED <<op, height, key, size, slots, nGroups, newSlots, from, firstRows>>

FindNext ==
  /\ pc = "find"
  /\ ~Matches(Current)
  /\ dist' = (dist + 1) % size
  /\ UNCHANGED <<op, height, key, pc, row, size, slots, nGroups, newSlots, from, gids, indices, firstRows>>

(* GroupBy reads the first row of each group off the slots, the last slot  *)
(* of a group winning; Unique has its indices.                             *)
OfGroup(g) == {p \in 0..size-1 : slots[p].firstRow # htEmpty /\ slots[p].gid = g}

Finish ==
  /\ pc = "probe"
  /\ row = height
  /\ pc' = "done"
  /\ firstRows' =
       IF op = "unique" THEN firstRows
       ELSE [g \in 0..nGroups-1 |->
               IF OfGroup(g) = {} THEN 0
               ELSE slots[CHOOSE p \in OfGroup(g) : \A q \in OfGroup(g) : q <= p].firstRow]
  /\ UNCHANGED <<op, height, key, row, size, slots, nGroups, dist, newSlots, from, gids, indices>>

Table ==
  \/ DoubleSize \/ Alloc
  \/ ProbeInsert \/ ProbeHit \/ ProbeNext
  \/ GrowSkip \/ GrowNext \/ GrowPlace \/ GrowDone
  \/ FindHit \/ FindNext \/ Finish

Finished == pc = "done" /\ UNCHANGED vars

Next == Table \/ Finished

Spec == Init /\ [][Next]_vars

(* The loops are sequential code: a step that can be taken is taken.       *)
FairSpec == Spec /\ WF_vars(Table)

-----------------------------------------------------------------------------
(* Properties                                                              *)

SlotType == [hash : Nat, firstRow : Nat \cup {htEmpty}, gid : Nat]

(* The types of the variables.                                             *)
TypeOK ==
  /\ op \in {"groupby", "unique"}
  /\ height \in Heights
  /\ key \in [0..height-1 -> Keys]
  /\ pc \in {"alloc", "probe", "grow", "find", "done"}
  /\ row \in 0..height
  /\ size \in Nat \ {0}
  /\ pc # "alloc" => slots \in [0..size-1 -> SlotType]
  /\ nGroups \in Nat
  /\ dist \in Nat
  /\ from \in 0..size
  /\ pc = "grow" => newSlots \in [0..2*size-1 -> SlotType]
  /\ gids \in [0..row-1 -> Nat]
  /\ indices \in Seq(Nat)
  /\ firstRows \in [DOMAIN firstRows -> Nat]

(* Between two calls of probe less than half of the slots are in use, and  *)
(* there is one slot for each group: a probe always has an empty slot      *)
(* ahead of it, and the estimate can only be too low, never wrong.         *)
LoadBelowHalf ==
  pc \in {"probe", "find", "done"} =>
    /\ 2 * nGroups < size
    /\ \A g \in 0..nGroups-1 : \E p \in 0..size-1 :
         /\ slots[p].firstRow # htEmpty /\ slots[p].gid = g
         /\ \A q \in 0..size-1 : slots[q].firstRow # htEmpty /\ slots[q].gid = g => q = p

(* Two rows get the same group exactly when their keys are equal, however  *)
(* their hashes collide and however often the table has grown.             *)
GroupsAreClasses ==
  \A i, j \in DOMAIN gids : gids[i] = gids[j] <=> rowsEqual(i, j)

FirstOccurrence(i) == \A j \in 0..i-1 : ~rowsEqual(i, j)

(* The first rows GroupBy takes the key columns from, and the rows Unique  *)
(* keeps, are the first occurrence of each key, in order of appearance.    *)
KeepsFirstOccurrences ==
  pc = "done" =>
    LET kept == IF op = "unique" THEN {indices[k] : k \in DOMAIN indices}
                                 ELSE {firstRows[g] : g \in DOMAIN firstRows}
    IN  /\ kept = {i \in DOMAIN key : FirstOccurrence(i)}
        /\ \A k, l \in DOMAIN indices : k < l => indices[k] < indices[l]
        /\ \A g, h \in DOMAIN firstRows : g < h => firstRows[g] < firstRows[h]
        /\ \A g \in DOMAIN firstRows : gids[firstRows[g]] = g

(* Every lookup ends: findGID finds the row it has just inserted, and no   *)
(* probe runs around a full table.                                         *)
EveryLookupEnds == <>(pc = "done")

(* The table implements the grouping.  A group exists once its founder has *)
(* its number: not while the table grows for it.                           *)
SettledGroups == IF pc \in {"grow", "find"} THEN nGroups - 1 ELSE nGroups

Settled == INSTANCE Grouping WITH
  nGroups <- SettledGroups,
  founders <- [g \in 0..SettledGroups-1 |->
                 CHOOSE i \in DOMAIN gids :
                   gids[i] = g /\ \A j \in DOMAIN gids : gids[j] = g => i <= j]

ImplementsGrouping == Settled!GroupingSpec
=============================================================================
