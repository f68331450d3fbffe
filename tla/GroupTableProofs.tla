-------------------------- MODULE GroupTableProofs --------------------------
(***************************************************************************)
(* Proofs about the group hash table, for every data frame, every hash     *)
(* function and every table size.  The hypothesis KeysWellBehaved is what  *)
(* float columns with NaN or signed zeros lack.                            *)
(*                                                                         *)
(* The invariant is the one of linear probing: every entry is reachable    *)
(* from the slot of its hash through occupied slots.  It makes an empty    *)
(* slot mean that the key is absent, in the table and in the table grow    *)
(* builds.                                                                 *)
(*                                                                         *)
(* Then what the aggregations of GroupBy return, and that Unique and       *)
(* IsDuplicated of a series agree with the data frame.  A pass of an       *)
(* aggregation keeps in every cell the aggregate of the valid values its   *)
(* group has had so far; when it has seen all rows, the rows of a group    *)
(* are those whose key is that of the group's first row, by what is proved *)
(* of the hash table.  The hash sets of a series never fill up, so every   *)
(* probe stops; a row that is in a set is reached from the slot of its     *)
(* hash through rows, so a probe that stops at an empty slot has met no    *)
(* row of its value.                                                       *)
(*                                                                         *)
(* Last the windows: their own group table numbers the groups as GroupBy   *)
(* does, whatever its size and its hash function, and both ways to the     *)
(* cells of a window give every row what its group has.                    *)
(***************************************************************************)
EXTENDS SeriesUnique, DataLemmas

Occupied(tab, p) == tab[p].firstRow # htEmpty

(* Walking from the slot of its hash one meets no empty slot before p.     *)
Reachable(tab, n, p) ==
  \E d \in 0..n-1 :
    /\ p = SlotAt(tab[p].hash, d, n)
    /\ \A c \in 0..d-1 : Occupied(tab, SlotAt(tab[p].hash, c, n))

(* A table of n slots whose entries are rows with distinct keys, numbered  *)
(* with distinct groups below groups.                                      *)
TableOK(tab, n, groups) ==
  /\ tab \in [0..n-1 -> SlotType]
  /\ \A p \in 0..n-1 : Occupied(tab, p) =>
       /\ tab[p].firstRow \in 0..height-1
       /\ tab[p].hash = Hash[key[tab[p].firstRow]]
       /\ tab[p].gid < groups
       /\ Reachable(tab, n, p)
  /\ \A p, q \in 0..n-1 : Occupied(tab, p) /\ Occupied(tab, q) /\ p # q =>
       /\ tab[p].gid # tab[q].gid
       /\ ~rowsEqual(tab[p].firstRow, tab[q].firstRow)

TypeInv ==
  /\ op \in {"groupby", "unique"}
  /\ height \in Heights
  /\ key \in [0..height-1 -> Keys]
  /\ pc \in {"alloc", "probe", "grow", "find", "done"}
  /\ row \in 0..height
  /\ size \in Nat \ {0, 1}
  /\ nGroups \in Nat
  /\ dist \in Nat
  /\ from \in Nat
  /\ gids \in [0..row-1 -> Nat]
  /\ indices \in Seq(Nat)

(* The table, where the lookup or the move in progress has got to, and     *)
(* where every row taken so far is found.                                  *)
TableInv ==
  /\ pc = "alloc" => nGroups = 0 /\ row = 0 /\ dist = 0
  /\ pc \in {"grow", "find"} => row < height
  /\ pc # "alloc" => TableOK(slots, size, nGroups)
  /\ pc = "probe" /\ row < height =>
       /\ dist < size
       /\ \A c \in 0..dist-1 :
            LET s == slots[SlotAt(rowHash, c, size)]
            IN  s.firstRow # htEmpty /\ ~Matches(s)
  /\ pc = "grow" =>
       /\ dist < 2 * size
       /\ from <= size
       /\ TableOK(newSlots, 2 * size, nGroups)
       /\ \A p \in 0..from-1 : Occupied(slots, p) =>
            \E q \in 0..2*size-1 : newSlots[q] = slots[p]
       /\ \A q \in 0..2*size-1 : Occupied(newSlots, q) =>
            \E p \in 0..from-1 : slots[p] = newSlots[q]
       /\ from < size /\ ~Occupied(slots, from) => dist = 0
       /\ from < size /\ Occupied(slots, from) =>
            \A c \in 0..dist-1 : Occupied(newSlots, SlotAt(slots[from].hash, c, 2 * size))
  /\ \A i \in 0..row-1 : \E p \in 0..size-1 :
       /\ Occupied(slots, p)
       /\ slots[p].gid = gids[i]
       /\ rowsEqual(i, slots[p].firstRow)

LoadInv ==
  /\ pc \in {"probe", "find", "done"} => 2 * nGroups < size
  /\ pc = "grow" => nGroups < size

-----------------------------------------------------------------------------
LEMMA SlotInTable ==
  ASSUME NEW n \in Nat \ {0}
  PROVE  \A h \in Nat : \A d \in 0..n-1 : SlotAt(h, d, n) \in 0..n-1
  BY DEF SlotAt

(* Putting an entry into the first free slot of its walk keeps the table   *)
(* well formed, provided its key and its group are new.                    *)
LEMMA InsertOK ==
  ASSUME TypeInv, KeysWellBehaved,
         NEW tab, NEW n \in Nat \ {0}, NEW groups \in Nat, NEW more \in Nat, groups <= more,
         TableOK(tab, n, groups),
         NEW e \in SlotType, e.firstRow \in 0..height-1, e.hash = Hash[key[e.firstRow]],
         e.gid < more,
         NEW d \in 0..n-1, ~Occupied(tab, SlotAt(e.hash, d, n)),
         \A c \in 0..d-1 : Occupied(tab, SlotAt(e.hash, c, n)),
         \A p \in 0..n-1 : Occupied(tab, p) =>
           tab[p].gid # e.gid /\ ~rowsEqual(e.firstRow, tab[p].firstRow)
  PROVE  TableOK([tab EXCEPT ![SlotAt(e.hash, d, n)] = e], n, more)
  <1> DEFINE at == SlotAt(e.hash, d, n)
             new == [tab EXCEPT ![at] = e]
  <1>0. \A h \in Nat : \A b \in 0..n-1 : SlotAt(h, b, n) \in 0..n-1
    BY SlotInTable
  <1>1. at \in 0..n-1 /\ e.hash \in Nat
    BY <1>0 DEF SlotType
  <1>2. /\ new \in [0..n-1 -> SlotType]
        /\ new[at] = e
        /\ \A p \in 0..n-1 : p # at => new[p] = tab[p]
    BY <1>1 DEF TableOK
  <1>3. Occupied(new, at) /\ \A p \in 0..n-1 : p # at => (Occupied(new, p) <=> Occupied(tab, p))
    BY <1>1, <1>2 DEF Occupied, htEmpty
  <1>4. \A p \in 0..n-1 : Occupied(tab, p) => Occupied(new, p)
    BY <1>3
  <1>5. Reachable(new, n, at)
    <2>1. \A c \in 0..d-1 : SlotAt(e.hash, c, n) \in 0..n-1
      <3>1. 0..d-1 \subseteq 0..n-1
        OBVIOUS
      <3>2. QED
        BY <3>1, <1>0, <1>1
    <2>2. \A c \in 0..d-1 : Occupied(new, SlotAt(e.hash, c, n))
      BY <2>1, <1>4
    <2>3. QED
      BY <2>2, <1>1, <1>2 DEF Reachable
  <1>6. ASSUME NEW p \in 0..n-1, Occupied(new, p), p # at
        PROVE  Reachable(new, n, p)
    <2>1. Occupied(tab, p) /\ new[p] = tab[p] /\ Reachable(tab, n, p) /\ tab[p].hash \in Nat
      BY <1>2, <1>3, <1>6 DEF TableOK, SlotType
    <2>2. PICK c \in 0..n-1 : /\ p = SlotAt(tab[p].hash, c, n)
                              /\ \A b \in 0..c-1 : Occupied(tab, SlotAt(tab[p].hash, b, n))
      BY <2>1 DEF Reachable
    <2>3. \A b \in 0..c-1 : SlotAt(tab[p].hash, b, n) \in 0..n-1
      <3>1. 0..c-1 \subseteq 0..n-1
        OBVIOUS
      <3>2. QED
        BY <3>1, <2>1, <1>0
    <2>4. QED
      BY <2>1, <2>2, <2>3, <1>4 DEF Reachable
  <1>7. \A p \in 0..n-1 : Occupied(new, p) =>
          /\ new[p].firstRow \in 0..height-1
          /\ new[p].hash = Hash[key[new[p].firstRow]]
          /\ new[p].gid < more
          /\ Reachable(new, n, p)
    <2> SUFFICES ASSUME NEW p \in 0..n-1, Occupied(new, p)
                 PROVE  /\ new[p].firstRow \in 0..height-1
                        /\ new[p].hash = Hash[key[new[p].firstRow]]
                        /\ new[p].gid < more
                        /\ Reachable(new, n, p)
      OBVIOUS
    <2>1. CASE p = at
      BY <2>1, <1>2, <1>5
    <2>2. CASE p # at
      <3>1. Occupied(tab, p) /\ new[p] = tab[p] /\ tab[p].gid \in Nat
        BY <2>2, <1>2, <1>3 DEF TableOK, SlotType
      <3>2. tab[p].gid < more
        BY <3>1 DEF TableOK
      <3>3. QED
        BY <2>2, <3>1, <3>2, <1>6 DEF TableOK
    <2>3. QED
      BY <2>1, <2>2
  <1>8. ASSUME NEW p \in 0..n-1, NEW q \in 0..n-1, Occupied(new, p), Occupied(new, q), p # q
        PROVE  new[p].gid # new[q].gid /\ ~rowsEqual(new[p].firstRow, new[q].firstRow)
    <2>1. CASE p = at
      BY <2>1, <1>2, <1>3, <1>8
    <2>2. CASE q = at
      <3>1. Occupied(tab, p) /\ new[p] = tab[p] /\ new[q] = e
        BY <2>2, <1>2, <1>3, <1>8
      <3>2. key[e.firstRow] \in Keys /\ key[tab[p].firstRow] \in Keys
        BY <3>1 DEF TypeInv, TableOK
      <3>3. QED
        BY <3>1, <3>2 DEF KeysWellBehaved, rowsEqual
    <2>3. CASE p # at /\ q # at
      BY <2>3, <1>2, <1>3, <1>8 DEF TableOK
    <2>4. QED
      BY <2>1, <2>2, <2>3
  <1>9. QED
    BY <1>2, <1>7, <1>8 DEF TableOK

(* A larger bound on the group numbers loses nothing.                      *)
LEMMA TableMono ==
  ASSUME NEW tab, NEW n, NEW groups \in Nat, NEW more \in Nat, groups <= more,
         TableOK(tab, n, groups)
  PROVE  TableOK(tab, n, more)
  BY DEF TableOK, SlotType

LEMMA EmptyTableOK ==
  ASSUME NEW n \in Nat, NEW groups \in Nat
  PROVE  TableOK(EmptyTable(n), n, groups) /\ \A p \in 0..n-1 : ~Occupied(EmptyTable(n), p)
  BY DEF TableOK, EmptyTable, EmptySlot, SlotType, htEmpty, Occupied

(* The data frame does not change, so neither does what a table means.     *)
LEMMA FrameFixed ==
  ASSUME [Next]_vars
  PROVE  /\ op' = op /\ height' = height /\ key' = key
         /\ TableOK(slots, size, nGroups)' <=> TableOK(slots', size', nGroups')
         /\ TableOK(newSlots, 2 * size, nGroups)' <=> TableOK(newSlots', 2 * size', nGroups')
         /\ \A i, j : rowsEqual(i, j)' <=> rowsEqual(i, j)
  <1>1. op' = op /\ height' = height /\ key' = key
    BY DEF Next, Table, Finished, vars, DoubleSize, Alloc, ProbeInsert, ProbeHit, ProbeNext,
           GrowSkip, GrowNext, GrowPlace, GrowDone, FindHit, FindNext, Finish
  <1>2. QED
    BY <1>1 DEF TableOK, Reachable, Occupied, rowsEqual

(* What taking a group for the current row changes.                        *)
LEMMA AssignEffect ==
  ASSUME TypeInv, NEW g \in Nat, Assign(g)
  PROVE  /\ row' = row + 1 /\ dist' = 0 /\ pc' = "probe"
         /\ gids' \in [0..row'-1 -> Nat]
         /\ gids'[row] = g /\ \A i \in 0..row-1 : gids'[i] = gids[i]
         /\ indices' \in Seq(Nat)
  <1>1. row \in Nat /\ DOMAIN gids = 0..row-1
    BY TableAssumption DEF TypeInv
  <1>2. 0..row = 0..row-1 \cup {row}
    BY <1>1
  <1>3. row' = row + 1 /\ dist' = 0 /\ pc' = "probe"
        /\ gids' = [i \in 0..row |-> IF i = row THEN g ELSE gids[i]]
    BY <1>1, <1>2 DEF Assign
  <1>4. indices' \in Seq(Nat)
    BY <1>1 DEF Assign, TypeInv
  <1>5. QED
    BY <1>1, <1>3, <1>4 DEF TypeInv

Inv == TypeInv /\ TableInv /\ LoadInv

LEMMA InvInit == Init => Inv
  <1> SUFFICES ASSUME Init PROVE Inv
    OBVIOUS
  <1>1. TypeInv
    BY TableAssumption DEF Init, TypeInv
  <1>2. TableInv /\ LoadInv
    BY DEF Init, TableInv, LoadInv
  <1>3. QED
    BY <1>1, <1>2 DEF Inv

(* The slot a lookup looks at is in the table.                             *)
LEMMA CurrentInTable ==
  ASSUME Inv, pc \in {"probe", "find"}, row < height
  PROVE  /\ rowHash \in Nat /\ row \in Nat /\ key[row] \in Keys
         /\ dist < size => SlotAt(rowHash, dist, size) \in 0..size-1 /\ Current \in SlotType
         /\ pc = "find" => SlotAt(rowHash, dist, size) \in 0..size-1 /\ Current \in SlotType
  <1>1. row \in 0..height-1 /\ row \in Nat
    BY TableAssumption DEF Inv, TypeInv
  <1>2. rowHash \in Nat /\ key[row] \in Keys
    BY <1>1, TableAssumption DEF Inv, TypeInv, rowHash
  <1>3. SlotAt(rowHash, dist, size) \in 0..size-1
    BY <1>2 DEF SlotAt, Inv, TypeInv
  <1>4. Current \in SlotType
    BY <1>3 DEF Inv, TableInv, TableOK, Current
  <1>5. QED
    BY <1>1, <1>2, <1>3, <1>4

(* An entry that matches the row gives it the row's group.                 *)
LEMMA HitStep ==
  ASSUME Inv, KeysWellBehaved, [Next]_vars, pc \in {"probe", "find"}, row < height,
         SlotAt(rowHash, dist, size) \in 0..size-1,
         Matches(Current), Assign(Current.gid),
         UNCHANGED <<op, height, key, size, slots, nGroups, newSlots, from, firstRows>>
  PROVE  Inv'
  <1>1. Current \in SlotType /\ row \in Nat /\ height \in Nat
    BY TableAssumption DEF Inv, TypeInv, TableInv, TableOK, Current
  <1>2. /\ row' = row + 1 /\ dist' = 0 /\ pc' = "probe"
        /\ gids' \in [0..row'-1 -> Nat]
        /\ gids'[row] = Current.gid /\ \A i \in 0..row-1 : gids'[i] = gids[i]
        /\ indices' \in Seq(Nat)
    BY <1>1, AssignEffect DEF Inv, SlotType
  <1>3. TypeInv'
    BY <1>1, <1>2 DEF Inv, TypeInv
  <1>4. LoadInv'
    BY <1>2 DEF Inv, LoadInv
  <1>5. \A i \in 0..row : \E p \in 0..size-1 :
          Occupied(slots, p) /\ slots[p].gid = gids'[i] /\ rowsEqual(i, slots[p].firstRow)
    <2>1. Occupied(slots, SlotAt(rowHash, dist, size))
          /\ slots[SlotAt(rowHash, dist, size)].gid = gids'[row]
          /\ rowsEqual(row, slots[SlotAt(rowHash, dist, size)].firstRow)
      BY <1>2 DEF Matches, Current, Occupied
    <2>2. \A i \in 0..row-1 : \E p \in 0..size-1 :
            Occupied(slots, p) /\ slots[p].gid = gids'[i] /\ rowsEqual(i, slots[p].firstRow)
      BY <1>2 DEF Inv, TableInv
    <2>3. QED
      BY <2>1, <2>2, <1>1
  <1>6. TableInv'
    <2>1. TableOK(slots, size, nGroups)'
      BY FrameFixed DEF Inv, TableInv
    <2>2. (\A i \in 0..row-1 : \E p \in 0..size-1 :
            Occupied(slots, p) /\ slots[p].gid = gids[i] /\ rowsEqual(i, slots[p].firstRow))'
      <3>1. row' - 1 = row
        BY <1>1, <1>2
      <3>2. \A i, p : (rowsEqual(i, slots[p].firstRow)' <=> rowsEqual(i, slots[p].firstRow))
                      /\ (Occupied(slots, p)' <=> Occupied(slots, p)) /\ slots'[p].gid = slots[p].gid
        BY DEF rowsEqual, Occupied
      <3>3. QED
        BY <3>1, <3>2, <1>5
    <2>3. (pc = "probe" /\ row < height =>
             /\ dist < size
             /\ \A c \in 0..dist-1 :
                  LET t == slots[SlotAt(rowHash, c, size)]
                  IN  t.firstRow # htEmpty /\ ~Matches(t))'
      BY <1>2, <1>3 DEF TypeInv
    <2>4. QED
      BY <1>2, <2>1, <2>2, <2>3 DEF TableInv
  <1>7. QED
    BY <1>3, <1>4, <1>6 DEF Inv

(* A probe that has reached an empty slot has proved its key absent.       *)
LEMMA EmptyMeansAbsent ==
  ASSUME Inv, KeysWellBehaved, pc = "probe", row < height,
         ~Occupied(slots, SlotAt(rowHash, dist, size)),
         NEW p \in 0..size-1, Occupied(slots, p)
  PROVE  ~rowsEqual(row, slots[p].firstRow)
  <1> SUFFICES ASSUME rowsEqual(row, slots[p].firstRow) PROVE FALSE
    OBVIOUS
  <1>1. /\ slots[p].firstRow \in 0..height-1 /\ slots[p].hash = Hash[key[slots[p].firstRow]]
        /\ Reachable(slots, size, p) /\ dist \in Nat /\ size \in Nat
    BY DEF Inv, TableInv, TableOK, TypeInv
  <1>2. slots[p].hash = rowHash
    <2>1. key[row] \in Keys /\ key[slots[p].firstRow] \in Keys
      BY <1>1, CurrentInTable DEF Inv, TypeInv
    <2>2. QED
      BY <1>1, <2>1 DEF KeysWellBehaved, rowsEqual, rowHash
  <1>3. Matches(slots[p])
    BY <1>2 DEF Matches, Occupied
  <1>4. PICK d \in 0..size-1 : /\ p = SlotAt(rowHash, d, size)
                               /\ \A c \in 0..d-1 : Occupied(slots, SlotAt(rowHash, c, size))
    BY <1>1, <1>2 DEF Reachable
  <1>5. CASE d < dist
    BY <1>1, <1>3, <1>4, <1>5 DEF Inv, TableInv
  <1>6. CASE d = dist
    BY <1>4, <1>6
  <1>7. CASE d > dist
    BY <1>1, <1>4, <1>7
  <1>8. QED
    BY <1>1, <1>5, <1>6, <1>7

LEMMA InsertStep == Inv /\ KeysWellBehaved /\ [Next]_vars /\ ProbeInsert => Inv'
  <1> SUFFICES ASSUME Inv, KeysWellBehaved, [Next]_vars, ProbeInsert PROVE Inv'
    OBVIOUS
  <1> DEFINE at == SlotAt(rowHash, dist, size)
             e == [hash |-> rowHash, firstRow |-> row, gid |-> nGroups]
  <1>1. /\ pc = "probe" /\ row < height /\ slots[at].firstRow = htEmpty
        /\ slots' = [slots EXCEPT ![at] = e] /\ nGroups' = nGroups + 1
        /\ UNCHANGED <<op, height, key, size, firstRows>>
    BY DEF ProbeInsert, Current
  <1>2. /\ row \in Nat /\ height \in Nat /\ nGroups \in Nat /\ size \in Nat \ {0, 1}
        /\ dist \in 0..size-1 /\ TableOK(slots, size, nGroups) /\ row \in 0..height-1
        /\ slots \in [0..size-1 -> SlotType]
    BY <1>1, TableAssumption DEF Inv, TypeInv, TableInv, TableOK
  <1>3. rowHash \in Nat /\ at \in 0..size-1
    BY <1>1, <1>2, CurrentInTable
  <1>4. ~Occupied(slots, at)
    BY <1>1 DEF Occupied
  <1>5. TableOK(slots', size, nGroups + 1)
    <2>1. \A p \in 0..size-1 : Occupied(slots, p) =>
            slots[p].gid # nGroups /\ ~rowsEqual(row, slots[p].firstRow)
      <3>1. \A p \in 0..size-1 : Occupied(slots, p) => slots[p].gid < nGroups
        BY <1>2 DEF TableOK
      <3>2. \A p \in 0..size-1 : Occupied(slots, p) => ~rowsEqual(row, slots[p].firstRow)
        BY <1>1, <1>4, EmptyMeansAbsent
      <3>3. QED
        BY <3>1, <3>2, <1>2
    <2>2. e \in SlotType /\ e.firstRow = row /\ e.hash = rowHash /\ e.gid = nGroups
      BY <1>2, <1>3 DEF SlotType
    <2>3. \A c \in 0..dist-1 : Occupied(slots, SlotAt(e.hash, c, size))
      BY <1>1, <2>2 DEF Inv, TableInv, Occupied
    <2>4. e.hash = Hash[key[e.firstRow]]
      BY <2>2 DEF rowHash
    <2>5. TypeInv /\ size \in Nat \ {0} /\ nGroups + 1 \in Nat /\ nGroups <= nGroups + 1 /\ e.gid < nGroups + 1
          /\ ~Occupied(slots, SlotAt(e.hash, dist, size)) /\ e.firstRow \in 0..height-1
          /\ slots' = [slots EXCEPT ![SlotAt(e.hash, dist, size)] = e]
      BY <1>1, <1>2, <1>4, <2>2 DEF Inv
    <2> HIDE DEF e
    <2>6. QED
      BY <2>1, <2>2, <2>3, <2>4, <2>5, <1>2, InsertOK
  <1>6. /\ slots'[at] = e
        /\ \A p \in 0..size-1 : Occupied(slots, p) => Occupied(slots', p) /\ slots'[p] = slots[p]
    BY <1>2, <1>3, <1>4 , <1>1 DEF Occupied
  <1>7. \A i \in 0..row-1 : \E p \in 0..size-1 :
          Occupied(slots', p) /\ slots'[p].gid = gids[i] /\ rowsEqual(i, slots'[p].firstRow)
    BY <1>6 DEF Inv, TableInv
  <1>8. TableOK(slots, size, nGroups)'
    BY <1>1, <1>5, FrameFixed
  <1>r. \A i, p : (rowsEqual(i, slots[p].firstRow)' <=> rowsEqual(i, slots'[p].firstRow))
                  /\ (Occupied(slots, p)' <=> Occupied(slots', p))
    BY <1>1 DEF rowsEqual, Occupied
  <1>9. CASE MustGrow(nGroups + 1)
    <2>1. /\ pc' = "grow" /\ newSlots' = EmptyTable(size * 2) /\ from' = 0 /\ dist' = 0
          /\ UNCHANGED <<row, gids, indices>>
      BY <1>9 DEF ProbeInsert
    <2>2. TypeInv'
      BY <1>1, <1>2, <2>1 DEF Inv, TypeInv
    <2>3. LoadInv'
      BY <1>1, <1>2, <2>1 DEF Inv, LoadInv
    <2>4. TableOK(newSlots, 2 * size, nGroups)' /\ \A q \in 0..2*size-1 : ~Occupied(newSlots', q)
      <3>1. newSlots' = EmptyTable(2 * size) /\ 2 * size \in Nat /\ nGroups' \in Nat /\ 2 * size' = 2 * size
        BY <1>1, <1>2, <2>1
      <3>2. QED
        BY <3>1, EmptyTableOK, FrameFixed
    <2>5. (\A i \in 0..row-1 : \E p \in 0..size-1 :
            Occupied(slots, p) /\ slots[p].gid = gids[i] /\ rowsEqual(i, slots[p].firstRow))'
      BY <1>1, <1>7, <2>1 DEF rowsEqual, Occupied
    <2>6. (\A q \in 0..2*size-1 : ~Occupied(newSlots, q))'
      BY <2>4, <1>1 DEF Occupied
    <2>a. (/\ dist < 2 * size
           /\ from <= size
           /\ \A p \in 0..from-1 : Occupied(slots, p) =>
                \E q \in 0..2*size-1 : newSlots[q] = slots[p]
           /\ from < size /\ ~Occupied(slots, from) => dist = 0
           /\ from < size /\ Occupied(slots, from) =>
                \A c \in 0..dist-1 : Occupied(newSlots, SlotAt(slots[from].hash, c, 2 * size)))'
      BY <1>1, <1>2, <2>1
    <2>7. TableInv'
      BY <1>1, <1>8, <2>1, <2>a, <2>4, <2>5, <2>6 DEF TableInv
    <2>8. QED
      BY <2>2, <2>3, <2>7 DEF Inv
  <1>10. CASE ~MustGrow(nGroups + 1)
    <2>1. Assign(nGroups) /\ UNCHANGED <<newSlots, from>>
      BY <1>10 DEF ProbeInsert
    <2>2. /\ row' = row + 1 /\ dist' = 0 /\ pc' = "probe"
          /\ gids' \in [0..row'-1 -> Nat]
          /\ gids'[row] = nGroups /\ \A i \in 0..row-1 : gids'[i] = gids[i]
          /\ indices' \in Seq(Nat)
      BY <2>1, <1>2, AssignEffect DEF Inv
    <2>3. TypeInv'
      BY <1>1, <1>2, <2>1, <2>2 DEF Inv, TypeInv
    <2>4. LoadInv'
      BY <1>1, <1>2, <1>10, <2>2 DEF MustGrow, LoadInv
    <2>5. \A i \in 0..row : \E p \in 0..size-1 :
            Occupied(slots', p) /\ slots'[p].gid = gids'[i] /\ rowsEqual(i, slots'[p].firstRow)
      <3>1. Occupied(slots', at) /\ slots'[at].gid = gids'[row] /\ rowsEqual(row, slots'[at].firstRow)
        <4>1. rowsEqual(row, row)
          BY <1>1, <1>2, CurrentInTable DEF KeysWellBehaved, rowsEqual
        <4>2. QED
          BY <1>2, <1>6, <2>2, <4>1 DEF Occupied, htEmpty
      <3>2. \A i \in 0..row-1 : \E p \in 0..size-1 :
              Occupied(slots', p) /\ slots'[p].gid = gids'[i] /\ rowsEqual(i, slots'[p].firstRow)
        BY <1>7, <2>2
      <3>3. \A i \in 0..row : i \in 0..row-1 \/ i = row
        BY <1>2
      <3>4. QED
        BY <3>1, <3>2, <3>3, <1>3
    <2>6. (\A i \in 0..row-1 : \E p \in 0..size-1 :
            Occupied(slots, p) /\ slots[p].gid = gids[i] /\ rowsEqual(i, slots[p].firstRow))'
      <3>1. row' - 1 = row
        BY <1>2, <2>2
      <3>2. QED
        BY <3>1, <2>5, <1>1, <1>r
    <2>7. (pc = "probe" /\ row < height =>
             /\ dist < size
             /\ \A c \in 0..dist-1 :
                  LET t == slots[SlotAt(rowHash, c, size)]
                  IN  t.firstRow # htEmpty /\ ~Matches(t))'
      BY <2>2, <2>3 DEF TypeInv
    <2>8. TableInv'
      BY <1>8, <2>2, <2>6, <2>7 DEF TableInv
    <2>9. QED
      BY <2>3, <2>4, <2>8 DEF Inv
  <1>11. QED
    BY <1>9, <1>10

-----------------------------------------------------------------------------
(* The steps of grow                                                       *)

LEMMA PlaceStep == Inv /\ KeysWellBehaved /\ [Next]_vars /\ GrowPlace => Inv'
  <1> SUFFICES ASSUME Inv, KeysWellBehaved, [Next]_vars, GrowPlace PROVE Inv'
    OBVIOUS
  <1> DEFINE e == slots[from]
             at == SlotAt(e.hash, dist, 2 * size)
  <1>1. /\ pc = "grow" /\ from < size /\ Occupied(slots, from) /\ ~Occupied(newSlots, at)
        /\ newSlots' = [newSlots EXCEPT ![at] = e] /\ from' = from + 1 /\ dist' = 0
        /\ UNCHANGED <<op, height, key, pc, row, size, slots, nGroups, gids, indices, firstRows>>
    <2>1. size * 2 = 2 * size
      BY DEF Inv, TypeInv
    <2>2. Target = at
      BY <2>1 DEF Target, Moving
    <2>3. QED
      BY <2>2 DEF GrowPlace, Moving, Occupied
  <1>2. /\ from \in 0..size-1 /\ size \in Nat \ {0, 1} /\ nGroups \in Nat /\ dist \in 0..2*size-1
        /\ TableOK(slots, size, nGroups) /\ TableOK(newSlots, 2 * size, nGroups)
        /\ slots \in [0..size-1 -> SlotType] /\ newSlots \in [0..2*size-1 -> SlotType]
    BY <1>1 DEF Inv, TypeInv, TableInv, TableOK
  <1>3. /\ e \in SlotType /\ e.hash \in Nat /\ e.firstRow \in 0..height-1 /\ e.gid < nGroups
        /\ e.hash = Hash[key[e.firstRow]]
    BY <1>1, <1>2 DEF TableOK, SlotType
  <1>4. at \in 0..2*size-1
    BY <1>2, <1>3 DEF SlotAt
  <1>5. \A q \in 0..2*size-1 : Occupied(newSlots, q) =>
          newSlots[q].gid # e.gid /\ ~rowsEqual(e.firstRow, newSlots[q].firstRow)
    <2> SUFFICES ASSUME NEW q \in 0..2*size-1, Occupied(newSlots, q)
                 PROVE  newSlots[q].gid # e.gid /\ ~rowsEqual(e.firstRow, newSlots[q].firstRow)
      OBVIOUS
    <2>1. PICK p \in 0..from-1 : slots[p] = newSlots[q]
      BY <1>1 DEF Inv, TableInv
    <2>2. p \in 0..size-1 /\ p # from /\ Occupied(slots, p)
      BY <1>2, <2>1 DEF Occupied
    <2>3. QED
      BY <1>1, <1>2, <2>1, <2>2 DEF TableOK
  <1>6. TableOK(newSlots', 2 * size, nGroups)
    <2>1. \A c \in 0..dist-1 : Occupied(newSlots, SlotAt(e.hash, c, 2 * size))
      BY <1>1 DEF Inv, TableInv
    <2>2. TypeInv /\ 2 * size \in Nat \ {0} /\ nGroups <= nGroups
          /\ newSlots' = [newSlots EXCEPT ![SlotAt(e.hash, dist, 2 * size)] = e]
          /\ ~Occupied(newSlots, SlotAt(e.hash, dist, 2 * size))
      BY <1>1, <1>2 DEF Inv
    <2> HIDE DEF e
    <2>3. QED
      BY <2>1, <2>2, <1>2, <1>3, <1>5, InsertOK
  <1>7. newSlots'[at] = e /\ \A q \in 0..2*size-1 : q # at => newSlots'[q] = newSlots[q]
    BY <1>1, <1>2, <1>4
  <1>8. \A p \in 0..from : Occupied(slots, p) => \E q \in 0..2*size-1 : newSlots'[q] = slots[p]
    <2> SUFFICES ASSUME NEW p \in 0..from, Occupied(slots, p)
                 PROVE  \E q \in 0..2*size-1 : newSlots'[q] = slots[p]
      OBVIOUS
    <2>1. CASE p = from
      BY <2>1, <1>4, <1>7
    <2>2. CASE p \in 0..from-1
      <3>1. PICK q \in 0..2*size-1 : newSlots[q] = slots[p]
        BY <2>2, <1>1 DEF Inv, TableInv
      <3>2. q # at
        BY <3>1, <1>1 DEF Occupied
      <3>3. QED
        BY <3>1, <3>2, <1>7
    <2>3. QED
      BY <2>1, <2>2, <1>2
  <1>9. \A q \in 0..2*size-1 : Occupied(newSlots', q) => \E p \in 0..from : slots[p] = newSlots'[q]
    <2> SUFFICES ASSUME NEW q \in 0..2*size-1, Occupied(newSlots', q)
                 PROVE  \E p \in 0..from : slots[p] = newSlots'[q]
      OBVIOUS
    <2>1. CASE q = at
      <3>1. from \in 0..from
        BY <1>2
      <3>2. QED
        BY <2>1, <3>1, <1>7
    <2>2. CASE q # at
      <3>1. Occupied(newSlots, q) /\ newSlots'[q] = newSlots[q]
        BY <2>2, <1>7 DEF Occupied
      <3>2. PICK p \in 0..from-1 : slots[p] = newSlots[q]
        BY <3>1, <1>1 DEF Inv, TableInv
      <3>3. p \in 0..from
        BY <1>2
      <3>4. QED
        BY <3>1, <3>2, <3>3
    <2>3. QED
      BY <2>1, <2>2
  <1>10. TypeInv'
    BY <1>1, <1>2 DEF Inv, TypeInv
  <1>11. LoadInv'
    BY <1>1 DEF Inv, LoadInv
  <1>12. TableInv'
    <2>1. TableOK(slots, size, nGroups)' /\ TableOK(newSlots, 2 * size, nGroups)'
      BY <1>1, <1>2, <1>6, FrameFixed
    <2>2. (\A i \in 0..row-1 : \E p \in 0..size-1 :
            Occupied(slots, p) /\ slots[p].gid = gids[i] /\ rowsEqual(i, slots[p].firstRow))'
      BY <1>1 DEF Inv, TableInv, rowsEqual, Occupied
    <2>3. from' - 1 = from
      BY <1>1, <1>2
    <2>4. (/\ \A p \in 0..from-1 : Occupied(slots, p) =>
                \E q \in 0..2*size-1 : newSlots[q] = slots[p]
           /\ \A q \in 0..2*size-1 : Occupied(newSlots, q) =>
                \E p \in 0..from-1 : slots[p] = newSlots[q])'
      BY <1>1, <1>8, <1>9, <2>3 DEF Occupied
    <2>5. (/\ dist < 2 * size
           /\ from <= size
           /\ from < size /\ ~Occupied(slots, from) => dist = 0
           /\ from < size /\ Occupied(slots, from) =>
                \A c \in 0..dist-1 : Occupied(newSlots, SlotAt(slots[from].hash, c, 2 * size)))'
      BY <1>1, <1>2
    <2>6. (pc = "grow" /\ row < height)'
      BY <1>1 DEF Inv, TableInv
    <2>7. QED
      BY <2>1, <2>2, <2>4, <2>5, <2>6 DEF TableInv
  <1>13. QED
    BY <1>10, <1>11, <1>12 DEF Inv

(* The remaining steps of grow leave both tables alone.                    *)
LEMMA GrowMoveStep == Inv /\ [Next]_vars /\ (GrowSkip \/ GrowNext) => Inv'
  <1> SUFFICES ASSUME Inv, [Next]_vars, GrowSkip \/ GrowNext PROVE Inv'
    OBVIOUS
  <1>1. /\ pc = "grow" /\ from < size
        /\ UNCHANGED <<op, height, key, pc, row, size, slots, nGroups, newSlots, gids, indices>>
        /\ size \in Nat \ {0, 1} /\ from \in Nat /\ dist \in Nat
    BY DEF GrowSkip, GrowNext, Inv, TypeInv
  <1>2. TypeInv' /\ LoadInv' /\ dist' < 2 * size
    <2>1. dist' \in Nat /\ dist' < 2 * size /\ from' \in Nat
      BY <1>1 DEF GrowSkip, GrowNext, Inv, TableInv
    <2>2. QED
      BY <1>1, <2>1 DEF Inv, TypeInv, LoadInv
  <1>3. (/\ TableOK(slots, size, nGroups) /\ TableOK(newSlots, 2 * size, nGroups)
         /\ \A i \in 0..row-1 : \E p \in 0..size-1 :
              Occupied(slots, p) /\ slots[p].gid = gids[i] /\ rowsEqual(i, slots[p].firstRow))'
    <2>1. (TableOK(slots, size, nGroups) /\ TableOK(newSlots, 2 * size, nGroups))'
      BY <1>1, FrameFixed DEF Inv, TableInv
    <2>2. (\A i \in 0..row-1 : \E p \in 0..size-1 :
              Occupied(slots, p) /\ slots[p].gid = gids[i] /\ rowsEqual(i, slots[p].firstRow))'
      BY <1>1 DEF Inv, TableInv, rowsEqual, Occupied
    <2>3. QED
      BY <2>1, <2>2
  <1>4. (pc = "grow" /\ row < height)'
    BY <1>1 DEF Inv, TableInv
  <1>5. CASE GrowSkip
    <2>1. from' = from + 1 /\ ~Occupied(slots, from) /\ dist' = dist
      BY <1>5 DEF GrowSkip, Moving, Occupied
    <2>2. 0..from'-1 = 0..from-1 \cup {from}
      BY <1>1, <2>1
    <2>3. (/\ \A p \in 0..from-1 : Occupied(slots, p) =>
                \E q \in 0..2*size-1 : newSlots[q] = slots[p]
           /\ \A q \in 0..2*size-1 : Occupied(newSlots, q) =>
                \E p \in 0..from-1 : slots[p] = newSlots[q])'
      BY <1>1, <2>1, <2>2 DEF Inv, TableInv, Occupied
    <2>4. dist' = 0 /\ from' <= size
      BY <1>1, <2>1 DEF Inv, TableInv
    <2>5. QED
      BY <1>1, <1>2, <1>3, <1>4, <2>3, <2>4 DEF TableInv, Inv
  <1>6. CASE GrowNext
    <2>1. from' = from /\ dist' = (dist + 1) % (size * 2)
          /\ Occupied(newSlots, SlotAt(slots[from].hash, dist, 2 * size))
      <3>1. size * 2 = 2 * size
        BY <1>1
      <3>2. QED
        BY <1>6, <3>1 DEF GrowNext, Moving, Target, Occupied
    <2>2. dist' = 0 \/ dist' = dist + 1
      BY <1>1, <2>1 DEF Inv, TableInv
    <2>3. (from < size /\ Occupied(slots, from) =>
             \A c \in 0..dist-1 : Occupied(newSlots, SlotAt(slots[from].hash, c, 2 * size)))'
      <3>1. CASE dist' = 0
        BY <3>1
      <3>2. CASE dist' = dist + 1
        <4>1. \A c \in 0..dist'-1 : c \in 0..dist-1 \/ c = dist
          BY <1>1, <3>2
        <4>2. Occupied(slots, from) =>
                \A c \in 0..dist'-1 : Occupied(newSlots, SlotAt(slots[from].hash, c, 2 * size))
          BY <1>1, <2>1, <4>1 DEF Inv, TableInv
        <4>3. QED
          BY <1>1, <2>1, <4>2 DEF Occupied
      <3>3. QED
        BY <2>2, <3>1, <3>2
    <2>4. (/\ from <= size
           /\ \A p \in 0..from-1 : Occupied(slots, p) =>
                \E q \in 0..2*size-1 : newSlots[q] = slots[p]
           /\ \A q \in 0..2*size-1 : Occupied(newSlots, q) =>
                \E p \in 0..from-1 : slots[p] = newSlots[q])'
      BY <1>1, <2>1 DEF Inv, TableInv, Occupied
    <2>5. (from < size /\ ~Occupied(slots, from) => dist = 0)'
      BY <1>1, <1>6, <2>1 DEF GrowNext, Moving, Occupied
    <2>6. QED
      BY <1>1, <1>2, <1>3, <1>4, <2>3, <2>4, <2>5 DEF Inv, TableInv
  <1>7. QED
    BY <1>5, <1>6

LEMMA InstallStep == Inv /\ [Next]_vars /\ GrowDone => Inv'
  <1> SUFFICES ASSUME Inv, [Next]_vars, GrowDone PROVE Inv'
    OBVIOUS
  <1>1. /\ pc = "grow" /\ from = size /\ slots' = newSlots /\ size' = 2 * size /\ dist' = 0
        /\ pc' = "find" /\ UNCHANGED <<op, height, key, row, nGroups, newSlots, from, gids, indices>>
        /\ size \in Nat \ {0, 1}
    BY DEF GrowDone, Inv, TypeInv
  <1>2. TypeInv' /\ LoadInv'
    BY <1>1 DEF Inv, TypeInv, LoadInv
  <1>3. TableOK(slots, size, nGroups)'
    BY <1>1, FrameFixed DEF Inv, TableInv
  <1>4. \A i \in 0..row-1 : \E q \in 0..2*size-1 :
          Occupied(newSlots, q) /\ newSlots[q].gid = gids[i] /\ rowsEqual(i, newSlots[q].firstRow)
    <2> SUFFICES ASSUME NEW i \in 0..row-1
                 PROVE  \E q \in 0..2*size-1 :
                          Occupied(newSlots, q) /\ newSlots[q].gid = gids[i]
                          /\ rowsEqual(i, newSlots[q].firstRow)
      OBVIOUS
    <2>1. PICK p \in 0..size-1 :
            Occupied(slots, p) /\ slots[p].gid = gids[i] /\ rowsEqual(i, slots[p].firstRow)
      BY DEF Inv, TableInv
    <2>2. PICK q \in 0..2*size-1 : newSlots[q] = slots[p]
      BY <1>1, <2>1 DEF Inv, TableInv
    <2>3. QED
      BY <2>1, <2>2 DEF Occupied
  <1>5. (\A i \in 0..row-1 : \E p \in 0..size-1 :
            Occupied(slots, p) /\ slots[p].gid = gids[i] /\ rowsEqual(i, slots[p].firstRow))'
    BY <1>1, <1>4 DEF rowsEqual, Occupied
  <1>6. (pc = "find" /\ row < height)'
    BY <1>1 DEF Inv, TableInv
  <1>7. QED
    BY <1>2, <1>3, <1>5, <1>6 DEF Inv, TableInv

-----------------------------------------------------------------------------
(* The other steps, and the invariant                                      *)

LEMMA AllocStep == Inv /\ [Next]_vars /\ (DoubleSize \/ Alloc) => Inv'
  <1> SUFFICES ASSUME Inv, [Next]_vars, DoubleSize \/ Alloc PROVE Inv'
    OBVIOUS
  <1>1. /\ pc = "alloc" /\ row = 0 /\ nGroups = 0 /\ dist = 0 /\ size \in Nat \ {0, 1}
        /\ UNCHANGED <<op, height, key, row, nGroups, dist, newSlots, from, gids, indices>>
    BY DEF DoubleSize, Alloc, Inv, TypeInv, TableInv
  <1>2. CASE DoubleSize
    <2>1. pc' = "alloc" /\ size' = size * 2 /\ slots' = slots
      BY <1>1, <1>2 DEF DoubleSize
    <2>2. TypeInv' /\ LoadInv'
      BY <1>1, <2>1 DEF Inv, TypeInv, LoadInv
    <2>3. TableInv'
      BY <1>1, <2>1 DEF TableInv
    <2>4. QED
      BY <2>2, <2>3 DEF Inv
  <1>3. CASE Alloc
    <2>1. pc' = "probe" /\ size' = size /\ slots' = EmptyTable(size)
      BY <1>1, <1>3 DEF Alloc
    <2>2. TypeInv' /\ LoadInv'
      BY <1>1, <2>1 DEF Inv, TypeInv, LoadInv
    <2>3. TableOK(slots, size, nGroups)'
      <3>1. TableOK(slots', size', nGroups')
        BY <1>1, <2>1, EmptyTableOK
      <3>2. QED
        BY <3>1, FrameFixed
    <2>4. (row < height => dist < size /\ \A c \in 0..dist-1 : FALSE)'
      BY <1>1, <2>1
    <2>5. TableInv'
      BY <1>1, <2>1, <2>3, <2>4 DEF TableInv
    <2>6. QED
      BY <2>2, <2>5 DEF Inv
  <1>4. QED
    BY <1>2, <1>3

LEMMA NextSlotStep == Inv /\ [Next]_vars /\ (ProbeNext \/ FindNext) => Inv'
  <1> SUFFICES ASSUME Inv, [Next]_vars, ProbeNext \/ FindNext PROVE Inv'
    OBVIOUS
  <1>1. /\ pc \in {"probe", "find"} /\ row < height /\ ~Matches(Current)
        /\ dist' = (dist + 1) % size
        /\ UNCHANGED <<op, height, key, pc, row, size, slots, nGroups, newSlots, from, gids, indices>>
        /\ size \in Nat \ {0, 1} /\ dist \in Nat
    BY DEF ProbeNext, FindNext, Inv, TypeInv, TableInv
  <1>2. dist' \in Nat /\ dist' < size
    BY <1>1
  <1>3. TypeInv' /\ LoadInv'
    BY <1>1, <1>2 DEF Inv, TypeInv, LoadInv
  <1>4. TableOK(slots, size, nGroups)'
    BY <1>1, FrameFixed DEF Inv, TableInv
  <1>5. (\A i \in 0..row-1 : \E p \in 0..size-1 :
            Occupied(slots, p) /\ slots[p].gid = gids[i] /\ rowsEqual(i, slots[p].firstRow))'
    BY <1>1 DEF Inv, TableInv, rowsEqual, Occupied
  <1>6. ASSUME pc = "probe"
        PROVE  (\A c \in 0..dist-1 :
                  LET s == slots[SlotAt(rowHash, c, size)]
                  IN  s.firstRow # htEmpty /\ ~Matches(s))'
    <2>1. Current.firstRow # htEmpty
      BY <1>1, <1>6 DEF ProbeNext, FindNext
    <2>2. dist' = 0 \/ dist' = dist + 1
      BY <1>1, <1>6 DEF Inv, TableInv
    <2>3. \A c \in 0..dist'-1 : c \in 0..dist-1 \/ c = dist
      BY <1>1, <2>2
    <2>4. \A c \in 0..dist'-1 :
            LET s == slots[SlotAt(rowHash, c, size)]
            IN  s.firstRow # htEmpty /\ ~Matches(s)
      BY <1>1, <1>6, <2>1, <2>3 DEF Inv, TableInv, Current
    <2>5. rowHash' = rowHash /\ \A s : Matches(s)' <=> Matches(s)
      BY <1>1 DEF rowHash, Matches, rowsEqual
    <2>6. QED
      BY <1>1, <2>4, <2>5 DEF Matches, rowHash, rowsEqual
  <1>7. QED
    BY <1>1, <1>2, <1>3, <1>4, <1>5, <1>6 DEF Inv, TableInv

LEMMA LookupHitStep == Inv /\ KeysWellBehaved /\ [Next]_vars /\ (ProbeHit \/ FindHit) => Inv'
  <1> SUFFICES ASSUME Inv, KeysWellBehaved, [Next]_vars, ProbeHit \/ FindHit PROVE Inv'
    OBVIOUS
  <1>1. /\ pc \in {"probe", "find"} /\ row < height /\ Matches(Current) /\ Assign(Current.gid)
        /\ UNCHANGED <<op, height, key, size, slots, nGroups, newSlots, from, firstRows>>
    BY DEF ProbeHit, FindHit, Inv, TableInv
  <1>2. SlotAt(rowHash, dist, size) \in 0..size-1
    BY <1>1, CurrentInTable DEF Inv, TableInv
  <1>3. QED
    BY <1>1, <1>2, HitStep

LEMMA RestStep == Inv /\ [Next]_vars /\ (Finish \/ UNCHANGED vars) => Inv'
  <1> SUFFICES ASSUME Inv, [Next]_vars, Finish \/ UNCHANGED vars PROVE Inv'
    OBVIOUS
  <1>1. UNCHANGED <<op, height, key, row, size, slots, nGroups, dist, newSlots, from, gids, indices>>
    BY DEF Finish, vars
  <1>2. TableOK(slots, size, nGroups)' <=> TableOK(slots, size, nGroups)
    BY <1>1, FrameFixed
  <1>3. TableOK(newSlots, 2 * size, nGroups)' <=> TableOK(newSlots, 2 * size, nGroups)
    BY <1>1, FrameFixed
  <1>4. (\A i \in 0..row-1 : \E p \in 0..size-1 :
            Occupied(slots, p) /\ slots[p].gid = gids[i] /\ rowsEqual(i, slots[p].firstRow))'
    BY <1>1 DEF Inv, TableInv, rowsEqual, Occupied
  <1>5. CASE Finish
    <2>1. pc = "probe" /\ pc' = "done"
      BY <1>5 DEF Finish
    <2>2. TypeInv' /\ LoadInv'
      BY <1>1, <2>1 DEF Inv, TypeInv, LoadInv
    <2>3. QED
      BY <1>1, <1>2, <1>4, <2>1, <2>2 DEF Inv, TableInv
  <1>6. CASE UNCHANGED vars
    <2>1. UNCHANGED <<op, height, key, pc, row, size, slots, nGroups, dist, newSlots, from, gids,
                      indices>>
      BY <1>6 DEF vars
    <2>2. TypeInv' /\ LoadInv'
      BY <2>1 DEF Inv, TypeInv, LoadInv
    <2>3. rowHash' = rowHash /\ \A s : Matches(s)' <=> Matches(s)
      BY <2>1 DEF rowHash, Matches, rowsEqual
    <2>4. TableInv'
      BY <1>2, <1>3, <1>4, <2>1, <2>3 DEF Inv, TableInv, Occupied
    <2>5. QED
      BY <2>2, <2>4 DEF Inv
  <1>7. QED
    BY <1>5, <1>6

LEMMA InvStep == Inv /\ KeysWellBehaved /\ [Next]_vars => Inv'
  <1> SUFFICES ASSUME Inv, KeysWellBehaved, [Next]_vars PROVE Inv'
    OBVIOUS
  <1>1. CASE DoubleSize \/ Alloc
    BY <1>1, AllocStep
  <1>2. CASE ProbeInsert
    BY <1>2, InsertStep
  <1>3. CASE ProbeHit \/ FindHit
    BY <1>3, LookupHitStep
  <1>4. CASE ProbeNext \/ FindNext
    BY <1>4, NextSlotStep
  <1>5. CASE GrowPlace
    BY <1>5, PlaceStep
  <1>6. CASE GrowSkip \/ GrowNext
    BY <1>6, GrowMoveStep
  <1>7. CASE GrowDone
    BY <1>7, InstallStep
  <1>8. CASE Finish \/ UNCHANGED vars
    BY <1>8, RestStep
  <1>9. QED
    BY <1>1, <1>2, <1>3, <1>4, <1>5, <1>6, <1>7, <1>8 DEF Next, Table, Finished

(* Linear probing's invariant: in the table, and in the one grow builds,   *)
(* every group has exactly one entry and is reachable from its hash.       *)
THEOREM ProbingInvariant == KeysWellBehaved => (Spec => []Inv)
  <1> SUFFICES ASSUME KeysWellBehaved PROVE Spec => []Inv
    OBVIOUS
  <1>1. Inv /\ [Next]_vars => Inv'
    BY InvStep
  <1>2. QED
    BY InvInit, <1>1, PTL DEF Spec

(* What the invariant says of the groups.                                  *)
LEMMA InvGroupsMatch == Inv /\ KeysWellBehaved => GroupsAreClasses
  <1> SUFFICES ASSUME Inv, KeysWellBehaved, NEW i \in DOMAIN gids, NEW j \in DOMAIN gids
               PROVE  gids[i] = gids[j] <=> rowsEqual(i, j)
    BY DEF GroupsAreClasses
  <1>1. i \in 0..row-1 /\ j \in 0..row-1 /\ row \in 0..height /\ height \in Nat
    BY TableAssumption DEF Inv, TypeInv
  <1>2. i \in 0..height-1 /\ j \in 0..height-1
    BY <1>1
  <1>3. pc # "alloc"
    BY <1>1 DEF Inv, TableInv
  <1>4. PICK p \in 0..size-1 :
          Occupied(slots, p) /\ slots[p].gid = gids[i] /\ rowsEqual(i, slots[p].firstRow)
    BY <1>1 DEF Inv, TableInv
  <1>5. PICK q \in 0..size-1 :
          Occupied(slots, q) /\ slots[q].gid = gids[j] /\ rowsEqual(j, slots[q].firstRow)
    BY <1>1 DEF Inv, TableInv
  <1>6. slots[p].firstRow \in 0..height-1 /\ slots[q].firstRow \in 0..height-1
    BY <1>3, <1>4, <1>5 DEF Inv, TableInv, TableOK
  <1>7. /\ key[i] \in Keys /\ key[j] \in Keys
        /\ key[slots[p].firstRow] \in Keys /\ key[slots[q].firstRow] \in Keys
    BY <1>2, <1>6 DEF Inv, TypeInv
  <1>8. CASE p = q
    <2>1. gids[i] = gids[j]
      BY <1>4, <1>5, <1>8
    <2>2. rowsEqual(i, j)
      BY <1>4, <1>5, <1>7, <1>8 DEF KeysWellBehaved, rowsEqual
    <2>3. QED
      BY <2>1, <2>2
  <1>9. CASE p # q
    <2>1. slots[p].gid # slots[q].gid /\ ~rowsEqual(slots[p].firstRow, slots[q].firstRow)
      BY <1>3, <1>4, <1>5, <1>9 DEF Inv, TableInv, TableOK
    <2>2. ~rowsEqual(i, j)
      BY <1>4, <1>5, <1>7, <2>1 DEF KeysWellBehaved, rowsEqual
    <2>3. QED
      BY <1>4, <1>5, <2>1, <2>2
  <1>10. QED
    BY <1>8, <1>9

(* Rows get the same group exactly when their keys are equal, however the  *)
(* hash function collides and however often the table grows.               *)
THEOREM GroupsMatchKeys == KeysWellBehaved => (Spec => []GroupsAreClasses)
  <1> SUFFICES ASSUME KeysWellBehaved PROVE Spec => []GroupsAreClasses
    OBVIOUS
  <1>1. Inv => GroupsAreClasses
    BY InvGroupsMatch
  <1>2. QED
    BY ProbingInvariant, <1>1, PTL

(* Every group number given out so far has its slot.                       *)
GroupsPresent ==
  /\ pc = "alloc" => nGroups = 0
  /\ \A g \in 0..nGroups-1 : \E p \in 0..size-1 : Occupied(slots, p) /\ slots[p].gid = g

LEMMA PresentStep == Inv /\ GroupsPresent /\ [Next]_vars => GroupsPresent'
  <1> SUFFICES ASSUME Inv, GroupsPresent, [Next]_vars PROVE GroupsPresent'
    OBVIOUS
  <1>1. CASE DoubleSize \/ Alloc
    BY <1>1 DEF DoubleSize, Alloc, GroupsPresent
  <1>2. CASE ProbeInsert
    <2> DEFINE at == SlotAt(rowHash, dist, size)
    <2>1. /\ slots' = [slots EXCEPT ![at] = [hash |-> rowHash, firstRow |-> row, gid |-> nGroups]]
          /\ slots[at].firstRow = htEmpty /\ nGroups' = nGroups + 1 /\ size' = size
          /\ pc' # "alloc" /\ pc = "probe" /\ row < height
      BY <1>2 DEF ProbeInsert, Current, Assign
    <2>2. /\ dist < size /\ row \in Nat /\ nGroups \in Nat /\ slots \in [0..size-1 -> SlotType]
      BY <2>1, TableAssumption DEF Inv, TypeInv, TableInv, TableOK
    <2>3. at \in 0..size-1
      BY <2>1, <2>2, CurrentInTable
    <2>4. Occupied(slots', at) /\ slots'[at].gid = nGroups
      BY <2>1, <2>2, <2>3 DEF Occupied, htEmpty
    <2>5. \A p \in 0..size-1 : Occupied(slots, p) => slots'[p] = slots[p]
      BY <2>1, <2>2, <2>3 DEF Occupied
    <2>6. \A g \in 0..nGroups'-1 : g \in 0..nGroups-1 \/ g = nGroups
      BY <2>1, <2>2
    <2>7. \A g \in 0..nGroups'-1 : \E p \in 0..size-1 : Occupied(slots', p) /\ slots'[p].gid = g
      BY <2>3, <2>4, <2>5, <2>6 DEF GroupsPresent, Occupied
    <2>8. QED
      BY <2>1, <2>7 DEF GroupsPresent, Occupied
  <1>3. CASE GrowDone
    <2>1. /\ pc = "grow" /\ from = size /\ slots' = newSlots /\ size' = 2 * size /\ pc' = "find"
          /\ nGroups' = nGroups
      BY <1>3 DEF GrowDone, Inv, TypeInv
    <2>2. ASSUME NEW g \in 0..nGroups-1
          PROVE  \E q \in 0..2*size-1 : Occupied(newSlots, q) /\ newSlots[q].gid = g
      <3>1. PICK p \in 0..size-1 : Occupied(slots, p) /\ slots[p].gid = g
        BY DEF GroupsPresent
      <3>2. PICK q \in 0..2*size-1 : newSlots[q] = slots[p]
        BY <2>1, <3>1 DEF Inv, TableInv
      <3>3. QED
        BY <3>1, <3>2 DEF Occupied
    <2>3. QED
      BY <2>1, <2>2 DEF GroupsPresent, Occupied
  <1>4. CASE \/ ProbeHit \/ ProbeNext \/ GrowSkip \/ GrowNext \/ GrowPlace \/ FindHit \/ FindNext
             \/ Finish \/ UNCHANGED vars
    <2>1. pc # "alloc" => pc' # "alloc"
      BY <1>4 DEF ProbeHit, ProbeNext, GrowSkip, GrowNext, GrowPlace, FindHit, FindNext, Finish,
                  Assign, vars
    <2>2. UNCHANGED <<size, slots, nGroups>>
      BY <1>4 DEF ProbeHit, ProbeNext, GrowSkip, GrowNext, GrowPlace, FindHit, FindNext, Finish, vars
    <2>3. pc = "alloc" => pc' = "alloc"
      BY <1>4 DEF ProbeHit, ProbeNext, GrowSkip, GrowNext, GrowPlace, FindHit, FindNext, Finish,
                  vars, Inv, TableInv
    <2>4. QED
      BY <2>1, <2>2, <2>3 DEF GroupsPresent, Occupied
  <1>5. QED
    BY <1>1, <1>2, <1>3, <1>4 DEF Next, Table, Finished

(* The table is less than half full at every call of probe, and holds one  *)
(* slot for each group.                                                    *)
THEOREM TableStaysHalfEmpty == KeysWellBehaved => (Spec => []LoadBelowHalf)
  <1> SUFFICES ASSUME KeysWellBehaved PROVE Spec => []LoadBelowHalf
    OBVIOUS
  <1>1. Init => GroupsPresent
    BY DEF Init, GroupsPresent
  <1>2. Inv /\ GroupsPresent /\ [Next]_vars => GroupsPresent'
    BY PresentStep
  <1>3. Inv /\ GroupsPresent => LoadBelowHalf
    <2> SUFFICES ASSUME Inv, GroupsPresent, pc \in {"probe", "find", "done"}
                 PROVE  /\ 2 * nGroups < size
                        /\ \A g \in 0..nGroups-1 : \E p \in 0..size-1 :
                             /\ slots[p].firstRow # htEmpty /\ slots[p].gid = g
                             /\ \A q \in 0..size-1 :
                                  slots[q].firstRow # htEmpty /\ slots[q].gid = g => q = p
      BY DEF LoadBelowHalf
    <2>1. 2 * nGroups < size /\ TableOK(slots, size, nGroups)
      BY DEF Inv, LoadInv, TableInv
    <2>2. ASSUME NEW g \in 0..nGroups-1
          PROVE  \E p \in 0..size-1 : /\ slots[p].firstRow # htEmpty /\ slots[p].gid = g
                                       /\ \A q \in 0..size-1 :
                                            slots[q].firstRow # htEmpty /\ slots[q].gid = g => q = p
      <3>1. PICK p \in 0..size-1 : Occupied(slots, p) /\ slots[p].gid = g
        BY DEF GroupsPresent
      <3>2. ASSUME NEW q \in 0..size-1, Occupied(slots, q), slots[q].gid = g PROVE q = p
        BY <2>1, <3>1, <3>2 DEF TableOK
      <3>3. QED
        BY <3>1, <3>2 DEF Occupied
    <2>3. QED
      BY <2>1, <2>2
  <1>4. QED
    BY ProbingInvariant, <1>1, <1>2, <1>3, PTL DEF Spec

-----------------------------------------------------------------------------
(* The numbers of the groups.  Groups are numbered densely in the order in *)
(* which their first rows appear, the slot of a group holds that row, and  *)
(* Unique has kept it: on top of ProbingInvariant this makes the table an  *)
(* implementation of Grouping, for every data frame, hash function and     *)
(* table size.                                                             *)

(* Row i is the first one of group g.                                      *)
IsFounder(i, g) ==
  /\ i \in 0..row-1 /\ gids[i] = g
  /\ \A j \in 0..row-1 : gids[j] = g => i <= j

(* Every group has a founder, and the groups before that of a row are      *)
(* those of earlier rows.                                                  *)
NumberedInv ==
  /\ SettledGroups \in Nat
  /\ \A i \in 0..row-1 : gids[i] < SettledGroups
  /\ \A g \in 0..SettledGroups-1 : \E i \in 0..row-1 : IsFounder(i, g)
  /\ \A i \in 0..row-1 : \A h \in 0..gids[i]-1 : \E j \in 0..i-1 : gids[j] = h

(* A slot holds the founder of its group.  While the table grows one group *)
(* more has a slot: its founder is the current row.                        *)
EntryOK(s) ==
  IF s.gid < SettledGroups THEN IsFounder(s.firstRow, s.gid)
  ELSE s.gid = SettledGroups /\ s.firstRow = row /\ pc \in {"grow", "find"}

OrderInv ==
  /\ pc = "alloc" => nGroups = 0
  /\ pc = "done" => row = height
  /\ NumberedInv
  /\ pc # "alloc" => \A p \in 0..size-1 : Occupied(slots, p) => EntryOK(slots[p])
  /\ op = "unique" => /\ Len(indices) = SettledGroups
                      /\ \A g \in 0..SettledGroups-1 : IsFounder(indices[g+1], g)
  /\ op = "groupby" => indices = <<>>
  /\ from <= size
  /\ IF pc = "done" /\ op = "groupby"
       THEN /\ firstRows = [g \in 0..nGroups-1 |-> firstRows[g]]
            /\ \A g \in 0..nGroups-1 : IsFounder(firstRows[g], g)
       ELSE firstRows = [g \in {} |-> 0]

(* All that is known of a state.                                           *)
FullInv == Inv /\ GroupsPresent /\ OrderInv

LEMMA OrderInit == Init => OrderInv
  BY TableAssumption DEF Init, OrderInv, NumberedInv, SettledGroups

(* A step that takes no row and settles no group leaves the founders.      *)
LEMMA QuietStep ==
  ASSUME UNCHANGED <<row, gids>>, SettledGroups' = SettledGroups
  PROVE  /\ \A i, g : IsFounder(i, g)' <=> IsFounder(i, g)
         /\ NumberedInv' <=> NumberedInv
  BY DEF IsFounder, NumberedInv

(* A row that joins a group leaves the founders.                           *)
LEMMA JoinStep ==
  ASSUME TypeInv, NumberedInv, row \in Nat, row' = row + 1,
         NEW g \in 0..SettledGroups-1, SettledGroups' = SettledGroups,
         gids' \in [0..row -> Nat], gids'[row] = g, \A i \in 0..row-1 : gids'[i] = gids[i]
  PROVE  /\ \A i, h : IsFounder(i, h) => IsFounder(i, h)'
         /\ NumberedInv'
  <1>1. \A i \in 0..row : i \in 0..row-1 \/ i = row
    OBVIOUS
  <1>2. 0..row'-1 = 0..row
    OBVIOUS
  <1>3. PICK f \in 0..row-1 : IsFounder(f, g)
    BY DEF NumberedInv
  <1>4. ASSUME NEW i, NEW h, IsFounder(i, h) PROVE IsFounder(i, h)'
    <2>1. i \in 0..row /\ gids'[i] = h
      BY <1>4 DEF IsFounder
    <2>2. ASSUME NEW j \in 0..row, gids'[j] = h PROVE i <= j
      BY <2>2, <1>1, <1>4 DEF IsFounder
    <2>3. QED
      BY <1>2, <2>1, <2>2 DEF IsFounder
  <1>5. \A i \in 0..row'-1 : gids'[i] < SettledGroups'
    <2>1. g < SettledGroups /\ \A i \in 0..row-1 : gids[i] < SettledGroups
      BY DEF NumberedInv
    <2>2. QED
      BY <1>1, <1>2, <2>1
  <1>6. \A h \in 0..SettledGroups'-1 : \E i \in 0..row'-1 : IsFounder(i, h)'
    <2> SUFFICES ASSUME NEW h \in 0..SettledGroups-1 PROVE \E i \in 0..row : IsFounder(i, h)'
      BY <1>2
    <2>1. PICK i \in 0..row-1 : IsFounder(i, h)
      BY DEF NumberedInv
    <2>2. QED
      BY <2>1, <1>4
  <1>7. \A i \in 0..row'-1 : \A h \in 0..gids'[i]-1 : \E j \in 0..i-1 : gids'[j] = h
    <2> SUFFICES ASSUME NEW i \in 0..row, NEW h \in 0..gids'[i]-1
                 PROVE  \E j \in 0..i-1 : gids'[j] = h
      BY <1>2
    <2>1. CASE i = row
      <3>1. h \in 0..SettledGroups-1
        BY <2>1 DEF NumberedInv
      <3>2. PICK j \in 0..row-1 : IsFounder(j, h)
        BY <3>1 DEF NumberedInv
      <3>3. QED
        BY <2>1, <3>2 DEF IsFounder
    <2>2. CASE i \in 0..row-1
      <3>1. PICK j \in 0..i-1 : gids[j] = h
        BY <2>2 DEF NumberedInv
      <3>2. j \in 0..row-1
        BY <2>2
      <3>3. QED
        BY <3>1, <3>2
    <2>3. QED
      BY <1>1, <2>1, <2>2
  <1>8. QED
    BY <1>4, <1>5, <1>6, <1>7 DEF NumberedInv

(* A row that gets the next number founds its group.                       *)
LEMMA FoundStep ==
  ASSUME TypeInv, NumberedInv, row \in Nat, row' = row + 1,
         SettledGroups' = SettledGroups + 1,
         gids' \in [0..row -> Nat], gids'[row] = SettledGroups,
         \A i \in 0..row-1 : gids'[i] = gids[i]
  PROVE  /\ \A i, h : IsFounder(i, h) => IsFounder(i, h)'
         /\ \A i, h : i = row /\ h = SettledGroups => IsFounder(i, h)'
         /\ NumberedInv'
  <1>1. \A i \in 0..row : i \in 0..row-1 \/ i = row
    OBVIOUS
  <1>2. 0..row'-1 = 0..row
    OBVIOUS
  <1>3. SettledGroups \in Nat /\ \A i \in 0..row-1 : gids[i] < SettledGroups
    BY DEF NumberedInv
  <1>4. ASSUME NEW i, NEW h, IsFounder(i, h) PROVE IsFounder(i, h)'
    <2>1. i \in 0..row /\ gids'[i] = h
      BY <1>4 DEF IsFounder
    <2>2. ASSUME NEW j \in 0..row, gids'[j] = h PROVE i <= j
      BY <2>2, <1>1, <1>4 DEF IsFounder
    <2>3. QED
      BY <1>2, <2>1, <2>2 DEF IsFounder
  <1>5. \A i, h : i = row /\ h = SettledGroups => IsFounder(i, h)'
    BY <1>1, <1>2, <1>3 DEF IsFounder
  <1>6. \A h \in 0..SettledGroups'-1 : \E i \in 0..row'-1 : IsFounder(i, h)'
    <2> SUFFICES ASSUME NEW h \in 0..SettledGroups PROVE \E i \in 0..row : IsFounder(i, h)'
      BY <1>2, <1>3
    <2>1. CASE h = SettledGroups
      BY <2>1, <1>5
    <2>2. CASE h \in 0..SettledGroups-1
      <3>1. PICK i \in 0..row-1 : IsFounder(i, h)
        BY <2>2 DEF NumberedInv
      <3>2. QED
        BY <3>1, <1>4
    <2>3. QED
      BY <1>3, <2>1, <2>2
  <1>7. \A i \in 0..row'-1 : \A h \in 0..gids'[i]-1 : \E j \in 0..i-1 : gids'[j] = h
    <2> SUFFICES ASSUME NEW i \in 0..row, NEW h \in 0..gids'[i]-1
                 PROVE  \E j \in 0..i-1 : gids'[j] = h
      BY <1>2
    <2>1. CASE i = row
      <3>1. h \in 0..SettledGroups-1
        BY <2>1
      <3>2. PICK j \in 0..row-1 : IsFounder(j, h)
        BY <3>1 DEF NumberedInv
      <3>3. QED
        BY <2>1, <3>2 DEF IsFounder
    <2>2. CASE i \in 0..row-1
      <3>1. PICK j \in 0..i-1 : gids[j] = h
        BY <2>2 DEF NumberedInv
      <3>2. j \in 0..row-1
        BY <2>2
      <3>3. QED
        BY <3>1, <3>2
    <2>3. QED
      BY <1>1, <2>1, <2>2
  <1>8. \A i \in 0..row'-1 : gids'[i] < SettledGroups'
    BY <1>1, <1>2, <1>3
  <1>9. QED
    BY <1>3, <1>4, <1>5, <1>6, <1>7, <1>8 DEF NumberedInv

LEMMA QuietEntry ==
  ASSUME UNCHANGED <<row, gids>>, SettledGroups' = SettledGroups,
         pc \in {"grow", "find"} => pc' \in {"grow", "find"},
         NEW s, EntryOK(s)
  PROVE  EntryOK(s)'
  BY QuietStep DEF EntryOK

(* Founders stay founders, so a settled entry stays well formed.           *)
LEMMA SettledEntry ==
  ASSUME \A i, g : IsFounder(i, g) => IsFounder(i, g)',
         SettledGroups \in Nat, SettledGroups' \in Nat, SettledGroups <= SettledGroups',
         NEW s, s.gid \in Nat, s.gid < SettledGroups, EntryOK(s)
  PROVE  EntryOK(s)'
  BY DEF EntryOK

-----------------------------------------------------------------------------
(* The steps                                                               *)

LEMMA SearchOrder ==
  ASSUME FullInv, [Next]_vars,
         \/ DoubleSize \/ ProbeNext \/ GrowSkip \/ GrowNext \/ GrowPlace \/ FindNext
         \/ UNCHANGED vars
  PROVE  OrderInv'
  <1>1. UNCHANGED <<op, height, pc, row, slots, nGroups, gids, indices, firstRows>>
    BY DEF DoubleSize, ProbeNext, GrowSkip, GrowNext, GrowPlace, FindNext, vars
  <1>2. SettledGroups' = SettledGroups
    BY <1>1 DEF SettledGroups
  <1>3. from' <= size' /\ size' \in Nat /\ (pc # "alloc" => size' = size)
    BY DEF DoubleSize, ProbeNext, GrowSkip, GrowNext, GrowPlace, FindNext, vars, FullInv, OrderInv,
           Inv, TypeInv
  <1>4. NumberedInv' /\ \A i, g : IsFounder(i, g)' <=> IsFounder(i, g)
    BY <1>1, <1>2, QuietStep DEF FullInv, OrderInv
  <1>5. (pc # "alloc" => \A p \in 0..size-1 : Occupied(slots, p) => EntryOK(slots[p]))'
    <2>1. \A s : EntryOK(s)' <=> EntryOK(s)
      BY <1>1, <1>2, <1>4 DEF EntryOK
    <2>2. QED
      BY <1>1, <1>3, <2>1 DEF EntryOK, Occupied, FullInv, OrderInv
  <1>6. QED
    BY <1>1, <1>2, <1>3, <1>4, <1>5 DEF FullInv, OrderInv, IsFounder

LEMMA AllocOrder ==
  ASSUME FullInv, [Next]_vars, Alloc
  PROVE  OrderInv'
  <1>1. /\ pc = "alloc" /\ pc' = "probe" /\ slots' = EmptyTable(size) /\ nGroups = 0 /\ row = 0
        /\ UNCHANGED <<op, row, size, nGroups, from, gids, indices, firstRows>>
    BY DEF Alloc, FullInv, OrderInv, Inv, TableInv
  <1>2. SettledGroups' = SettledGroups
    BY <1>1 DEF SettledGroups
  <1>3. NumberedInv' /\ \A i, g : IsFounder(i, g)' <=> IsFounder(i, g)
    BY <1>1, <1>2, QuietStep DEF FullInv, OrderInv
  <1>4. \A p \in 0..size'-1 : ~Occupied(slots, p)'
    BY <1>1, EmptyTableOK DEF Occupied, EmptyTable, EmptySlot, htEmpty
  <1>5. QED
    BY <1>1, <1>2, <1>3, <1>4 DEF FullInv, OrderInv, IsFounder

(* The new table has the entries of the old one.                           *)
LEMMA InstallOrder ==
  ASSUME FullInv, [Next]_vars, GrowDone
  PROVE  OrderInv'
  <1>1. /\ pc = "grow" /\ pc' = "find" /\ from = size /\ slots' = newSlots /\ size' = 2 * size
        /\ size \in Nat
        /\ UNCHANGED <<op, row, nGroups, from, gids, indices, firstRows>>
    BY DEF GrowDone, FullInv, Inv, TypeInv
  <1>2. SettledGroups' = SettledGroups
    BY <1>1 DEF SettledGroups
  <1>3. NumberedInv' /\ \A i, g : IsFounder(i, g)' <=> IsFounder(i, g)
    BY <1>1, <1>2, QuietStep DEF FullInv, OrderInv
  <1>4. ASSUME NEW q \in 0..2*size-1, Occupied(newSlots, q)
        PROVE  EntryOK(newSlots[q])'
    <2>1. PICK p \in 0..from-1 : slots[p] = newSlots[q]
      BY <1>1, <1>4 DEF FullInv, Inv, TableInv
    <2>2. EntryOK(slots[p])
      BY <1>1, <1>4, <2>1 DEF FullInv, OrderInv, Occupied
    <2>3. \A s : EntryOK(s) => EntryOK(s)'
      BY <1>1, <1>2, QuietEntry
    <2>4. newSlots' = newSlots
      BY DEF GrowDone
    <2>5. QED
      BY <2>1, <2>2, <2>3, <2>4 DEF EntryOK
  <1>5. (\A p \in 0..size-1 : Occupied(slots, p) => EntryOK(slots[p]))'
    <2>1. newSlots' = newSlots
      BY DEF GrowDone
    <2>2. QED
      BY <1>1, <1>4, <2>1 DEF Occupied, EntryOK
  <1>6. QED
    BY <1>1, <1>2, <1>3, <1>5 DEF FullInv, OrderInv, IsFounder

(* A row that takes the group of an entry, or founds the next one and has  *)
(* its entry: the indices that Unique keeps and the slots follow.          *)
LEMMA JoinOrder ==
  ASSUME FullInv, NEW g \in 0..SettledGroups-1, Assign(g), row < height,
         pc = "probe",
         UNCHANGED <<op, height, key, size, slots, nGroups, from, firstRows>>
  PROVE  OrderInv'
  <1>1. row \in Nat /\ SettledGroups \in Nat /\ g \in Nat /\ nGroups = SettledGroups
    BY TableAssumption DEF FullInv, Inv, TypeInv, OrderInv, NumberedInv, SettledGroups
  <1>2. /\ row' = row + 1 /\ pc' = "probe" /\ gids' \in [0..row -> Nat]
        /\ gids'[row] = g /\ \A i \in 0..row-1 : gids'[i] = gids[i]
    <2>1. /\ row' = row + 1 /\ pc' = "probe" /\ gids' \in [0..row'-1 -> Nat]
          /\ gids'[row] = g /\ \A i \in 0..row-1 : gids'[i] = gids[i]
      BY <1>1, AssignEffect DEF FullInv, Inv
    <2>2. row'-1 = row
      BY <1>1, <2>1
    <2>3. QED
      BY <2>1, <2>2
  <1>3. SettledGroups' = SettledGroups
    BY <1>1, <1>2 DEF SettledGroups
  <1>4. NumberedInv' /\ \A i, h : IsFounder(i, h) => IsFounder(i, h)'
    BY <1>1, <1>2, <1>3, JoinStep DEF FullInv, Inv, OrderInv
  <1>5. \A p \in 0..size-1 : Occupied(slots, p) => EntryOK(slots[p])'
    <2> SUFFICES ASSUME NEW p \in 0..size-1, Occupied(slots, p) PROVE EntryOK(slots[p])'
      OBVIOUS
    <2>1. slots[p].gid \in Nat /\ slots[p].gid < nGroups /\ EntryOK(slots[p])
      BY DEF FullInv, Inv, TableInv, TableOK, SlotType, OrderInv
    <2>2. \A t : EntryOK(t) /\ t.gid \in Nat /\ t.gid < SettledGroups => EntryOK(t)'
      BY <1>1, <1>3, <1>4, SettledEntry
    <2>3. QED
      BY <1>1, <2>1, <2>2 DEF EntryOK
  <1>6. op = "unique" => indices' = indices
    BY <1>1 DEF Assign, FullInv, OrderInv
  <1>7. op = "groupby" => indices' = <<>>
    BY DEF Assign, FullInv, OrderInv
  <1>8. op' = "unique" => /\ Len(indices') = SettledGroups'
                          /\ \A h \in 0..SettledGroups'-1 : IsFounder(indices[h+1], h)'
    BY <1>3, <1>4, <1>6 DEF FullInv, OrderInv, IsFounder
  <1>9. QED
    BY <1>2, <1>4, <1>5, <1>7, <1>8 DEF FullInv, OrderInv, Occupied, EntryOK

LEMMA FoundOrder ==
  ASSUME FullInv, [Next]_vars, Assign(SettledGroups), row < height, pc \in {"probe", "find"},
         SettledGroups' = SettledGroups + 1, from' <= size',
         UNCHANGED <<op, height, key, firstRows>>,
         NEW mine \in 0..size'-1,
         slots'[mine].firstRow = row, slots'[mine].gid = SettledGroups,
         \A p \in 0..size'-1 : p # mine /\ Occupied(slots', p) =>
           EntryOK(slots'[p]) /\ slots'[p].gid \in Nat /\ slots'[p].gid < SettledGroups
  PROVE  OrderInv'
  <1>1. row \in Nat /\ SettledGroups \in Nat
    BY TableAssumption DEF FullInv, Inv, TypeInv, OrderInv, NumberedInv
  <1>2. /\ row' = row + 1 /\ pc' = "probe" /\ gids' \in [0..row -> Nat]
        /\ gids'[row] = SettledGroups /\ \A i \in 0..row-1 : gids'[i] = gids[i]
    BY <1>1, AssignEffect DEF FullInv, Inv
  <1>3. /\ NumberedInv' /\ \A i, h : IsFounder(i, h) => IsFounder(i, h)'
        /\ \A i, h : i = row /\ h = SettledGroups => IsFounder(i, h)'
    BY <1>1, <1>2, FoundStep DEF FullInv, Inv, OrderInv
  <1>4. \A t : EntryOK(t) /\ t.gid \in Nat /\ t.gid < SettledGroups => EntryOK(t)'
    BY <1>1, <1>3, SettledEntry
  <1>5. \A t : t.firstRow = row /\ t.gid = SettledGroups => EntryOK(t)'
    BY <1>1, <1>3 DEF EntryOK
  <1>6. \A p \in 0..size'-1 : Occupied(slots', p) => EntryOK(slots[p])'
    BY <1>4, <1>5 DEF EntryOK
  <1>7. op = "groupby" => indices' = <<>>
    BY DEF Assign, FullInv, OrderInv
  <1>8. ASSUME op = "unique"
        PROVE  /\ Len(indices') = SettledGroups'
               /\ \A h \in 0..SettledGroups'-1 : IsFounder(indices[h+1], h)'
    <2>1. /\ indices \in Seq(Nat) /\ Len(indices) = SettledGroups /\ indices' = Append(indices, row)
      BY <1>8 DEF Assign, FullInv, OrderInv, Inv, TypeInv
    <2>2. Len(indices') = SettledGroups' /\ indices'[SettledGroups + 1] = row
      BY <1>1, <2>1
    <2>3. \A h \in 0..SettledGroups-1 : indices'[h+1] = indices[h+1]
      BY <1>1, <2>1
    <2>4. \A h \in 0..SettledGroups-1 : IsFounder(indices[h+1], h)
      BY <1>8 DEF FullInv, OrderInv
    <2>5. \A i, h : (h \in 0..SettledGroups-1 /\ i = indices[h+1]) => IsFounder(i, h)'
      BY <1>3, <2>4
    <2>6. \A h \in 0..SettledGroups'-1 : IsFounder(indices[h+1], h)'
      <3>1. ASSUME NEW h \in 0..SettledGroups'-1 PROVE \A i : i = indices'[h+1] => IsFounder(i, h)'
        <4>1. CASE h = SettledGroups
          BY <1>3, <2>2, <4>1
        <4>2. CASE h # SettledGroups
          <5>1. h \in 0..SettledGroups-1
            BY <1>1, <4>2
          <5>2. QED
            BY <2>3, <2>5, <5>1
        <4>3. QED
          BY <4>1, <4>2
      <3>2. QED
        BY <3>1 DEF IsFounder
    <2>7. QED
      BY <2>2, <2>6
  <1>9. pc' # "done" /\ pc' # "alloc" /\ firstRows' = [g \in {} |-> 0]
    BY <1>2 DEF FullInv, OrderInv
  <1>10. op' = op /\ op \in {"groupby", "unique"}
    BY DEF FullInv, Inv, TypeInv
  <1>11. (pc # "alloc" => \A p \in 0..size-1 : Occupied(slots, p) => EntryOK(slots[p]))'
    BY <1>6 DEF Occupied
  <1>12. QED
    BY <1>3, <1>7, <1>8, <1>9, <1>10, <1>11 DEF OrderInv

LEMMA HitOrder ==
  ASSUME FullInv, [Next]_vars, ProbeHit
  PROVE  OrderInv'
  <1>1. /\ pc = "probe" /\ row < height /\ Matches(Current) /\ Assign(Current.gid)
        /\ UNCHANGED <<op, height, key, size, slots, nGroups, from, firstRows>>
    BY DEF ProbeHit
  <1>2. SlotAt(rowHash, dist, size) \in 0..size-1
    BY <1>1, CurrentInTable DEF FullInv, Inv, TableInv
  <1>3. Current.gid \in Nat /\ Current.gid < nGroups /\ nGroups \in Nat
    BY <1>1, <1>2 DEF FullInv, Inv, TableInv, TableOK, SlotType, Current, Matches, Occupied, TypeInv
  <1>4. Current.gid \in 0..SettledGroups-1
    BY <1>1, <1>3 DEF SettledGroups
  <1>5. QED
    BY <1>1, <1>4, JoinOrder

LEMMA InsertOrder ==
  ASSUME FullInv, [Next]_vars, ProbeInsert
  PROVE  OrderInv'
  <1> DEFINE at == SlotAt(rowHash, dist, size)
             e == [hash |-> rowHash, firstRow |-> row, gid |-> nGroups]
  <1>1. /\ pc = "probe" /\ row < height /\ slots[at].firstRow = htEmpty
        /\ slots' = [slots EXCEPT ![at] = e] /\ nGroups' = nGroups + 1
        /\ UNCHANGED <<op, height, key, size, firstRows>>
        /\ SettledGroups = nGroups
    BY DEF ProbeInsert, Current, SettledGroups
  <1>2. /\ row \in Nat /\ nGroups \in Nat /\ size \in Nat /\ dist < size
        /\ slots \in [0..size-1 -> SlotType] /\ from <= size
    BY <1>1, TableAssumption DEF FullInv, Inv, TypeInv, TableInv, TableOK, OrderInv
  <1>3. at \in 0..size-1
    BY <1>1, <1>2, CurrentInTable DEF FullInv
  <1>4. slots'[at].firstRow = row /\ slots'[at].gid = nGroups
    BY <1>1, <1>2, <1>3
  <1>5. ASSUME NEW p \in 0..size-1, p # at, Occupied(slots', p)
        PROVE  EntryOK(slots'[p]) /\ slots'[p].gid \in Nat /\ slots'[p].gid < nGroups
    <2>1. slots'[p] = slots[p]
      BY <1>1, <1>2, <1>5
    <2>2. Occupied(slots, p)
      BY <1>5, <2>1 DEF Occupied
    <2>3. EntryOK(slots[p])
      BY <1>1, <2>2 DEF FullInv, OrderInv
    <2>4. slots[p].gid \in Nat /\ slots[p].gid < nGroups
      BY <1>1, <2>2 DEF FullInv, Inv, TableInv, TableOK, SlotType
    <2>5. QED
      BY <2>1, <2>3, <2>4
  <1>6. CASE MustGrow(nGroups + 1)
    <2>1. pc' = "grow" /\ from' = 0 /\ UNCHANGED <<row, gids, indices>>
      BY <1>6 DEF ProbeInsert
    <2>2. SettledGroups' = SettledGroups
      BY <1>1, <1>2, <2>1 DEF SettledGroups
    <2>3. NumberedInv' /\ \A i, g : IsFounder(i, g)' <=> IsFounder(i, g)
      BY <2>1, <2>2, QuietStep DEF FullInv, OrderInv
    <2>4. \A s : EntryOK(s) => EntryOK(s)'
      BY <1>1, <2>1, <2>2, QuietEntry
    <2>5. \A s : s.firstRow = row /\ s.gid = nGroups => EntryOK(s)'
      BY <1>1, <1>2, <2>1, <2>2 DEF EntryOK
    <2>6. \A p \in 0..size-1 : Occupied(slots', p) => EntryOK(slots[p])'
      BY <1>4, <1>5, <2>4, <2>5 DEF EntryOK
    <2>7. (pc # "alloc" => \A p \in 0..size-1 : Occupied(slots, p) => EntryOK(slots[p]))'
      BY <1>1, <2>6 DEF Occupied
    <2>8. from' <= size' /\ firstRows' = [g \in {} |-> 0]
      BY <1>1, <1>2, <2>1 DEF FullInv, OrderInv
    <2>9. /\ (op = "unique" => /\ Len(indices) = SettledGroups
                               /\ \A g \in 0..SettledGroups-1 : IsFounder(indices[g+1], g))'
          /\ (op = "groupby" => indices = <<>>)'
      BY <1>1, <2>1, <2>2 DEF FullInv, OrderInv, IsFounder
    <2>10. QED
      BY <2>1, <2>3, <2>7, <2>8, <2>9 DEF OrderInv
  <1>7. CASE ~MustGrow(nGroups + 1)
    <2>1. Assign(SettledGroups) /\ UNCHANGED from
      BY <1>1, <1>7 DEF ProbeInsert
    <2>2. SettledGroups' = SettledGroups + 1
      BY <1>1, <2>1 DEF SettledGroups, Assign
    <2>3. QED
      BY <1>1, <1>2, <1>3, <1>4, <1>5, <2>1, <2>2, FoundOrder
  <1>8. QED
    BY <1>6, <1>7

(* findGID finds the entry that the current row was inserted with.         *)
LEMMA FindsFounder ==
  ASSUME FullInv, KeysWellBehaved, FindHit
  PROVE  /\ Current.gid = SettledGroups /\ Current.firstRow = row
         /\ SlotAt(rowHash, dist, size) \in 0..size-1 /\ row < height
  <1> DEFINE at == SlotAt(rowHash, dist, size)
  <1>1. pc = "find" /\ Matches(slots[at]) /\ row < height
    BY DEF FindHit, Current, FullInv, Inv, TableInv
  <1>2. /\ at \in 0..size-1 /\ row \in Nat /\ key[row] \in Keys
        /\ SettledGroups \in Nat /\ nGroups = SettledGroups + 1
    BY <1>1, CurrentInTable DEF FullInv, OrderInv, NumberedInv, SettledGroups, Inv, TypeInv
  <1>3. PICK p \in 0..size-1 : Occupied(slots, p) /\ slots[p].gid = SettledGroups
    BY <1>1, <1>2 DEF FullInv, GroupsPresent
  <1>4. EntryOK(slots[p])
    BY <1>1, <1>3 DEF FullInv, OrderInv
  <1>5. slots[p].firstRow = row
    BY <1>2, <1>3, <1>4 DEF EntryOK
  <1>6. at = p
    <2> SUFFICES ASSUME at # p PROVE FALSE
      OBVIOUS
    <2>1. Occupied(slots, at) /\ rowsEqual(row, slots[at].firstRow)
      BY <1>1 DEF Matches, Occupied
    <2>2. ~rowsEqual(slots[p].firstRow, slots[at].firstRow)
      BY <1>1, <1>2, <1>3, <2>1 DEF FullInv, Inv, TableInv, TableOK
    <2>3. QED
      BY <1>5, <2>1, <2>2
  <1>7. QED
    BY <1>1, <1>2, <1>3, <1>5, <1>6 DEF Current

LEMMA FindOrder ==
  ASSUME FullInv, KeysWellBehaved, [Next]_vars, FindHit
  PROVE  OrderInv'
  <1> DEFINE at == SlotAt(rowHash, dist, size)
  <1>1. /\ pc = "find" /\ row < height /\ Assign(SettledGroups) /\ at \in 0..size-1
        /\ UNCHANGED <<op, height, key, size, slots, nGroups, from, firstRows>>
        /\ slots[at].firstRow = row /\ slots[at].gid = SettledGroups
    BY FindsFounder DEF FindHit, Current
  <1>2. /\ SettledGroups \in Nat /\ nGroups = SettledGroups + 1
    BY <1>1 DEF FullInv, OrderInv, NumberedInv, SettledGroups, Inv, TypeInv
  <1>3. SettledGroups' = SettledGroups + 1
    BY <1>1, <1>2 DEF SettledGroups, Assign
  <1>4. Occupied(slots, at)
    BY <1>1, TableAssumption DEF Occupied, htEmpty, FullInv, Inv, TypeInv
  <1>5. ASSUME NEW p \in 0..size-1, p # at, Occupied(slots, p)
        PROVE  EntryOK(slots[p]) /\ slots[p].gid \in Nat /\ slots[p].gid < SettledGroups
    <2>1. EntryOK(slots[p])
      BY <1>1, <1>5 DEF FullInv, OrderInv
    <2>2. slots[p].gid \in Nat /\ slots[p].gid < nGroups /\ slots[p].gid # slots[at].gid
      BY <1>1, <1>4, <1>5 DEF FullInv, Inv, TableInv, TableOK, SlotType
    <2>3. QED
      BY <1>1, <1>2, <2>1, <2>2
  <1>6. from' <= size'
    BY <1>1 DEF FullInv, OrderInv
  <1>7. QED
    BY <1>1, <1>3, <1>5, <1>6, FoundOrder DEF Occupied

(* GroupBy reads the founder of each group off its only slot.              *)
LEMMA FinishOrder ==
  ASSUME FullInv, [Next]_vars, Finish
  PROVE  OrderInv'
  <1>1. /\ pc = "probe" /\ pc' = "done" /\ row = height /\ nGroups \in Nat
        /\ UNCHANGED <<op, height, row, size, slots, nGroups, from, gids, indices>>
        /\ SettledGroups = nGroups
    BY DEF Finish, FullInv, Inv, TypeInv, SettledGroups
  <1>2. SettledGroups' = SettledGroups
    BY <1>1 DEF SettledGroups
  <1>3. NumberedInv' /\ \A i, g : IsFounder(i, g)' <=> IsFounder(i, g)
    BY <1>1, <1>2, QuietStep DEF FullInv, OrderInv
  <1>4. \A s : EntryOK(s) => EntryOK(s)'
    BY <1>1, <1>2, QuietEntry
  <1>5. (\A p \in 0..size-1 : Occupied(slots, p) => EntryOK(slots[p]))'
    BY <1>1, <1>4 DEF FullInv, OrderInv, EntryOK, Occupied
  <1>6. CASE op = "groupby"
    <2>1. firstRows' = [g \in 0..nGroups-1 |->
               IF OfGroup(g) = {} THEN 0
               ELSE slots[CHOOSE p \in OfGroup(g) : \A q \in OfGroup(g) : q <= p].firstRow]
      BY <1>6 DEF Finish
    <2>2. ASSUME NEW g \in 0..nGroups-1 PROVE IsFounder(firstRows'[g], g)
      <3>1. PICK p \in 0..size-1 : Occupied(slots, p) /\ slots[p].gid = g
        BY DEF FullInv, GroupsPresent
      <3>2. \A q \in 0..size-1 : Occupied(slots, q) /\ slots[q].gid = g => q = p
        BY <1>1, <3>1 DEF FullInv, Inv, TableInv, TableOK
      <3>3. OfGroup(g) = {p}
        BY <3>1, <3>2 DEF OfGroup, Occupied
      <3>4. firstRows'[g] = slots[p].firstRow
        BY <2>1, <3>3
      <3>5. EntryOK(slots[p])
        BY <1>1, <3>1 DEF FullInv, OrderInv
      <3>6. QED
        BY <1>1, <3>1, <3>4, <3>5 DEF EntryOK
    <2>3. \A g \in 0..nGroups'-1 : IsFounder(firstRows[g], g)'
      BY <1>1, <1>3, <2>2 DEF IsFounder
    <2>4. firstRows' = [g \in 0..nGroups'-1 |-> firstRows'[g]]
      BY <1>1, <2>1
    <2>5. QED
      BY <1>1, <1>2, <1>3, <1>5, <1>6, <2>3, <2>4 DEF FullInv, OrderInv, IsFounder
  <1>7. CASE op # "groupby"
    <2>1. firstRows' = firstRows
      BY <1>7 DEF Finish, FullInv, Inv, TypeInv
    <2>2. QED
      BY <1>1, <1>2, <1>3, <1>5, <1>7, <2>1 DEF FullInv, OrderInv, IsFounder
  <1>8. QED
    BY <1>6, <1>7

LEMMA FullStep ==
  ASSUME FullInv, KeysWellBehaved, [Next]_vars
  PROVE  FullInv'
  <1>1. OrderInv'
    BY SearchOrder, AllocOrder, InstallOrder, HitOrder, InsertOrder, FindOrder, FinishOrder
       DEF Next, Table, Finished
  <1>2. QED
    BY <1>1, InvStep, PresentStep DEF FullInv

(* Groups are numbered in the order in which their first rows appear.      *)
THEOREM OrderInvariant == KeysWellBehaved => (Spec => []FullInv)
  <1> SUFFICES ASSUME KeysWellBehaved PROVE Spec => []FullInv
    OBVIOUS
  <1>1. Init => FullInv
    BY InvInit, OrderInit DEF FullInv, Init, GroupsPresent
  <1>2. FullInv /\ [Next]_vars => FullInv'
    BY FullStep
  <1>3. QED
    BY <1>1, <1>2, PTL DEF Spec

(* The types of the variables.                                             *)
THEOREM TypesCorrect == KeysWellBehaved => (Spec => []TypeOK)
  <1> SUFFICES ASSUME KeysWellBehaved PROVE Spec => []TypeOK
    OBVIOUS
  <1>1. FullInv => TypeOK
    <2> SUFFICES ASSUME FullInv PROVE TypeOK
      OBVIOUS
    <2>1. pc # "alloc" => slots \in [0..size-1 -> SlotType]
      BY DEF FullInv, Inv, TableInv, TableOK
    <2>2. pc = "grow" => newSlots \in [0..2*size-1 -> SlotType]
      BY DEF FullInv, Inv, TableInv, TableOK
    <2>3. from \in 0..size
      BY DEF FullInv, Inv, TypeInv, OrderInv
    <2>4. firstRows \in [DOMAIN firstRows -> Nat]
      <3>1. CASE pc = "done" /\ op = "groupby"
        BY <3>1, TableAssumption DEF FullInv, OrderInv, IsFounder
      <3>2. CASE ~(pc = "done" /\ op = "groupby")
        BY <3>2 DEF FullInv, OrderInv
      <3>3. QED
        BY <3>1, <3>2
    <2>5. QED
      BY <2>1, <2>2, <2>3, <2>4 DEF FullInv, Inv, TypeInv, TypeOK
  <1>2. QED
    BY OrderInvariant, <1>1, PTL

-----------------------------------------------------------------------------
(* What is kept                                                            *)

(* In the end every row has its group, and the founders are the rows whose *)
(* key no earlier row has.                                                 *)
LEMMA FoundersAreFirst ==
  ASSUME FullInv, KeysWellBehaved, pc = "done"
  PROVE  /\ DOMAIN key = 0..row-1 /\ SettledGroups = nGroups
         /\ \A i \in 0..row-1 : FirstOccurrence(i) <=> IsFounder(i, gids[i])
  <1>1. /\ row = height /\ DOMAIN key = 0..row-1 /\ DOMAIN gids = 0..row-1 /\ row \in Nat
        /\ SettledGroups = nGroups
    BY TableAssumption DEF FullInv, OrderInv, Inv, TypeInv, SettledGroups
  <1>2. \A i, j \in 0..row-1 : gids[i] = gids[j] <=> rowsEqual(i, j)
    BY <1>1, InvGroupsMatch DEF FullInv, GroupsAreClasses
  <1>3. ASSUME NEW i \in 0..row-1
        PROVE  FirstOccurrence(i) <=> IsFounder(i, gids[i])
    <2>1. \A j \in 0..i-1 : j \in 0..row-1
      BY <1>1
    <2>2. FirstOccurrence(i) <=> \A j \in 0..i-1 : gids[i] # gids[j]
      BY <1>2, <2>1 DEF FirstOccurrence
    <2>3. (\A j \in 0..i-1 : gids[i] # gids[j]) <=> \A j \in 0..row-1 : gids[j] = gids[i] => i <= j
      BY <1>1, <2>1
    <2>4. QED
      BY <2>2, <2>3 DEF IsFounder
  <1>4. QED
    BY <1>1, <1>3

(* Founders of later groups come later.                                    *)
LEMMA FoundersAscend ==
  ASSUME FullInv, NEW g \in 0..SettledGroups-1, NEW h \in 0..SettledGroups-1, g < h,
         NEW i, NEW j, IsFounder(i, g), IsFounder(j, h)
  PROVE  i < j
  <1>1. i \in 0..row-1 /\ j \in 0..row-1 /\ gids[j] = h /\ row \in Nat /\ SettledGroups \in Nat
    BY TableAssumption DEF IsFounder, FullInv, Inv, TypeInv, OrderInv, NumberedInv
  <1>2. g \in 0..gids[j]-1
    BY <1>1
  <1>3. PICK k \in 0..j-1 : gids[k] = g
    BY <1>1, <1>2 DEF FullInv, OrderInv, NumberedInv
  <1>4. i <= k
    BY <1>1, <1>3 DEF IsFounder
  <1>5. QED
    BY <1>1, <1>3, <1>4

(* GroupBy's first rows and Unique's rows are the first occurrence of each *)
(* key, in order of appearance.                                            *)
THEOREM FirstOccurrencesKept == KeysWellBehaved => (Spec => []KeepsFirstOccurrences)
  <1> SUFFICES ASSUME KeysWellBehaved PROVE Spec => []KeepsFirstOccurrences
    OBVIOUS
  <1>1. FullInv => KeepsFirstOccurrences
    <2> DEFINE kept == IF op = "unique" THEN {indices[k] : k \in DOMAIN indices}
                                        ELSE {firstRows[g] : g \in DOMAIN firstRows}
    <2> SUFFICES ASSUME FullInv, pc = "done"
                 PROVE  /\ kept = {i \in DOMAIN key : FirstOccurrence(i)}
                        /\ \A k, l \in DOMAIN indices : k < l => indices[k] < indices[l]
                        /\ \A g, h \in DOMAIN firstRows : g < h => firstRows[g] < firstRows[h]
                        /\ \A g \in DOMAIN firstRows : gids[firstRows[g]] = g
      BY DEF KeepsFirstOccurrences
    <2>1. /\ DOMAIN key = 0..row-1 /\ SettledGroups = nGroups /\ nGroups \in Nat
          /\ \A i \in 0..row-1 : FirstOccurrence(i) <=> IsFounder(i, gids[i])
      BY FoundersAreFirst DEF FullInv, Inv, TypeInv
    <2>2. \A i \in 0..row-1 : gids[i] \in 0..nGroups-1
      BY <2>1 DEF FullInv, OrderInv, NumberedInv, Inv, TypeInv
    <2>3. \A i, j, g : IsFounder(i, g) /\ IsFounder(j, g) => i = j
      BY DEF IsFounder
    <2>4. CASE op = "unique"
      <3>1. /\ DOMAIN firstRows = {} /\ indices \in Seq(Nat) /\ Len(indices) = nGroups
            /\ \A g \in 0..nGroups-1 : IsFounder(indices[g+1], g)
        BY <2>1, <2>4 DEF FullInv, OrderInv, Inv, TypeInv
      <3>2. DOMAIN indices = 1..nGroups
        BY <3>1
      <3>3. \A k \in 1..nGroups : k-1 \in 0..nGroups-1 /\ IsFounder(indices[k], k-1)
        <4> TAKE k \in 1..nGroups
        <4>1. k-1 \in 0..nGroups-1 /\ k-1+1 = k
          BY <2>1
        <4>2. IsFounder(indices[k-1+1], k-1)
          BY <3>1, <4>1
        <4>3. QED
          BY <4>1, <4>2
      <3>4. \A k, l \in DOMAIN indices : k < l => indices[k] < indices[l]
        <4> SUFFICES ASSUME NEW k \in 1..nGroups, NEW l \in 1..nGroups, k < l
                     PROVE  indices[k] < indices[l]
          BY <3>2
        <4>1. k-1 < l-1 /\ k-1 \in 0..nGroups-1 /\ l-1 \in 0..nGroups-1
          BY <2>1
        <4>2. QED
          BY <2>1, <3>3, <4>1, FoundersAscend
      <3>5. {indices[k] : k \in 1..nGroups} = {i \in 0..row-1 : FirstOccurrence(i)}
        <4>1. ASSUME NEW k \in 1..nGroups
              PROVE  indices[k] \in 0..row-1 /\ FirstOccurrence(indices[k])
          BY <2>1, <3>3 DEF IsFounder
        <4>2. ASSUME NEW i \in 0..row-1, FirstOccurrence(i)
              PROVE  \E k \in 1..nGroups : i = indices[k]
          <5>1. IsFounder(i, gids[i]) /\ gids[i] \in 0..nGroups-1
            BY <2>1, <2>2, <4>2
          <5>2. gids[i]+1 \in 1..nGroups /\ IsFounder(indices[gids[i]+1], gids[i])
            BY <2>1, <3>1, <5>1
          <5>3. i = indices[gids[i]+1]
            BY <2>3, <5>1, <5>2
          <5>4. QED
            BY <5>2, <5>3
        <4>3. QED
          BY <4>1, <4>2
      <3>6. QED
        BY <2>1, <2>4, <3>1, <3>2, <3>4, <3>5
    <2>5. CASE op # "unique"
      <3>1. /\ op = "groupby" /\ DOMAIN firstRows = 0..nGroups-1 /\ DOMAIN indices = {}
            /\ \A g \in 0..nGroups-1 : IsFounder(firstRows[g], g)
        BY <2>5 DEF FullInv, OrderInv, Inv, TypeInv
      <3>2. \A g, h \in 0..nGroups-1 : g < h => firstRows[g] < firstRows[h]
        <4> SUFFICES ASSUME NEW g \in 0..nGroups-1, NEW h \in 0..nGroups-1, g < h
                     PROVE  firstRows[g] < firstRows[h]
          OBVIOUS
        <4>1. IsFounder(firstRows[g], g) /\ IsFounder(firstRows[h], h)
          BY <3>1
        <4>2. QED
          BY <2>1, <4>1, FoundersAscend
      <3>3. \A g \in 0..nGroups-1 : gids[firstRows[g]] = g
        BY <3>1 DEF IsFounder
      <3>4. {firstRows[g] : g \in 0..nGroups-1} = {i \in 0..row-1 : FirstOccurrence(i)}
        <4>1. ASSUME NEW g \in 0..nGroups-1
              PROVE  firstRows[g] \in 0..row-1 /\ FirstOccurrence(firstRows[g])
          BY <2>1, <3>1 DEF IsFounder
        <4>2. ASSUME NEW i \in 0..row-1, FirstOccurrence(i)
              PROVE  \E g \in 0..nGroups-1 : i = firstRows[g]
          <5>1. IsFounder(i, gids[i]) /\ gids[i] \in 0..nGroups-1
            BY <2>1, <2>2, <4>2
          <5>2. IsFounder(firstRows[gids[i]], gids[i])
            BY <3>1, <5>1
          <5>3. QED
            BY <2>3, <5>1, <5>2
        <4>3. QED
          BY <4>1, <4>2
      <3>5. QED
        BY <2>1, <2>5, <3>1, <3>2, <3>3, <3>4
    <2>6. QED
      BY <2>4, <2>5
  <1>2. QED
    BY OrderInvariant, <1>1, PTL

-----------------------------------------------------------------------------
LEMMA IntervalGrows == \A a, b \in Nat : a <= b => \A i \in 0..a-1 : i \in 0..b-1
  OBVIOUS

-----------------------------------------------------------------------------
(* The refinement                                                          *)

(* The founders of the abstract state, as the instance has them.           *)
FounderOf == [g \in 0..SettledGroups-1 |->
                CHOOSE i \in DOMAIN gids :
                  gids[i] = g /\ \A j \in DOMAIN gids : gids[j] = g => i <= j]

FounderMap == FounderOf = [g \in 0..SettledGroups-1 |-> FounderOf[g]]

LEMMA FounderIsMap == FounderMap
  BY DEF FounderMap, FounderOf

FoundersFound == \A g \in 0..SettledGroups-1 : IsFounder(FounderOf[g], g)

LEMMA FounderIs == FullInv => FoundersFound
  <1> SUFFICES ASSUME FullInv, NEW g \in 0..SettledGroups-1
               PROVE  IsFounder(FounderOf[g], g)
    BY DEF FoundersFound
  <1>1. DOMAIN gids = 0..row-1
    BY DEF FullInv, Inv, TypeInv
  <1>2. FounderOf[g] = CHOOSE i \in 0..row-1 :
                         gids[i] = g /\ \A j \in 0..row-1 : gids[j] = g => i <= j
    BY <1>1 DEF FounderOf
  <1>3. \E i \in 0..row-1 : gids[i] = g /\ \A j \in 0..row-1 : gids[j] = g => i <= j
    BY DEF FullInv, OrderInv, NumberedInv, IsFounder
  <1>4. QED
    BY <1>2, <1>3 DEF IsFounder

OneFounder == \A i, j, g : IsFounder(i, g) /\ IsFounder(j, g) => i = j

LEMMA FounderIsOne == FullInv => OneFounder
  BY DEF OneFounder, IsFounder

(* A founder that stays one is the founder of the next state.              *)
LEMMA FounderKept ==
  ASSUME FullInv, FullInv', NEW g \in 0..SettledGroups-1, SettledGroups <= SettledGroups',
         \A i, h : IsFounder(i, h) => IsFounder(i, h)'
  PROVE  FounderOf'[g] = FounderOf[g]
  <1>1. SettledGroups \in Nat /\ SettledGroups' \in Nat
    BY DEF FullInv, OrderInv, NumberedInv
  <1>2. \A i : i = FounderOf[g] => IsFounder(i, g)'
    <2>1. IsFounder(FounderOf[g], g)
      BY FounderIs DEF FoundersFound
    <2>2. QED
      BY <2>1
  <1>3. FoundersFound'
    BY FounderIs, PTL
  <1>4. g \in 0..SettledGroups'-1
    BY <1>1, IntervalGrows
  <1>5. \A i : i = FounderOf'[g] => IsFounder(i, g)'
    BY <1>3, <1>4 DEF IsFounder, FoundersFound
  <1>6. OneFounder'
    BY FounderIsOne, PTL
  <1>7. \A i, j : IsFounder(i, g)' /\ IsFounder(j, g)' => i = j
    BY <1>6 DEF OneFounder
  <1>8. QED
    BY <1>2, <1>5, <1>7

(* A lookup that goes on, or the table being moved, is no step of it.      *)
LEMMA SearchStutters ==
  ASSUME UNCHANGED <<key, gids>>, SettledGroups' = SettledGroups
  PROVE  UNCHANGED Settled!groupingVars
  BY DEF Settled!groupingVars

(* The row that is taken is the next one.                                  *)
LEMMA RowIsNext ==
  ASSUME FullInv, row < height
  PROVE  /\ row \in DOMAIN key /\ Settled!IsNext(row) /\ DOMAIN gids = 0..row-1 /\ row \in Nat
         /\ Settled!Taken = 0..row-1
  <1>1. /\ DOMAIN key = 0..height-1 /\ DOMAIN gids = 0..row-1 /\ row \in Nat /\ height \in Nat
        /\ row \in 0..height-1
    BY TableAssumption DEF FullInv, Inv, TypeInv
  <1>2. QED
    BY <1>1 DEF Settled!IsNext, Settled!Taken

LEMMA FoundIsStep ==
  ASSUME row \in DOMAIN key, Settled!Found(row)
  PROVE  Settled!GroupingNext
  BY DEF Settled!GroupingNext, Settled!Found

(* A row whose group has a row already joins it.                           *)
LEMMA JoinRefines ==
  ASSUME FullInv, FullInv', KeysWellBehaved, NEW g \in 0..SettledGroups-1, row < height,
         key' = key, SettledGroups' = SettledGroups,
         gids' = [i \in DOMAIN gids \cup {row} |-> IF i = row THEN g ELSE gids[i]],
         \A i, h : IsFounder(i, h) => IsFounder(i, h)'
  PROVE  Settled!GroupingNext
  <1>1. /\ row \in DOMAIN key /\ Settled!IsNext(row) /\ DOMAIN gids = 0..row-1 /\ row \in Nat
        /\ Settled!Taken = 0..row-1
    BY RowIsNext
  <1>2. PICK j \in 0..row-1 : gids[j] = g
    BY DEF FullInv, OrderInv, NumberedInv, IsFounder
  <1>3. SameKey(key[row], key[j])
    <2>1. Inv'
      BY DEF FullInv
    <2>2. GroupsAreClasses'
      BY <2>1, InvGroupsMatch, PTL
    <2>3. gids'[row] = g /\ gids'[j] = g /\ {row, j} \subseteq DOMAIN gids'
      BY <1>1, <1>2
    <2>4. QED
      BY <2>2, <2>3 DEF GroupsAreClasses, rowsEqual
  <1>4. UNCHANGED FounderOf
    <2>1. SettledGroups \in Nat
      BY DEF FullInv, OrderInv, NumberedInv
    <2>2. ASSUME NEW h \in 0..SettledGroups-1 PROVE FounderOf'[h] = FounderOf[h]
      BY <2>1, FounderKept
    <2>3. QED
      BY <2>2 DEF FounderOf
  <1>5. Settled!Join(row)
    BY <1>1, <1>2, <1>3, <1>4 DEF Settled!Join, FounderOf
  <1>6. QED
    BY <1>1, <1>5 DEF Settled!GroupingNext

(* A row that no earlier row is equal to founds the next group.            *)
LEMMA FoundRefines ==
  ASSUME FullInv, FullInv', KeysWellBehaved, row < height,
         key' = key, SettledGroups' = SettledGroups + 1,
         gids' = [i \in DOMAIN gids \cup {row} |-> IF i = row THEN SettledGroups ELSE gids[i]],
         \A i, h : IsFounder(i, h) => IsFounder(i, h)',
         \A i, h : i = row /\ h = SettledGroups => IsFounder(i, h)'
  PROVE  Settled!GroupingNext
  <1>1. /\ row \in DOMAIN key /\ Settled!IsNext(row) /\ DOMAIN gids = 0..row-1 /\ row \in Nat
        /\ Settled!Taken = 0..row-1
    BY RowIsNext
  <1>2. SettledGroups \in Nat /\ \A j \in 0..row-1 : gids[j] < SettledGroups /\ gids[j] \in Nat
    BY DEF FullInv, OrderInv, NumberedInv, Inv, TypeInv
  <1>3. ASSUME NEW j \in 0..row-1 PROVE ~SameKey(key[row], key[j])
    <2>1. Inv'
      BY DEF FullInv
    <2>2. GroupsAreClasses'
      BY <2>1, InvGroupsMatch, PTL
    <2>3. gids'[row] = SettledGroups /\ gids'[j] = gids[j] /\ {row, j} \subseteq DOMAIN gids'
      BY <1>1
    <2>4. QED
      BY <1>2, <2>2, <2>3 DEF GroupsAreClasses, rowsEqual
  <1>4. FounderOf' = [g \in 0..SettledGroups |->
                        IF g = SettledGroups THEN row ELSE FounderOf[g]]
    <2>1. ASSUME NEW h \in 0..SettledGroups-1 PROVE FounderOf'[h] = FounderOf[h]
      BY <1>2, FounderKept
    <2>2. FoundersFound'
      BY FounderIs, PTL
    <2>4. FounderOf'[SettledGroups] = row
      <3>1. \A h \in 0..SettledGroups'-1 : \A i : i = FounderOf'[h] => IsFounder(i, h)'
        BY <2>2 DEF FoundersFound, IsFounder
      <3>2. SettledGroups \in 0..SettledGroups'-1
        BY <1>2
      <3>3. OneFounder'
        BY FounderIsOne, PTL
      <3>4. \A i, j, h : IsFounder(i, h)' /\ IsFounder(j, h)' => i = j
        BY <3>3 DEF OneFounder
      <3>5. \A i : i = FounderOf'[SettledGroups] =>
              \A h : h = SettledGroups => IsFounder(i, h)'
        BY <3>1, <3>2
      <3>6. QED
        BY <3>4, <3>5
    <2>5. 0..SettledGroups'-1 = 0..SettledGroups
      BY <1>2
    <2>6. FounderOf' = [g \in 0..SettledGroups |-> FounderOf'[g]]
      <3>1. FounderMap'
        BY FounderIsMap, PTL
      <3>1a. FounderOf' = [g \in 0..SettledGroups'-1 |-> FounderOf'[g]]
        BY <3>1 DEF FounderMap
      <3>2. QED
        BY <2>5, <3>1a
    <2>7. \A g \in 0..SettledGroups : g = SettledGroups \/ g \in 0..SettledGroups-1
      BY <1>2
    <2>8. QED
      BY <2>1, <2>4, <2>6, <2>7
  <1>5. gids' = [k \in Settled!Taken \cup {row} |-> IF k = row THEN SettledGroups ELSE gids[k]]
    BY <1>1
  <1>6. Settled!Found(row)
    BY <1>1, <1>3, <1>4, <1>5 DEF Settled!Found, FounderOf
  <1>7. QED
    BY <1>1, <1>6, FoundIsStep

LEMMA StepRefines ==
  ASSUME FullInv, FullInv', KeysWellBehaved, [Next]_vars
  PROVE  [Settled!GroupingNext]_(Settled!groupingVars)
  <1>1. CASE \/ DoubleSize \/ Alloc \/ ProbeNext \/ GrowSkip \/ GrowNext \/ GrowPlace \/ GrowDone
             \/ FindNext \/ Finish \/ UNCHANGED vars
    <2>1. UNCHANGED <<key, gids, nGroups>>
      BY <1>1 DEF DoubleSize, Alloc, ProbeNext, GrowSkip, GrowNext, GrowPlace, GrowDone, FindNext,
                  Finish, vars
    <2>2. pc \in {"grow", "find"} <=> pc' \in {"grow", "find"}
      BY <1>1 DEF DoubleSize, Alloc, ProbeNext, GrowSkip, GrowNext, GrowPlace, GrowDone, FindNext,
                  Finish, vars
    <2>3. SettledGroups' = SettledGroups
      BY <2>1, <2>2 DEF SettledGroups
    <2>4. QED
      BY <2>1, <2>3, SearchStutters
  <1>2. ASSUME NEW g \in 0..SettledGroups-1, Assign(g), pc = "probe", row < height, key' = key,
               nGroups' = nGroups
        PROVE  Settled!GroupingNext
    <2>1. row \in Nat /\ g \in Nat
      BY TableAssumption DEF FullInv, Inv, TypeInv
    <2>2. /\ row' = row + 1 /\ pc' = "probe" /\ gids' \in [0..row'-1 -> Nat]
          /\ gids'[row] = g /\ \A i \in 0..row-1 : gids'[i] = gids[i]
      BY <1>2, <2>1, AssignEffect DEF FullInv, Inv
    <2>3. row'-1 = row /\ SettledGroups' = SettledGroups
      BY <1>2, <2>1, <2>2 DEF SettledGroups
    <2>4. \A i, h : IsFounder(i, h) => IsFounder(i, h)'
      BY <2>1, <2>2, <2>3, JoinStep DEF FullInv, Inv, OrderInv
    <2>5. gids' = [i \in DOMAIN gids \cup {row} |-> IF i = row THEN g ELSE gids[i]]
      BY <1>2 DEF Assign
    <2>6. QED
      BY <1>2, <2>3, <2>4, <2>5, JoinRefines
  <1>3. ASSUME Assign(SettledGroups), pc \in {"probe", "find"}, row < height, key' = key,
               pc = "probe" => nGroups' = nGroups + 1,
               pc = "find" => nGroups' = nGroups
        PROVE  Settled!GroupingNext
    <2>1. row \in Nat /\ SettledGroups \in Nat
      BY TableAssumption DEF FullInv, Inv, TypeInv, OrderInv, NumberedInv
    <2>2. /\ row' = row + 1 /\ pc' = "probe" /\ gids' \in [0..row'-1 -> Nat]
          /\ gids'[row] = SettledGroups /\ \A i \in 0..row-1 : gids'[i] = gids[i]
      BY <1>3, <2>1, AssignEffect DEF FullInv, Inv
    <2>3. row'-1 = row /\ SettledGroups' = SettledGroups + 1
      BY <1>3, <2>1, <2>2 DEF SettledGroups, FullInv, Inv, TypeInv
    <2>4. /\ \A i, h : IsFounder(i, h) => IsFounder(i, h)'
          /\ \A i, h : i = row /\ h = SettledGroups => IsFounder(i, h)'
      BY <2>1, <2>2, <2>3, FoundStep DEF FullInv, Inv, OrderInv
    <2>5. gids' = [i \in DOMAIN gids \cup {row} |-> IF i = row THEN SettledGroups ELSE gids[i]]
      BY <1>3 DEF Assign
    <2>6. QED
      BY <1>3, <2>3, <2>4, <2>5, FoundRefines
  <1>4. CASE ProbeHit
    <2>1. /\ pc = "probe" /\ row < height /\ Matches(Current) /\ Assign(Current.gid)
          /\ UNCHANGED <<key, nGroups>>
      BY <1>4 DEF ProbeHit
    <2>2. SlotAt(rowHash, dist, size) \in 0..size-1
      BY <2>1, CurrentInTable DEF FullInv, Inv, TableInv
    <2>3. Current.gid \in Nat /\ Current.gid < nGroups /\ nGroups \in Nat
      <3>1. TableOK(slots, size, nGroups) /\ nGroups \in Nat
        BY <2>1 DEF FullInv, Inv, TableInv, TypeInv
      <3>2. slots[SlotAt(rowHash, dist, size)] \in SlotType
        BY <2>2, <3>1 DEF TableOK
      <3>3. Occupied(slots, SlotAt(rowHash, dist, size))
        BY <2>1 DEF Matches, Current, Occupied
      <3>4. QED
        BY <2>2, <3>1, <3>2, <3>3 DEF TableOK, SlotType, Current
    <2>4. Current.gid \in 0..SettledGroups-1
      BY <2>1, <2>3 DEF SettledGroups
    <2>5. QED
      BY <1>2, <2>1, <2>4
  <1>5. CASE ProbeInsert
    <2>1. /\ pc = "probe" /\ row < height /\ key' = key /\ nGroups' = nGroups + 1
          /\ SettledGroups = nGroups /\ nGroups \in Nat
      BY <1>5 DEF ProbeInsert, SettledGroups, FullInv, Inv, TypeInv
    <2>2. CASE MustGrow(nGroups + 1)
      <3>1. pc' = "grow" /\ UNCHANGED gids
        BY <1>5, <2>2 DEF ProbeInsert
      <3>2. SettledGroups' = SettledGroups
        BY <2>1, <3>1 DEF SettledGroups
      <3>3. QED
        BY <2>1, <3>1, <3>2, SearchStutters
    <2>3. CASE ~MustGrow(nGroups + 1)
      <3>1. Assign(SettledGroups)
        BY <1>5, <2>1, <2>3 DEF ProbeInsert
      <3>2. QED
        BY <1>3, <2>1, <3>1
    <2>4. QED
      BY <2>2, <2>3
  <1>6. CASE FindHit
    <2>1. pc = "find" /\ Assign(Current.gid) /\ UNCHANGED <<key, nGroups>>
      BY <1>6 DEF FindHit
    <2>2. Current.gid = SettledGroups /\ row < height
      BY <1>6, FindsFounder
    <2>3. QED
      BY <1>3, <2>1, <2>2
  <1>7. QED
    BY <1>1, <1>4, <1>5, <1>6 DEF Next, Table, Finished

(* The hash table implements the grouping: however it probes, collides and *)
(* grows, each row joins the group of the earlier rows it is equal to, or  *)
(* founds the next one.                                                    *)
THEOREM TableImplementsGrouping == KeysWellBehaved => (Spec => ImplementsGrouping)
  <1> SUFFICES ASSUME KeysWellBehaved PROVE Spec => ImplementsGrouping
    OBVIOUS
  <1>1. Init => Settled!GroupingInit
    BY TableAssumption DEF Init, Settled!GroupingInit, SettledGroups
  <1>2. FullInv /\ FullInv' /\ [Next]_vars => [Settled!GroupingNext]_(Settled!groupingVars)
    BY StepRefines
  <1>3. Spec => []FullInv
    BY OrderInvariant
  <1>4. QED
    BY <1>1, <1>2, <1>3, PTL DEF Spec, ImplementsGrouping, Settled!GroupingSpec

-----------------------------------------------------------------------------
(* Aggregations and series                                                 *)

AggFuncs == {"sum", "count", "min", "max", "first", "last"}

(* The rows of a group with a value, among the first k rows.               *)
Valued(col, g, k) == {i \in 0..k-1 : gids[i] = g /\ col[i] # Null}

(* What a cell is when its group has had the values of these rows.         *)
CellOK(fn, a, col, rows) ==
  CASE fn = "sum" -> a = <<SumOver(col, rows), Cardinality(rows)>>
    [] fn = "count" -> a = Cardinality(rows)
    [] fn = "min" -> IF rows = {} THEN a = Null
                     ELSE (\E i \in rows : a = col[i]) /\ \A i \in rows : a <= col[i]
    [] fn = "max" -> IF rows = {} THEN a = Null
                     ELSE (\E i \in rows : a = col[i]) /\ \A i \in rows : a >= col[i]
    [] fn = "first" -> IF rows = {} THEN a = Null
                       ELSE \E i \in rows : a = col[i] /\ \A j \in rows : i <= j
    [] fn = "last" -> IF rows = {} THEN a = Null
                      ELSE \E i \in rows : a = col[i] /\ \A j \in rows : i >= j

-----------------------------------------------------------------------------
(* One pass                                                                *)

(* Rows with values: a finite set of numbers.                              *)
HaveValues(col, rows) ==
  IsFiniteSet(rows) /\ \A i \in rows : i \in Int /\ col[i] \in Int

(* One more value of the group, of a later row.                            *)
LEMMA StepKeepsCell ==
  ASSUME NEW fn \in AggFuncs, NEW a, NEW col, NEW rows, NEW x,
         HaveValues(col, rows), x \in Int, col[x] \in Int, \A i \in rows : i < x,
         CellOK(fn, a, col, rows)
  PROVE  CellOK(fn, Step(fn, a, col[x]), col, rows \cup {x})
  <1> DEFINE more == rows \cup {x}
             v == col[x]
  <1>1. /\ IsFiniteSet(rows) /\ x \notin rows /\ more # {} /\ more \ {x} = rows
        /\ \A i \in more : i \in Int /\ col[i] \in Int
    BY DEF HaveValues
  <1>2. IsFiniteSet(more) /\ Cardinality(more) = Cardinality(rows) + 1 /\ Cardinality(rows) \in Nat
    BY <1>1, FS_AddElement, FS_CardinalityType
  <1>3. CASE fn = "sum"
    <2>1. SumOver(col, more) = SumOver(col, more \ {x}) + col[x]
      <3>1. x \in more
        OBVIOUS
      <3> HIDE DEF more
      <3>2. QED
        BY <1>1, <1>2, <3>1, SumOne
    <2>2. a[1] = SumOver(col, rows) /\ a[2] = Cardinality(rows)
      BY <1>3 DEF CellOK
    <2>3. Step(fn, a, v) = <<SumOver(col, more), Cardinality(more)>>
      BY <1>1, <1>2, <1>3, <2>1, <2>2 DEF Step
    <2>4. QED
      BY <1>3, <2>3 DEF CellOK
  <1>4. CASE fn = "count"
    BY <1>2, <1>4 DEF CellOK, Step
  <1>5. CASE fn = "min"
    <2>1. CASE rows = {}
      BY <1>1, <1>5, <2>1 DEF CellOK, Step
    <2>2. CASE rows # {}
      <3>1. PICK i \in rows : a = col[i]
        BY <1>5, <2>2 DEF CellOK
      <3>2. a \in Int /\ a # Null /\ v \in Int /\ \A j \in rows : a <= col[j]
        BY <1>1, <1>5, <2>2, <3>1, ColumnAssumption DEF CellOK
      <3>3. Step(fn, a, v) = IF v < a THEN v ELSE a
        BY <1>5, <3>2 DEF Step
      <3>4. \A j \in more : Step(fn, a, v) <= col[j]
        BY <1>1, <3>2, <3>3
      <3>5. \E j \in more : Step(fn, a, v) = col[j]
        BY <3>1, <3>3
      <3>6. QED
        BY <1>1, <1>5, <3>4, <3>5 DEF CellOK
    <2>3. QED
      BY <2>1, <2>2
  <1>6. CASE fn = "max"
    <2>1. CASE rows = {}
      BY <1>1, <1>6, <2>1 DEF CellOK, Step
    <2>2. CASE rows # {}
      <3>1. PICK i \in rows : a = col[i]
        BY <1>6, <2>2 DEF CellOK
      <3>2. a \in Int /\ a # Null /\ v \in Int /\ \A j \in rows : a >= col[j]
        BY <1>1, <1>6, <2>2, <3>1, ColumnAssumption DEF CellOK
      <3>3. Step(fn, a, v) = IF v > a THEN v ELSE a
        BY <1>6, <3>2 DEF Step
      <3>4. \A j \in more : Step(fn, a, v) >= col[j]
        BY <1>1, <3>2, <3>3
      <3>5. \E j \in more : Step(fn, a, v) = col[j]
        BY <3>1, <3>3
      <3>6. QED
        BY <1>1, <1>6, <3>4, <3>5 DEF CellOK
    <2>3. QED
      BY <2>1, <2>2
  <1>7. CASE fn = "first"
    <2>1. CASE rows = {}
      BY <1>1, <1>7, <2>1 DEF CellOK, Step
    <2>2. CASE rows # {}
      <3>1. PICK i \in rows : a = col[i] /\ \A j \in rows : i <= j
        BY <1>7, <2>2 DEF CellOK
      <3>2. a # Null
        BY <1>1, <3>1, ColumnAssumption
      <3>3. Step(fn, a, v) = col[i]
        BY <1>7, <3>1, <3>2 DEF Step
      <3>4. i \in more /\ \A j \in more : i <= j
        BY <1>1, <3>1
      <3>5. QED
        BY <1>1, <1>7, <3>3, <3>4 DEF CellOK
    <2>3. QED
      BY <2>1, <2>2
  <1>8. CASE fn = "last"
    <2>1. Step(fn, a, v) = col[x] /\ x \in more /\ \A j \in more : x >= j
      BY <1>1, <1>8 DEF Step
    <2>2. QED
      BY <1>1, <1>8, <2>1 DEF CellOK
  <1>9. QED
    BY <1>3, <1>4, <1>5, <1>6, <1>7, <1>8 DEF AggFuncs

(* The cells after each row, as Accumulate builds them.                    *)
IsPass(f, col, fn, n) ==
  f = [k \in 0..n |->
         IF k = 0 THEN [g \in Groups |-> Start(fn)]
         ELSE IF col[k-1] = Null THEN f[k-1]
         ELSE [f[k-1] EXCEPT ![gids[k-1]] = Step(fn, @, col[k-1])]]

LEMMA PassExists ==
  ASSUME NEW col, NEW fn, NEW n \in Nat
  PROVE  \E f : IsPass(f, col, fn, n)
  <1> DEFINE S == {m \in Nat : \E f : IsPass(f, col, fn, m)}
             After(c, k) == IF col[k-1] = Null THEN c
                            ELSE [c EXCEPT ![gids[k-1]] = Step(fn, @, col[k-1])]
  <1>1. 0 \in S
    <2>1. IsPass([k \in 0..0 |-> [g \in Groups |-> Start(fn)]], col, fn, 0)
      BY DEF IsPass
    <2>2. QED
      BY <2>1
  <1>2. ASSUME NEW m \in 0..n-1, m \in S PROVE m+1 \in S
    <2>1. PICK f : IsPass(f, col, fn, m)
      BY <1>2
    <2>2. PICK h : h = [k \in 0..m+1 |-> IF k = m+1 THEN After(f[m], k) ELSE f[k]]
      OBVIOUS
    <2>3. f[0] = [g \in Groups |-> Start(fn)] /\ \A k \in 1..m : f[k] = After(f[k-1], k)
      <3>1. \A k \in 0..m : f[k] = IF k = 0 THEN [g \in Groups |-> Start(fn)] ELSE After(f[k-1], k)
        BY <2>1 DEF IsPass
      <3> HIDE DEF After
      <3>2. PICK none : none = [g \in Groups |-> Start(fn)]
        OBVIOUS
      <3>3. \A k \in 0..m : f[k] = IF k = 0 THEN none ELSE After(f[k-1], k)
        BY <3>1, <3>2
      <3>4. 0 \in 0..m /\ \A k \in 1..m : k \in 0..m /\ k # 0
        OBVIOUS
      <3>5. QED
        BY <3>2, <3>3, <3>4
    <2>4. \A k \in 0..m : h[k] = f[k]
      BY <2>2
    <2> HIDE DEF After
    <2>5. \A k \in 1..m+1 : h[k] = After(h[k-1], k)
      <3> SUFFICES ASSUME NEW k \in 1..m+1 PROVE h[k] = After(h[k-1], k)
        OBVIOUS
      <3>1. k-1 \in 0..m /\ h[k-1] = f[k-1]
        BY <2>4
      <3>2. CASE k = m+1
        <4>1. h[k] = After(f[m], k) /\ k-1 = m
          BY <2>2, <3>2
        <4>2. QED
          BY <3>1, <4>1
      <3>3. CASE k # m+1
        BY <2>3, <2>4, <3>1, <3>3
      <3>4. QED
        BY <3>2, <3>3
    <2>6. h[0] = [g \in Groups |-> Start(fn)]
      BY <2>3, <2>4
    <2>7. h = [k \in 0..m+1 |-> IF k = 0 THEN [g \in Groups |-> Start(fn)] ELSE After(h[k-1], k)]
      <3>1. h = [k \in 0..m+1 |-> h[k]]
        BY <2>2
      <3>2. \A k \in 0..m+1 : h[k] = IF k = 0 THEN [g \in Groups |-> Start(fn)] ELSE After(h[k-1], k)
        <4>1. PICK none : none = [g \in Groups |-> Start(fn)]
          OBVIOUS
        <4>2. \A k \in 0..m+1 : k = 0 \/ k \in 1..m+1
          OBVIOUS
        <4>3. \A k \in 0..m+1 : h[k] = IF k = 0 THEN none ELSE After(h[k-1], k)
          BY <2>5, <2>6, <4>1, <4>2
        <4>4. QED
          BY <4>1, <4>3
      <3>3. QED
        BY <3>1, <3>2, Zenon
    <2>8. IsPass(h, col, fn, m+1)
      BY <2>7 DEF IsPass, After
    <2>9. QED
      BY <2>8
  <1>3. 0..n \subseteq S
    <2> HIDE DEF S
    <2>1. QED
      BY <1>1, <1>2, IntervalInduction
  <1>4. QED
    BY <1>3

LEMMA AccumulateIsLast ==
  ASSUME NEW col, NEW fn, height \in Nat
  PROVE  \E f : IsPass(f, col, fn, height) /\ Accumulate(col, fn) = f[height]
  <1>1. \E f : IsPass(f, col, fn, height)
    BY PassExists
  <1>2. Accumulate(col, fn) = (CHOOSE f : IsPass(f, col, fn, height))[height]
    BY DEF Accumulate, IsPass
  <1>3. QED
    BY <1>1, <1>2

(* All rows have a group.                                                  *)
Grouped ==
  /\ height \in Nat /\ nGroups \in Nat
  /\ gids \in [0..height-1 -> Groups]

ValueColumn(col) == \A i \in 0..height-1 : col[i] \in Int \cup {Null}

PassOK(c, col, fn, k) ==
  /\ c = [g \in Groups |-> c[g]]
  /\ \A g \in Groups : CellOK(fn, c[g], col, Valued(col, g, k))

LEMMA CellsOfPass ==
  ASSUME Grouped, NEW col, ValueColumn(col), NEW fn \in AggFuncs
  PROVE  PassOK(Accumulate(col, fn), col, fn, height)
  <1>1. PICK f : IsPass(f, col, fn, height) /\ Accumulate(col, fn) = f[height]
    BY AccumulateIsLast DEF Grouped
  <1> DEFINE S == {k \in 0..height : PassOK(f[k], col, fn, k)}
  <1>2. 0 \in S
    <2>1. f[0] = [g \in Groups |-> Start(fn)] /\ height \in Nat
      BY <1>1 DEF IsPass, Grouped
    <2>2. \A g \in Groups : Valued(col, g, 0) = {}
      BY DEF Valued
    <2>3. CellOK(fn, Start(fn), col, {})
      <3>1. SumOver(col, {}) = 0 /\ Cardinality({}) = 0
        BY FS_EmptySet, SumOne
      <3>2. QED
        BY <3>1 DEF CellOK, Start, AggFuncs
    <2>4. QED
      BY <2>1, <2>2, <2>3 DEF PassOK
  <1>3. ASSUME NEW k \in 0..height-1, k \in S PROVE k+1 \in S
    <2>1. k+1 \in 0..height /\ k+1 # 0 /\ (k+1)-1 = k /\ k \in Nat /\ height \in Nat
      BY DEF Grouped
    <2>2. f[k+1] = IF col[k] = Null THEN f[k] ELSE [f[k] EXCEPT ![gids[k]] = Step(fn, @, col[k])]
      BY <1>1, <2>1 DEF IsPass
    <2>3. f[k] = [g \in Groups |-> f[k][g]] /\ \A g \in Groups : CellOK(fn, f[k][g], col, Valued(col, g, k))
      BY <1>3 DEF PassOK
    <2>4. gids[k] \in Groups
      BY DEF Grouped
    <2>5. CASE col[k] = Null
      <3>1. \A g \in Groups : Valued(col, g, k+1) = Valued(col, g, k)
        BY <2>1, <2>5 DEF Valued
      <3>2. QED
        BY <2>1, <2>2, <2>3, <2>5, <3>1 DEF PassOK
    <2>6. CASE col[k] # Null
      <3>1. f[k+1] = [g \in Groups |-> IF g = gids[k] THEN Step(fn, f[k][g], col[k]) ELSE f[k][g]]
        BY <2>2, <2>3, <2>6
      <3>2. ASSUME NEW g \in Groups, g # gids[k] PROVE Valued(col, g, k+1) = Valued(col, g, k)
        BY <2>1, <3>2 DEF Valued
      <3>3. Valued(col, gids[k], k+1) = Valued(col, gids[k], k) \cup {k}
        BY <2>1, <2>6 DEF Valued
      <3>4. /\ HaveValues(col, Valued(col, gids[k], k)) /\ k \in Int /\ col[k] \in Int
            /\ \A i \in Valued(col, gids[k], k) : i < k
        <4>1. IsFiniteSet(0..k-1)
          BY <2>1, FS_Interval
        <4>2. Valued(col, gids[k], k) \subseteq 0..k-1
          BY DEF Valued
        <4>3. IsFiniteSet(Valued(col, gids[k], k))
          BY <4>1, <4>2, FS_Subset
        <4>4. \A i \in 0..k : col[i] \in Int \cup {Null}
          BY <2>1 DEF ValueColumn
        <4>5. QED
          BY <2>1, <2>6, <4>3, <4>4 DEF HaveValues, Valued
      <3>5. CellOK(fn, Step(fn, f[k][gids[k]], col[k]), col, Valued(col, gids[k], k) \cup {k})
        BY <2>3, <2>4, <3>4, StepKeepsCell
      <3>6. \A g \in Groups : CellOK(fn, f[k+1][g], col, Valued(col, g, k+1))
        BY <2>3, <3>1, <3>2, <3>3, <3>5
      <3>7. f[k+1] = [g \in Groups |-> f[k+1][g]]
        BY <3>1
      <3>8. QED
        BY <2>1, <3>6, <3>7 DEF PassOK
    <2>7. QED
      BY <2>5, <2>6
  <1>4. 0..height \subseteq S
    <2> HIDE DEF S
    <2>1. height \in Int /\ 0 \in Int
      BY DEF Grouped
    <2>2. QED
      BY <1>2, <1>3, <2>1, IntervalInduction
  <1>5. height \in 0..height
    BY DEF Grouped
  <1>6. QED
    BY <1>1, <1>4, <1>5

-----------------------------------------------------------------------------
(* The index lists                                                         *)

(* The rows of a group among the first k rows, and the lists of them.      *)
InGroup(g, k) == {i \in 0..k-1 : gids[i] = g}

IsListing(f, n) ==
  f = [k \in 0..n |-> IF k = 0 THEN [g \in Groups |-> <<>>]
                      ELSE [f[k-1] EXCEPT ![gids[k-1]] = Append(@, k-1)]]

LEMMA ListingExists ==
  ASSUME NEW n \in Nat
  PROVE  \E f : IsListing(f, n)
  <1> DEFINE S == {m \in Nat : \E f : IsListing(f, m)}
             After(c, k) == [c EXCEPT ![gids[k-1]] = Append(@, k-1)]
  <1>1. 0 \in S
    <2>1. IsListing([k \in 0..0 |-> [g \in Groups |-> <<>>]], 0)
      BY DEF IsListing
    <2>2. QED
      BY <2>1
  <1>2. ASSUME NEW m \in 0..n-1, m \in S PROVE m+1 \in S
    <2>1. PICK f : IsListing(f, m)
      BY <1>2
    <2>2. PICK h : h = [k \in 0..m+1 |-> IF k = m+1 THEN After(f[m], k) ELSE f[k]]
      OBVIOUS
    <2>3. f[0] = [g \in Groups |-> <<>>] /\ \A k \in 1..m : f[k] = After(f[k-1], k)
      <3>1. \A k \in 0..m : f[k] = IF k = 0 THEN [g \in Groups |-> <<>>] ELSE After(f[k-1], k)
        BY <2>1 DEF IsListing
      <3> HIDE DEF After
      <3>2. QED
        BY <3>1
    <2>4. \A k \in 0..m : h[k] = f[k]
      BY <2>2
    <2> HIDE DEF After
    <2>5. \A k \in 1..m+1 : h[k] = After(h[k-1], k)
      <3> SUFFICES ASSUME NEW k \in 1..m+1 PROVE h[k] = After(h[k-1], k)
        OBVIOUS
      <3>1. k-1 \in 0..m /\ h[k-1] = f[k-1]
        BY <2>4
      <3>2. CASE k = m+1
        <4>1. h[k] = After(f[m], k) /\ k-1 = m
          BY <2>2, <3>2
        <4>2. QED
          BY <3>1, <4>1
      <3>3. CASE k # m+1
        BY <2>3, <2>4, <3>1, <3>3
      <3>4. QED
        BY <3>2, <3>3
    <2>6. h = [k \in 0..m+1 |-> IF k = 0 THEN [g \in Groups |-> <<>>] ELSE After(h[k-1], k)]
      <3>1. h = [k \in 0..m+1 |-> h[k]]
        BY <2>2
      <3>2. \A k \in 0..m+1 : h[k] = IF k = 0 THEN [g \in Groups |-> <<>>] ELSE After(h[k-1], k)
        BY <2>3, <2>4, <2>5
      <3>3. QED
        BY <3>1, <3>2, Zenon
    <2>7. IsListing(h, m+1)
      BY <2>6 DEF IsListing, After
    <2>8. QED
      BY <2>7
  <1>3. 0..n \subseteq S
    <2> HIDE DEF S
    <2>1. QED
      BY <1>1, <1>2, IntervalInduction
  <1>4. QED
    BY <1>3

(* A list has the rows of its group, in row order.                         *)
ListOK(s, g, k) == s \in Seq(Int) /\ Ascending(s) /\ ToSet(s) = InGroup(g, k)

ListsOK(c, k) == c = [g \in Groups |-> c[g]] /\ \A g \in Groups : ListOK(c[g], g, k)

LEMMA ListsOfRows ==
  ASSUME Grouped
  PROVE  ListsOK(IndexLists, height)
  <1>1. PICK f : IsListing(f, height) /\ IndexLists = f[height]
    <2>1. \E f : IsListing(f, height)
      BY ListingExists DEF Grouped
    <2>2. IndexLists = (CHOOSE f : IsListing(f, height))[height]
      BY DEF IndexLists, IsListing
    <2>3. QED
      BY <2>1, <2>2
  <1> DEFINE S == {k \in 0..height : ListsOK(f[k], k)}
  <1>2. 0 \in S
    <2>1. f[0] = [g \in Groups |-> <<>>] /\ height \in Nat
      BY <1>1 DEF IsListing, Grouped
    <2>2. ASSUME NEW g \in Groups PROVE ListOK(<<>>, g, 0)
      BY DEF ListOK, InGroup, Ascending, ToSet
    <2>3. QED
      BY <2>1, <2>2 DEF ListsOK
  <1>3. ASSUME NEW k \in 0..height-1, k \in S PROVE k+1 \in S
    <2>1. k+1 \in 0..height /\ k+1 # 0 /\ (k+1)-1 = k /\ k \in Nat /\ height \in Nat
      BY DEF Grouped
    <2>2. f[k+1] = [f[k] EXCEPT ![gids[k]] = Append(@, k)]
      BY <1>1, <2>1 DEF IsListing
    <2>3. f[k] = [g \in Groups |-> f[k][g]] /\ \A g \in Groups : ListOK(f[k][g], g, k)
      BY <1>3 DEF ListsOK
    <2>4. gids[k] \in Groups
      BY DEF Grouped
    <2>5. f[k+1] = [g \in Groups |-> IF g = gids[k] THEN Append(f[k][g], k) ELSE f[k][g]]
      BY <2>2, <2>3
    <2>6. ASSUME NEW g \in Groups, g # gids[k] PROVE ListOK(f[k+1][g], g, k+1)
      <3>1. InGroup(g, k+1) = InGroup(g, k)
        BY <2>1, <2>6 DEF InGroup
      <3>2. QED
        BY <2>3, <2>5, <2>6, <3>1 DEF ListOK
    <2>7. ListOK(f[k+1][gids[k]], gids[k], k+1)
      <3>1. PICK s : s = f[k][gids[k]]
        OBVIOUS
      <3>2. s \in Seq(Int) /\ Ascending(s) /\ ToSet(s) = InGroup(gids[k], k)
        BY <2>3, <2>4, <3>1 DEF ListOK
      <3>3. \A y \in ToSet(s) : y < k
        BY <2>1, <3>2 DEF InGroup
      <3>4. /\ Append(s, k) \in Seq(Int) /\ ToSet(Append(s, k)) = ToSet(s) \cup {k}
            /\ Ascending(Append(s, k))
        BY <2>1, <3>2, <3>3, AppendAscends
      <3>5. InGroup(gids[k], k+1) = InGroup(gids[k], k) \cup {k}
        BY <2>1 DEF InGroup
      <3>6. f[k+1][gids[k]] = Append(s, k)
        BY <2>4, <2>5, <3>1
      <3>7. QED
        BY <3>2, <3>4, <3>5, <3>6 DEF ListOK
    <2>8. f[k+1] = [g \in Groups |-> f[k+1][g]]
      BY <2>5
    <2>9. QED
      BY <2>1, <2>6, <2>7, <2>8 DEF ListsOK
  <1>4. 0..height \subseteq S
    <2> HIDE DEF S
    <2>1. height \in Int /\ 0 \in Int
      BY DEF Grouped
    <2>2. QED
      BY <1>2, <1>3, <2>1, IntervalInduction
  <1>5. height \in 0..height
    BY DEF Grouped
  <1>6. QED
    BY <1>1, <1>4, <1>5

-----------------------------------------------------------------------------
(* The groups                                                              *)

(* When GroupBy is done, the rows of a group are those that share the key  *)
(* of its first row.                                                       *)
LEMMA GroupsAreMembers ==
  ASSUME FullInv, KeysWellBehaved, Aggregated
  PROVE  /\ Grouped /\ height \in Heights
         /\ \A g \in Groups : /\ Members(g) = InGroup(g, height)
                              /\ Members(g) # {} /\ IsFiniteSet(Members(g))
  <1>1. /\ row = height /\ height \in Heights /\ height \in Nat /\ DOMAIN key = 0..height-1
        /\ DOMAIN gids = 0..height-1 /\ SettledGroups = nGroups /\ nGroups \in Nat
        /\ gids \in [0..height-1 -> Nat]
    BY TableAssumption DEF FullInv, OrderInv, NumberedInv, Inv, TypeInv, SettledGroups, Aggregated
  <1>2. gids \in [0..height-1 -> Groups]
    BY <1>1 DEF FullInv, OrderInv, NumberedInv, Groups
  <1>3. \A i, j \in 0..height-1 : gids[i] = gids[j] <=> rowsEqual(i, j)
    BY <1>1, InvGroupsMatch DEF FullInv, GroupsAreClasses
  <1>4. ASSUME NEW g \in Groups
        PROVE  /\ Members(g) = InGroup(g, height)
               /\ Members(g) # {} /\ IsFiniteSet(Members(g))
    <2>1. firstRows[g] \in 0..height-1 /\ gids[firstRows[g]] = g
      BY <1>1 DEF FullInv, OrderInv, IsFounder, Groups, Aggregated
    <2>2. Members(g) = InGroup(g, height)
      BY <1>1, <1>3, <2>1 DEF Members, InGroup
    <2>3. IsFiniteSet(0..height-1) /\ InGroup(g, height) \subseteq 0..height-1
      BY <1>1, FS_Interval DEF InGroup
    <2>4. firstRows[g] \in InGroup(g, height)
      BY <2>1 DEF InGroup
    <2>5. QED
      BY <2>2, <2>3, <2>4, FS_Subset
  <1>5. QED
    BY <1>1, <1>2, <1>4 DEF Grouped

(* What the cells of a column say of the valid rows of a group.            *)
LEMMA CellsOfGroup ==
  ASSUME FullInv, KeysWellBehaved, Aggregated, NEW col \in Columns, NEW g \in Groups,
         NEW fn \in AggFuncs
  PROVE  /\ HaveValues(col, Valid(col, g))
         /\ CellOK(fn, Accumulate(col, fn)[g], col, Valid(col, g))
  <1>1. /\ Grouped /\ height \in Heights
        /\ Members(g) = InGroup(g, height) /\ IsFiniteSet(Members(g))
    BY GroupsAreMembers
  <1>2. ValueColumn(col)
    BY <1>1, ColumnAssumption DEF ValueColumn
  <1>3. Valid(col, g) = Valued(col, g, height)
    BY <1>1 DEF Valid, Valued, InGroup
  <1>4. HaveValues(col, Valid(col, g))
    <2>1. Valid(col, g) \subseteq Members(g)
      BY DEF Valid
    <2>2. IsFiniteSet(Valid(col, g))
      BY <1>1, <2>1, FS_Subset
    <2>3. \A i \in Valid(col, g) : i \in 0..height-1 /\ col[i] # Null
      BY <1>3 DEF Valued
    <2>4. QED
      BY <1>2, <2>2, <2>3 DEF HaveValues, ValueColumn
  <1>5. QED
    BY <1>1, <1>2, <1>3, <1>4, CellsOfPass DEF PassOK

LEMMA MinOf ==
  ASSUME NEW T, T \subseteq Int, NEW m \in T, \A x \in T : m <= x
  PROVE  Min(T) = m
  <1>1. \A x \in T : (\A y \in T : x <= y) => x = m
    OBVIOUS
  <1>2. QED
    BY <1>1 DEF Min

LEMMA MaxOf ==
  ASSUME NEW T, T \subseteq Int, NEW m \in T, \A x \in T : m >= x
  PROVE  Max(T) = m
  <1>1. \A x \in T : (\A y \in T : x >= y) => x = m
    OBVIOUS
  <1>2. QED
    BY <1>1 DEF Max

LEMMA AggregatesRight ==
  ASSUME FullInv, KeysWellBehaved
  PROVE  AggregatesAreOfMembers
  <1> SUFFICES ASSUME Aggregated, NEW col \in Columns, NEW g \in Groups
               PROVE  LET rows == Valid(col, g)
                          vals == {col[i] : i \in rows}
                      IN  /\ IndexLists[g] = RowList(Members(g))
                          /\ Count(col)[g] = Cardinality(rows)
                          /\ rows = {} =>
                               \A cell \in {Sum(col)[g], Mean(col)[g], Smallest(col)[g],
                                             Largest(col)[g]} : cell = Null
                          /\ rows # {} =>
                               /\ Sum(col)[g] = MapThenSumSet(LAMBDA i : col[i], rows)
                               /\ Mean(col)[g] = <<Sum(col)[g], Cardinality(rows)>>
                               /\ Smallest(col)[g] = Min(vals)
                               /\ Largest(col)[g] = Max(vals)
                          /\ \A dtype \in FirstLastTypes : FirstAndLast(col, dtype, g)
    BY DEF AggregatesAreOfMembers
  <1> DEFINE rows == Valid(col, g)
             vals == {col[i] : i \in rows}
  <1>1. IndexLists[g] = RowList(Members(g))
    <2>1. Grouped /\ Members(g) = InGroup(g, height)
      BY GroupsAreMembers
    <2>2. ListOK(IndexLists[g], g, height)
      BY <2>1, ListsOfRows DEF ListsOK
    <2>3. QED
      BY <2>1, <2>2, AscendingIsRowList DEF ListOK
  <1>2. /\ HaveValues(col, rows)
        /\ \A fn \in AggFuncs : CellOK(fn, Accumulate(col, fn)[g], col, rows)
    BY CellsOfGroup DEF AggFuncs
  <1>3. /\ Accumulate(col, "sum")[g] = <<SumOver(col, rows), Cardinality(rows)>>
        /\ Accumulate(col, "count")[g] = Cardinality(rows)
    BY <1>2 DEF CellOK, AggFuncs
  <1>4. /\ Cardinality(rows) \in Nat /\ (Cardinality(rows) > 0 <=> rows # {})
        /\ vals \subseteq Int /\ rows \subseteq Int
    BY <1>2, FS_CardinalityType, FS_EmptySet DEF HaveValues
  <1> HIDE DEF rows, vals
  <1>5. /\ Sum(col)[g] = IF rows # {} THEN SumOver(col, rows) ELSE Null
        /\ Mean(col)[g] = IF rows # {} THEN <<SumOver(col, rows), Cardinality(rows)>> ELSE Null
    BY <1>3, <1>4 DEF Sum, Mean
  <1>6. Count(col)[g] = Cardinality(rows)
    BY <1>3 DEF Count
  <1>7. ASSUME rows = {}
        PROVE  /\ Smallest(col)[g] = Null /\ Largest(col)[g] = Null
               /\ Accumulate(col, "first")[g] = Null /\ Accumulate(col, "last")[g] = Null
    BY <1>2, <1>7 DEF CellOK, AggFuncs, Smallest, Largest
  <1>8. ASSUME rows # {}
        PROVE  /\ Smallest(col)[g] = Min(vals) /\ Largest(col)[g] = Max(vals)
               /\ Accumulate(col, "first")[g] = col[Min(rows)]
               /\ Accumulate(col, "last")[g] = col[Max(rows)]
    <2>1. Smallest(col)[g] = Min(vals)
      <3>1. Smallest(col)[g] \in vals /\ \A x \in vals : Smallest(col)[g] <= x
        BY <1>2, <1>8 DEF CellOK, AggFuncs, Smallest, vals
      <3>2. QED
        BY <1>4, <3>1, MinOf
    <2>2. Largest(col)[g] = Max(vals)
      <3>1. Largest(col)[g] \in vals /\ \A x \in vals : Largest(col)[g] >= x
        BY <1>2, <1>8 DEF CellOK, AggFuncs, Largest, vals
      <3>2. QED
        BY <1>4, <3>1, MaxOf
    <2>3. PICK i \in rows : Accumulate(col, "first")[g] = col[i] /\ \A j \in rows : i <= j
      BY <1>2, <1>8 DEF CellOK, AggFuncs
    <2>4. PICK k \in rows : Accumulate(col, "last")[g] = col[k] /\ \A j \in rows : k >= j
      BY <1>2, <1>8 DEF CellOK, AggFuncs
    <2>5. Min(rows) = i /\ Max(rows) = k
      BY <1>4, <2>3, <2>4, MinOf, MaxOf
    <2>6. QED
      BY <2>1, <2>2, <2>3, <2>4, <2>5
  <1>9. SumOver(col, rows) = MapThenSumSet(LAMBDA i : col[i], rows)
    BY DEF SumOver
  <1>10. ASSUME NEW dtype \in FirstLastTypes
         PROVE  FirstAndLast(col, dtype, g)
    <2>1. FirstValid(col, dtype) = Accumulate(col, "first") /\ LastValid(col, dtype) = Accumulate(col, "last")
      BY DEF FirstValid, LastValid
    <2>2. QED
      BY <1>7, <1>8, <2>1 DEF FirstAndLast, rows
  <1>11. QED
    BY <1>1, <1>5, <1>6, <1>7, <1>8, <1>9, <1>10 DEF rows, vals

(* GroupBy gives every group the aggregate of the valid values of the rows *)
(* that share its key, and null exactly when it has none: Count for any    *)
(* column, Sum, Mean, Min and Max for a numeric one, First and Last for an *)
(* Int64 or String one (applyFirstLast has no case for other types).  The  *)
(* index lists have all of these rows in row order.  This holds for every  *)
(* hash function, size of the table and value column.                      *)
THEOREM GroupsAggregateMembers == KeysWellBehaved => (Spec => []AggregatesAreOfMembers)
  <1> SUFFICES ASSUME KeysWellBehaved PROVE Spec => []AggregatesAreOfMembers
    OBVIOUS
  <1>1. FullInv => AggregatesAreOfMembers
    BY AggregatesRight
  <1>2. QED
    BY OrderInvariant, <1>1, PTL

-----------------------------------------------------------------------------
(* The capacity of the hash sets of a series                               *)

IsDoubling(f, t, dom) == f = [n \in dom |-> IF n < t THEN f[n * 2] ELSE n]

From(t, m) == {n \in Nat : n = 0 \/ n >= t - m}

LEMMA DoublingExists ==
  ASSUME NEW t \in Nat
  PROVE  \E f : IsDoubling(f, t, Nat)
  <1> DEFINE S == {m \in Nat : \E f : IsDoubling(f, t, From(t, m))}
  <1>1. 0 \in S
    <2>1. IsDoubling([n \in From(t, 0) |-> n], t, From(t, 0))
      BY DEF IsDoubling, From
    <2>2. QED
      BY <2>1
  <1>2. ASSUME NEW m \in 0..t-1, m \in S PROVE m+1 \in S
    <2>1. PICK f : IsDoubling(f, t, From(t, m))
      BY <1>2
    <2>2. PICK g : g = [n \in From(t, m+1) |-> IF n \in From(t, m) THEN f[n] ELSE f[n * 2]]
      OBVIOUS
    <2>3. ASSUME NEW n \in From(t, m+1), n < t
          PROVE  n * 2 \in From(t, m) /\ n * 2 \in From(t, m+1)
      BY <2>3 DEF From
    <2>4. ASSUME NEW n \in From(t, m+1) PROVE g[n] = IF n < t THEN g[n * 2] ELSE n
      <3>1. \A k \in From(t, m) : f[k] = IF k < t THEN f[k * 2] ELSE k
        BY <2>1 DEF IsDoubling
      <3>2. n \notin From(t, m) => n < t
        BY DEF From
      <3>3. CASE n < t
        <4>1. g[n * 2] = f[n * 2]
          BY <2>2, <2>3, <3>3
        <4>2. g[n] = f[n * 2]
          BY <2>2, <3>1, <3>3
        <4>3. QED
          BY <3>3, <4>1, <4>2
      <3>4. CASE ~(n < t)
        BY <2>2, <3>1, <3>2, <3>4
      <3>5. QED
        BY <3>3, <3>4
    <2>5. g = [n \in From(t, m+1) |-> g[n]]
      BY <2>2
    <2>6. IsDoubling(g, t, From(t, m+1))
      BY <2>4, <2>5 DEF IsDoubling
    <2>7. QED
      BY <2>6
  <1>3. t \in S
    <2> HIDE DEF S
    <2>1. 0..t \subseteq S
      BY <1>1, <1>2, IntervalInduction
    <2>2. QED
      BY <2>1
  <1>4. From(t, t) = Nat
    BY DEF From
  <1>5. QED
    BY <1>3, <1>4

LEMMA DoublingReaches ==
  ASSUME NEW t \in Nat, NEW f, IsDoubling(f, t, Nat), NEW n \in Nat \ {0}
  PROVE  f[n] \in Nat /\ f[n] >= t /\ f[n] >= n
  <1> DEFINE Good(k) == f[k] \in Nat /\ f[k] >= t /\ f[k] >= k
             S == {m \in Nat : \A k \in Nat \ {0} : k >= t - m => Good(k)}
  <1>0. \A k \in Nat : f[k] = IF k < t THEN f[k * 2] ELSE k
    BY DEF IsDoubling
  <1>1. 0 \in S
    BY <1>0
  <1>2. ASSUME NEW m \in 0..t-1, m \in S PROVE m+1 \in S
    <2> SUFFICES ASSUME NEW k \in Nat \ {0}, k >= t - (m+1) PROVE Good(k)
      OBVIOUS
    <2>1. CASE k >= t
      BY <1>0, <2>1
    <2>2. CASE k < t
      <3>1. k * 2 \in Nat \ {0} /\ k * 2 >= t - m /\ k * 2 >= k
        BY <2>2
      <3>2. Good(k * 2)
        BY <1>2, <3>1
      <3>3. f[k] = f[k * 2]
        BY <1>0, <2>2
      <3>4. QED
        BY <3>1, <3>2, <3>3
    <2>3. QED
      BY <2>1, <2>2
  <1>3. t \in S
    <2> HIDE DEF S
    <2>1. 0..t \subseteq S
      BY <1>1, <1>2, IntervalInduction
    <2>2. QED
      BY <2>1
  <1>4. QED
    BY <1>3

(* A set has room for twice the rows.                                      *)
LEMMA CapacityHolds ==
  ASSUME height \in Nat
  PROVE  Capacity \in Nat \ {0} /\ Capacity > height
  <1>1. PICK t : t = height * 2
    OBVIOUS
  <1>2. Capacity = (CHOOSE f : IsDoubling(f, t, Nat))[MinSize]
    BY <1>1 DEF Capacity, IsDoubling
  <1>3. t \in Nat /\ MinSize \in Nat \ {0, 1}
    BY <1>1, TableAssumption
  <1>4. \E f : IsDoubling(f, t, Nat)
    BY <1>3, DoublingExists
  <1>5. PICK f : f = CHOOSE g : IsDoubling(g, t, Nat)
    OBVIOUS
  <1>6. IsDoubling(f, t, Nat)
    BY <1>4, <1>5
  <1>7. f[MinSize] \in Nat /\ f[MinSize] >= t /\ f[MinSize] >= MinSize
    BY <1>3, <1>6, DoublingReaches
  <1>8. QED
    BY <1>1, <1>2, <1>3, <1>5, <1>7

-----------------------------------------------------------------------------
(* A hash set of rows                                                      *)

Home(i, d) == SlotAt(Hash[key[i]], d, Capacity)

(* Walking from the slot of its hash one comes to row i through rows only. *)
Walk(t, i, d) == t[Home(i, d)] = i /\ \A e \in 0..d-1 : t[Home(i, e)] # htEmpty

(* The set t holds the rows R, whose values differ.                        *)
SetOK(t, R) ==
  /\ R \subseteq 0..height-1
  /\ t \in [0..Capacity-1 -> R \cup {htEmpty}]
  /\ \A p, q \in 0..Capacity-1 : t[p] # htEmpty /\ p # q => t[p] # t[q]
  /\ \A i, j \in R : rowsEqual(i, j) => i = j
  /\ \A i \in R : \E d \in 0..Capacity-1 : Walk(t, i, d)

(* The data frame, as it is in every state                                 *)
Framed == height \in Nat /\ key \in [0..height-1 -> Keys]

LEMMA HomeInSet ==
  ASSUME Framed, NEW i \in 0..height-1, NEW d \in Nat
  PROVE  Home(i, d) \in 0..Capacity-1 /\ Hash[key[i]] \in Nat
  <1>1. Capacity \in Nat \ {0} /\ Hash[key[i]] \in Nat
    BY CapacityHolds, TableAssumption DEF Framed
  <1>2. QED
    BY <1>1 DEF Home, SlotAt

(* Every slot is on the walk from every other one.                         *)
LEMMA AnySlotReached ==
  ASSUME NEW n \in Nat \ {0}, NEW h \in Nat, NEW p \in 0..n-1
  PROVE  \E d \in 0..n-1 : SlotAt(h, d, n) = p
  <1>1. PICK a \in Nat, r \in 0..n-1 : h = n * a + r
    BY Quotient
  <1>2. CASE p >= r
    <2>1. p - r \in 0..n-1 /\ h + (p - r) = n * a + p /\ n * a \in Nat
      BY <1>1, <1>2
    <2>2. (n * a + p) % n = p
      OBVIOUS
    <2>3. QED
      BY <2>1, <2>2 DEF SlotAt
  <1>3. CASE p < r
    <2>1. PICK b : b = a + 1
      OBVIOUS
    <2>2. p + n - r \in 0..n-1 /\ h + (p + n - r) = n * a + n + p /\ b \in Nat
      BY <1>1, <1>3, <2>1
    <2>3. n * b = n * a + n
      BY <2>1
    <2>4. \A c \in Nat : (n * c + p) % n = p
      OBVIOUS
    <2>5. h + (p + n - r) = n * b + p
      BY <2>2, <2>3
    <2>6. (n * b + p) % n = p
      BY <2>2, <2>4
    <2>7. (h + (p + n - r)) % n = p
      BY <2>5, <2>6
    <2>8. QED
      BY <2>2, <2>7 DEF SlotAt
  <1>4. QED
    BY <1>2, <1>3

(* A set with fewer rows than slots has an empty slot.                     *)
LEMMA EmptySlotLeft ==
  ASSUME Framed, NEW t, NEW R, SetOK(t, R)
  PROVE  \E p \in 0..Capacity-1 : t[p] = htEmpty
  <1> SUFFICES ASSUME \A p \in 0..Capacity-1 : t[p] # htEmpty PROVE FALSE
    OBVIOUS
  <1>1. PICK c, S, T : c = Capacity /\ S = 0..c-1 /\ T = 0..height-1
    OBVIOUS
  <1>2. c \in Nat \ {0} /\ height < c /\ height \in Nat
    BY <1>1, CapacityHolds DEF Framed
  <1>3. \A n \in Nat : IsFiniteSet(0..n-1) /\ Cardinality(0..n-1) = n
    <2> SUFFICES ASSUME NEW n \in Nat PROVE IsFiniteSet(0..n-1) /\ Cardinality(0..n-1) = n
      OBVIOUS
    <2>1. 0 \in Int /\ n-1 \in Int
      OBVIOUS
    <2>2. /\ IsFiniteSet(0..n-1)
          /\ Cardinality(0..n-1) = IF 0 > n-1 THEN 0 ELSE (n-1)-0+1
      BY <2>1, FS_Interval
    <2>3. QED
      BY <2>2
  <1>4. t \in [S -> T]
    BY <1>1 DEF SetOK
  <1>5. IsFiniteSet(S) /\ IsFiniteSet(T) /\ Cardinality(T) < Cardinality(S)
    BY <1>1, <1>2, <1>3
  <1>6. \E x, y \in S : x # y /\ t[x] = t[y]
    BY <1>4, <1>5, FS_PigeonHole
  <1>7. QED
    BY <1>1, <1>6 DEF SetOK

-----------------------------------------------------------------------------
(* Probes                                                                  *)

(* The distances at which a probe for row i would stop, and where it does. *)
StopDists(t, i) ==
  {d \in 0..Capacity-1 : t[Home(i, d)] = htEmpty \/ rowsEqual(i, t[Home(i, d)])}

StopsAt(dists, i) == IF dists = {} THEN -1 ELSE Home(i, Min(dists))

LEMMA LeastIsMin ==
  ASSUME NEW D \in SUBSET Nat, D # {}
  PROVE  Min(D) \in D /\ \A d \in D : Min(D) <= d
  <1>1. \E m \in D : \A k \in D : m <= k
    BY Least
  <1>2. QED
    BY <1>1 DEF Min

(* A probe that stops at empty slots and at rows of its value stops, and   *)
(* at an empty slot only if the set has no row of its value; the row can   *)
(* then be put there.                                                      *)
LEMMA ProbeStops ==
  ASSUME Framed, KeysWellBehaved, NEW t, NEW R, SetOK(t, R), NEW i \in 0..height-1,
         NEW p, p = StopsAt(StopDists(t, i), i)
  PROVE  /\ p \in 0..Capacity-1
         /\ t[p] # htEmpty => t[p] \in R /\ rowsEqual(i, t[p])
         /\ t[p] = htEmpty => /\ \A j \in R : ~rowsEqual(i, j)
                              /\ SetOK([t EXCEPT ![p] = i], R \cup {i})
  <1>0. Capacity \in Nat \ {0} /\ htEmpty = -1
    BY CapacityHolds DEF Framed, htEmpty
  <1>d. PICK dists : dists = StopDists(t, i)
    OBVIOUS
  <1>e. dists = {d \in 0..Capacity-1 : t[Home(i, d)] = htEmpty \/ rowsEqual(i, t[Home(i, d)])}
    BY <1>d DEF StopDists
  <1>1. dists # {}
    <2>1. PICK q \in 0..Capacity-1 : t[q] = htEmpty
      BY EmptySlotLeft
    <2>2. PICK d \in 0..Capacity-1 : Home(i, d) = q
      BY <1>0, HomeInSet, AnySlotReached DEF Home
    <2>3. QED
      BY <1>e, <2>1, <2>2
  <1>2. PICK m : m = Min(dists)
    OBVIOUS
  <1>3. m \in dists /\ \A d \in dists : m <= d
    <2>1. dists \in SUBSET Nat
      BY <1>0, <1>e
    <2>2. QED
      BY <1>1, <1>2, <2>1, LeastIsMin
  <1>4. /\ p = Home(i, m) /\ m \in 0..Capacity-1
        /\ t[p] = htEmpty \/ rowsEqual(i, t[p])
        /\ \A e \in 0..m-1 : t[Home(i, e)] # htEmpty /\ ~rowsEqual(i, t[Home(i, e)])
    BY <1>0, <1>d, <1>e, <1>1, <1>2, <1>3 DEF StopsAt
  <1>5. p \in 0..Capacity-1
    BY <1>4, HomeInSet
  <1>6. t[p] \in R \cup {htEmpty}
    BY <1>5 DEF SetOK
  <1>7. ASSUME t[p] = htEmpty PROVE \A j \in R : ~rowsEqual(i, j)
    <2> SUFFICES ASSUME NEW j \in R, rowsEqual(i, j) PROVE FALSE
      OBVIOUS
    <2>1. j \in 0..height-1 /\ key[i] \in Keys /\ key[j] \in Keys
      BY DEF SetOK, Framed
    <2>2. Hash[key[i]] = Hash[key[j]]
      BY <2>1 DEF KeysWellBehaved, rowsEqual
    <2>3. \A d : Home(i, d) = Home(j, d)
      BY <2>2 DEF Home
    <2>4. PICK d \in 0..Capacity-1 : Walk(t, j, d)
      BY DEF SetOK
    <2>5. t[Home(i, d)] = j /\ \A e \in 0..d-1 : t[Home(i, e)] # htEmpty
      BY <2>3, <2>4 DEF Walk
    <2>6. ~(d < m)
      BY <1>0, <1>4, <2>5
    <2>7. CASE d = m
      BY <1>0, <1>4, <1>7, <2>1, <2>5, <2>7
    <2>8. CASE m < d
      BY <1>4, <1>7, <2>5, <2>8
    <2>9. QED
      BY <1>4, <2>6, <2>7, <2>8
  <1>8. ASSUME t[p] = htEmpty PROVE SetOK([t EXCEPT ![p] = i], R \cup {i})
    <2>1. PICK u : u = [t EXCEPT ![p] = i]
      OBVIOUS
    <2>2. \A j \in R : ~rowsEqual(i, j) /\ ~rowsEqual(j, i)
      <3>1. \A j \in R : key[i] \in Keys /\ key[j] \in Keys
        BY DEF SetOK, Framed
      <3>2. QED
        BY <1>7, <1>8, <3>1 DEF KeysWellBehaved, rowsEqual
    <2>3. i \notin R
      <3>1. rowsEqual(i, i)
        BY DEF Framed, KeysWellBehaved, rowsEqual
      <3>2. QED
        BY <2>2, <3>1
    <2>4. u \in [0..Capacity-1 -> (R \cup {i}) \cup {htEmpty}] /\ R \cup {i} \subseteq 0..height-1
      BY <1>5, <2>1 DEF SetOK
    <2>5. /\ u[p] = i /\ i # htEmpty
          /\ \A q \in 0..Capacity-1 : q # p => u[q] = t[q]
          /\ \A q \in 0..Capacity-1 : t[q] # htEmpty => u[q] = t[q]
      BY <1>0, <1>5, <1>8, <2>1 DEF SetOK
    <2>6. ASSUME NEW q \in 0..Capacity-1, NEW r \in 0..Capacity-1, u[q] # htEmpty, q # r
          PROVE  u[q] # u[r]
      <3>1. \A s \in 0..Capacity-1 : t[s] # i
        BY <1>0, <2>3 DEF SetOK
      <3>2. QED
        BY <2>5, <2>6, <3>1 DEF SetOK
    <2>7. \A j, k \in R \cup {i} : rowsEqual(j, k) => j = k
      BY <2>2 DEF SetOK
    <2>8. ASSUME NEW j \in R \cup {i} PROVE \E d \in 0..Capacity-1 : Walk(u, j, d)
      <3>1. \A d \in Nat : Home(j, d) \in 0..Capacity-1
        BY <2>4, HomeInSet
      <3>2. CASE j = i
        <4>1. \A e \in 0..m-1 : u[Home(i, e)] # htEmpty
          <5> SUFFICES ASSUME NEW e \in 0..m-1 PROVE u[Home(i, e)] # htEmpty
            OBVIOUS
          <5>1. e \in Nat /\ t[Home(i, e)] # htEmpty
            BY <1>4
          <5>2. QED
            BY <2>5, <3>1, <3>2, <5>1
        <4>2. u[Home(i, m)] = i
          BY <1>4, <2>5
        <4>3. QED
          BY <1>4, <3>2, <4>1, <4>2 DEF Walk
      <3>3. CASE j # i
        <4>1. PICK d \in 0..Capacity-1 : Walk(t, j, d)
          BY <3>3 DEF SetOK
        <4>2. \A e \in 0..d-1 : e \in Nat /\ t[Home(j, e)] # htEmpty
          BY <4>1 DEF Walk
        <4>3. \A e \in 0..d-1 : u[Home(j, e)] # htEmpty
          BY <2>5, <3>1, <4>2
        <4>4. t[Home(j, d)] = j /\ d \in Nat /\ j # htEmpty
          BY <1>0, <2>4, <4>1 DEF Walk
        <4>5. u[Home(j, d)] = j
          BY <2>5, <3>1, <4>4
        <4>6. QED
          BY <4>3, <4>5 DEF Walk
      <3>4. QED
        BY <3>2, <3>3
    <2>9. QED
      BY <2>1, <2>4, <2>6, <2>7, <2>8 DEF SetOK
  <1>9. QED
    BY <1>4, <1>5, <1>6, <1>7, <1>8

-----------------------------------------------------------------------------
(* The rows that are kept                                                  *)

(* Among the first k rows: those that Unique keeps, with and without the   *)
(* null.                                                                   *)
Kept(k) == {i \in 0..k-1 : FirstOccurrence(i)}
KeptValues(k) == {i \in Kept(k) : ~IsNullRow(i)}

(* The equality of rows, and a null is equal to the nulls only.            *)
LEMMA RowEquality ==
  ASSUME Framed, KeysWellBehaved, NEW i \in 0..height-1, NEW j \in 0..height-1
  PROVE  /\ rowsEqual(i, i)
         /\ rowsEqual(i, j) => rowsEqual(j, i) /\ Hash[key[i]] = Hash[key[j]]
         /\ \A l \in 0..height-1 : rowsEqual(i, j) /\ rowsEqual(j, l) => rowsEqual(i, l)
         /\ IsNullRow(i) => (IsNullRow(j) <=> rowsEqual(i, j))
         /\ rowsEqual(i, j) => (IsNullRow(i) <=> IsNullRow(j))
  <1>1. /\ key[i] \in Keys /\ key[j] \in Keys /\ \A l \in 0..height-1 : key[l] \in Keys
    BY DEF Framed
  <1>2. rowsEqual(i, i) /\ (rowsEqual(i, j) => rowsEqual(j, i) /\ Hash[key[i]] = Hash[key[j]])
    BY <1>1 DEF KeysWellBehaved, rowsEqual
  <1>3. \A l \in 0..height-1 : rowsEqual(i, j) /\ rowsEqual(j, l) => rowsEqual(i, l)
    BY <1>1 DEF KeysWellBehaved, rowsEqual
  <1>4. IsNullRow(i) => (IsNullRow(j) <=> rowsEqual(i, j))
    BY <1>1, <1>2, NullAssumption DEF IsNullRow, rowsEqual
  <1>5. rowsEqual(i, j) => (IsNullRow(i) <=> IsNullRow(j))
    BY <1>1, <1>2, NullAssumption DEF IsNullRow, rowsEqual
  <1>6. QED
    BY <1>2, <1>3, <1>4, <1>5

(* Every row has the value of a row that is kept.                          *)
LEMMA KeptCover ==
  ASSUME Framed, KeysWellBehaved, NEW k \in 0..height, NEW i \in 0..k-1
  PROVE  \E j \in Kept(k) : rowsEqual(i, j)
  <1> DEFINE T == {j \in 0..k-1 : rowsEqual(i, j)}
  <1>1. /\ height \in Nat /\ k \in Nat /\ i \in 0..height-1 /\ \A j \in 0..k-1 : j \in 0..height-1
    BY DEF Framed
  <1>2. i \in T /\ T \in SUBSET Nat
    BY <1>1, RowEquality
  <1>3. PICK m \in T : \A j \in T : m <= j
    <2> HIDE DEF T
    <2>1. QED
      BY <1>2, Least
  <1>4. ASSUME NEW j \in 0..m-1 PROVE ~rowsEqual(m, j)
    <2>1. j \in 0..k-1 /\ m \in 0..k-1 /\ j < m
      BY <1>1, <1>3
    <2>2. rowsEqual(i, m) /\ j \notin T
      BY <1>3, <2>1
    <2>3. ~rowsEqual(i, j)
      BY <2>1, <2>2
    <2>4. QED
      BY <1>1, <2>1, <2>2, <2>3, RowEquality
  <1>5. FirstOccurrence(m)
    BY <1>4 DEF FirstOccurrence
  <1>6. QED
    BY <1>3, <1>5 DEF Kept

(* The next row is kept if its value is not that of a kept row.            *)
LEMMA KeptGrows ==
  ASSUME Framed, KeysWellBehaved, NEW k \in 0..height-1
  PROVE  /\ Kept(k) \subseteq 0..k-1
         /\ Kept(k+1) = IF \E j \in Kept(k) : rowsEqual(k, j) THEN Kept(k) ELSE Kept(k) \cup {k}
         /\ (\E j \in Kept(k) : rowsEqual(k, j)) <=> \E j \in 0..k-1 : rowsEqual(k, j)
  <1>1. /\ k \in Nat /\ height \in Nat /\ 0..k = 0..k-1 \cup {k} /\ k+1-1 = k /\ k \in 0..height
        /\ \A j \in 0..k-1 : j \in 0..height-1
    BY DEF Framed
  <1>2. (\E j \in Kept(k) : rowsEqual(k, j)) <=> \E j \in 0..k-1 : rowsEqual(k, j)
    <2>1. ASSUME NEW j \in 0..k-1, rowsEqual(k, j) PROVE \E l \in Kept(k) : rowsEqual(k, l)
      <3>1. PICK l \in Kept(k) : rowsEqual(j, l)
        BY <1>1, KeptCover
      <3>2. l \in 0..height-1
        BY <1>1 DEF Kept
      <3>3. QED
        BY <1>1, <2>1, <3>1, <3>2, RowEquality
    <2>2. QED
      BY <2>1 DEF Kept
  <1>3. FirstOccurrence(k) <=> ~\E j \in 0..k-1 : rowsEqual(k, j)
    BY DEF FirstOccurrence
  <1>4. Kept(k+1) = {i \in 0..k-1 \cup {k} : FirstOccurrence(i)}
    BY <1>1 DEF Kept
  <1>5. Kept(k+1) = IF FirstOccurrence(k) THEN Kept(k) \cup {k} ELSE Kept(k)
    BY <1>4 DEF Kept
  <1>6. QED
    BY <1>2, <1>3, <1>5 DEF Kept

(* A list of the rows kept so far, in row order, and the row that is added *)
IsListOf(s, rows) == s \in Seq(Int) /\ Ascending(s) /\ ToSet(s) = rows

LEMMA ListGrows ==
  ASSUME NEW k \in Nat, NEW rows, rows \subseteq 0..k-1, NEW s, IsListOf(s, rows)
  PROVE  IsListOf(Append(s, k), rows \cup {k})
  <1>1. s \in Seq(Int) /\ Ascending(s) /\ ToSet(s) = rows /\ k \in Int
    BY DEF IsListOf
  <1>2. \A y \in rows : y < k
    OBVIOUS
  <1>3. QED
    BY <1>1, <1>2, AppendAscends DEF IsListOf

-----------------------------------------------------------------------------
(* Unique                                                                  *)

(* What the loop has done after k rows, and the states it goes through.    *)
HashedOK(acc, k) ==
  /\ IsListOf(acc.kept, Kept(k))
  /\ SetOK(acc.set, KeptValues(k))
  /\ acc.seenNull <=> \E i \in 0..k-1 : IsNullRow(i)

HashedStates == [kept : Seq(Int), seenNull : BOOLEAN, set : [0..Capacity-1 -> Int]]

LEMMA NullStep ==
  ASSUME Framed, KeysWellBehaved, NEW k \in 0..height-1, NEW acc \in HashedStates,
         HashedOK(acc, k), IsNullRow(k)
  PROVE  HashedOK(NullInserted(acc, k), k+1)
  <1>1. /\ k \in Nat /\ height \in Nat /\ 0..k+1-1 = 0..k-1 \cup {k}
        /\ \A j \in 0..k-1 : j \in 0..height-1
    BY DEF Framed
  <1>2. acc.seenNull <=> \E j \in Kept(k) : rowsEqual(k, j)
    <2>1. \A j \in 0..k-1 : IsNullRow(j) <=> rowsEqual(k, j)
      BY <1>1, RowEquality
    <2>2. QED
      BY <2>1, KeptGrows DEF HashedOK
  <1>3. KeptValues(k+1) = KeptValues(k) /\ \E i \in 0..k+1-1 : IsNullRow(i)
    <2>1. \E i \in 0..k+1-1 : IsNullRow(i)
      BY <1>1
    <2>2. \A i \in Kept(k+1) : i \in Kept(k) \/ i = k
      BY <1>1, KeptGrows
    <2>3. \A i \in Kept(k) : i \in Kept(k+1)
      BY <1>1, KeptGrows
    <2>4. QED
      BY <2>1, <2>2, <2>3 DEF KeptValues
  <1>4. CASE acc.seenNull
    <2>1. NullInserted(acc, k) = acc
      BY <1>4 DEF NullInserted
    <2>2. Kept(k+1) = Kept(k)
      BY <1>2, <1>4, KeptGrows
    <2>3. QED
      BY <1>3, <1>4, <2>1, <2>2 DEF HashedOK
  <1>5. CASE ~acc.seenNull
    <2>1. PICK b : b = NullInserted(acc, k)
      OBVIOUS
    <2>2. b.seenNull = TRUE /\ b.kept = Append(acc.kept, k) /\ b.set = acc.set
      BY <1>5, <2>1 DEF NullInserted, HashedStates
    <2>3. Kept(k+1) = Kept(k) \cup {k} /\ Kept(k) \subseteq 0..k-1
      BY <1>2, <1>5, KeptGrows
    <2>4. IsListOf(b.kept, Kept(k+1))
      BY <1>1, <2>2, <2>3, ListGrows DEF HashedOK
    <2>5. QED
      BY <1>3, <2>1, <2>2, <2>4 DEF HashedOK
  <1>6. QED
    BY <1>4, <1>5

(* A row with a value is kept if no kept row has its value.                *)
LEMMA ValueKept ==
  ASSUME Framed, KeysWellBehaved, NEW k \in 0..height-1, ~IsNullRow(k)
  PROVE  /\ Kept(k) \subseteq 0..k-1 /\ KeptValues(k) \subseteq 0..k-1
         /\ IF \E j \in KeptValues(k) : rowsEqual(k, j)
              THEN Kept(k+1) = Kept(k) /\ KeptValues(k+1) = KeptValues(k)
              ELSE /\ Kept(k+1) = Kept(k) \cup {k} /\ KeptValues(k+1) = KeptValues(k) \cup {k}
                   /\ \A j \in 0..k-1 : ~rowsEqual(k, j)
  <1>1. \A j \in 0..k-1 : j \in 0..height-1
    BY DEF Framed
  <1>2. ASSUME NEW j \in Kept(k), rowsEqual(k, j) PROVE j \in KeptValues(k)
    <2>1. j \in 0..height-1
      BY <1>1 DEF Kept
    <2>2. QED
      BY <1>2, <2>1, RowEquality DEF KeptValues
  <1>3. (\E j \in KeptValues(k) : rowsEqual(k, j)) <=> \E j \in Kept(k) : rowsEqual(k, j)
    BY <1>2 DEF KeptValues
  <1>4. QED
    BY <1>3, KeptGrows DEF KeptValues

(* A table over the slots has as many entries as a set.                    *)
LEMMA TableLength ==
  ASSUME Framed, NEW t, DOMAIN t = 0..Capacity-1
  PROVE  Cardinality(DOMAIN t) = Capacity
  <1>1. PICK c : c = Capacity
    OBVIOUS
  <1>2. c \in Nat \ {0}
    BY <1>1, CapacityHolds DEF Framed
  <1>3. 0 \in Int /\ c-1 \in Int
    BY <1>2
  <1>4. Cardinality(0..c-1) = IF 0 > c-1 THEN 0 ELSE (c-1)-0+1
    BY <1>3, FS_Interval
  <1>5. QED
    BY <1>1, <1>2, <1>4

LEMMA ValueStep ==
  ASSUME Framed, KeysWellBehaved, NEW k \in 0..height-1, NEW acc \in HashedStates,
         HashedOK(acc, k), ~IsNullRow(k)
  PROVE  HashedOK(Inserted(acc, k), k+1)
  <1>1. /\ k \in Nat /\ height \in Nat /\ 0..k+1-1 = 0..k-1 \cup {k}
        /\ \A j \in 0..k-1 : j \in 0..height-1
    BY DEF Framed
  <1>2. PICK t : t = acc.set
    OBVIOUS
  <1>4. PICK p : p = StopsAt(StopDists(t, k), k)
    OBVIOUS
  <1>5. DOMAIN t = 0..Capacity-1 /\ SetOK(t, KeptValues(k))
    BY <1>2 DEF HashedOK, SetOK
  <1>6. Cardinality(DOMAIN acc.set) = Capacity
    BY <1>2, <1>5, TableLength
  <1>7. Inserted(acc, k) = IF t[p] # htEmpty THEN acc
          ELSE [acc EXCEPT !.set = [t EXCEPT ![p] = k], !.kept = Append(acc.kept, k)]
    BY <1>2, <1>4, <1>6 DEF Inserted, StopAt, StopsAt, StopDists, Home
  <1>9. /\ p \in 0..Capacity-1
        /\ t[p] # htEmpty => t[p] \in KeptValues(k) /\ rowsEqual(k, t[p])
        /\ t[p] = htEmpty => /\ \A j \in KeptValues(k) : ~rowsEqual(k, j)
                             /\ SetOK([t EXCEPT ![p] = k], KeptValues(k) \cup {k})
    BY <1>4, <1>5, ProbeStops
  <1>10. (\E i \in 0..k+1-1 : IsNullRow(i)) <=> \E i \in 0..k-1 : IsNullRow(i)
    BY <1>1
  <1>11. CASE t[p] # htEmpty
    <2>1. Kept(k+1) = Kept(k) /\ KeptValues(k+1) = KeptValues(k)
      BY <1>9, <1>11, ValueKept
    <2>2. Inserted(acc, k) = acc
      BY <1>7, <1>11
    <2>3. QED
      BY <1>10, <2>1, <2>2 DEF HashedOK
  <1>12. CASE t[p] = htEmpty
    <2>2. Kept(k+1) = Kept(k) \cup {k} /\ Kept(k) \subseteq 0..k-1
      BY <1>9, <1>12, ValueKept
    <2>3. KeptValues(k+1) = KeptValues(k) \cup {k}
      BY <1>9, <1>12, ValueKept
    <2>4. PICK b : b = Inserted(acc, k)
      OBVIOUS
    <2>5. b.set = [t EXCEPT ![p] = k] /\ b.kept = Append(acc.kept, k) /\ b.seenNull = acc.seenNull
      BY <1>2, <1>7, <1>12, <2>4 DEF HashedStates
    <2>6. IsListOf(b.kept, Kept(k+1))
      BY <1>1, <2>2, <2>5, ListGrows DEF HashedOK
    <2>7. SetOK(b.set, KeptValues(k+1))
      BY <1>9, <1>12, <2>3, <2>5
    <2>8. b.seenNull <=> \E i \in 0..k+1-1 : IsNullRow(i)
      BY <1>10, <2>5 DEF HashedOK
    <2>9. QED
      BY <2>4, <2>6, <2>7, <2>8 DEF HashedOK
  <1>13. QED
    BY <1>11, <1>12

NoneHashed == [kept |-> <<>>, seenNull |-> FALSE, set |-> NoRows]

IsHashing(f) ==
  f = [k \in 0..height |->
         IF k = 0 THEN [kept |-> <<>>, seenNull |-> FALSE, set |-> NoRows]
         ELSE IF HasNulls /\ IsNullRow(k-1) THEN NullInserted(f[k-1], k-1)
         ELSE Inserted(f[k-1], k-1)]

LEMMA HashedStateNext ==
  ASSUME NEW i \in Nat, NEW acc \in HashedStates
  PROVE  NullInserted(acc, i) \in HashedStates /\ Inserted(acc, i) \in HashedStates
  <1>1. acc.kept \in Seq(Int) /\ acc.set \in [0..Capacity-1 -> Int]
    BY DEF HashedStates
  <1>2. Append(acc.kept, i) \in Seq(Int)
    BY <1>1
  <1>3. NullInserted(acc, i) \in HashedStates
    BY <1>2 DEF NullInserted, HashedStates
  <1>4. PICK p : p = StopAt(acc.set, Hash[key[i]], LAMBDA j : j = htEmpty \/ rowsEqual(i, j))
    OBVIOUS
  <1>5. \A D : \A t \in [D -> Int] : [t EXCEPT ![p] = i] \in [D -> Int]
    <2> SUFFICES ASSUME NEW D, NEW t \in [D -> Int] PROVE [t EXCEPT ![p] = i] \in [D -> Int]
      OBVIOUS
    <2>1. [t EXCEPT ![p] = i] = [q \in D |-> IF q = p THEN i ELSE t[q]]
      OBVIOUS
    <2>2. \A q \in D : (IF q = p THEN i ELSE t[q]) \in Int
      OBVIOUS
    <2>3. QED
      BY <2>1, <2>2
  <1>6. PICK u : u = [acc.set EXCEPT ![p] = i]
    OBVIOUS
  <1>7. u \in [0..Capacity-1 -> Int]
    BY <1>1, <1>5, <1>6
  <1>8. Inserted(acc, i) = IF acc.set[p] # htEmpty THEN acc
          ELSE [acc EXCEPT !.set = u, !.kept = Append(acc.kept, i)]
    BY <1>4, <1>6 DEF Inserted
  <1>9. [acc EXCEPT !.set = u, !.kept = Append(acc.kept, i)] \in HashedStates
    BY <1>2, <1>7 DEF HashedStates
  <1>10. QED
    BY <1>3, <1>8, <1>9

LEMMA HashingExists ==
  ASSUME Framed
  PROVE  \E f : IsHashing(f)
  <1> DEFINE After(acc, i) == IF HasNulls /\ IsNullRow(i) THEN NullInserted(acc, i) ELSE Inserted(acc, i)
  <1>1. PICK step : step = [k \in 1..height |-> [acc \in HashedStates |-> After(acc, k-1)]]
    OBVIOUS
  <1>2. NoneHashed \in HashedStates
    BY DEF NoneHashed, HashedStates, NoRows, htEmpty
  <1>3. \A k \in 1..height : \A acc \in HashedStates : After(acc, k-1) \in HashedStates
    <2>1. \A k \in 1..height : k-1 \in Nat
      OBVIOUS
    <2>2. QED
      BY <2>1, HashedStateNext
  <1> HIDE DEF After
  <1>4. \A k \in 1..height : \A acc \in HashedStates : step[k][acc] = After(acc, k-1) /\ step[k][acc] \in HashedStates
    BY <1>1, <1>3
  <1>5. PICK f : IsLoop(f, HashedStates, NoneHashed, step, height)
    BY <1>2, <1>4, LoopExists DEF Framed
  <1>6. \A k \in 0..height : f[k] = IF k = 0 THEN NoneHashed ELSE After(f[k-1], k-1)
    <2> SUFFICES ASSUME NEW k \in 0..height PROVE f[k] = IF k = 0 THEN NoneHashed ELSE After(f[k-1], k-1)
      OBVIOUS
    <2>1. f[k] = IF k = 0 THEN NoneHashed ELSE step[k][f[k-1]]
      BY <1>5 DEF IsLoop
    <2>2. k = 0 \/ (k \in 1..height /\ k-1 \in 0..height)
      BY DEF Framed
    <2>3. k # 0 => f[k-1] \in HashedStates
      BY <1>5, <2>2 DEF IsLoop
    <2>4. QED
      BY <1>4, <2>1, <2>2, <2>3
  <1>7. f = [k \in 0..height |-> f[k]]
    BY <1>5 DEF IsLoop
  <1>8. f = [k \in 0..height |-> IF k = 0 THEN NoneHashed ELSE After(f[k-1], k-1)]
    BY <1>6, <1>7, Zenon
  <1>9. IsHashing(f)
    BY <1>8 DEF IsHashing, After, NoneHashed
  <1>10. QED
    BY <1>9

LEMMA EmptySetOK ==
  ASSUME Framed
  PROVE  SetOK(NoRows, {})
  BY DEF SetOK, NoRows, htEmpty

(* With hash sets: the first row of every value, in row order.             *)
LEMMA HashedKeepsFirsts ==
  ASSUME Framed, KeysWellBehaved
  PROVE  IsListOf(UniqueHashed, Kept(height))
  <1>1. PICK f : IsHashing(f) /\ UniqueHashed = f[height].kept
    <2>1. PICK g : g = CHOOSE f : IsHashing(f)
      OBVIOUS
    <2>2. UniqueHashed = g[height].kept
      BY <2>1 DEF UniqueHashed, IsHashing
    <2>3. IsHashing(g)
      BY <2>1, HashingExists
    <2>4. QED
      BY <2>2, <2>3
  <1> DEFINE S == {k \in 0..height : f[k] \in HashedStates /\ HashedOK(f[k], k)}
  <1>2. 0 \in S
    <2>1. f[0] = NoneHashed /\ 0 \in 0..height
      BY <1>1 DEF IsHashing, NoneHashed, Framed
    <2>2. NoneHashed \in HashedStates
      BY DEF NoneHashed, HashedStates, NoRows, htEmpty
    <2>3. Kept(0) = {} /\ KeptValues(0) = {}
      BY DEF Kept, KeptValues
    <2>4. IsListOf(<<>>, {})
      BY DEF IsListOf, Ascending, ToSet
    <2>5. HashedOK(NoneHashed, 0)
      <3>1. NoneHashed.kept = <<>> /\ NoneHashed.set = NoRows /\ ~NoneHashed.seenNull /\ 0..0-1 = {}
        BY DEF NoneHashed
      <3>2. QED
        BY <2>3, <2>4, <3>1, EmptySetOK DEF HashedOK
    <2>6. QED
      BY <2>1, <2>2, <2>5
  <1>3. ASSUME NEW k \in 0..height-1, k \in S PROVE k+1 \in S
    <2>1. k+1 \in 0..height /\ k+1 # 0 /\ (k+1)-1 = k /\ k \in Nat
      BY DEF Framed
    <2>2. f[k+1] = IF HasNulls /\ IsNullRow(k) THEN NullInserted(f[k], k) ELSE Inserted(f[k], k)
      BY <1>1, <2>1 DEF IsHashing
    <2>3. IsNullRow(k) => HasNulls
      BY DEF HasNulls
    <2>4. f[k] \in HashedStates /\ HashedOK(f[k], k)
      BY <1>3
    <2>5. f[k+1] \in HashedStates
      BY <2>1, <2>2, <2>4, HashedStateNext
    <2>6. HashedOK(f[k+1], k+1)
      BY <2>2, <2>3, <2>4, NullStep, ValueStep
    <2>7. QED
      BY <2>1, <2>5, <2>6
  <1>4. height \in S
    <2> HIDE DEF S
    <2>1. 0..height \subseteq S /\ height \in 0..height
      BY <1>2, <1>3, IntervalInduction DEF Framed
    <2>2. QED
      BY <2>1
  <1>5. QED
    BY <1>1, <1>4 DEF HashedOK

-----------------------------------------------------------------------------
(* Unique without a hash set                                               *)

IsSeeing(f) ==
  f = [k \in 0..height |->
         IF k = 0 THEN <<>>
         ELSE IF Seen(f[k-1], k-1) THEN f[k-1] ELSE Append(f[k-1], k-1)]

LEMMA SeeingExists ==
  ASSUME Framed
  PROVE  \E f : IsSeeing(f)
  <1> DEFINE After(kept, i) == IF Seen(kept, i) THEN kept ELSE Append(kept, i)
  <1>1. PICK step : step = [k \in 1..height |-> [kept \in Seq(Int) |-> After(kept, k-1)]]
    OBVIOUS
  <1>2. <<>> \in Seq(Int)
    OBVIOUS
  <1>3. \A k \in 1..height : \A kept \in Seq(Int) : After(kept, k-1) \in Seq(Int)
    <2>1. \A k \in 1..height : k-1 \in Int
      OBVIOUS
    <2>2. \A kept \in Seq(Int) : \A i \in Int : Append(kept, i) \in Seq(Int)
      OBVIOUS
    <2>3. QED
      BY <2>1, <2>2
  <1> HIDE DEF After
  <1>4. \A k \in 1..height : \A kept \in Seq(Int) : step[k][kept] = After(kept, k-1) /\ step[k][kept] \in Seq(Int)
    BY <1>1, <1>3
  <1>5. PICK f : IsLoop(f, Seq(Int), <<>>, step, height)
    BY <1>2, <1>4, LoopExists DEF Framed
  <1>6. \A k \in 0..height : f[k] = IF k = 0 THEN <<>> ELSE After(f[k-1], k-1)
    <2> SUFFICES ASSUME NEW k \in 0..height PROVE f[k] = IF k = 0 THEN <<>> ELSE After(f[k-1], k-1)
      OBVIOUS
    <2>1. f[k] = IF k = 0 THEN <<>> ELSE step[k][f[k-1]]
      BY <1>5 DEF IsLoop
    <2>2. k = 0 \/ (k \in 1..height /\ k-1 \in 0..height)
      BY DEF Framed
    <2>3. k # 0 => f[k-1] \in Seq(Int)
      BY <1>5, <2>2 DEF IsLoop
    <2>4. QED
      BY <1>4, <2>1, <2>2, <2>3
  <1>7. f = [k \in 0..height |-> f[k]]
    BY <1>5 DEF IsLoop
  <1>8. f = [k \in 0..height |-> IF k = 0 THEN <<>> ELSE After(f[k-1], k-1)]
    BY <1>6, <1>7, Zenon
  <1>9. IsSeeing(f)
    BY <1>8 DEF IsSeeing, After
  <1>10. QED
    BY <1>9

(* Without a hash set too: the first row of every value, in row order.     *)
LEMMA SeenKeepsFirsts ==
  ASSUME Framed, KeysWellBehaved
  PROVE  IsListOf(UniqueSeen, Kept(height))
  <1>1. PICK f : IsSeeing(f) /\ UniqueSeen = f[height]
    <2>1. PICK g : g = CHOOSE f : IsSeeing(f)
      OBVIOUS
    <2>2. UniqueSeen = g[height]
      BY <2>1 DEF UniqueSeen, IsSeeing
    <2>3. IsSeeing(g)
      BY <2>1, SeeingExists
    <2>4. QED
      BY <2>2, <2>3
  <1> DEFINE S == {k \in 0..height : IsListOf(f[k], Kept(k))}
  <1>2. 0 \in S
    <2>1. f[0] = <<>> /\ 0 \in 0..height
      BY <1>1 DEF IsSeeing, Framed
    <2>2. Kept(0) = {}
      BY DEF Kept
    <2>3. IsListOf(<<>>, {})
      BY DEF IsListOf, Ascending, ToSet
    <2>4. QED
      BY <2>1, <2>2, <2>3
  <1>3. ASSUME NEW k \in 0..height-1, k \in S PROVE k+1 \in S
    <2>1. k+1 \in 0..height /\ k+1 # 0 /\ (k+1)-1 = k /\ k \in Nat /\ \A j \in 0..k-1 : j \in 0..height-1
      BY DEF Framed
    <2>2. PICK s : s = f[k]
      OBVIOUS
    <2>3. f[k+1] = IF Seen(s, k) THEN s ELSE Append(s, k)
      BY <1>1, <2>1, <2>2 DEF IsSeeing
    <2>4. IsListOf(s, Kept(k))
      BY <1>3, <2>2
    <2>5. ASSUME NEW j \in Kept(k)
          PROVE  rowsEqual(k, j) <=>
                   IF IsNullRow(k) THEN IsNullRow(j) ELSE ~IsNullRow(j) /\ rowsEqual(k, j)
      <3>1. j \in 0..height-1
        BY <2>1 DEF Kept
      <3>2. QED
        BY <3>1, RowEquality
    <2>6. Seen(s, k) <=> \E j \in Kept(k) : rowsEqual(k, j)
      <3>1. Kept(k) = {s[l] : l \in DOMAIN s}
        BY <2>4 DEF IsListOf, ToSet
      <3>2. QED
        BY <2>5, <3>1 DEF Seen
    <2>7. Kept(k) \subseteq 0..k-1
      BY KeptGrows
    <2>8. IsListOf(f[k+1], Kept(k+1))
      <3>1. IsListOf(Append(s, k), Kept(k) \cup {k})
        BY <2>1, <2>4, <2>7, ListGrows
      <3>2. Kept(k+1) = IF Seen(s, k) THEN Kept(k) ELSE Kept(k) \cup {k}
        BY <2>6, KeptGrows
      <3>3. QED
        BY <2>3, <2>4, <3>1, <3>2
    <2>9. QED
      BY <2>1, <2>8
  <1>4. height \in S
    <2> HIDE DEF S
    <2>1. 0..height \subseteq S /\ height \in 0..height
      BY <1>2, <1>3, IntervalInduction DEF Framed
    <2>2. QED
      BY <2>1
  <1>5. QED
    BY <1>1, <1>4

-----------------------------------------------------------------------------
(* IsDuplicated                                                            *)

Entry == [count : Nat, row : Int]
RowsOf(t) == [p \in 0..Capacity-1 |-> t[p].row]
SameBefore(i, k) == {j \in 0..k-1 : rowsEqual(i, j)}

(* The entries after k rows: a set of the rows with a value that is new,   *)
(* and with each the number of rows that have it.                          *)
EntriesOK(t, k) ==
  /\ t \in [0..Capacity-1 -> Entry]
  /\ SetOK(RowsOf(t), KeptValues(k))
  /\ \A p \in 0..Capacity-1 :
       t[p].row # htEmpty => t[p].count = Cardinality(SameBefore(t[p].row, k))

(* One more row of a value, or of another one.                             *)
LEMMA SameGrows ==
  ASSUME NEW k \in Nat, NEW i
  PROVE  /\ IsFiniteSet(SameBefore(i, k)) /\ Cardinality(SameBefore(i, k)) \in Nat
         /\ Cardinality(SameBefore(i, k+1)) =
              Cardinality(SameBefore(i, k)) + IF rowsEqual(i, k) THEN 1 ELSE 0
  <1>1. 0..k = 0..k-1 \cup {k} /\ k+1-1 = k /\ 0 \in Int /\ k-1 \in Int
    OBVIOUS
  <1>2. IsFiniteSet(0..k-1)
    BY <1>1, FS_Interval
  <1>3. SameBefore(i, k) \subseteq 0..k-1 /\ k \notin SameBefore(i, k)
    BY DEF SameBefore
  <1>4. IsFiniteSet(SameBefore(i, k)) /\ Cardinality(SameBefore(i, k)) \in Nat
    BY <1>2, <1>3, FS_Subset, FS_CardinalityType
  <1>5. SameBefore(i, k+1) = IF rowsEqual(i, k) THEN SameBefore(i, k) \cup {k} ELSE SameBefore(i, k)
    BY <1>1 DEF SameBefore
  <1>6. Cardinality(SameBefore(i, k) \cup {k}) = Cardinality(SameBefore(i, k)) + 1
    BY <1>3, <1>4, FS_AddElement
  <1>7. QED
    BY <1>4, <1>5, <1>6

LEMMA CountStep ==
  ASSUME Framed, KeysWellBehaved, NEW k \in 0..height-1, NEW t, EntriesOK(t, k)
  PROVE  EntriesOK(Counted(t, k), k+1)
  <1>1. /\ k \in Nat /\ height \in Nat /\ \A j \in 0..k-1 : j \in 0..height-1
        /\ \A j \in KeptValues(k) : j \in 0..k-1 /\ j \in 0..height-1 /\ ~IsNullRow(j)
    BY DEF Framed, KeptValues, Kept
  <1>2. PICK r : r = RowsOf(t)
    OBVIOUS
  <1>3. /\ SetOK(r, KeptValues(k)) /\ \A q \in 0..Capacity-1 : r[q] = t[q].row
        /\ DOMAIN t = 0..Capacity-1 /\ \A q \in 0..Capacity-1 : r[q] \in KeptValues(k) \cup {htEmpty}
    BY <1>2 DEF EntriesOK, RowsOf, SetOK
  <1>4. CASE IsNullRow(k)
    <2>1. Counted(t, k) = t
      BY <1>4 DEF Counted
    <2>2. KeptValues(k+1) = KeptValues(k)
      BY <1>4, KeptGrows DEF KeptValues
    <2>3. ASSUME NEW j \in KeptValues(k) PROVE Cardinality(SameBefore(j, k+1)) = Cardinality(SameBefore(j, k))
      <3>1. ~rowsEqual(j, k)
        BY <1>1, <1>4, RowEquality
      <3>2. QED
        BY <1>1, <3>1, SameGrows
    <2>4. QED
      BY <1>3, <2>1, <2>2, <2>3 DEF EntriesOK
  <1>5. CASE ~IsNullRow(k)
    <2>1. PICK p : p = StopsAt(StopDists(r, k), k)
      OBVIOUS
    <2>2. /\ p \in 0..Capacity-1
          /\ r[p] # htEmpty => r[p] \in KeptValues(k) /\ rowsEqual(k, r[p])
          /\ r[p] = htEmpty => /\ \A j \in KeptValues(k) : ~rowsEqual(k, j)
                               /\ SetOK([r EXCEPT ![p] = k], KeptValues(k) \cup {k})
      BY <1>3, <2>1, ProbeStops
    <2>3. StopDists(r, k) = {d \in 0..Capacity-1 :
                               t[Home(k, d)].row = htEmpty \/ HoldsValue(t[Home(k, d)], k)}
      <3>1. ASSUME NEW d \in 0..Capacity-1
            PROVE  r[Home(k, d)] = htEmpty \/ rowsEqual(k, r[Home(k, d)])
                     <=> t[Home(k, d)].row = htEmpty \/ HoldsValue(t[Home(k, d)], k)
        <4>1. PICK q : q = Home(k, d)
          OBVIOUS
        <4>2. q \in 0..Capacity-1
          BY <4>1, HomeInSet
        <4>3. r[q] = t[q].row /\ r[q] \in KeptValues(k) \cup {htEmpty}
          BY <1>3, <4>2
        <4>4. r[q] # htEmpty /\ rowsEqual(k, r[q]) => Hash[key[r[q]]] = Hash[key[k]]
          BY <1>1, <4>3, RowEquality
        <4>5. QED
          BY <4>1, <4>3, <4>4 DEF HoldsValue
      <3>2. QED
        BY <3>1 DEF StopDists
    <2>4. Counted(t, k) = IF t[p].row = htEmpty THEN [t EXCEPT ![p] = [count |-> 1, row |-> k]]
                          ELSE [t EXCEPT ![p].count = @ + 1]
      <3>1. Cardinality(DOMAIN t) = Capacity
        BY <1>3, TableLength
      <3>2. p = StopAt(t, Hash[key[k]], LAMBDA e : e.row = htEmpty \/ HoldsValue(e, k))
        BY <2>1, <2>3, <3>1 DEF StopAt, StopsAt, Home
      <3>3. QED
        BY <1>5, <3>2 DEF Counted
    <2>5. CASE t[p].row = htEmpty
      <3>1. PICK u : u = [t EXCEPT ![p] = [count |-> 1, row |-> k]]
        OBVIOUS
      <3>2. /\ u \in [0..Capacity-1 -> Entry] /\ u[p].row = k /\ u[p].count = 1
            /\ \A q \in 0..Capacity-1 : q # p => u[q] = t[q]
        BY <1>1, <2>2, <3>1 DEF EntriesOK, Entry
      <3>3. RowsOf(u) = [r EXCEPT ![p] = k]
        BY <1>2, <2>2, <3>2 DEF RowsOf
      <3>4. r[p] = htEmpty
        BY <1>3, <2>2, <2>5
      <3>5. KeptValues(k+1) = KeptValues(k) \cup {k} /\ \A j \in 0..k-1 : ~rowsEqual(k, j)
        BY <1>5, <2>2, <3>4, ValueKept
      <3>6. SetOK(RowsOf(u), KeptValues(k+1))
        BY <2>2, <3>3, <3>4, <3>5
      <3>7. Cardinality(SameBefore(k, k+1)) = 1
        <4>1. SameBefore(k, k) = {}
          BY <3>5 DEF SameBefore
        <4>2. rowsEqual(k, k)
          BY RowEquality
        <4>3. QED
          BY <1>1, <4>1, <4>2, SameGrows, FS_EmptySet
      <3>8. ASSUME NEW q \in 0..Capacity-1, q # p, u[q].row # htEmpty
            PROVE  u[q].count = Cardinality(SameBefore(u[q].row, k+1))
        <4>1. PICK j : j = t[q].row
          OBVIOUS
        <4>2. j \in KeptValues(k) /\ t[q].count = Cardinality(SameBefore(j, k))
          BY <1>3, <3>2, <3>8, <4>1 DEF EntriesOK
        <4>3. ~rowsEqual(j, k)
          BY <1>1, <3>5, <4>2, RowEquality
        <4>4. Cardinality(SameBefore(j, k+1)) = Cardinality(SameBefore(j, k))
          BY <1>1, <4>3, SameGrows
        <4>5. QED
          BY <3>2, <3>8, <4>1, <4>2, <4>4
      <3>9. EntriesOK(u, k+1)
        BY <3>2, <3>6, <3>7, <3>8 DEF EntriesOK
      <3>10. QED
        BY <2>4, <2>5, <3>1, <3>9
    <2>6. CASE t[p].row # htEmpty
      <3>1. PICK u : u = [t EXCEPT ![p] = [t[p] EXCEPT !.count = t[p].count + 1]]
        OBVIOUS
      <3>2. Counted(t, k) = u
        BY <2>4, <2>6, <3>1
      <3>3. /\ u \in [0..Capacity-1 -> Entry] /\ u[p].row = t[p].row /\ u[p].count = t[p].count + 1
            /\ \A q \in 0..Capacity-1 : q # p => u[q] = t[q]
        BY <2>2, <3>1 DEF EntriesOK, Entry
      <3>4. RowsOf(u) = r
        BY <1>2, <3>3 DEF RowsOf
      <3>5. PICK i : i = r[p]
        OBVIOUS
      <3>6. i = t[p].row /\ i \in KeptValues(k) /\ rowsEqual(k, i) /\ rowsEqual(i, k)
        BY <1>1, <1>3, <2>2, <2>6, <3>5, RowEquality
      <3>7. KeptValues(k+1) = KeptValues(k)
        BY <1>5, <3>6, ValueKept
      <3>8. u[p].count = Cardinality(SameBefore(u[p].row, k+1))
        <4>1. t[p].count = Cardinality(SameBefore(i, k))
          BY <2>2, <2>6, <3>6 DEF EntriesOK
        <4>2. QED
          BY <1>1, <3>3, <3>6, <4>1, SameGrows
      <3>9. ASSUME NEW q \in 0..Capacity-1, q # p, u[q].row # htEmpty
            PROVE  u[q].count = Cardinality(SameBefore(u[q].row, k+1))
        <4>1. PICK j : j = t[q].row
          OBVIOUS
        <4>2. j = r[q] /\ j \in KeptValues(k) /\ t[q].count = Cardinality(SameBefore(j, k))
          BY <1>3, <3>3, <3>9, <4>1 DEF EntriesOK
        <4>3. j # i
          BY <1>3, <2>2, <3>5, <3>9, <3>3, <4>1, <4>2 DEF SetOK
        <4>4. ~rowsEqual(j, i)
          BY <1>3, <3>6, <4>2, <4>3 DEF SetOK
        <4>5. ~rowsEqual(j, k)
          BY <1>1, <3>6, <4>2, <4>4, RowEquality
        <4>6. Cardinality(SameBefore(j, k+1)) = Cardinality(SameBefore(j, k))
          BY <1>1, <4>5, SameGrows
        <4>7. QED
          BY <3>3, <3>9, <4>1, <4>2, <4>6
      <3>10. EntriesOK(u, k+1)
        BY <1>3, <3>3, <3>4, <3>7, <3>8, <3>9 DEF EntriesOK
      <3>11. QED
        BY <3>2, <3>10
    <2>7. QED
      BY <2>5, <2>6
  <1>6. QED
    BY <1>4, <1>5

IsCounting(f) ==
  f = [k \in 0..height |->
         IF k = 0 THEN [p \in 0..Capacity-1 |-> NoEntry] ELSE Counted(f[k-1], k-1)]

EntryStates == [0..Capacity-1 -> Entry]

LEMMA EntryStateNext ==
  ASSUME NEW i \in Nat, NEW t \in EntryStates
  PROVE  Counted(t, i) \in EntryStates
  <1>1. PICK p : p = StopAt(t, Hash[key[i]], LAMBDA e : e.row = htEmpty \/ HoldsValue(e, i))
    OBVIOUS
  <1>2. Counted(t, i) = IF IsNullRow(i) THEN t
          ELSE IF t[p].row = htEmpty THEN [t EXCEPT ![p] = [count |-> 1, row |-> i]]
          ELSE [t EXCEPT ![p] = [t[p] EXCEPT !.count = t[p].count + 1]]
    BY <1>1 DEF Counted
  <1>3. \A D : \A u \in [D -> Entry] : \A e \in Entry : [u EXCEPT ![p] = e] \in [D -> Entry]
    <2> SUFFICES ASSUME NEW D, NEW u \in [D -> Entry], NEW e \in Entry
                 PROVE  [u EXCEPT ![p] = e] \in [D -> Entry]
      OBVIOUS
    <2>1. [u EXCEPT ![p] = e] = [q \in D |-> IF q = p THEN e ELSE u[q]]
      OBVIOUS
    <2>2. QED
      BY <2>1
  <1>4. [count |-> 1, row |-> i] \in Entry
    BY DEF Entry
  <1>5. CASE p \in 0..Capacity-1
    <2>1. t[p] \in Entry
      BY <1>5 DEF EntryStates
    <2>2. [t[p] EXCEPT !.count = t[p].count + 1] \in Entry
      BY <2>1 DEF Entry
    <2>3. QED
      BY <1>2, <1>3, <1>4, <2>2 DEF EntryStates
  <1>6. CASE p \notin 0..Capacity-1
    <2>1. \A e : [t EXCEPT ![p] = e] = t
      BY <1>6 DEF EntryStates
    <2>2. QED
      BY <1>2, <2>1
  <1>7. QED
    BY <1>5, <1>6

LEMMA CountingExists ==
  ASSUME Framed
  PROVE  \E f : IsCounting(f)
  <1>0. PICK none : none = [p \in 0..Capacity-1 |-> NoEntry]
    OBVIOUS
  <1>1. PICK step : step = [k \in 1..height |-> [t \in EntryStates |-> Counted(t, k-1)]]
    OBVIOUS
  <1>2. none \in EntryStates
    BY <1>0 DEF EntryStates, Entry, NoEntry, htEmpty
  <1>3. \A k \in 1..height : k-1 \in Nat
    OBVIOUS
  <1>4. \A k \in 1..height : \A t \in EntryStates : step[k][t] = Counted(t, k-1) /\ step[k][t] \in EntryStates
    BY <1>1, <1>3, EntryStateNext
  <1>5. PICK f : IsLoop(f, EntryStates, none, step, height)
    BY <1>2, <1>4, LoopExists DEF Framed
  <1>6. \A k \in 0..height : f[k] = IF k = 0 THEN none ELSE Counted(f[k-1], k-1)
    <2> SUFFICES ASSUME NEW k \in 0..height PROVE f[k] = IF k = 0 THEN none ELSE Counted(f[k-1], k-1)
      OBVIOUS
    <2>1. f[k] = IF k = 0 THEN none ELSE step[k][f[k-1]]
      BY <1>5 DEF IsLoop
    <2>2. k = 0 \/ (k \in 1..height /\ k-1 \in 0..height)
      BY DEF Framed
    <2>3. k # 0 => f[k-1] \in EntryStates
      BY <1>5, <2>2 DEF IsLoop
    <2>4. QED
      BY <1>4, <2>1, <2>2, <2>3
  <1>7. f = [k \in 0..height |-> f[k]]
    BY <1>5 DEF IsLoop
  <1>8. f = [k \in 0..height |-> IF k = 0 THEN none ELSE Counted(f[k-1], k-1)]
    BY <1>6, <1>7, Zenon
  <1>9. IsCounting(f)
    BY <1>0, <1>8 DEF IsCounting
  <1>10. QED
    BY <1>9

LEMMA EntriesCount ==
  ASSUME Framed, KeysWellBehaved
  PROVE  EntriesOK(Entries, height)
  <1>1. PICK f : IsCounting(f) /\ Entries = f[height]
    <2>1. PICK g : g = CHOOSE f : IsCounting(f)
      OBVIOUS
    <2>2. Entries = g[height]
      BY <2>1 DEF Entries, IsCounting
    <2>3. IsCounting(g)
      BY <2>1, CountingExists
    <2>4. QED
      BY <2>2, <2>3
  <1> DEFINE S == {k \in 0..height : EntriesOK(f[k], k)}
  <1>2. 0 \in S
    <2>1. f[0] = [p \in 0..Capacity-1 |-> NoEntry] /\ 0 \in 0..height
      BY <1>1 DEF IsCounting, Framed
    <2>2. PICK t : t = f[0]
      OBVIOUS
    <2>3. t \in [0..Capacity-1 -> Entry] /\ \A p \in 0..Capacity-1 : t[p].row = htEmpty
      BY <2>1, <2>2 DEF NoEntry, Entry, htEmpty
    <2>4. RowsOf(t) = NoRows /\ KeptValues(0) = {}
      BY <2>3 DEF RowsOf, NoRows, KeptValues, Kept
    <2>5. EntriesOK(t, 0)
      BY <2>3, <2>4, EmptySetOK DEF EntriesOK
    <2>6. QED
      BY <2>1, <2>2, <2>5
  <1>3. ASSUME NEW k \in 0..height-1, k \in S PROVE k+1 \in S
    <2>1. k+1 \in 0..height /\ k+1 # 0 /\ (k+1)-1 = k
      BY DEF Framed
    <2>2. f[k+1] = Counted(f[k], k)
      BY <1>1, <2>1 DEF IsCounting
    <2>3. EntriesOK(f[k+1], k+1)
      BY <1>3, <2>2, CountStep
    <2>4. QED
      BY <2>1, <2>3
  <1>4. height \in S
    <2> HIDE DEF S
    <2>1. 0..height \subseteq S /\ height \in 0..height
      BY <1>2, <1>3, IntervalInduction DEF Framed
    <2>2. QED
      BY <2>1
  <1>5. QED
    BY <1>1, <1>4

(* Another row in a finite set than this one                               *)
LEMMA OneMore ==
  ASSUME NEW S, IsFiniteSet(S), NEW i \in S
  PROVE  Cardinality(S) > 1 <=> S \ {i} # {}
  <1>1. IsFiniteSet(S \ {i}) /\ Cardinality(S \ {i}) = Cardinality(S) - 1
    BY FS_RemoveElement
  <1>2. /\ Cardinality(S) \in Nat /\ Cardinality(S \ {i}) \in Nat
        /\ (Cardinality(S \ {i}) = 0 <=> S \ {i} = {})
    BY <1>1, FS_CardinalityType, FS_EmptySet
  <1>3. QED
    BY <1>1, <1>2

(* The second pass finds the entry of every row with a value.              *)
LEMMA FoundIsEntry ==
  ASSUME Framed, KeysWellBehaved, NEW i \in 0..height-1, ~IsNullRow(i)
  PROVE  /\ Found(i) \in 0..Capacity-1
         /\ Entries[Found(i)].count > 1 <=> \E j \in 0..height-1 : j # i /\ rowsEqual(i, j)
  <1>1. PICK t, r : t = Entries /\ r = RowsOf(t)
    OBVIOUS
  <1>2. /\ SetOK(r, KeptValues(height)) /\ DOMAIN t = 0..Capacity-1
        /\ \A q \in 0..Capacity-1 : r[q] = t[q].row /\ r[q] \in KeptValues(height) \cup {htEmpty}
        /\ \A q \in 0..Capacity-1 :
             r[q] # htEmpty => t[q].count = Cardinality(SameBefore(r[q], height))
    BY <1>1, EntriesCount DEF EntriesOK, RowsOf, SetOK
  <1>3. height \in 0..height /\ height \in Nat /\ htEmpty = -1
        /\ \A j \in KeptValues(height) : j \in 0..height-1 /\ j # htEmpty
    BY DEF Framed, KeptValues, Kept, htEmpty
  <1>4. PICK l \in KeptValues(height) : rowsEqual(i, l)
    <2>1. PICK l \in Kept(height) : rowsEqual(i, l)
      BY <1>3, KeptCover
    <2>2. l \in 0..height-1
      BY <2>1 DEF Kept
    <2>3. QED
      BY <2>1, <2>2, RowEquality DEF KeptValues
  <1>5. PICK dists : dists = {d \in 0..Capacity-1 : HoldsValue(t[Home(i, d)], i)}
    OBVIOUS
  <1>6. Found(i) = StopsAt(dists, i)
    <2>1. Cardinality(DOMAIN t) = Capacity
      BY <1>2, TableLength
    <2>2. QED
      BY <1>1, <1>5, <2>1 DEF Found, StopAt, StopsAt, Home
  <1>7. dists # {} /\ dists \in SUBSET Nat
    <2>1. PICK d \in 0..Capacity-1 : Walk(r, l, d)
      BY <1>2 DEF SetOK
    <2>2. PICK q : q = Home(i, d)
      OBVIOUS
    <2>3. Hash[key[i]] = Hash[key[l]]
      BY <1>3, <1>4, RowEquality
    <2>4. r[q] = l
      BY <2>1, <2>2, <2>3 DEF Walk, Home
    <2>5. q \in 0..Capacity-1
      BY <2>2, HomeInSet
    <2>6. t[q].row = l /\ l # htEmpty
      BY <1>2, <1>3, <2>4, <2>5
    <2>7. HoldsValue(t[q], i)
      BY <1>4, <2>3, <2>6 DEF HoldsValue
    <2>8. d \in dists
      BY <1>5, <2>2, <2>7
    <2>9. Capacity \in Nat
      BY CapacityHolds DEF Framed
    <2>10. dists \in SUBSET Nat
      BY <1>5, <2>9
    <2>11. QED
      BY <2>8, <2>10
  <1>8. PICK q : q = Found(i)
    OBVIOUS
  <1>9. q \in 0..Capacity-1 /\ HoldsValue(t[q], i)
    <2>1. PICK m : m = Min(dists)
      OBVIOUS
    <2>2. m \in dists
      BY <1>7, <2>1, LeastIsMin
    <2>3. q = Home(i, m)
      BY <1>6, <1>7, <1>8, <2>1 DEF StopsAt
    <2>4. m \in Nat /\ HoldsValue(t[q], i)
      BY <1>5, <1>7, <2>2, <2>3
    <2>5. QED
      BY <2>3, <2>4, HomeInSet
  <1>10. PICK o : o = r[q]
    OBVIOUS
  <1>11. o \in KeptValues(height) /\ rowsEqual(i, o) /\ t[q].count = Cardinality(SameBefore(o, height))
    BY <1>2, <1>9, <1>10 DEF HoldsValue
  <1>12. SameBefore(o, height) = {j \in 0..height-1 : rowsEqual(i, j)}
    <2>1. o \in 0..height-1
      BY <1>3, <1>11
    <2>2. ASSUME NEW j \in 0..height-1 PROVE rowsEqual(o, j) <=> rowsEqual(i, j)
      BY <1>11, <2>1, RowEquality
    <2>3. QED
      BY <2>2 DEF SameBefore
  <1>13. IsFiniteSet(SameBefore(o, height)) /\ i \in SameBefore(o, height)
    BY <1>3, <1>12, SameGrows, RowEquality
  <1>14. Cardinality(SameBefore(o, height)) > 1 <=> SameBefore(o, height) \ {i} # {}
    BY <1>13, OneMore
  <1>15. QED
    BY <1>1, <1>8, <1>9, <1>11, <1>12, <1>14

LEMMA DuplicatedRight ==
  ASSUME Framed, KeysWellBehaved, NEW i \in 0..height-1
  PROVE  /\ IsNullRow(i) \/ Found(i) \in 0..Capacity-1
         /\ IsDuplicated("hashed")[i] <=> \E j \in 0..height-1 : j # i /\ rowsEqual(i, j)
  <1> DEFINE nulls == {j \in 0..height-1 : IsNullRow(j)}
  <1>1. IsDuplicated("hashed")[i] = IF IsNullRow(i) THEN Cardinality(nulls) > 1
                                    ELSE Entries[Found(i)].count > 1
    BY DEF IsDuplicated
  <1>2. CASE ~IsNullRow(i)
    BY <1>1, <1>2, FoundIsEntry
  <1>3. CASE IsNullRow(i)
    <2>1. 0 \in Int /\ height-1 \in Int
      BY DEF Framed
    <2>2. IsFiniteSet(0..height-1) /\ nulls \subseteq 0..height-1
      BY <2>1, FS_Interval
    <2>3. IsFiniteSet(nulls) /\ i \in nulls
      BY <1>3, <2>2, FS_Subset
    <2>4. Cardinality(nulls) > 1 <=> \E j \in nulls : j # i
      <3> HIDE DEF nulls
      <3>1. PICK N : N = nulls
        OBVIOUS
      <3>2. IsFiniteSet(N) /\ i \in N
        BY <2>3, <3>1
      <3>3. Cardinality(N) > 1 <=> N \ {i} # {}
        BY <3>2, OneMore
      <3>4. QED
        BY <3>1, <3>3
    <2>5. \A j \in 0..height-1 : IsNullRow(j) <=> rowsEqual(i, j)
      BY <1>3, RowEquality
    <2>6. QED
      BY <1>1, <1>3, <2>4, <2>5
  <1>4. QED
    BY <1>2, <1>3

-----------------------------------------------------------------------------
(* The data frame                                                          *)

LEMMA AgreesRight ==
  ASSUME FullInv, KeysWellBehaved, KeepsFirstOccurrences
  PROVE  SeriesAgreesWithFrame
  <1> SUFFICES ASSUME pc = "done", op = "unique"
               PROVE  /\ \A layout \in Layouts \ {"other"} : Unique(layout) = indices
                      /\ \A i \in 0..height-1 :
                           /\ IsNullRow(i) \/ Found(i) \in 0..Capacity-1
                           /\ IsDuplicated("hashed")[i] <=> \E j \in 0..height-1 : j # i /\ rowsEqual(i, j)
    BY DEF SeriesAgreesWithFrame
  <1>1. /\ height \in Heights /\ key \in [0..height-1 -> Keys] /\ indices \in Seq(Nat)
        /\ DOMAIN key = 0..height-1 /\ height \in Nat
    BY TableAssumption DEF FullInv, Inv, TypeInv
  <1>2. Framed
    BY <1>1 DEF Framed
  <1>3. IsListOf(indices, Kept(height))
    <2>1. {indices[k] : k \in DOMAIN indices} = {i \in 0..height-1 : FirstOccurrence(i)}
      BY <1>1 DEF KeepsFirstOccurrences
    <2>2. \A k, l \in DOMAIN indices : k < l => indices[k] < indices[l]
      BY DEF KeepsFirstOccurrences
    <2>3. indices \in Seq(Int)
      BY <1>1
    <2>4. QED
      BY <2>1, <2>2, <2>3 DEF IsListOf, Kept, Ascending, ToSet
  <1>4. \A s : IsListOf(s, Kept(height)) => s = RowList(Kept(height))
    BY AscendingIsRowList DEF IsListOf
  <1>5. UniqueHashed = indices /\ UniqueSeen = indices
    BY <1>2, <1>3, <1>4, HashedKeepsFirsts, SeenKeepsFirsts
  <1>6. \A layout \in Layouts \ {"other"} : Unique(layout) = indices
    BY <1>5 DEF Layouts, Unique
  <1>7. QED
    BY <1>2, <1>6, DuplicatedRight

(* Unique of a series keeps the rows that Unique of the data frame keeps,  *)
(* with hash sets that never grow and without them, and IsDuplicated finds *)
(* every row again and marks those whose value another row has: for every  *)
(* hash function, size of the set and place of the nulls.                  *)
THEOREM SeriesUniqueAgrees == KeysWellBehaved => (Spec => []SeriesAgreesWithFrame)
  <1> SUFFICES ASSUME KeysWellBehaved PROVE Spec => []SeriesAgreesWithFrame
    OBVIOUS
  <1>1. FullInv /\ KeepsFirstOccurrences => SeriesAgreesWithFrame
    BY AgreesRight
  <1>2. Spec => []KeepsFirstOccurrences
    BY FirstOccurrencesKept
  <1>3. Spec => []FullInv
    BY OrderInvariant
  <1>4. QED
    BY <1>1, <1>2, <1>3, PTL

-----------------------------------------------------------------------------
(* The table of a window                                                   *)

(* The distances at which a lookup would stop: at a free slot for an entry *)
(* that is moved, at the entry of the row's group for findGID, at either   *)
(* for a probe; and the slot the first of them leads to.                   *)
FreeDists(t, h) ==
  {d \in 0..Cardinality(DOMAIN t)-1 : IsEmpty(t[SlotAt(h, d, Cardinality(DOMAIN t))])}
FoundDists(t, h, i) ==
  {d \in 0..Cardinality(DOMAIN t)-1 : HoldsRow(i, t[SlotAt(h, d, Cardinality(DOMAIN t))])}
ProbeDists(t, h, i) ==
  {d \in 0..Cardinality(DOMAIN t)-1 : \/ IsEmpty(t[SlotAt(h, d, Cardinality(DOMAIN t))])
                                      \/ HoldsRow(i, t[SlotAt(h, d, Cardinality(DOMAIN t))])}
FirstSlot(t, h, dists) ==
  IF dists = {} THEN -1 ELSE SlotAt(h, Min(dists), Cardinality(DOMAIN t))

LEMMA MovedUnfolds ==
  ASSUME NEW t, NEW s
  PROVE  Moved(t, s) = IF IsEmpty(s) THEN t
                       ELSE [t EXCEPT ![FirstSlot(t, s.hash, FreeDists(t, s.hash))] = s]
  BY DEF Moved, StopAt, FirstSlot, FreeDists

NewEntry(x, i) == [hash |-> Hash[key[i]], firstRow |-> i, gid |-> x.nGroups]
ProbeSlot(x, i) == FirstSlot(x.slots, Hash[key[i]], ProbeDists(x.slots, Hash[key[i]], i))
FilledSlots(x, i) == [x.slots EXCEPT ![ProbeSlot(x, i)] = NewEntry(x, i)]
FoundSlot(t, i) == FirstSlot(t, Hash[key[i]], FoundDists(t, Hash[key[i]], i))

LEMMA ProbedUnfolds ==
  ASSUME NEW x, NEW i
  PROVE  Probed(x, i) =
           IF ~IsEmpty(x.slots[ProbeSlot(x, i)])
             THEN [x EXCEPT !.groupIDs = Append(@, x.slots[ProbeSlot(x, i)].gid)]
           ELSE IF (x.nGroups + 1) * 2 < Cardinality(DOMAIN x.slots)
             THEN [slots |-> FilledSlots(x, i), nGroups |-> x.nGroups + 1,
                   groupIDs |-> Append(x.groupIDs, x.nGroups)]
           ELSE [slots |-> Grown(FilledSlots(x, i)), nGroups |-> x.nGroups + 1,
                 groupIDs |-> Append(x.groupIDs,
                   Grown(FilledSlots(x, i))[FoundSlot(Grown(FilledSlots(x, i)), i)].gid)]
  BY DEF Probed, StopAt, FirstSlot, ProbeDists, FoundDists, NewEntry, ProbeSlot, FilledSlots, FoundSlot

IsMoving(f, t) ==
  f = [s \in SUBSET (DOMAIN [k \in 1..Cardinality(DOMAIN t) |-> t[k-1]]) |->
         IF s = {} THEN EmptyTable(2 * Cardinality(DOMAIN t))
         ELSE Moved(f[s \ {Max(s)}], [k \in 1..Cardinality(DOMAIN t) |-> t[k-1]][Max(s)])]

LEMMA GrownUnfolds ==
  ASSUME NEW t
  PROVE  Grown(t) = (CHOOSE f : IsMoving(f, t))[DOMAIN [k \in 1..Cardinality(DOMAIN t) |-> t[k-1]]]
  BY DEF Grown, FoldLeft, MapThenFoldSet, IsMoving

LEMMA DomainSize ==
  ASSUME NEW n \in Nat, NEW t, DOMAIN t = 0..n-1
  PROVE  Cardinality(DOMAIN t) = n
  <1>1. 0 \in Int /\ n-1 \in Int
    OBVIOUS
  <1>2. Cardinality(0..n-1) = IF 0 > n-1 THEN 0 ELSE (n-1)-0+1
    BY <1>1, FS_Interval
  <1>3. QED
    BY <1>2

(* A table with fewer groups than slots has a free slot.                   *)
LEMMA FreeSlotLeft ==
  ASSUME NEW tab, NEW n \in Nat \ {0}, NEW groups \in Nat, groups < n, TableOK(tab, n, groups)
  PROVE  \E p \in 0..n-1 : ~Occupied(tab, p)
  <1> SUFFICES ASSUME \A p \in 0..n-1 : Occupied(tab, p) PROVE FALSE
    OBVIOUS
  <1>1. PICK S, T, g : S = 0..n-1 /\ T = 0..groups-1 /\ g = [p \in 0..n-1 |-> tab[p].gid]
    OBVIOUS
  <1>2. \A m \in Nat : IsFiniteSet(0..m-1) /\ Cardinality(0..m-1) = m
    <2> SUFFICES ASSUME NEW m \in Nat PROVE IsFiniteSet(0..m-1) /\ Cardinality(0..m-1) = m
      OBVIOUS
    <2>1. 0 \in Int /\ m-1 \in Int
      OBVIOUS
    <2>2. /\ IsFiniteSet(0..m-1)
          /\ Cardinality(0..m-1) = IF 0 > m-1 THEN 0 ELSE (m-1)-0+1
      BY <2>1, FS_Interval
    <2>3. QED
      BY <2>2
  <1>3. \A p \in 0..n-1 : tab[p].gid \in Nat /\ tab[p].gid < groups
    BY DEF TableOK, SlotType
  <1>4. g \in [S -> T]
    BY <1>1, <1>3
  <1>5. IsFiniteSet(S) /\ IsFiniteSet(T) /\ Cardinality(T) < Cardinality(S)
    BY <1>1, <1>2
  <1>6. \E x, y \in S : x # y /\ g[x] = g[y]
    BY <1>4, <1>5, FS_PigeonHole
  <1>7. QED
    BY <1>1, <1>6 DEF TableOK

(* A lookup that can stop stops, and at the first slot where it may.       *)
LEMMA LookupStops ==
  ASSUME NEW n \in Nat \ {0}, NEW t, DOMAIN t = 0..n-1, NEW h \in Nat,
         NEW dists \in SUBSET (0..n-1), dists # {}
  PROVE  \E d \in dists : /\ FirstSlot(t, h, dists) = SlotAt(h, d, n)
                          /\ SlotAt(h, d, n) \in 0..n-1
                          /\ \A e \in 0..d-1 : e \notin dists
  <1>1. Cardinality(DOMAIN t) = n
    BY DomainSize
  <1>2. dists \in SUBSET Nat
    OBVIOUS
  <1>3. PICK d : d = Min(dists)
    OBVIOUS
  <1>4. d \in dists /\ \A e \in dists : d <= e
    BY <1>2, <1>3, LeastIsMin
  <1>5. FirstSlot(t, h, dists) = SlotAt(h, d, n)
    BY <1>1, <1>3 DEF FirstSlot
  <1>6. SlotAt(h, d, n) \in 0..n-1
    BY <1>4, SlotInTable
  <1>7. d \in Nat
    BY <1>2, <1>4
  <1>8. \A e \in 0..d-1 : e \notin dists
    BY <1>4, <1>7
  <1>9. QED
    BY <1>4, <1>5, <1>6, <1>8

(* The entries of a table                                                  *)
Entered(t) == {t[p] : p \in {q \in DOMAIN t : Occupied(t, q)}}

LEMMA EntryPutIn ==
  ASSUME NEW t, NEW p \in DOMAIN t, ~Occupied(t, p), NEW e, e.firstRow # htEmpty
  PROVE  Entered([t EXCEPT ![p] = e]) = Entered(t) \cup {e}
  <1>1. PICK u : u = [t EXCEPT ![p] = e]
    OBVIOUS
  <1>2. /\ DOMAIN u = DOMAIN t /\ u[p] = e
        /\ \A q \in DOMAIN t : q # p => u[q] = t[q]
    BY <1>1
  <1>3. Occupied(u, p) /\ \A q \in DOMAIN t : q # p => (Occupied(u, q) <=> Occupied(t, q))
    BY <1>2 DEF Occupied
  <1>4. Entered(u) \subseteq Entered(t) \cup {e}
    BY <1>2, <1>3 DEF Entered
  <1>5. e \in Entered(u)
    BY <1>2, <1>3 DEF Entered
  <1>6. Entered(t) \subseteq Entered(u)
    <2> SUFFICES ASSUME NEW q \in DOMAIN t, Occupied(t, q) PROVE t[q] \in Entered(u)
      BY DEF Entered
    <2>1. q # p
      OBVIOUS
    <2>2. QED
      BY <1>2, <1>3, <2>1 DEF Entered
  <1>7. QED
    BY <1>1, <1>4, <1>5, <1>6

(* An entry may join a table if its group and its key are new there.       *)
MayJoin(t, e, groups) ==
  /\ e \in SlotType /\ e.firstRow \in 0..height-1 /\ e.hash = Hash[key[e.firstRow]]
  /\ e.gid < groups
  /\ \A s \in Entered(t) : s.gid # e.gid /\ ~rowsEqual(e.firstRow, s.firstRow)

(* The slot at distance d is the first free one for an entry.              *)
GoesTo(tab, n, e, d) ==
  /\ d \in 0..n-1 /\ ~Occupied(tab, SlotAt(e.hash, d, n))
  /\ \A c \in 0..d-1 : Occupied(tab, SlotAt(e.hash, c, n))
PutAt(tab, n, e, d) == [tab EXCEPT ![SlotAt(e.hash, d, n)] = e]

LEMMA JoinsAt ==
  ASSUME TypeInv, KeysWellBehaved,
         NEW tab, NEW n \in Nat \ {0}, NEW groups \in Nat, NEW more \in Nat, groups <= more,
         TableOK(tab, n, groups), NEW e, MayJoin(tab, e, more), NEW d, GoesTo(tab, n, e, d)
  PROVE  TableOK(PutAt(tab, n, e, d), n, more) /\ Entered(PutAt(tab, n, e, d)) = Entered(tab) \cup {e}
  <1>0. /\ d \in 0..n-1 /\ ~Occupied(tab, SlotAt(e.hash, d, n))
        /\ \A c \in 0..d-1 : Occupied(tab, SlotAt(e.hash, c, n))
    BY DEF GoesTo
  <1>1. DOMAIN tab = 0..n-1
    BY DEF TableOK
  <1>2. \A p \in 0..n-1 : Occupied(tab, p) => tab[p] \in Entered(tab)
    BY <1>1 DEF Entered
  <1>3. /\ e \in SlotType /\ e.firstRow \in 0..height-1 /\ e.hash = Hash[key[e.firstRow]]
        /\ e.gid < more
    BY DEF MayJoin
  <1>4. \A p \in 0..n-1 : Occupied(tab, p) =>
          tab[p].gid # e.gid /\ ~rowsEqual(e.firstRow, tab[p].firstRow)
    BY <1>2 DEF MayJoin
  <1>5. TableOK([tab EXCEPT ![SlotAt(e.hash, d, n)] = e], n, more)
    BY <1>0, <1>3, <1>4, InsertOK
  <1>6. e.hash \in Nat /\ e.firstRow # htEmpty
    BY <1>3 DEF SlotType, htEmpty
  <1>7. SlotAt(e.hash, d, n) \in DOMAIN tab
    BY <1>0, <1>1, <1>6, SlotInTable
  <1>8. QED
    BY <1>0, <1>5, <1>6, <1>7, EntryPutIn DEF PutAt

(* An entry that is moved goes into the table grow fills.                  *)
LEMMA MovedJoins ==
  ASSUME TypeInv, KeysWellBehaved, NEW tab, NEW m \in Nat \ {0}, NEW groups \in Nat, groups < m,
         TableOK(tab, m, groups), NEW e, MayJoin(tab, e, groups)
  PROVE  /\ TableOK(Moved(tab, e), m, groups)
         /\ Entered(Moved(tab, e)) = Entered(tab) \cup {e}
  <1>1. DOMAIN tab = 0..m-1 /\ Cardinality(DOMAIN tab) = m
    <2>1. DOMAIN tab = 0..m-1
      BY DEF TableOK
    <2>2. QED
      BY <2>1, DomainSize
  <1>2. e.hash \in Nat /\ e.firstRow # htEmpty
    BY DEF MayJoin, SlotType, htEmpty
  <1>3. PICK dists : dists = FreeDists(tab, e.hash)
    OBVIOUS
  <1>4. dists = {d \in 0..m-1 : ~Occupied(tab, SlotAt(e.hash, d, m))}
    BY <1>1, <1>3 DEF FreeDists, IsEmpty, Occupied
  <1>5. dists # {}
    <2>1. PICK p \in 0..m-1 : ~Occupied(tab, p)
      BY FreeSlotLeft
    <2>2. PICK d \in 0..m-1 : SlotAt(e.hash, d, m) = p
      BY <1>2, AnySlotReached
    <2>3. QED
      BY <1>4, <2>1, <2>2
  <1>6. PICK d \in dists : /\ FirstSlot(tab, e.hash, dists) = SlotAt(e.hash, d, m)
                           /\ \A c \in 0..d-1 : c \notin dists
    <2>1. dists \in SUBSET (0..m-1)
      BY <1>4
    <2>2. PICK h : h = e.hash
      OBVIOUS
    <2>3. \E d \in dists : /\ FirstSlot(tab, h, dists) = SlotAt(h, d, m)
                          /\ SlotAt(h, d, m) \in 0..m-1
                          /\ \A c \in 0..d-1 : c \notin dists
      <3>1. h \in Nat /\ DOMAIN tab = 0..m-1
        BY <1>1, <1>2, <2>2
      <3>2. QED
        BY <1>5, <2>1, <3>1, LookupStops
    <2>4. QED
      BY <2>2, <2>3
  <1>7. d \in 0..m-1 /\ ~Occupied(tab, SlotAt(e.hash, d, m))
    BY <1>4
  <1>8. \A c \in 0..d-1 : Occupied(tab, SlotAt(e.hash, c, m))
    BY <1>4, <1>6, <1>7
  <1>9. Moved(tab, e) = PutAt(tab, m, e, d) /\ GoesTo(tab, m, e, d)
    BY <1>2, <1>3, <1>6, <1>7, <1>8, MovedUnfolds DEF IsEmpty, PutAt, GoesTo
  <1>10. TableOK(Moved(tab, e), m, groups) /\ Entered(Moved(tab, e)) = Entered(tab) \cup {e}
    <2>1. groups <= groups
      OBVIOUS
    <2>2. QED
      BY <1>9, <2>1, JoinsAt
  <1>11. QED
    BY <1>10

(* The entries in the slots before k                                       *)
EnteredBefore(t, k) == {t[p] : p \in {q \in 0..k-1 : Occupied(t, q)}}

LEMMA GrowthSteps ==
  ASSUME NEW n \in Nat \ {0}, NEW t \in [0..n-1 -> SlotType]
  PROVE  \E f : /\ f[{}] = EmptyTable(2 * n) /\ Grown(t) = f[1 .. n]
                /\ \A k \in 1 .. n : f[1 .. k] = Moved(f[1 .. k - 1], t[k - 1])
  <1>1. PICK c : c = Cardinality(DOMAIN t)
    OBVIOUS
  <1>2. c = n
    BY <1>1, DomainSize
  <1>3. PICK S : S = [0..2*n-1 -> SlotType]
    OBVIOUS
  <1>4. PICK step : step = [k \in 1 .. n |-> [x \in S |-> Moved(x, t[k - 1])]]
    OBVIOUS
  <1>5. ASSUME NEW k \in 1 .. n, NEW x \in S
        PROVE  step[k][x] = Moved(x, t[k - 1]) /\ step[k][x] \in S
    <2>1. step[k][x] = Moved(x, t[k - 1])
      BY <1>4
    <2>2. k - 1 \in 0..n-1 /\ t[k - 1] \in SlotType
      OBVIOUS
    <2>3. \A p : [x EXCEPT ![p] = t[k - 1]] \in S
      BY <1>3, <2>2
    <2>4. Moved(x, t[k - 1]) \in S
      BY <2>3, MovedUnfolds
    <2>5. QED
      BY <2>1, <2>4
  <1>6. EmptyTable(2 * n) \in S
    BY <1>3 DEF EmptyTable, EmptySlot, SlotType, htEmpty
  <1>7. PICK g : IsFold(g, EmptyTable(2 * n), step, SUBSET (1 .. n)) /\ \A s \in SUBSET (1 .. n) : g[s] \in S
    <2>1. \A k \in 1 .. n : \A x \in S : step[k][x] \in S
      BY <1>5
    <2>2. QED
      BY <1>6, <2>1, FoldExists
  <1>8. PICK list : list = [k \in 1..c |-> t[k-1]]
    OBVIOUS
  <1>9. DOMAIN list = 1 .. n /\ \A k \in 1 .. n : list[k] = t[k-1]
    BY <1>2, <1>8
  <1>10. \A f : IsMoving(f, t) <=> f = [s \in SUBSET (1 .. n) |->
            IF s = {} THEN EmptyTable(2 * n) ELSE Moved(f[s \ {Max(s)}], list[Max(s)])]
    BY <1>1, <1>2, <1>8, <1>9 DEF IsMoving
  <1>11. IsMoving(g, t)
    <2>1. ASSUME NEW s \in SUBSET (1 .. n)
          PROVE  g[s] = IF s = {} THEN EmptyTable(2 * n) ELSE Moved(g[s \ {Max(s)}], list[Max(s)])
      <3>1. CASE s = {}
        BY <1>7, <3>1 DEF IsFold
      <3>2. CASE s # {}
        <4>1. Max(s) \in 1 .. n /\ s \ {Max(s)} \in SUBSET (1 .. n)
          BY <3>2, LastOfPositions
        <4>2. g[s] = step[Max(s)][g[s \ {Max(s)}]]
          BY <1>7, <3>2 DEF IsFold
        <4>3. list[Max(s)] = t[Max(s) - 1] /\ g[s \ {Max(s)}] \in S
          BY <1>7, <1>9, <4>1
        <4>4. QED
          BY <1>5, <3>2, <4>1, <4>2, <4>3
      <3>3. QED
        BY <3>1, <3>2
    <2>2. g = [s \in SUBSET (1 .. n) |-> g[s]]
      BY <1>7 DEF IsFold
    <2>3. QED
      BY <1>10, <2>1, <2>2
  <1>12. PICK f : f = CHOOSE h : IsMoving(h, t)
    OBVIOUS
  <1>13. f = [s \in SUBSET (1 .. n) |->
            IF s = {} THEN EmptyTable(2 * n) ELSE Moved(f[s \ {Max(s)}], list[Max(s)])]
    <2>1. IsMoving(f, t)
      BY <1>11, <1>12
    <2>2. QED
      BY <1>10, <2>1
  <1>14. f[{}] = EmptyTable(2 * n)
    BY <1>13
  <1>15. ASSUME NEW k \in 1 .. n PROVE f[1 .. k] = Moved(f[1 .. k - 1], t[k - 1])
    <2>1. 1 .. k \in SUBSET (1 .. n) /\ 1 .. k # {} /\ Max(1 .. k) = k /\ (1 .. k) \ {k} = 1 .. k - 1
      BY FirstPositions
    <2>2. f[1 .. k] = Moved(f[(1 .. k) \ {Max(1 .. k)}], list[Max(1 .. k)])
      BY <1>13, <2>1
    <2>3. QED
      BY <1>9, <2>1, <2>2
  <1>16. Grown(t) = f[1 .. n]
    BY <1>1, <1>2, <1>9, <1>8, <1>12, GrownUnfolds
  <1>17. QED
    BY <1>14, <1>15, <1>16

(* A larger table has the same entries.                                    *)
LEMMA GrownKeepsEntries ==
  ASSUME TypeInv, KeysWellBehaved, NEW tab, NEW n \in Nat \ {0}, NEW groups \in Nat, groups <= n,
         TableOK(tab, n, groups)
  PROVE  TableOK(Grown(tab), 2 * n, groups) /\ Entered(Grown(tab)) = Entered(tab)
  <1>1. tab \in [0..n-1 -> SlotType] /\ 2 * n \in Nat \ {0} /\ groups < 2 * n
    BY DEF TableOK
  <1>2. PICK f : /\ f[{}] = EmptyTable(2 * n) /\ Grown(tab) = f[1 .. n]
                 /\ \A k \in 1 .. n : f[1 .. k] = Moved(f[1 .. k - 1], tab[k - 1])
    BY <1>1, GrowthSteps
  <1> DEFINE P == {k \in 0..n : /\ TableOK(f[1 .. k], 2 * n, groups)
                               /\ Entered(f[1 .. k]) = EnteredBefore(tab, k)}
  <1>3. 0 \in P
    <2>1. 1 .. 0 = {} /\ f[1 .. 0] = EmptyTable(2 * n)
      BY <1>2
    <2>2. /\ TableOK(EmptyTable(2 * n), 2 * n, groups)
          /\ \A p \in 0..2*n-1 : ~Occupied(EmptyTable(2 * n), p)
      BY <1>1, EmptyTableOK
    <2>3. Entered(EmptyTable(2 * n)) = {}
      BY <2>2 DEF Entered, TableOK
    <2>4. EnteredBefore(tab, 0) = {}
      BY DEF EnteredBefore
    <2>5. QED
      BY <2>1, <2>2, <2>3, <2>4
  <1>4. ASSUME NEW k \in 0..n-1, k \in P PROVE k+1 \in P
    <2>1. k \in Nat /\ k+1 \in 1 .. n /\ k+1 \in 0..n /\ (k+1)-1 = k
      OBVIOUS
    <2>2. PICK u, e : u = f[1 .. k] /\ e = tab[k]
      OBVIOUS
    <2>3. f[1 .. k+1] = Moved(u, e)
      BY <1>2, <2>1, <2>2
    <2>4. TableOK(u, 2 * n, groups) /\ Entered(u) = EnteredBefore(tab, k)
      BY <1>4, <2>2
    <2>5. CASE ~Occupied(tab, k)
      <3>1. Moved(u, e) = u
        BY <2>2, <2>5, MovedUnfolds DEF IsEmpty, Occupied
      <3>2. EnteredBefore(tab, k+1) = EnteredBefore(tab, k)
        <4>1. \A q \in 0..k+1-1 : Occupied(tab, q) => q \in 0..k-1
          BY <2>1, <2>5
        <4>2. \A q \in 0..k-1 : q \in 0..k+1-1
          BY <2>1
        <4>3. QED
          BY <4>1, <4>2 DEF EnteredBefore
      <3>3. QED
        BY <2>1, <2>3, <2>4, <3>1, <3>2
    <2>6. CASE Occupied(tab, k)
      <3>1. k \in 0..n-1 /\ \A p \in 0..k-1 : p \in 0..n-1 /\ p # k
        BY <2>1
      <3>2. MayJoin(u, e, groups)
        <4>1. e \in SlotType
          BY <1>1, <2>2, <3>1
        <4>2. e.firstRow \in 0..height-1 /\ e.hash = Hash[key[e.firstRow]] /\ e.gid < groups
          BY <2>2, <2>6, <3>1 DEF TableOK
        <4>3. ASSUME NEW p \in 0..k-1, Occupied(tab, p)
              PROVE  tab[p].gid # e.gid /\ ~rowsEqual(e.firstRow, tab[p].firstRow)
          BY <2>2, <2>6, <3>1, <4>3 DEF TableOK
        <4>4. \A s \in Entered(u) : s.gid # e.gid /\ ~rowsEqual(e.firstRow, s.firstRow)
          BY <2>4, <4>3 DEF EnteredBefore
        <4>5. QED
          BY <4>1, <4>2, <4>4 DEF MayJoin
      <3>3. /\ TableOK(Moved(u, e), 2 * n, groups)
            /\ Entered(Moved(u, e)) = Entered(u) \cup {e}
        BY <1>1, <2>4, <3>2, MovedJoins
      <3>4. EnteredBefore(tab, k+1) = EnteredBefore(tab, k) \cup {e}
        <4>1. 0..k+1-1 = 0..k-1 \cup {k}
          BY <2>1
        <4>2. QED
          BY <2>2, <2>6, <4>1 DEF EnteredBefore
      <3>5. QED
        BY <2>1, <2>3, <2>4, <3>3, <3>4
    <2>7. QED
      BY <2>5, <2>6
  <1>5. 0..n \subseteq P
    <2> HIDE DEF P
    <2>1. 0 \in Int /\ n \in Int
      OBVIOUS
    <2>2. QED
      BY <1>3, <1>4, <2>1, IntervalInduction
  <1>6. TableOK(f[1 .. n], 2 * n, groups) /\ Entered(f[1 .. n]) = EnteredBefore(tab, n)
    <2>1. n \in 0..n
      OBVIOUS
    <2>2. QED
      BY <1>5, <2>1
  <1>7. EnteredBefore(tab, n) = Entered(tab)
    BY <1>1 DEF EnteredBefore, Entered
  <1>8. QED
    BY <1>2, <1>6, <1>7

(* The table with its groups, as it is between two rows: less than half of *)
(* the slots are in use.                                                   *)
TableShape == [slots : UNION {[0..m-1 -> SlotType] : m \in Nat}, nGroups : Nat, groupIDs : Seq(Nat)]
HasRoom(t, n, groups) == n \in Nat \ {0, 1} /\ TableOK(t, n, groups) /\ 2 * groups < n
TableStates == {x \in TableShape : \E n : HasRoom(x.slots, n, x.nGroups)}

LEMMA TableState ==
  ASSUME NEW t, NEW n, NEW groups \in Nat, HasRoom(t, n, groups), NEW ids \in Seq(Nat)
  PROVE  [slots |-> t, nGroups |-> groups, groupIDs |-> ids] \in TableStates
  <1>1. n \in Nat /\ t \in [0..n-1 -> SlotType]
    BY DEF HasRoom, TableOK
  <1>2. t \in UNION {[0..m-1 -> SlotType] : m \in Nat}
    BY <1>1
  <1>3. PICK x : x = [slots |-> t, nGroups |-> groups, groupIDs |-> ids]
    OBVIOUS
  <1>4. x \in TableShape
    BY <1>2, <1>3 DEF TableShape
  <1>5. x.slots = t /\ x.nGroups = groups
    BY <1>3
  <1>6. QED
    BY <1>3, <1>4, <1>5 DEF TableStates

(* The group a row is given: that of the entry with its key, or the next   *)
(* one, which gets an entry.                                               *)
Answers(x, y, i, g) ==
  /\ g \in Nat /\ y.groupIDs = Append(x.groupIDs, g)
  /\ \/ /\ y.nGroups = x.nGroups /\ Entered(y.slots) = Entered(x.slots)
        /\ \E s \in Entered(x.slots) : s.gid = g /\ rowsEqual(i, s.firstRow)
     \/ /\ y.nGroups = x.nGroups + 1 /\ g = x.nGroups
        /\ Entered(y.slots) = Entered(x.slots) \cup {NewEntry(x, i)}
        /\ \A s \in Entered(x.slots) : ~rowsEqual(i, s.firstRow)

(* A probe that stops at a free slot has met no entry of the row's key.    *)
LEMMA FreeMeansNew ==
  ASSUME TypeInv, KeysWellBehaved, NEW t, NEW n \in Nat \ {0}, NEW groups, TableOK(t, n, groups),
         NEW i \in 0..height-1, NEW d \in 0..n-1, NEW h, h = Hash[key[i]],
         ~Occupied(t, SlotAt(h, d, n)),
         \A c \in 0..d-1 : ~HoldsRow(i, t[SlotAt(h, c, n)])
  PROVE  \A s \in Entered(t) : ~rowsEqual(i, s.firstRow)
  <1> SUFFICES ASSUME NEW p \in 0..n-1, Occupied(t, p), rowsEqual(i, t[p].firstRow) PROVE FALSE
    <2>1. DOMAIN t = 0..n-1
      BY DEF TableOK
    <2>2. QED
      BY <2>1 DEF Entered
  <1>1. PICK j : j = t[p].firstRow
    OBVIOUS
  <1>2. j \in 0..height-1 /\ t[p].hash = Hash[key[j]] /\ Reachable(t, n, p)
    BY <1>1 DEF TableOK
  <1>3. key[i] \in Keys /\ key[j] \in Keys
    BY <1>2 DEF TypeInv
  <1>4. Hash[key[i]] = Hash[key[j]]
    BY <1>1, <1>3 DEF KeysWellBehaved, rowsEqual
  <1>5. HoldsRow(i, t[p])
    BY <1>1, <1>2, <1>4 DEF HoldsRow, IsEmpty, Occupied
  <1>6. t[p].hash = h
    BY <1>2, <1>4
  <1>7. PICK c \in 0..n-1 : p = SlotAt(h, c, n) /\ \A b \in 0..c-1 : Occupied(t, SlotAt(h, b, n))
    BY <1>2, <1>6 DEF Reachable
  <1>8. c # d
    BY <1>7
  <1>9. ~(c < d)
    BY <1>5, <1>7
  <1>10. ~(d < c)
    BY <1>7
  <1>11. QED
    BY <1>8, <1>9, <1>10

(* findGID finds the entry of the row.                                     *)
LEMMA FoundIsOwn ==
  ASSUME TypeInv, KeysWellBehaved, NEW t, NEW n \in Nat \ {0}, NEW groups, TableOK(t, n, groups),
         NEW i \in 0..height-1, NEW e \in Entered(t), e.firstRow = i, e.hash = Hash[key[i]],
         \A s \in Entered(t) : rowsEqual(i, s.firstRow) => s = e
  PROVE  t[FoundSlot(t, i)] = e
  <1>1. PICK h : h = Hash[key[i]]
    OBVIOUS
  <1>2. key[i] \in Keys /\ h \in Nat /\ i # htEmpty
    BY <1>1, TableAssumption DEF TypeInv, htEmpty
  <1>3. DOMAIN t = 0..n-1 /\ Cardinality(DOMAIN t) = n
    <2>1. DOMAIN t = 0..n-1
      BY DEF TableOK
    <2>2. QED
      BY <2>1, DomainSize
  <1>4. HoldsRow(i, e)
    <2>1. rowsEqual(i, i)
      BY <1>2 DEF KeysWellBehaved, rowsEqual
    <2>2. QED
      BY <1>2, <2>1 DEF HoldsRow, IsEmpty
  <1>5. PICK dists : dists = FoundDists(t, h, i)
    OBVIOUS
  <1>6. dists = {d \in 0..n-1 : HoldsRow(i, t[SlotAt(h, d, n)])}
    BY <1>3, <1>5 DEF FoundDists
  <1>7. dists # {}
    <2>1. PICK p \in 0..n-1 : t[p] = e
      BY <1>3 DEF Entered
    <2>2. PICK d \in 0..n-1 : SlotAt(h, d, n) = p
      BY <1>2, AnySlotReached
    <2>3. QED
      BY <1>4, <1>6, <2>1, <2>2
  <1>8. PICK d \in dists : FirstSlot(t, h, dists) = SlotAt(h, d, n) /\ SlotAt(h, d, n) \in 0..n-1
    <2>1. dists \in SUBSET (0..n-1)
      BY <1>6
    <2>2. \E d \in dists : /\ FirstSlot(t, h, dists) = SlotAt(h, d, n)
                          /\ SlotAt(h, d, n) \in 0..n-1
                          /\ \A c \in 0..d-1 : c \notin dists
      BY <1>2, <1>3, <1>7, <2>1, LookupStops
    <2>3. QED
      BY <2>2
  <1>9. PICK r \in 0..n-1 : r = SlotAt(h, d, n) /\ HoldsRow(i, t[r])
    BY <1>6, <1>8
  <1>10. t[r] \in Entered(t) /\ rowsEqual(i, t[r].firstRow)
    BY <1>3, <1>9 DEF Entered, HoldsRow, IsEmpty, Occupied
  <1>11. FoundSlot(t, i) = r
    BY <1>1, <1>5, <1>8, <1>9 DEF FoundSlot
  <1>12. QED
    BY <1>10, <1>11

LEMMA ProbeAnswers ==
  ASSUME TypeInv, KeysWellBehaved, NEW x \in TableStates, NEW i \in 0..height-1
  PROVE  Probed(x, i) \in TableStates /\ \E g : Answers(x, Probed(x, i), i, g)
  <1>1. PICK t, c, ids : t = x.slots /\ c = x.nGroups /\ ids = x.groupIDs
    OBVIOUS
  <1>2. PICK n : HasRoom(t, n, c)
    BY <1>1 DEF TableStates
  <1>3. /\ n \in Nat \ {0} /\ c \in Nat /\ ids \in Seq(Nat) /\ TableOK(t, n, c) /\ 2 * c < n /\ n # 1
        /\ c < n /\ c + 1 <= n /\ c + 1 \in Nat /\ c <= c + 1 /\ 2 * (c + 1) < 2 * n
    BY <1>1, <1>2 DEF TableStates, TableShape, HasRoom
  <1>4. DOMAIN t = 0..n-1 /\ Cardinality(DOMAIN t) = n
    <2>1. DOMAIN t = 0..n-1
      BY <1>3 DEF TableOK
    <2>2. QED
      BY <1>3, <2>1, DomainSize
  <1>5. PICK h : h = Hash[key[i]]
    OBVIOUS
  <1>6. key[i] \in Keys /\ h \in Nat /\ i \in Nat
    BY <1>5, TableAssumption DEF TypeInv
  <1>7. PICK dists : dists = ProbeDists(t, h, i)
    OBVIOUS
  <1>8. dists = {d \in 0..n-1 : ~Occupied(t, SlotAt(h, d, n)) \/ HoldsRow(i, t[SlotAt(h, d, n)])}
    BY <1>4, <1>7 DEF ProbeDists, IsEmpty, Occupied
  <1>9. dists # {}
    <2>1. PICK p \in 0..n-1 : ~Occupied(t, p)
      BY <1>3, FreeSlotLeft
    <2>2. PICK d \in 0..n-1 : SlotAt(h, d, n) = p
      BY <1>3, <1>6, AnySlotReached
    <2>3. QED
      BY <1>8, <2>1, <2>2
  <1>10. PICK d \in dists : /\ FirstSlot(t, h, dists) = SlotAt(h, d, n) /\ SlotAt(h, d, n) \in 0..n-1
                            /\ \A b \in 0..d-1 : b \notin dists
    <2>1. dists \in SUBSET (0..n-1)
      BY <1>8
    <2>2. \E d \in dists : /\ FirstSlot(t, h, dists) = SlotAt(h, d, n)
                          /\ SlotAt(h, d, n) \in 0..n-1
                          /\ \A b \in 0..d-1 : b \notin dists
      BY <1>3, <1>4, <1>6, <1>9, <2>1, LookupStops
    <2>3. QED
      BY <2>2
  <1>11. PICK p \in 0..n-1 : p = SlotAt(h, d, n) /\ p = ProbeSlot(x, i)
    BY <1>1, <1>5, <1>7, <1>10 DEF ProbeSlot
  <1>12. /\ d \in 0..n-1
         /\ ~Occupied(t, p) \/ HoldsRow(i, t[p])
         /\ \A b \in 0..d-1 : Occupied(t, SlotAt(h, b, n)) /\ ~HoldsRow(i, t[SlotAt(h, b, n)])
    <2>1. d \in 0..n-1 /\ (~Occupied(t, p) \/ HoldsRow(i, t[p]))
      BY <1>8, <1>11
    <2>2. \A b \in 0..d-1 : b \in 0..n-1 /\ b \notin dists
      BY <1>3, <1>10, <2>1
    <2>3. QED
      BY <1>8, <2>1, <2>2
  <1>13. PICK y : y = Probed(x, i)
    OBVIOUS
  <1>14. CASE Occupied(t, p)
    <2>1. PICK g : g = t[p].gid
      OBVIOUS
    <2>2. t[p] \in Entered(t) /\ g \in Nat /\ rowsEqual(i, t[p].firstRow)
      <3>1. t[p] \in SlotType
        BY <1>3 DEF TableOK
      <3>2. QED
        BY <1>4, <1>12, <1>14, <2>1, <3>1 DEF Entered, HoldsRow, SlotType
    <2>3. y = [x EXCEPT !.groupIDs = Append(ids, g)]
      BY <1>1, <1>11, <1>13, <1>14, <2>1, ProbedUnfolds DEF IsEmpty, Occupied
    <2>4. y = [slots |-> t, nGroups |-> c, groupIDs |-> Append(ids, g)]
      BY <1>1, <2>3 DEF TableStates, TableShape
    <2>5. Append(ids, g) \in Seq(Nat)
      BY <1>3, <2>2
    <2>6. y \in TableStates
      BY <1>2, <1>3, <2>4, <2>5, TableState
    <2>7. Answers(x, y, i, g)
      BY <1>1, <2>1, <2>2, <2>4 DEF Answers
    <2>8. QED
      BY <1>13, <2>6, <2>7
  <1>15. CASE ~Occupied(t, p)
    <2>1. \A s \in Entered(t) : ~rowsEqual(i, s.firstRow)
      BY <1>3, <1>5, <1>11, <1>12, <1>15, FreeMeansNew
    <2>2. PICK e : e = NewEntry(x, i)
      OBVIOUS
    <2>3. /\ e = [hash |-> h, firstRow |-> i, gid |-> c]
          /\ e.hash = h /\ e.firstRow = i /\ e.gid = c /\ e \in SlotType
      BY <1>1, <1>3, <1>5, <1>6, <2>2 DEF NewEntry, SlotType
    <2>4. \A s \in Entered(t) : s.gid \in Nat /\ s.gid < c
      BY <1>3, <1>4 DEF Entered, TableOK, SlotType
    <2>5. MayJoin(t, e, c + 1)
      <3>1. \A s \in Entered(t) : s.gid # e.gid /\ ~rowsEqual(e.firstRow, s.firstRow)
        BY <1>3, <2>1, <2>3, <2>4
      <3>2. QED
        BY <1>3, <1>5, <2>3, <3>1 DEF MayJoin
    <2>6. GoesTo(t, n, e, d)
      BY <1>11, <1>12, <1>15, <2>3 DEF GoesTo
    <2>7. PICK u : u = PutAt(t, n, e, d)
      OBVIOUS
    <2>8. TableOK(u, n, c + 1) /\ Entered(u) = Entered(t) \cup {e}
      <3>1. PICK more : more = c + 1
        OBVIOUS
      <3>2. more \in Nat /\ c <= more /\ MayJoin(t, e, more)
        BY <1>3, <2>5, <3>1
      <3>3. TableOK(PutAt(t, n, e, d), n, more) /\ Entered(PutAt(t, n, e, d)) = Entered(t) \cup {e}
        <4>1. n \in Nat \ {0} /\ c \in Nat /\ TableOK(t, n, c)
          BY <1>3
        <4>2. QED
          BY <2>6, <3>2, <4>1, JoinsAt
      <3>4. QED
        BY <2>7, <3>1, <3>3
    <2>9. u = FilledSlots(x, i) /\ IsEmpty(x.slots[ProbeSlot(x, i)])
      BY <1>1, <1>11, <1>15, <2>2, <2>3, <2>7 DEF FilledSlots, PutAt, IsEmpty, Occupied
    <2>10. CASE (c + 1) * 2 < n
      <3>1. y = [slots |-> u, nGroups |-> c + 1, groupIDs |-> Append(ids, c)]
        BY <1>1, <1>4, <1>13, <2>9, <2>10, ProbedUnfolds
      <3>2. HasRoom(u, n, c + 1) /\ Append(ids, c) \in Seq(Nat)
        BY <1>3, <2>8, <2>10 DEF HasRoom
      <3>3. y \in TableStates
        BY <1>3, <3>1, <3>2, TableState
      <3>4. Answers(x, y, i, c)
        BY <1>1, <1>3, <2>1, <2>2, <2>8, <3>1 DEF Answers
      <3>5. QED
        BY <1>13, <3>3, <3>4
    <2>11. CASE ~((c + 1) * 2 < n)
      <3>1. PICK v : v = Grown(u)
        OBVIOUS
      <3>2. TableOK(v, 2 * n, c + 1) /\ Entered(v) = Entered(t) \cup {e}
        BY <1>3, <2>8, <3>1, GrownKeepsEntries
      <3>3. v[FoundSlot(v, i)] = e
        <4>1. PICK m : m = 2 * n /\ m \in Nat \ {0}
          BY <1>3
        <4>2. \A s \in Entered(v) : rowsEqual(i, s.firstRow) => s = e
          BY <2>1, <3>2
        <4>3. e \in Entered(v) /\ e.firstRow = i /\ e.hash = Hash[key[i]] /\ TableOK(v, m, c + 1)
          BY <1>5, <2>3, <3>2, <4>1
        <4>4. QED
          BY <4>1, <4>2, <4>3, FoundIsOwn
      <3>4. y = [slots |-> v, nGroups |-> c + 1, groupIDs |-> Append(ids, c)]
        <4>1. y = [slots |-> v, nGroups |-> c + 1, groupIDs |-> Append(ids, v[FoundSlot(v, i)].gid)]
          BY <1>1, <1>4, <1>13, <2>9, <2>11, <3>1, ProbedUnfolds
        <4>2. QED
          BY <2>3, <3>3, <4>1
      <3>5. HasRoom(v, 2 * n, c + 1) /\ Append(ids, c) \in Seq(Nat)
        BY <1>3, <3>2 DEF HasRoom
      <3>6. y \in TableStates
        BY <1>3, <3>4, <3>5, TableState
      <3>7. Answers(x, y, i, c)
        BY <1>1, <1>3, <2>1, <2>2, <3>2, <3>4 DEF Answers
      <3>8. QED
        BY <1>13, <3>6, <3>7
    <2>12. QED
      BY <2>10, <2>11
  <1>16. QED
    BY <1>14, <1>15

-----------------------------------------------------------------------------
(* The groups of the rows                                                  *)

IsBuilding(f) ==
  f = [s \in SUBSET (DOMAIN Rows) |->
         IF s = {} THEN [slots |-> EmptyTable(TableSize), nGroups |-> 0, groupIDs |-> <<>>]
         ELSE Probed(f[s \ {Max(s)}], Rows[Max(s)])]

LEMMA BuildingUnfolds == windowBuildGroups = (CHOOSE f : IsBuilding(f))[DOMAIN Rows]
  BY DEF windowBuildGroups, FoldLeft, MapThenFoldSet, IsBuilding

LEMMA TableSizeHolds ==
  ASSUME height \in Nat
  PROVE  TableSize \in Nat \ {0, 1}
  <1>1. PICK est : est = IF height \div 4 < MinEst THEN MinEst ELSE height \div 4
    OBVIOUS
  <1>2. est \in Nat
    BY <1>1, TableAssumption
  <1>3. PICK g : g = CHOOSE f : f = [n \in Nat |-> IF n < est * 2 THEN f[n * 2] ELSE n]
    OBVIOUS
  <1>4. TableSize = g[MinSize]
    BY <1>1, <1>3 DEF TableSize
  <1>5. est * 2 \in Nat
    BY <1>2
  <1>6. IsDoubling(g, est * 2, Nat)
    <2>1. \E f : IsDoubling(f, est * 2, Nat)
      BY <1>5, DoublingExists
    <2>2. QED
      BY <1>3, <2>1 DEF IsDoubling
  <1>7. MinSize \in Nat \ {0} /\ MinSize >= 2
    BY TableAssumption
  <1>8. g[MinSize] \in Nat /\ g[MinSize] >= MinSize
    BY <1>5, <1>6, <1>7, DoublingReaches
  <1>9. QED
    BY <1>4, <1>7, <1>8

NoGroups == [slots |-> EmptyTable(TableSize), nGroups |-> 0, groupIDs |-> <<>>]

LEMMA NoGroupsIsState ==
  ASSUME height \in Nat
  PROVE  NoGroups \in TableStates /\ Entered(NoGroups.slots) = {}
  <1>1. PICK n : n = TableSize /\ n \in Nat \ {0, 1}
    BY TableSizeHolds
  <1>2. TableOK(EmptyTable(n), n, 0) /\ \A p \in 0..n-1 : ~Occupied(EmptyTable(n), p)
    BY <1>1, EmptyTableOK
  <1>3. HasRoom(EmptyTable(n), n, 0) /\ <<>> \in Seq(Nat)
    BY <1>1, <1>2 DEF HasRoom
  <1>4. NoGroups \in TableStates
    BY <1>1, <1>3, TableState DEF NoGroups
  <1>5. Entered(EmptyTable(n)) = {}
    BY <1>2 DEF Entered, TableOK
  <1>6. QED
    BY <1>1, <1>4, <1>5 DEF NoGroups

LEMMA BuildingSteps ==
  ASSUME TypeInv, KeysWellBehaved
  PROVE  \E f : /\ f[{}] = NoGroups /\ windowBuildGroups = f[1 .. height]
                /\ \A k \in 1 .. height : f[1 .. k] = Probed(f[1 .. k - 1], k - 1)
                /\ \A k \in 0 .. height : f[1 .. k] \in TableStates
  <1>1. PICK n : n = height /\ n \in Nat
    BY TableAssumption DEF TypeInv
  <1>2. PICK step : step = [k \in 1 .. n |-> [x \in TableStates |-> Probed(x, k - 1)]]
    OBVIOUS
  <1>3. ASSUME NEW k \in 1 .. n, NEW x \in TableStates
        PROVE  step[k][x] = Probed(x, k - 1) /\ step[k][x] \in TableStates
    <2>1. step[k][x] = Probed(x, k - 1)
      BY <1>2
    <2>2. k - 1 \in 0..height-1
      BY <1>1
    <2>3. Probed(x, k - 1) \in TableStates
      BY <2>2, ProbeAnswers
    <2>4. QED
      BY <2>1, <2>3
  <1>4. NoGroups \in TableStates
    BY <1>1, NoGroupsIsState
  <1>5. \A k \in 1 .. n : \A x \in TableStates : step[k][x] \in TableStates
    BY <1>3
  <1>6. PICK g : IsFold(g, NoGroups, step, SUBSET (1 .. n)) /\ \A s \in SUBSET (1 .. n) : g[s] \in TableStates
    BY <1>1, <1>4, <1>5, FoldExists
  <1>7. DOMAIN Rows = 1 .. n /\ \A k \in 1 .. n : Rows[k] = k - 1
    BY <1>1 DEF Rows
  <1>8. \A f : IsBuilding(f) <=> f = [s \in SUBSET (1 .. n) |->
            IF s = {} THEN NoGroups ELSE Probed(f[s \ {Max(s)}], Rows[Max(s)])]
    BY <1>7 DEF IsBuilding, NoGroups
  <1>9. IsBuilding(g)
    <2>1. ASSUME NEW s \in SUBSET (1 .. n)
          PROVE  g[s] = IF s = {} THEN NoGroups ELSE Probed(g[s \ {Max(s)}], Rows[Max(s)])
      <3>1. CASE s = {}
        BY <1>6, <3>1 DEF IsFold
      <3>2. CASE s # {}
        <4>1. Max(s) \in 1 .. n /\ s \ {Max(s)} \in SUBSET (1 .. n)
          BY <1>1, <3>2, LastOfPositions
        <4>2. g[s] = step[Max(s)][g[s \ {Max(s)}]]
          BY <1>6, <3>2 DEF IsFold
        <4>3. Rows[Max(s)] = Max(s) - 1 /\ g[s \ {Max(s)}] \in TableStates
          BY <1>6, <1>7, <4>1
        <4>4. QED
          BY <1>3, <3>2, <4>1, <4>2, <4>3
      <3>3. QED
        BY <3>1, <3>2
    <2>2. g = [s \in SUBSET (1 .. n) |-> g[s]]
      BY <1>6 DEF IsFold
    <2>3. QED
      BY <1>8, <2>1, <2>2
  <1>10. PICK f : f = CHOOSE h : IsBuilding(h)
    OBVIOUS
  <1>11. f = [s \in SUBSET (1 .. n) |->
            IF s = {} THEN NoGroups ELSE Probed(f[s \ {Max(s)}], Rows[Max(s)])]
    BY <1>8, <1>9, <1>10
  <1>12. f[{}] = NoGroups
    BY <1>11
  <1>13. ASSUME NEW k \in 1 .. n PROVE f[1 .. k] = Probed(f[1 .. k - 1], k - 1)
    <2>1. 1 .. k \in SUBSET (1 .. n) /\ 1 .. k # {} /\ Max(1 .. k) = k /\ (1 .. k) \ {k} = 1 .. k - 1
      BY <1>1, FirstPositions
    <2>2. f[1 .. k] = Probed(f[(1 .. k) \ {Max(1 .. k)}], Rows[Max(1 .. k)])
      BY <1>11, <2>1
    <2>3. QED
      BY <1>7, <2>1, <2>2
  <1>14. \A k \in 0 .. n : f[1 .. k] \in TableStates
    <2>1. ASSUME NEW k \in 1 .. n, f[1 .. k - 1] \in TableStates PROVE f[1 .. k] = step[k][f[1 .. k - 1]]
      BY <1>3, <1>13, <2>1
    <2>2. f[{}] \in TableStates
      BY <1>4, <1>12
    <2>3. QED
      BY <1>1, <1>5, <2>1, <2>2, FoldStays
  <1>15. windowBuildGroups = f[1 .. n]
    BY <1>7, <1>10, BuildingUnfolds
  <1>16. QED
    BY <1>1, <1>12, <1>13, <1>14, <1>15

(* The groups GroupBy has given the rows, when it is done                  *)
RowsNumbered ==
  /\ height \in Nat /\ nGroups \in Nat /\ gids \in [0..height-1 -> Nat]
  /\ \A i, j \in 0..height-1 : gids[i] = gids[j] <=> rowsEqual(i, j)
  /\ \A i \in 0..height-1 : /\ gids[i] < nGroups
                            /\ \A g \in 0..gids[i]-1 : \E j \in 0..i-1 : gids[j] = g
  /\ \A g \in 0..nGroups-1 : \E i \in 0..height-1 : gids[i] = g

LEMMA DoneNumbered ==
  ASSUME FullInv, KeysWellBehaved, Aggregated
  PROVE  RowsNumbered
  <1>1. /\ row = height /\ height \in Nat
        /\ DOMAIN gids = 0..height-1 /\ SettledGroups = nGroups /\ nGroups \in Nat
        /\ gids \in [0..height-1 -> Nat]
    BY TableAssumption DEF FullInv, OrderInv, NumberedInv, Inv, TypeInv, SettledGroups, Aggregated
  <1>2. \A i, j \in 0..height-1 : gids[i] = gids[j] <=> rowsEqual(i, j)
    BY <1>1, InvGroupsMatch DEF FullInv, GroupsAreClasses
  <1>3. \A i \in 0..height-1 : /\ gids[i] < nGroups
                               /\ \A g \in 0..gids[i]-1 : \E j \in 0..i-1 : gids[j] = g
    BY <1>1 DEF FullInv, OrderInv, NumberedInv
  <1>4. \A g \in 0..nGroups-1 : \E i \in 0..height-1 : gids[i] = g
    BY <1>1 DEF FullInv, OrderInv, NumberedInv, IsFounder
  <1>5. QED
    BY <1>1, <1>2, <1>3, <1>4 DEF RowsNumbered

(* The window's table after k rows: the same groups.                       *)
SameGroups(x, k) ==
  /\ Len(x.groupIDs) = k /\ \A j \in 1..k : x.groupIDs[j] = gids[j-1]
  /\ \A j \in 0..k-1 : gids[j] < x.nGroups
  /\ \A s \in Entered(x.slots) : s.firstRow \in 0..k-1 /\ s.gid = gids[s.firstRow]
  /\ \A g \in 0..x.nGroups-1 : \E s \in Entered(x.slots) : s.gid = g

LEMMA OneMoreRow ==
  ASSUME RowsNumbered, NEW i \in 0..height-1, NEW x \in TableStates, SameGroups(x, i),
         NEW y, NEW g, Answers(x, y, i, g)
  PROVE  SameGroups(y, i + 1)
  <1>1. /\ i \in Nat /\ x.nGroups \in Nat /\ x.groupIDs \in Seq(Nat) /\ g \in Nat
        /\ gids[i] \in Nat /\ height \in Nat
    BY DEF RowsNumbered, TableStates, TableShape, Answers
  <1>2. PICK c, ids : c = x.nGroups /\ ids = x.groupIDs
    OBVIOUS
  <1>3. \A s \in Entered(x.slots) : /\ s.firstRow \in 0..height-1 /\ s.firstRow \in 0..i-1
                                    /\ s.gid = gids[s.firstRow] /\ s.gid \in Nat /\ s.gid < c
    <2>1. \A j \in 0..i-1 : j \in 0..height-1 /\ gids[j] \in Nat /\ gids[j] < c
      <3>1. \A j \in 0..i-1 : j \in 0..height-1
        BY <1>1
      <3>2. \A j \in 0..height-1 : gids[j] \in Nat
        BY DEF RowsNumbered
      <3>3. \A j \in 0..i-1 : gids[j] < c
        BY <1>2 DEF SameGroups
      <3>4. QED
        BY <3>1, <3>2, <3>3
    <2>2. QED
      BY <2>1 DEF SameGroups
  <1>4. g = gids[i] /\ g < y.nGroups /\ c <= y.nGroups /\ y.nGroups \in Nat
    <2>1. CASE /\ y.nGroups = x.nGroups /\ Entered(y.slots) = Entered(x.slots)
               /\ \E s \in Entered(x.slots) : s.gid = g /\ rowsEqual(i, s.firstRow)
      <3>1. PICK s \in Entered(x.slots) : s.gid = g /\ rowsEqual(i, s.firstRow)
        BY <2>1
      <3>2. gids[i] = gids[s.firstRow]
        BY <1>3, <3>1 DEF RowsNumbered
      <3>3. QED
        BY <1>1, <1>2, <1>3, <2>1, <3>1, <3>2
    <2>2. CASE /\ y.nGroups = x.nGroups + 1 /\ g = x.nGroups
               /\ Entered(y.slots) = Entered(x.slots) \cup {NewEntry(x, i)}
               /\ \A s \in Entered(x.slots) : ~rowsEqual(i, s.firstRow)
      <3>1. ~(gids[i] < c)
        <4> SUFFICES ASSUME gids[i] < c PROVE FALSE
          OBVIOUS
        <4>1. gids[i] \in 0..c-1
          BY <1>1, <1>2
        <4>2. PICK s \in Entered(x.slots) : s.gid = gids[i]
          BY <1>2, <4>1 DEF SameGroups
        <4>3. rowsEqual(i, s.firstRow)
          BY <1>3, <4>2 DEF RowsNumbered
        <4>4. QED
          BY <2>2, <4>3
      <3>2. ~(c < gids[i])
        <4> SUFFICES ASSUME c < gids[i] PROVE FALSE
          OBVIOUS
        <4>1. c \in 0..gids[i]-1
          BY <1>1, <1>2
        <4>2. PICK j \in 0..i-1 : gids[j] = c
          BY <4>1 DEF RowsNumbered
        <4>3. gids[j] < c
          BY <1>2 DEF SameGroups
        <4>4. QED
          BY <1>1, <1>2, <4>2, <4>3
      <3>3. QED
        BY <1>1, <1>2, <2>2, <3>1, <3>2
    <2>3. QED
      BY <2>1, <2>2 DEF Answers
  <1>5. Len(y.groupIDs) = i + 1 /\ \A j \in 1..i+1 : y.groupIDs[j] = gids[j-1]
    <2>1. y.groupIDs = Append(ids, g) /\ ids \in Seq(Nat) /\ Len(ids) = i
      BY <1>1, <1>2 DEF Answers, SameGroups
    <2>2. \A j \in 1..i : ids[j] = gids[j-1]
      BY <1>2 DEF SameGroups
    <2>3. Len(Append(ids, g)) = i + 1 /\ Append(ids, g)[i+1] = g /\ \A j \in 1..i : Append(ids, g)[j] = ids[j]
      BY <1>1, <2>1
    <2>4. \A j \in 1..i+1 : j \in 1..i \/ j = i+1
      BY <1>1
    <2>5. (i+1)-1 = i
      BY <1>1
    <2>6. \A j \in 1..i+1 : Append(ids, g)[j] = gids[j-1]
      BY <1>4, <2>2, <2>3, <2>4, <2>5
    <2>7. QED
      BY <2>1, <2>3, <2>6
  <1>6. \A j \in 0..i+1-1 : gids[j] < y.nGroups
    <2>1. \A j \in 0..i+1-1 : j = i \/ j \in 0..i-1
      BY <1>1
    <2>2. \A j \in 0..i-1 : gids[j] < c /\ gids[j] \in Nat
      <3>1. \A j \in 0..i-1 : j \in 0..height-1
        BY <1>1
      <3>2. \A j \in 0..height-1 : gids[j] \in Nat
        BY DEF RowsNumbered
      <3>3. \A j \in 0..i-1 : gids[j] < c
        BY <1>2 DEF SameGroups
      <3>4. QED
        BY <3>1, <3>2, <3>3
    <2>3. QED
      BY <1>1, <1>2, <1>4, <2>1, <2>2
  <1>7. \A s \in Entered(y.slots) : s.firstRow \in 0..i+1-1 /\ s.gid = gids[s.firstRow]
    <2>1. NewEntry(x, i).firstRow = i /\ NewEntry(x, i).gid = c /\ i \in 0..i+1-1
      BY <1>1, <1>2 DEF NewEntry
    <2>2. \A j \in 0..i-1 : j \in 0..i+1-1
      BY <1>1
    <2>3. QED
      BY <1>2, <1>3, <1>4, <2>1, <2>2 DEF Answers
  <1>8. \A h \in 0..y.nGroups-1 : \E s \in Entered(y.slots) : s.gid = h
    <2>1. \A h \in 0..c-1 : \E s \in Entered(x.slots) : s.gid = h
      BY <1>2 DEF SameGroups
    <2>2. NewEntry(x, i).gid = c
      BY <1>2 DEF NewEntry
    <2>3. \A h \in 0..c+1-1 : h \in 0..c-1 \/ h = c
      BY <1>1, <1>2
    <2>4. QED
      BY <1>2, <2>1, <2>2, <2>3 DEF Answers
  <1>9. QED
    BY <1>5, <1>6, <1>7, <1>8 DEF SameGroups

(* The groups of a window are those of GroupBy.                            *)
LEMMA WindowGroups ==
  ASSUME TypeInv, KeysWellBehaved, RowsNumbered
  PROVE  /\ windowBuildGroups.nGroups = nGroups
         /\ windowBuildGroups.groupIDs = [k \in 1..height |-> gids[k-1]]
  <1>1. height \in Nat /\ nGroups \in Nat
    BY DEF RowsNumbered
  <1>2. PICK f : /\ f[{}] = NoGroups /\ windowBuildGroups = f[1 .. height]
                 /\ \A k \in 1 .. height : f[1 .. k] = Probed(f[1 .. k - 1], k - 1)
                 /\ \A k \in 0 .. height : f[1 .. k] \in TableStates
    BY BuildingSteps
  <1> DEFINE P == {k \in 0..height : SameGroups(f[1 .. k], k)}
  <1>3. 0 \in P
    <2>1. 1 .. 0 = {} /\ f[1 .. 0] = NoGroups
      BY <1>2
    <2>2. Entered(NoGroups.slots) = {} /\ NoGroups.nGroups = 0 /\ NoGroups.groupIDs = <<>>
      BY <1>1, NoGroupsIsState DEF NoGroups
    <2>3. SameGroups(NoGroups, 0)
      BY <2>2 DEF SameGroups
    <2>4. QED
      BY <1>1, <2>1, <2>3
  <1>4. ASSUME NEW k \in 0..height-1, k \in P PROVE k+1 \in P
    <2>1. k+1 \in 1 .. height /\ k+1 \in 0 .. height /\ (k+1)-1 = k /\ k \in 0 .. height
      BY <1>1
    <2>2. PICK x, y : x = f[1 .. k] /\ y = f[1 .. k+1]
      OBVIOUS
    <2>3. x \in TableStates /\ SameGroups(x, k) /\ y = Probed(x, k)
      <3>1. f[1 .. k+1] = Probed(f[1 .. (k+1)-1], (k+1)-1)
        BY <1>2, <2>1
      <3>2. QED
        BY <1>2, <1>4, <2>1, <2>2, <3>1
    <2>4. PICK g : Answers(x, y, k, g)
      BY <2>3, ProbeAnswers
    <2>5. SameGroups(y, k+1)
      BY <2>3, <2>4, OneMoreRow
    <2>6. QED
      BY <2>1, <2>2, <2>5
  <1>5. height \in P
    <2> HIDE DEF P
    <2>1. 0..height \subseteq P
      <3>1. height \in Int /\ 0 \in Int
        BY <1>1
      <3>2. QED
        BY <1>3, <1>4, <3>1, IntervalInduction
    <2>2. QED
      BY <1>1, <2>1
  <1>6. PICK x : x = windowBuildGroups /\ x \in TableStates /\ SameGroups(x, height)
    BY <1>1, <1>2, <1>5
  <1>7. x.nGroups \in Nat /\ x.groupIDs \in Seq(Nat) /\ Len(x.groupIDs) = height
    BY <1>6 DEF TableStates, TableShape, SameGroups
  <1>8. x.groupIDs = [k \in 1..height |-> gids[k-1]]
    <2>1. \A j \in 1..height : x.groupIDs[j] = gids[j-1]
      BY <1>6 DEF SameGroups
    <2>2. x.groupIDs = [k \in 1..height |-> x.groupIDs[k]]
      BY <1>7
    <2>3. QED
      BY <2>1, <2>2
  <1>9. ~(x.nGroups < nGroups)
    <2> SUFFICES ASSUME x.nGroups < nGroups PROVE FALSE
      OBVIOUS
    <2>1. PICK i \in 0..height-1 : gids[i] = x.nGroups
      BY <1>1, <1>7 DEF RowsNumbered
    <2>2. gids[i] < x.nGroups
      BY <1>6 DEF SameGroups
    <2>3. QED
      BY <1>7, <2>1, <2>2
  <1>10. ~(nGroups < x.nGroups)
    <2> SUFFICES ASSUME nGroups < x.nGroups PROVE FALSE
      OBVIOUS
    <2>1. PICK s \in Entered(x.slots) : s.gid = nGroups
      BY <1>1, <1>6, <1>7 DEF SameGroups
    <2>2. s.firstRow \in 0..height-1 /\ s.gid = gids[s.firstRow]
      BY <1>6 DEF SameGroups
    <2>3. gids[s.firstRow] < nGroups
      BY <2>2 DEF RowsNumbered
    <2>4. QED
      BY <1>1, <2>1, <2>2, <2>3
  <1>11. QED
    BY <1>1, <1>6, <1>7, <1>8, <1>9, <1>10

-----------------------------------------------------------------------------
(* The cells of a window                                                   *)

(* What a function makes of the valid cells col has in some rows.          *)
CellOf(fn, col, rows) ==
  CASE fn = "sum" -> IF rows = {} THEN Null ELSE SumOver(col, rows)
    [] fn = "mean" -> IF rows = {} THEN Null ELSE <<SumOver(col, rows), Cardinality(rows)>>
    [] fn = "min" -> IF rows = {} THEN Null ELSE Min({col[i] : i \in rows})
    [] fn = "max" -> IF rows = {} THEN Null ELSE Max({col[i] : i \in rows})
    [] fn = "count" -> Cardinality(rows)

RowsValued(col, i) == Valued(col, gids[i], height)

LEMMA ValuesOfRows ==
  ASSUME RowsNumbered, NEW col, ValueColumn(col), NEW g, NEW k \in 0..height
  PROVE  HaveValues(col, Valued(col, g, k)) /\ Valued(col, g, k) \subseteq 0..k-1
  <1>1. k \in Nat /\ height \in Nat
    BY DEF RowsNumbered
  <1>2. IsFiniteSet(0..k-1) /\ Valued(col, g, k) \subseteq 0..k-1
    BY <1>1, FS_Interval DEF Valued
  <1>3. IsFiniteSet(Valued(col, g, k))
    BY <1>2, FS_Subset
  <1>4. \A i \in Valued(col, g, k) : i \in 0..height-1 /\ col[i] # Null
    BY <1>1 DEF Valued
  <1>5. \A i \in Valued(col, g, k) : i \in Int /\ col[i] \in Int
    BY <1>4 DEF ValueColumn
  <1>6. QED
    BY <1>2, <1>3, <1>5 DEF HaveValues

LEMMA CountsRows ==
  ASSUME NEW col, NEW rows, HaveValues(col, rows)
  PROVE  Cardinality(rows) \in Nat /\ (Cardinality(rows) = 0 <=> rows = {})
  BY FS_CardinalityType, FS_EmptySet DEF HaveValues

LEMMA ExtremeCells ==
  ASSUME NEW col, NEW rows, HaveValues(col, rows), NEW c
  PROVE  /\ CellOK("min", c, col, rows) => c = CellOf("min", col, rows)
         /\ CellOK("max", c, col, rows) => c = CellOf("max", col, rows)
  <1>1. PICK vals : vals = {col[i] : i \in rows}
    OBVIOUS
  <1>2. vals \subseteq Int
    BY <1>1 DEF HaveValues
  <1>3. ASSUME CellOK("min", c, col, rows) PROVE c = CellOf("min", col, rows)
    <2>1. CASE rows = {}
      BY <1>3, <2>1 DEF CellOK, CellOf
    <2>2. CASE rows # {}
      <3>1. c \in vals /\ \A v \in vals : c <= v
        BY <1>1, <1>3, <2>2 DEF CellOK
      <3>2. Min(vals) = c
        BY <1>2, <3>1, MinOf
      <3>3. QED
        BY <1>1, <2>2, <3>2 DEF CellOf
    <2>3. QED
      BY <2>1, <2>2
  <1>4. ASSUME CellOK("max", c, col, rows) PROVE c = CellOf("max", col, rows)
    <2>1. CASE rows = {}
      BY <1>4, <2>1 DEF CellOK, CellOf
    <2>2. CASE rows # {}
      <3>1. c \in vals /\ \A v \in vals : c >= v
        BY <1>1, <1>4, <2>2 DEF CellOK
      <3>2. Max(vals) = c
        BY <1>2, <3>1, MaxOf
      <3>3. QED
        BY <1>1, <2>2, <3>2 DEF CellOf
    <2>3. QED
      BY <2>1, <2>2
  <1>5. QED
    BY <1>3, <1>4

(* One pass over the column                                                *)
AddRow(fn, col, ht, acc, i) ==
  IF col[i] = Null THEN acc
  ELSE [acc EXCEPT ![ht.groupIDs[i+1]] = [count |-> @.count + 1, val |-> Combined(fn, @, col[i])]]

IsAdding(f, fn, col, ht) ==
  f = [s \in SUBSET (DOMAIN Rows) |->
         IF s = {} THEN [g \in 0..ht.nGroups-1 |-> [count |-> 0, val |-> 0]]
         ELSE AddRow(fn, col, ht, f[s \ {Max(s)}], Rows[Max(s)])]

FastCell(fn, a) ==
  IF a.count = 0 THEN Null ELSE IF fn = "mean" THEN <<a.val, a.count>> ELSE a.val

AddedRows(fn, col, ht) == (CHOOSE f : IsAdding(f, fn, col, ht))[DOMAIN Rows]

LEMMA FastUnfolds ==
  ASSUME NEW fn, NEW col, NEW ht
  PROVE  windowAggTyped(fn, col, ht) =
           [i \in 0..height-1 |-> FastCell(fn, AddedRows(fn, col, ht)[ht.groupIDs[i+1]])]
  BY DEF windowAggTyped, FoldLeft, MapThenFoldSet, IsAdding, AddRow, FastCell, AddedRows

(* The window's groups are those of the rows.                              *)
HasGroups(ht) == ht.nGroups = nGroups /\ ht.groupIDs = [k \in 1..height |-> gids[k-1]]

LEMMA GroupOfRow ==
  ASSUME RowsNumbered, NEW ht, HasGroups(ht), NEW i \in 0..height-1
  PROVE  ht.groupIDs[i+1] = gids[i] /\ gids[i] \in Groups
  <1>1. i+1 \in 1..height /\ (i+1)-1 = i /\ gids[i] \in Nat /\ gids[i] < nGroups /\ nGroups \in Nat
    BY DEF RowsNumbered
  <1>2. QED
    BY <1>1 DEF HasGroups, Groups

Accs == [Groups -> [count : Nat, val : Int]]

LEMMA AddRowStays ==
  ASSUME NEW fn \in FastAggs, NEW col, NEW i, col[i] \in Int \cup {Null}, NEW ht, NEW acc \in Accs
  PROVE  AddRow(fn, col, ht, acc, i) \in Accs
  <1>1. PICK g : g = ht.groupIDs[i+1]
    OBVIOUS
  <1>2. CASE col[i] = Null
    BY <1>2 DEF AddRow
  <1>3. CASE col[i] # Null
    <2>1. AddRow(fn, col, ht, acc, i) =
            [acc EXCEPT ![g] = [count |-> acc[g].count + 1, val |-> Combined(fn, acc[g], col[i])]]
      BY <1>1, <1>3 DEF AddRow
    <2>2. CASE g \in Groups
      <3>1. acc[g].count \in Nat /\ acc[g].val \in Int /\ col[i] \in Int
        BY <1>3, <2>2 DEF Accs
      <3>2. Combined(fn, acc[g], col[i]) \in Int
        BY <3>1 DEF Combined, FastAggs
      <3>3. PICK e : e = [count |-> acc[g].count + 1, val |-> Combined(fn, acc[g], col[i])]
        OBVIOUS
      <3>4. e \in [count : Nat, val : Int]
        BY <3>1, <3>2, <3>3
      <3>5. [acc EXCEPT ![g] = e] \in Accs
        BY <3>4 DEF Accs
      <3>6. QED
        BY <2>1, <3>3, <3>5
    <2>3. CASE g \notin Groups
      BY <2>1, <2>3 DEF Accs
    <2>4. QED
      BY <2>2, <2>3
  <1>4. QED
    BY <1>2, <1>3

LEMMA AddingSteps ==
  ASSUME RowsNumbered, NEW ht, HasGroups(ht), NEW col, ValueColumn(col), NEW fn \in FastAggs
  PROVE  \E f : /\ f[{}] = [g \in Groups |-> [count |-> 0, val |-> 0]]
                /\ AddedRows(fn, col, ht) = f[1 .. height]
                /\ \A k \in 1 .. height : f[1 .. k] = AddRow(fn, col, ht, f[1 .. k - 1], k - 1)
                /\ \A k \in 0 .. height : f[1 .. k] \in Accs
  <1>1. PICK n : n = height /\ n \in Nat
    BY DEF RowsNumbered
  <1>2. PICK step : step = [k \in 1 .. n |-> [x \in Accs |-> AddRow(fn, col, ht, x, k - 1)]]
    OBVIOUS
  <1>3. ASSUME NEW k \in 1 .. n, NEW x \in Accs
        PROVE  step[k][x] = AddRow(fn, col, ht, x, k - 1) /\ step[k][x] \in Accs
    <2>1. step[k][x] = AddRow(fn, col, ht, x, k - 1)
      BY <1>2
    <2>2. col[k - 1] \in Int \cup {Null}
      BY <1>1 DEF ValueColumn
    <2>3. AddRow(fn, col, ht, x, k - 1) \in Accs
      BY <2>2, AddRowStays
    <2>4. QED
      BY <2>1, <2>3
  <1>a. PICK a : a = [g \in Groups |-> [count |-> 0, val |-> 0]]
    OBVIOUS
  <1>4. a = [g \in Groups |-> [count |-> 0, val |-> 0]] /\ a \in Accs
    <2>1. PICK e : e = [count |-> 0, val |-> 0]
      OBVIOUS
    <2>2. e \in [count : Nat, val : Int]
      BY <2>1
    <2>3. a = [g \in Groups |-> e]
      BY <1>a, <2>1
    <2>4. QED
      BY <1>a, <2>2, <2>3 DEF Accs
  <1>5. \A k \in 1 .. n : \A x \in Accs : step[k][x] \in Accs
    BY <1>3
  <1>6. PICK g : IsFold(g, a, step, SUBSET (1 .. n)) /\ \A s \in SUBSET (1 .. n) : g[s] \in Accs
    BY <1>1, <1>4, <1>5, FoldExists
  <1>7. DOMAIN Rows = 1 .. n /\ \A k \in 1 .. n : Rows[k] = k - 1
    BY <1>1 DEF Rows
  <1>8. \A f : IsAdding(f, fn, col, ht) <=> f = [s \in SUBSET (1 .. n) |->
            IF s = {} THEN a ELSE AddRow(fn, col, ht, f[s \ {Max(s)}], Rows[Max(s)])]
    BY <1>4, <1>7 DEF IsAdding, HasGroups, Groups
  <1>9. IsAdding(g, fn, col, ht)
    <2>1. ASSUME NEW s \in SUBSET (1 .. n)
          PROVE  g[s] = IF s = {} THEN a ELSE AddRow(fn, col, ht, g[s \ {Max(s)}], Rows[Max(s)])
      <3>1. CASE s = {}
        BY <1>6, <3>1 DEF IsFold
      <3>2. CASE s # {}
        <4>1. Max(s) \in 1 .. n /\ s \ {Max(s)} \in SUBSET (1 .. n)
          BY <1>1, <3>2, LastOfPositions
        <4>2. g[s] = step[Max(s)][g[s \ {Max(s)}]]
          BY <1>6, <3>2 DEF IsFold
        <4>3. Rows[Max(s)] = Max(s) - 1 /\ g[s \ {Max(s)}] \in Accs
          BY <1>6, <1>7, <4>1
        <4>4. QED
          BY <1>3, <3>2, <4>1, <4>2, <4>3
      <3>3. QED
        BY <3>1, <3>2
    <2>2. g = [s \in SUBSET (1 .. n) |-> g[s]]
      BY <1>6 DEF IsFold
    <2>3. QED
      BY <1>8, <2>1, <2>2
  <1>10. PICK f : f = CHOOSE h : IsAdding(h, fn, col, ht)
    OBVIOUS
  <1>11. f = [s \in SUBSET (1 .. n) |->
            IF s = {} THEN a ELSE AddRow(fn, col, ht, f[s \ {Max(s)}], Rows[Max(s)])]
    <2>1. IsAdding(f, fn, col, ht)
      BY <1>9, <1>10
    <2>2. QED
      BY <1>8, <2>1
  <1>12. f[{}] = a
    BY <1>11
  <1>13. ASSUME NEW k \in 1 .. n PROVE f[1 .. k] = AddRow(fn, col, ht, f[1 .. k - 1], k - 1)
    <2>1. 1 .. k \in SUBSET (1 .. n) /\ 1 .. k # {} /\ Max(1 .. k) = k /\ (1 .. k) \ {k} = 1 .. k - 1
      BY <1>1, FirstPositions
    <2>2. f[1 .. k] = AddRow(fn, col, ht, f[(1 .. k) \ {Max(1 .. k)}], Rows[Max(1 .. k)])
      BY <1>11, <2>1
    <2>3. QED
      BY <1>7, <2>1, <2>2
  <1>14. \A k \in 0 .. n : f[1 .. k] \in Accs
    <2>1. ASSUME NEW k \in 1 .. n, f[1 .. k - 1] \in Accs PROVE f[1 .. k] = step[k][f[1 .. k - 1]]
      BY <1>3, <1>13, <2>1
    <2>2. f[{}] \in Accs
      BY <1>4, <1>12
    <2>3. QED
      BY <1>1, <1>5, <2>1, <2>2, FoldStays
  <1>15. AddedRows(fn, col, ht) = f[1 .. n]
    BY <1>7, <1>10 DEF AddedRows
  <1>16. QED
    BY <1>1, <1>4, <1>12, <1>13, <1>14, <1>15

(* What a group's value and count are as a cell of GroupBy's               *)
KindOf(fn) == IF fn \in {"sum", "mean"} THEN "sum" ELSE fn
AsCell(fn, a) ==
  IF fn \in {"sum", "mean"} THEN <<a.val, a.count>> ELSE IF a.count = 0 THEN Null ELSE a.val

LEMMA SameStep ==
  ASSUME NEW fn \in FastAggs, NEW a \in [count : Nat, val : Int], NEW v \in Int
  PROVE  AsCell(fn, [count |-> a.count + 1, val |-> Combined(fn, a, v)])
           = Step(KindOf(fn), AsCell(fn, a), v)
  <1>1. PICK c, w : c = a.count /\ w = a.val /\ c \in Nat /\ w \in Int
    OBVIOUS
  <1>2. PICK b : b = [count |-> c + 1, val |-> Combined(fn, a, v)]
    OBVIOUS
  <1>3. b.count = c + 1 /\ b.val = Combined(fn, a, v) /\ c + 1 # 0
    BY <1>1, <1>2
  <1>4. CASE fn \in {"sum", "mean"}
    <2>1. Combined(fn, a, v) = w + v
      BY <1>1, <1>4 DEF Combined
    <2>2. AsCell(fn, b) = <<w + v, c + 1>> /\ AsCell(fn, a) = <<w, c>> /\ KindOf(fn) = "sum"
      BY <1>1, <1>3, <1>4, <2>1 DEF AsCell, KindOf
    <2>3. QED
      BY <1>1, <1>2, <2>2 DEF Step
  <1>5. CASE fn = "min"
    <2>1. Combined(fn, a, v) = IF c = 0 \/ v < w THEN v ELSE w
      BY <1>1, <1>5 DEF Combined
    <2>2. AsCell(fn, b) = Combined(fn, a, v) /\ AsCell(fn, a) = (IF c = 0 THEN Null ELSE w) /\ KindOf(fn) = "min"
      BY <1>1, <1>3, <1>5 DEF AsCell, KindOf
    <2>3. w # Null
      BY <1>1, ColumnAssumption
    <2>4. QED
      BY <1>1, <1>2, <2>1, <2>2, <2>3 DEF Step
  <1>6. CASE fn = "max"
    <2>1. Combined(fn, a, v) = IF c = 0 \/ v > w THEN v ELSE w
      BY <1>1, <1>6 DEF Combined
    <2>2. AsCell(fn, b) = Combined(fn, a, v) /\ AsCell(fn, a) = (IF c = 0 THEN Null ELSE w) /\ KindOf(fn) = "max"
      BY <1>1, <1>3, <1>6 DEF AsCell, KindOf
    <2>3. w # Null
      BY <1>1, ColumnAssumption
    <2>4. QED
      BY <1>1, <1>2, <2>1, <2>2, <2>3 DEF Step
  <1>7. QED
    BY <1>4, <1>5, <1>6 DEF FastAggs

FastOK(fn, a, col, rows) ==
  a.count = Cardinality(rows) /\ CellOK(KindOf(fn), AsCell(fn, a), col, rows)

LEMMA AddOne ==
  ASSUME NEW fn \in FastAggs, NEW a \in [count : Nat, val : Int], NEW col, NEW rows, NEW x,
         HaveValues(col, rows), x \in Int, col[x] \in Int, \A i \in rows : i < x,
         FastOK(fn, a, col, rows)
  PROVE  FastOK(fn, [count |-> a.count + 1, val |-> Combined(fn, a, col[x])], col, rows \cup {x})
  <1>1. PICK b : b = [count |-> a.count + 1, val |-> Combined(fn, a, col[x])]
    OBVIOUS
  <1>2. AsCell(fn, b) = Step(KindOf(fn), AsCell(fn, a), col[x])
    BY <1>1, SameStep
  <1>3. KindOf(fn) \in AggFuncs
    BY DEF KindOf, FastAggs, AggFuncs
  <1>4. CellOK(KindOf(fn), AsCell(fn, a), col, rows)
    BY DEF FastOK
  <1>5. CellOK(KindOf(fn), AsCell(fn, b), col, rows \cup {x})
    BY <1>2, <1>3, <1>4, StepKeepsCell
  <1>6. b.count = Cardinality(rows \cup {x})
    <2>1. IsFiniteSet(rows) /\ x \notin rows
      BY DEF HaveValues
    <2>2. Cardinality(rows \cup {x}) = Cardinality(rows) + 1
      BY <2>1, FS_AddElement
    <2>3. QED
      BY <1>1, <2>2 DEF FastOK
  <1>7. QED
    BY <1>1, <1>5, <1>6 DEF FastOK

LEMMA FastIsCell ==
  ASSUME NEW fn \in FastAggs, NEW a \in [count : Nat, val : Int], NEW col, NEW rows,
         HaveValues(col, rows), FastOK(fn, a, col, rows)
  PROVE  FastCell(fn, a) = CellOf(fn, col, rows)
  <1>1. a.count = Cardinality(rows) /\ (a.count = 0 <=> rows = {})
    BY CountsRows DEF FastOK
  <1>2. CASE fn \in {"sum", "mean"}
    <2>1. <<a.val, a.count>> = <<SumOver(col, rows), Cardinality(rows)>>
      BY <1>2 DEF FastOK, CellOK, KindOf, AsCell
    <2>2. a.val = SumOver(col, rows)
      BY <2>1
    <2>3. QED
      BY <1>1, <1>2, <2>2 DEF FastCell, CellOf
  <1>3. CASE fn \in {"min", "max"}
    <2>1. CellOK(fn, FastCell(fn, a), col, rows)
      BY <1>3 DEF FastOK, FastCell, AsCell, KindOf
    <2>2. QED
      BY <1>3, <2>1, ExtremeCells
  <1>4. QED
    BY <1>2, <1>3 DEF FastAggs

(* The fast path gives every row what its group has.                       *)
LEMMA FastPathRight ==
  ASSUME RowsNumbered, NEW ht, HasGroups(ht), NEW col, ValueColumn(col), NEW fn \in FastAggs
  PROVE  windowAggTyped(fn, col, ht) = [i \in 0..height-1 |-> CellOf(fn, col, RowsValued(col, i))]
  <1>1. height \in Nat /\ gids \in [0..height-1 -> Nat]
    BY DEF RowsNumbered
  <1>2. PICK f : /\ f[{}] = [g \in Groups |-> [count |-> 0, val |-> 0]]
                 /\ AddedRows(fn, col, ht) = f[1 .. height]
                 /\ \A k \in 1 .. height : f[1 .. k] = AddRow(fn, col, ht, f[1 .. k - 1], k - 1)
                 /\ \A k \in 0 .. height : f[1 .. k] \in Accs
    BY AddingSteps
  <1> DEFINE P == {k \in 0..height : \A g \in Groups : FastOK(fn, f[1 .. k][g], col, Valued(col, g, k))}
  <1>3. 0 \in P
    <2>1. 1 .. 0 = {} /\ \A g \in Groups : f[1 .. 0][g].count = 0 /\ f[1 .. 0][g].val = 0
      BY <1>2
    <2>2. SumOver(col, {}) = 0 /\ Cardinality({}) = 0
      BY FS_EmptySet, SumOne
    <2>3. \A g \in Groups : Valued(col, g, 0) = {}
      BY DEF Valued
    <2>4. ASSUME NEW a, a.count = 0, a.val = 0 PROVE FastOK(fn, a, col, {})
      <3>1. CASE fn \in {"sum", "mean"}
        <4>1. KindOf(fn) = "sum" /\ AsCell(fn, a) = <<0, 0>>
          BY <2>4, <3>1 DEF KindOf, AsCell
        <4>2. CellOK("sum", <<0, 0>>, col, {})
          BY <2>2 DEF CellOK
        <4>3. QED
          BY <2>2, <2>4, <4>1, <4>2 DEF FastOK
      <3>2. CASE fn \in {"min", "max"}
        <4>1. KindOf(fn) = fn /\ AsCell(fn, a) = Null
          BY <2>4, <3>2 DEF KindOf, AsCell
        <4>2. CellOK(fn, Null, col, {})
          BY <3>2 DEF CellOK
        <4>3. QED
          BY <2>2, <2>4, <4>1, <4>2 DEF FastOK
      <3>3. QED
        BY <3>1, <3>2 DEF FastAggs
    <2>5. ASSUME NEW g \in Groups PROVE FastOK(fn, f[1 .. 0][g], col, Valued(col, g, 0))
      <3>1. PICK a : a = f[1 .. 0][g]
        OBVIOUS
      <3>2. FastOK(fn, a, col, {})
        BY <2>1, <2>4, <3>1
      <3>3. QED
        BY <2>3, <3>1, <3>2
    <2>6. QED
      BY <1>1, <2>5
  <1>4. ASSUME NEW k \in 0..height-1, k \in P PROVE k+1 \in P
    <2>1. k+1 \in 1 .. height /\ k+1 \in 0 .. height /\ (k+1)-1 = k /\ k \in 0 .. height /\ k \in Nat
      BY <1>1
    <2>2. PICK x, y : x = f[1 .. k] /\ y = f[1 .. k+1]
      OBVIOUS
    <2>3. x \in Accs /\ y = AddRow(fn, col, ht, x, k)
      <3>1. f[1 .. k+1] = AddRow(fn, col, ht, f[1 .. (k+1)-1], (k+1)-1)
        BY <1>2, <2>1
      <3>2. QED
        BY <1>2, <2>1, <2>2, <3>1
    <2>4. \A g \in Groups : FastOK(fn, x[g], col, Valued(col, g, k))
      BY <1>4, <2>2
    <2>5. PICK h \in Groups : h = gids[k] /\ h = ht.groupIDs[k+1]
      BY GroupOfRow
    <2>a. 0 .. (k+1)-1 = (0 .. k-1) \cup {k} /\ k \in 0 .. (k+1)-1
      BY <2>1
    <2>6. CASE col[k] = Null
      <3>1. \A g \in Groups : Valued(col, g, k+1) = Valued(col, g, k)
        BY <2>a, <2>6 DEF Valued
      <3>2. y = x
        BY <2>3, <2>6 DEF AddRow
      <3>3. QED
        BY <2>1, <2>2, <2>4, <3>1, <3>2
    <2>7. CASE col[k] # Null
      <3>1. y = [x EXCEPT ![h] = [count |-> x[h].count + 1, val |-> Combined(fn, x[h], col[k])]]
        BY <2>3, <2>5, <2>7 DEF AddRow
      <3>2. /\ y[h] = [count |-> x[h].count + 1, val |-> Combined(fn, x[h], col[k])]
            /\ \A g \in Groups : g # h => y[g] = x[g]
        BY <2>3, <2>5, <3>1 DEF Accs
      <3>3. ASSUME NEW g \in Groups, g # h PROVE Valued(col, g, k+1) = Valued(col, g, k)
        BY <2>a, <2>5, <3>3 DEF Valued
      <3>4. Valued(col, h, k+1) = Valued(col, h, k) \cup {k}
        BY <2>a, <2>5, <2>7 DEF Valued
      <3>5. HaveValues(col, Valued(col, h, k)) /\ \A i \in Valued(col, h, k) : i < k
        <4>1. Valued(col, h, k) \subseteq 0..k-1 /\ HaveValues(col, Valued(col, h, k))
          BY <2>1, ValuesOfRows
        <4>2. QED
          BY <2>1, <4>1
      <3>6. k \in Int /\ col[k] \in Int /\ x[h] \in [count : Nat, val : Int]
        BY <2>1, <2>3, <2>5, <2>7 DEF ValueColumn, Accs
      <3>7. FastOK(fn, y[h], col, Valued(col, h, k) \cup {k})
        <4>1. FastOK(fn, x[h], col, Valued(col, h, k))
          BY <2>4, <2>5
        <4>2. QED
          BY <3>2, <3>5, <3>6, <4>1, AddOne
      <3>8. \A g \in Groups : FastOK(fn, y[g], col, Valued(col, g, k+1))
        BY <2>4, <3>2, <3>3, <3>4, <3>7
      <3>9. QED
        BY <2>1, <2>2, <3>8
    <2>8. QED
      BY <2>6, <2>7
  <1>5. height \in P
    <2> HIDE DEF P
    <2>1. 0..height \subseteq P
      <3>1. height \in Int /\ 0 \in Int
        BY <1>1
      <3>2. QED
        BY <1>3, <1>4, <3>1, IntervalInduction
    <2>2. QED
      BY <1>1, <2>1
  <1>6. PICK z : z = AddedRows(fn, col, ht)
    OBVIOUS
  <1>7. z \in Accs /\ \A g \in Groups : FastOK(fn, z[g], col, Valued(col, g, height))
    BY <1>1, <1>2, <1>5, <1>6
  <1>8. ASSUME NEW i \in 0..height-1
        PROVE  FastCell(fn, z[ht.groupIDs[i+1]]) = CellOf(fn, col, RowsValued(col, i))
    <2>1. PICK g \in Groups : g = gids[i] /\ g = ht.groupIDs[i+1]
      BY GroupOfRow
    <2>2. z[g] \in [count : Nat, val : Int] /\ FastOK(fn, z[g], col, Valued(col, g, height))
      BY <1>7 DEF Accs
    <2>3. HaveValues(col, Valued(col, g, height))
      BY <1>1, ValuesOfRows
    <2>4. FastCell(fn, z[g]) = CellOf(fn, col, Valued(col, g, height))
      BY <2>2, <2>3, FastIsCell
    <2>5. QED
      BY <2>1, <2>4 DEF RowsValued
  <1>9. windowAggTyped(fn, col, ht) = [i \in 0..height-1 |-> FastCell(fn, z[ht.groupIDs[i+1]])]
    BY <1>6, FastUnfolds
  <1>10. QED
    BY <1>8, <1>9

-----------------------------------------------------------------------------
(* The slow path: the rows of a group in a list, and the cells they have   *)

(* The list rows holds the rows S in ascending order.                      *)
Lists(rows, n, S) ==
  /\ n \in Nat /\ DOMAIN rows = 1..n /\ Len(rows) = n
  /\ S = {rows[k] : k \in 1..n} /\ IsFiniteSet(S)
  /\ \A k \in 1..n : rows[k] \in Int
  /\ \A k, l \in 1..n : k < l => rows[k] < rows[l]

CellsAt(col, rows) == [k \in DOMAIN rows |-> col[rows[k]]]
NonNull(col, S) == {i \in S : col[i] # Null}
Places(cells) == {k \in DOMAIN cells : cells[k] # Null}

LEMMA RowsListed ==
  ASSUME NEW S, IsFiniteSet(S), \A x \in S : x \in Int
  PROVE  Lists(RowList(S), Cardinality(S), S)
  <1>1. PICK s, n : s = RowList(S) /\ n = Cardinality(S)
    OBVIOUS
  <1>2. /\ DOMAIN s = 1..n /\ Len(s) = n /\ s \in Seq(S) /\ n \in Nat /\ ToSet(s) = S
        /\ \A k, l \in 1..n : k < l => s[k] < s[l]
    BY <1>1, RowListAscends
  <1>3. S = {s[k] : k \in 1..n}
    BY <1>2 DEF ToSet
  <1>4. \A k \in 1..n : s[k] \in Int
    BY <1>3
  <1>5. QED
    BY <1>1, <1>2, <1>3, <1>4 DEF Lists

(* Sums of lists of cells                                                  *)
IsTotalling(f, cells) ==
  f = [s \in SUBSET (DOMAIN cells) |->
         IF s = {} THEN 0 ELSE Added(f[s \ {Max(s)}], cells[Max(s)])]

LEMMA TotalUnfolds ==
  ASSUME NEW cells
  PROVE  Total(cells) = (CHOOSE f : IsTotalling(f, cells))[DOMAIN cells]
  BY DEF Total, FoldLeft, MapThenFoldSet, IsTotalling

LEMMA AddedIsInt ==
  ASSUME NEW a \in Int, NEW v \in Int \cup {Null}
  PROVE  Added(a, v) \in Int
  BY DEF Added

(* A list of n cells, and a function of the sums of its first k cells.     *)
CellList(cells, n) == n \in Nat /\ DOMAIN cells = 1..n /\ \A k \in 1..n : cells[k] \in Int \cup {Null}
Totals(f, cells, n) ==
  /\ f[{}] = 0 /\ Total(cells) = f[1 .. n]
  /\ \A k \in 1 .. n : f[1 .. k] = Added(f[1 .. k - 1], cells[k])
  /\ \A k \in 0 .. n : f[1 .. k] \in Int

LEMMA TotalSteps ==
  ASSUME NEW n, NEW cells, CellList(cells, n)
  PROVE  \E f : Totals(f, cells, n)
  <1>1. n \in Nat /\ DOMAIN cells = 1..n /\ \A k \in 1..n : cells[k] \in Int \cup {Null}
    BY DEF CellList
  <1>2. PICK step : step = [k \in 1 .. n |-> [x \in Int |-> Added(x, cells[k])]]
    OBVIOUS
  <1>3. ASSUME NEW k \in 1 .. n, NEW x \in Int
        PROVE  step[k][x] = Added(x, cells[k]) /\ step[k][x] \in Int
    <2>1. step[k][x] = Added(x, cells[k])
      BY <1>2
    <2>2. QED
      BY <1>1, <2>1, AddedIsInt
  <1>5. \A k \in 1 .. n : \A x \in Int : step[k][x] \in Int
    BY <1>3
  <1>6. PICK g : IsFold(g, 0, step, SUBSET (1 .. n)) /\ \A s \in SUBSET (1 .. n) : g[s] \in Int
    <2>1. 0 \in Int
      OBVIOUS
    <2>2. QED
      BY <1>1, <1>5, <2>1, FoldExists
  <1>8. \A f : IsTotalling(f, cells) <=> f = [s \in SUBSET (1 .. n) |->
            IF s = {} THEN 0 ELSE Added(f[s \ {Max(s)}], cells[Max(s)])]
    BY <1>1 DEF IsTotalling
  <1>9. IsTotalling(g, cells)
    <2>1. ASSUME NEW s \in SUBSET (1 .. n)
          PROVE  g[s] = IF s = {} THEN 0 ELSE Added(g[s \ {Max(s)}], cells[Max(s)])
      <3>1. CASE s = {}
        BY <1>6, <3>1 DEF IsFold
      <3>2. CASE s # {}
        <4>1. Max(s) \in 1 .. n /\ s \ {Max(s)} \in SUBSET (1 .. n)
          BY <1>1, <3>2, LastOfPositions
        <4>2. g[s] = step[Max(s)][g[s \ {Max(s)}]]
          BY <1>6, <3>2 DEF IsFold
        <4>3. g[s \ {Max(s)}] \in Int
          BY <1>6, <4>1
        <4>4. QED
          BY <1>3, <3>2, <4>1, <4>2, <4>3
      <3>3. QED
        BY <3>1, <3>2
    <2>2. g = [s \in SUBSET (1 .. n) |-> g[s]]
      BY <1>6 DEF IsFold
    <2>3. QED
      BY <1>8, <2>1, <2>2
  <1>10. PICK f : f = CHOOSE h : IsTotalling(h, cells)
    OBVIOUS
  <1>11. f = [s \in SUBSET (1 .. n) |->
            IF s = {} THEN 0 ELSE Added(f[s \ {Max(s)}], cells[Max(s)])]
    <2>1. IsTotalling(f, cells)
      BY <1>9, <1>10
    <2>2. QED
      BY <1>8, <2>1
  <1>12. f[{}] = 0
    BY <1>11
  <1>13. ASSUME NEW k \in 1 .. n PROVE f[1 .. k] = Added(f[1 .. k - 1], cells[k])
    <2>1. 1 .. k \in SUBSET (1 .. n) /\ 1 .. k # {} /\ Max(1 .. k) = k /\ (1 .. k) \ {k} = 1 .. k - 1
      BY <1>1, FirstPositions
    <2>2. f[1 .. k] = Added(f[(1 .. k) \ {Max(1 .. k)}], cells[Max(1 .. k)])
      BY <1>11, <2>1
    <2>3. QED
      BY <2>1, <2>2
  <1>14. \A k \in 0 .. n : f[1 .. k] \in Int
    <2>1. ASSUME NEW k \in 1 .. n, f[1 .. k - 1] \in Int PROVE f[1 .. k] = step[k][f[1 .. k - 1]]
      BY <1>3, <1>13, <2>1
    <2>2. f[{}] \in Int
      BY <1>12
    <2>3. QED
      BY <1>1, <1>5, <2>1, <2>2, FoldStays
  <1>15. Total(cells) = f[1 .. n]
    BY <1>1, <1>10, TotalUnfolds
  <1>16. QED
    BY <1>12, <1>13, <1>14, <1>15 DEF Totals

(* The rows of the first k places                                          *)
RowsOfFirst(rows, k) == {rows[l] : l \in 1..k}

LEMMA TotalIsSum ==
  ASSUME NEW col, NEW n, NEW rows, NEW S, Lists(rows, n, S), \A i \in S : col[i] \in Int \cup {Null},
         NEW cells, NEW m \in 0..n, DOMAIN cells = 1..m, \A k \in 1..m : cells[k] = col[rows[k]]
  PROVE  Total(cells) = SumOver(col, NonNull(col, RowsOfFirst(rows, m)))
  <1>1. n \in Nat /\ m \in Nat /\ \A k \in 1..m : k \in 1..n /\ rows[k] \in S /\ rows[k] \in Int
    BY DEF Lists
  <1>2. \A k \in 1..m : cells[k] \in Int \cup {Null}
    BY <1>1
  <1>3. PICK f : /\ f[{}] = 0 /\ Total(cells) = f[1 .. m]
                 /\ \A k \in 1 .. m : f[1 .. k] = Added(f[1 .. k - 1], cells[k])
                 /\ \A k \in 0 .. m : f[1 .. k] \in Int
    <2>1. CellList(cells, m)
      BY <1>1, <1>2 DEF CellList
    <2>2. \E f : Totals(f, cells, m)
      BY <2>1, TotalSteps
    <2>3. QED
      BY <2>2 DEF Totals
  <1> DEFINE P == {k \in 0..m : f[1 .. k] = SumOver(col, NonNull(col, RowsOfFirst(rows, k)))}
  <1>4. 0 \in P
    <2>1. 1 .. 0 = {} /\ RowsOfFirst(rows, 0) = {} /\ NonNull(col, {}) = {}
      BY DEF RowsOfFirst, NonNull
    <2>2. SumOver(col, {}) = 0
      BY SumOne, FS_EmptySet
    <2>3. f[1 .. 0] = SumOver(col, NonNull(col, RowsOfFirst(rows, 0)))
      BY <1>3, <2>1, <2>2
    <2>4. QED
      BY <1>1, <2>3
  <1>5. ASSUME NEW k \in 0..m-1, k \in P PROVE k+1 \in P
    <2>1. PICK j : j = k + 1 /\ j \in 1..m /\ j - 1 = k /\ j \in 0..m /\ k \in Nat
      BY <1>1
    <2>2. f[1 .. j] = Added(f[1 .. k], col[rows[j]])
      BY <1>3, <2>1
    <2>3. PICK x, T : x = rows[j] /\ T = RowsOfFirst(rows, k)
      OBVIOUS
    <2>4. 1..j = (1..k) \cup {j}
      BY <2>1
    <2>5. RowsOfFirst(rows, j) = T \cup {x}
      BY <2>3, <2>4 DEF RowsOfFirst
    <2>6. x \in Int /\ \A i \in T : i < x /\ i \in S
      <3>1. \A l \in 1..k : l \in 1..n /\ j \in 1..n /\ l < j
        BY <1>1, <2>1
      <3>2. QED
        BY <1>1, <2>1, <2>3, <3>1 DEF RowsOfFirst, Lists
    <2>7. PICK U : U = NonNull(col, T)
      OBVIOUS
    <2>8. f[1 .. k] = SumOver(col, U)
      BY <1>5, <2>3, <2>7
    <2>9. CASE col[x] = Null
      <3>1. NonNull(col, T \cup {x}) = U
        BY <2>7, <2>9 DEF NonNull
      <3>2. QED
        BY <2>1, <2>2, <2>3, <2>5, <2>8, <2>9, <3>1 DEF Added
    <2>10. CASE col[x] # Null
      <3>1. PICK W : W = U \cup {x}
        OBVIOUS
      <3>2. NonNull(col, T \cup {x}) = W
        BY <2>7, <2>10, <3>1 DEF NonNull
      <3>3. x \notin U /\ W \ {x} = U
        BY <2>6, <2>7, <3>1 DEF NonNull
      <3>4. \A y \in W : col[y] \in Int
        <4>1. \A y \in U : col[y] \in Int
          BY <2>6, <2>7 DEF NonNull
        <4>2. col[x] \in Int
          BY <1>1, <2>1, <2>3, <2>10
        <4>3. QED
          BY <3>1, <4>1, <4>2
      <3>5. IsFiniteSet(W)
        <4>1. W \subseteq S /\ IsFiniteSet(S)
          BY <1>1, <2>1, <2>3, <2>6, <2>7, <3>1 DEF NonNull, Lists
        <4>2. QED
          BY <4>1, FS_Subset
      <3>6. SumOver(col, W) = SumOver(col, U) + col[x]
        <4>1. x \in W
          BY <3>1
        <4>2. SumOver(col, W) = SumOver(col, W \ {x}) + col[x]
          BY <3>4, <3>5, <4>1, SumOne
        <4>3. QED
          BY <3>3, <4>2
      <3>7. f[1 .. j] = SumOver(col, W)
        BY <2>2, <2>3, <2>8, <2>10, <3>6 DEF Added
      <3>8. QED
        BY <2>1, <2>5, <3>2, <3>7
    <2>11. QED
      BY <2>9, <2>10
  <1>6. m \in P
    <2> HIDE DEF P
    <2>1. 0..m \subseteq P
      <3>1. m \in Int /\ 0 \in Int
        BY <1>1
      <3>2. QED
        BY <1>4, <1>5, <3>1, IntervalInduction
    <2>2. QED
      BY <1>1, <2>1
  <1>7. QED
    BY <1>3, <1>6

LEMMA PlacesOfRows ==
  ASSUME NEW col, NEW n, NEW rows, NEW S, Lists(rows, n, S)
  PROVE  /\ Places(CellsAt(col, rows)) \subseteq 1..n /\ IsFiniteSet(NonNull(col, S))
         /\ NonNull(col, S) = {rows[k] : k \in Places(CellsAt(col, rows))}
         /\ Cardinality(Places(CellsAt(col, rows))) = Cardinality(NonNull(col, S))
         /\ (Places(CellsAt(col, rows)) = {} <=> NonNull(col, S) = {})
  <1>1. PICK Q, V : Q = Places(CellsAt(col, rows)) /\ V = NonNull(col, S)
    OBVIOUS
  <1>2. n \in Nat /\ DOMAIN rows = 1..n /\ S = {rows[k] : k \in 1..n} /\ IsFiniteSet(S)
    BY DEF Lists
  <1>3. Q = {k \in 1..n : col[rows[k]] # Null}
    BY <1>1, <1>2 DEF Places, CellsAt
  <1>4. V = {rows[k] : k \in Q}
    BY <1>1, <1>2, <1>3 DEF NonNull
  <1>5. IsFiniteSet(V) /\ IsFiniteSet(Q)
    <2>1. IsFiniteSet(1..n) /\ V \subseteq S /\ Q \subseteq 1..n
      BY <1>1, <1>2, <1>3, FS_Interval DEF NonNull
    <2>2. QED
      BY <1>2, <2>1, FS_Subset
  <1>6. PICK f : f = [k \in Q |-> rows[k]]
    OBVIOUS
  <1>7. \A k, l \in Q : rows[k] = rows[l] => k = l
    <2> SUFFICES ASSUME NEW k \in Q, NEW l \in Q, k # l PROVE rows[k] # rows[l]
      OBVIOUS
    <2>1. k \in 1..n /\ l \in 1..n /\ (k < l \/ l < k)
      BY <1>2, <1>3
    <2>2. QED
      BY <2>1 DEF Lists
  <1>8. f \in Bijection(Q, V)
    BY <1>4, <1>6, <1>7 DEF Bijection, Injection, Surjection, IsInjective
  <1>9. Cardinality(Q) = Cardinality(V)
    BY <1>5, <1>8, FS_Bijection DEF ExistsBijection
  <1>10. QED
    BY <1>1, <1>3, <1>4, <1>5, <1>9

LEMMA EndPlaces ==
  ASSUME NEW col, NEW n, NEW rows, NEW S, Lists(rows, n, S), NonNull(col, S) # {}
  PROVE  /\ CellsAt(col, rows)[Min(Places(CellsAt(col, rows)))] = col[Min(NonNull(col, S))]
         /\ CellsAt(col, rows)[Max(Places(CellsAt(col, rows)))] = col[Max(NonNull(col, S))]
  <1>1. PICK Q, V, cells : Q = Places(CellsAt(col, rows)) /\ V = NonNull(col, S) /\ cells = CellsAt(col, rows)
    OBVIOUS
  <1>2. n \in Nat /\ \A k \in Q : cells[k] = col[rows[k]] /\ k \in 1..n /\ rows[k] \in Int
    BY <1>1, PlacesOfRows DEF Lists, CellsAt
  <1>3. Q \in SUBSET Int /\ IsFiniteSet(Q) /\ Q # {} /\ V = {rows[k] : k \in Q}
    <2>1. Q \subseteq 1..n /\ IsFiniteSet(1..n)
      BY <1>1, <1>2, PlacesOfRows, FS_Interval
    <2>2. IsFiniteSet(Q)
      BY <2>1, FS_Subset
    <2>3. Q \in SUBSET Int
      BY <1>2, <2>1
    <2>4. V = {rows[k] : k \in Q}
      BY <1>1, PlacesOfRows
    <2>5. QED
      BY <1>1, <2>2, <2>3, <2>4
  <1>4. PICK a, b : a = Min(Q) /\ b = Max(Q)
    OBVIOUS
  <1>5. a \in Q /\ b \in Q /\ \A k \in Q : a <= k /\ k <= b
    BY <1>3, <1>4, Extremes DEF IsLeast, IsGreatest
  <1>6. V \subseteq Int
    BY <1>2, <1>3
  <1>7. rows[a] \in V /\ rows[b] \in V /\ \A i \in V : rows[a] <= i /\ i <= rows[b]
    <2>1. ASSUME NEW k \in Q PROVE rows[a] <= rows[k] /\ rows[k] <= rows[b]
      <3>1. a \in 1..n /\ b \in 1..n /\ k \in 1..n /\ (a = k \/ a < k) /\ (k = b \/ k < b)
        BY <1>2, <1>5
      <3>2. \A x, y \in 1..n : x < y => rows[x] < rows[y]
        BY DEF Lists
      <3>3. rows[a] \in Int /\ rows[b] \in Int /\ rows[k] \in Int
        BY <1>2, <1>5
      <3>4. QED
        BY <3>1, <3>2, <3>3
    <2>2. QED
      BY <1>3, <1>5, <2>1
  <1>8. Min(V) = rows[a]
    BY <1>6, <1>7, MinOf
  <1>9. Max(V) = rows[b]
    BY <1>6, <1>7, MaxOf
  <1>10. QED
    BY <1>1, <1>2, <1>4, <1>5, <1>8, <1>9

LEMMA ValuesOfPlaces ==
  ASSUME NEW col, NEW n, NEW rows, NEW S, Lists(rows, n, S)
  PROVE  {CellsAt(col, rows)[k] : k \in Places(CellsAt(col, rows))} = {col[i] : i \in NonNull(col, S)}
  <1>1. PICK Q, cells : Q = Places(CellsAt(col, rows)) /\ cells = CellsAt(col, rows)
    OBVIOUS
  <1>2. \A k \in Q : cells[k] = col[rows[k]]
    BY <1>1 DEF Places, CellsAt
  <1>3. NonNull(col, S) = {rows[k] : k \in Q}
    BY <1>1, PlacesOfRows
  <1>4. QED
    BY <1>1, <1>2, <1>3

-----------------------------------------------------------------------------
(* What an expression makes of the cells of a group                        *)

Single(S, v) == IF S = {} THEN <<Null>> ELSE <<v>>

IntColumn(col, S) == \A i \in S : col[i] \in Int \cup {Null}

LEMMA SumOfCells ==
  ASSUME NEW col, NEW n, NEW rows, NEW S, Lists(rows, n, S), IntColumn(col, S)
  PROVE  Total(CellsAt(col, rows)) = SumOver(col, NonNull(col, S))
  <1>1. PICK cells : cells = CellsAt(col, rows)
    OBVIOUS
  <1>2. n \in 0..n /\ DOMAIN cells = 1..n /\ \A k \in 1..n : cells[k] = col[rows[k]]
    BY <1>1 DEF CellsAt, Lists
  <1>3. RowsOfFirst(rows, n) = S
    BY DEF RowsOfFirst, Lists
  <1>4. Total(cells) = SumOver(col, NonNull(col, RowsOfFirst(rows, n)))
    BY <1>2, TotalIsSum DEF IntColumn
  <1>5. QED
    BY <1>1, <1>3, <1>4

LEMMA OneCell ==
  ASSUME NEW col, NEW n, NEW rows, NEW S, Lists(rows, n, S), IntColumn(col, S)
  PROVE  /\ \A fn \in FastAggs \cup {"count"} : InnerResult(fn, CellsAt(col, rows)) = <<CellOf(fn, col, NonNull(col, S))>>
         /\ InnerResult("first", CellsAt(col, rows)) = Single(NonNull(col, S), col[Min(NonNull(col, S))])
         /\ InnerResult("last", CellsAt(col, rows)) = Single(NonNull(col, S), col[Max(NonNull(col, S))])
  <1>1. PICK Q, V, cells : Q = Places(CellsAt(col, rows)) /\ V = NonNull(col, S) /\ cells = CellsAt(col, rows)
    OBVIOUS
  <1>2. /\ Q = {} <=> V = {}
        /\ Cardinality(Q) = Cardinality(V)
        /\ {cells[k] : k \in Q} = {col[i] : i \in V}
        /\ Total(cells) = SumOver(col, V)
    <2>1. (Q = {} <=> V = {}) /\ Cardinality(Q) = Cardinality(V)
      BY <1>1, PlacesOfRows
    <2>2. {cells[k] : k \in Q} = {col[i] : i \in V}
      BY <1>1, ValuesOfPlaces
    <2>3. Total(cells) = SumOver(col, V)
      BY <1>1, SumOfCells
    <2>4. QED
      BY <2>1, <2>2, <2>3
  <1>3. V # {} => cells[Min(Q)] = col[Min(V)] /\ cells[Max(Q)] = col[Max(V)]
    BY <1>1, EndPlaces
  <1>4. Q = {k \in DOMAIN cells : cells[k] # Null}
    BY <1>1 DEF Places
  <1>5. InnerResult("sum", cells) = <<CellOf("sum", col, V)>>
    <2>1. InnerResult("sum", cells) = IF Q = {} THEN <<Null>> ELSE <<Total(cells)>>
      BY <1>4 DEF InnerResult
    <2>2. QED
      BY <1>2, <2>1 DEF CellOf
  <1>6. InnerResult("mean", cells) = <<CellOf("mean", col, V)>>
    <2>1. InnerResult("mean", cells) = IF Q = {} THEN <<Null>> ELSE <<<<Total(cells), Cardinality(Q)>>>>
      BY <1>4 DEF InnerResult
    <2>2. QED
      BY <1>2, <2>1 DEF CellOf
  <1>7. InnerResult("min", cells) = <<CellOf("min", col, V)>>
    <2>1. InnerResult("min", cells) = IF Q = {} THEN <<Null>> ELSE <<Min({cells[k] : k \in Q})>>
      BY <1>4 DEF InnerResult
    <2>2. QED
      BY <1>2, <2>1 DEF CellOf
  <1>8. InnerResult("max", cells) = <<CellOf("max", col, V)>>
    <2>1. InnerResult("max", cells) = IF Q = {} THEN <<Null>> ELSE <<Max({cells[k] : k \in Q})>>
      BY <1>4 DEF InnerResult
    <2>2. QED
      BY <1>2, <2>1 DEF CellOf
  <1>9. InnerResult("count", cells) = <<CellOf("count", col, V)>>
    <2>1. InnerResult("count", cells) = <<Cardinality(Q)>>
      BY <1>4 DEF InnerResult
    <2>2. QED
      BY <1>2, <2>1 DEF CellOf
  <1>10. InnerResult("first", cells) = Single(V, col[Min(V)])
    <2>1. InnerResult("first", cells) = IF Q = {} THEN <<Null>> ELSE <<cells[Min(Q)]>>
      BY <1>4 DEF InnerResult
    <2>2. QED
      BY <1>2, <1>3, <2>1 DEF Single
  <1>11. InnerResult("last", cells) = Single(V, col[Max(V)])
    <2>1. InnerResult("last", cells) = IF Q = {} THEN <<Null>> ELSE <<cells[Max(Q)]>>
      BY <1>4 DEF InnerResult
    <2>2. QED
      BY <1>2, <1>3, <2>1 DEF Single
  <1>12. QED
    BY <1>1, <1>5, <1>6, <1>7, <1>8, <1>9, <1>10, <1>11 DEF FastAggs

(* A running sum                                                           *)
RunsOver(r, col, n, rows, S) ==
  /\ DOMAIN r = 1..n /\ Len(r) = n
  /\ \A k \in 1..n : r[k] = IF col[rows[k]] = Null THEN Null
                            ELSE SumOver(col, {i \in NonNull(col, S) : i <= rows[k]})

LEMMA RunningCells ==
  ASSUME NEW col, NEW n, NEW rows, NEW S, Lists(rows, n, S), IntColumn(col, S),
         NEW r, r = InnerResult("cumSum", CellsAt(col, rows))
  PROVE  RunsOver(r, col, n, rows, S)
  <1>1. PICK cells : cells = CellsAt(col, rows)
    OBVIOUS
  <1>2. n \in Nat /\ DOMAIN cells = 1..n /\ \A k \in 1..n : cells[k] = col[rows[k]]
    BY <1>1 DEF CellsAt, Lists
  <1>3. r = [k \in 1..n |-> IF cells[k] = Null THEN Null ELSE Total(SubSeq(cells, 1, k))]
    BY <1>1, <1>2 DEF InnerResult
  <1>4. DOMAIN r = 1..n /\ Len(r) = n
    BY <1>2, <1>3
  <1>5. ASSUME NEW k \in 1..n
        PROVE  Total(SubSeq(cells, 1, k)) = SumOver(col, {i \in NonNull(col, S) : i <= rows[k]})
    <2>1. PICK part : part = SubSeq(cells, 1, k)
      OBVIOUS
    <2>2. k \in 0..n /\ DOMAIN part = 1..k /\ \A l \in 1..k : part[l] = col[rows[l]]
      <3>1. part = [l \in 1..k |-> cells[l]]
        BY <1>2, <2>1
      <3>2. \A l \in 1..k : l \in 1..n
        BY <1>2
      <3>3. QED
        BY <1>2, <3>1, <3>2
    <2>3. Total(part) = SumOver(col, NonNull(col, RowsOfFirst(rows, k)))
      BY <2>2, TotalIsSum DEF IntColumn
    <2>4. \A l \in 1..n : l \in 1..k <=> rows[l] <= rows[k]
      <3> SUFFICES ASSUME NEW l \in 1..n PROVE l \in 1..k <=> rows[l] <= rows[k]
        OBVIOUS
      <3>1. /\ rows[l] \in Int /\ rows[k] \in Int
            /\ l < k => rows[l] < rows[k]
            /\ k < l => rows[k] < rows[l]
        BY DEF Lists
      <3>2. QED
        BY <3>1
    <2>5. NonNull(col, RowsOfFirst(rows, k)) = {i \in NonNull(col, S) : i <= rows[k]}
      <3>1. S = {rows[l] : l \in 1..n} /\ \A l \in 1..k : l \in 1..n
        BY <1>2 DEF Lists
      <3>2. RowsOfFirst(rows, k) = {i \in S : i <= rows[k]}
        BY <2>4, <3>1 DEF RowsOfFirst
      <3>3. QED
        BY <3>2 DEF NonNull
    <2>6. QED
      BY <2>1, <2>3, <2>5
  <1>6. QED
    BY <1>2, <1>3, <1>4, <1>5 DEF RunsOver

(* The different cells                                                     *)
FirstPlaces(cells, n) == {k \in 1..n : \A l \in 1..k-1 : cells[l] # cells[k]}

LEMMA UniqueCells ==
  ASSUME NEW n \in Nat, NEW cells, DOMAIN cells = 1..n, NEW r, r = InnerResult("unique", cells),
         NEW F, F = FirstPlaces(cells, n)
  PROVE  /\ IsFiniteSet(F) /\ F \subseteq 1..n /\ Cardinality(F) \in Nat
         /\ DOMAIN r = 1..Cardinality(F) /\ Len(r) = Cardinality(F)
         /\ \A k \in 1..Cardinality(F) : r[k] = cells[RowList(F)[k]]
         /\ ToSet(RowList(F)) = F
  <1>1. F \subseteq 1..n /\ IsFiniteSet(F)
    BY FS_Interval, FS_Subset DEF FirstPlaces
  <1>2. PICK s, c : s = RowList(F) /\ c = Cardinality(F)
    OBVIOUS
  <1>3. DOMAIN s = 1..c /\ c \in Nat /\ ToSet(s) = F
    <2>1. \A x \in F : x \in Int
      BY <1>1
    <2>2. QED
      BY <1>1, <1>2, <2>1, RowListAscends
  <1>4. r = [k \in 1..c |-> cells[s[k]]]
    BY <1>2, <1>3 DEF InnerResult, FirstPlaces
  <1>5. QED
    BY <1>1, <1>2, <1>3, <1>4

LEMMA AllDiffer ==
  ASSUME NEW n \in Nat, NEW cells, NEW F, F = FirstPlaces(cells, n)
  PROVE  Cardinality(F) = n <=> \A k, l \in 1..n : k # l => cells[k] # cells[l]
  <1>1. F \subseteq 1..n /\ IsFiniteSet(1..n) /\ Cardinality(1..n) = n
    BY FS_Interval DEF FirstPlaces
  <1>2. Cardinality(F) = n <=> F = 1..n
    BY <1>1, FS_Subset
  <1>3. ASSUME F = 1..n, NEW k \in 1..n, NEW l \in 1..n, k # l PROVE cells[k] # cells[l]
    <2>1. l \in 1..k-1 \/ k \in 1..l-1
      BY <1>3
    <2>2. k \in F /\ l \in F
      BY <1>3
    <2>3. QED
      BY <2>1, <2>2 DEF FirstPlaces
  <1>4. ASSUME \A k, l \in 1..n : k # l => cells[k] # cells[l] PROVE F = 1..n
    <2>1. ASSUME NEW k \in 1..n PROVE k \in F
      <3>1. \A l \in 1..k-1 : l \in 1..n /\ l # k
        OBVIOUS
      <3>2. QED
        BY <1>4, <3>1 DEF FirstPlaces
    <2>2. QED
      BY <1>1, <2>1
  <1>5. QED
    BY <1>2, <1>3, <1>4

LEMMA AllSame ==
  ASSUME NEW n \in Nat \ {0}, NEW cells, NEW F, F = FirstPlaces(cells, n)
  PROVE  Cardinality(F) = 1 <=> \A k \in 1..n : cells[k] = cells[1]
  <1>1. F \subseteq 1..n /\ IsFiniteSet(F) /\ 1 \in F
    <2>1. F \subseteq 1..n /\ IsFiniteSet(1..n)
      BY FS_Interval DEF FirstPlaces
    <2>2. 1 \in 1..n /\ 1..1-1 = {}
      OBVIOUS
    <2>3. QED
      BY <2>1, <2>2, FS_Subset DEF FirstPlaces
  <1>2. Cardinality(F) = 1 <=> F = {1}
    <2>1. Cardinality(F) = 1 <=> \E x : F = {x}
      BY <1>1, FS_Singleton
    <2>2. QED
      BY <1>1, <2>1
  <1>3. ASSUME F = {1}, NEW k \in 1..n PROVE cells[k] = cells[1]
    <2>1. PICK T : T = {l \in 1..n : cells[l] = cells[k]}
      OBVIOUS
    <2>2. T \in SUBSET Nat /\ T # {}
      BY <2>1
    <2>3. PICK m \in T : \A l \in T : m <= l
      BY <2>2, Least
    <2>4. m \in 1..n /\ cells[m] = cells[k]
      BY <2>1
    <2>5. ASSUME NEW l \in 1..m-1 PROVE cells[l] # cells[m]
      <3>1. l \in 1..n /\ ~(m <= l)
        BY <2>4
      <3>2. QED
        BY <2>1, <2>3, <2>4, <3>1
    <2>6. m = 1
      BY <1>3, <2>4, <2>5 DEF FirstPlaces
    <2>7. QED
      BY <2>4, <2>6
  <1>4. ASSUME \A k \in 1..n : cells[k] = cells[1] PROVE F = {1}
    <2>1. ASSUME NEW k \in F, k # 1 PROVE FALSE
      <3>1. 1 \in 1..k-1 /\ k \in 1..n
        BY <1>1, <2>1
      <3>2. cells[1] # cells[k]
        BY <3>1 DEF FirstPlaces
      <3>3. QED
        BY <1>4, <3>1, <3>2
    <2>2. QED
      BY <1>1, <2>1
  <1>5. QED
    BY <1>2, <1>3, <1>4

LEMMA AllPlaces ==
  ASSUME NEW n \in Nat, NEW k \in 1..n
  PROVE  RowList(1..n)[k] = k
  <1>1. PICK s : s = [l \in 1..n |-> l]
    OBVIOUS
  <1>2. s \in Seq(Int) /\ Ascending(s) /\ ToSet(s) = 1..n
    BY <1>1 DEF Ascending, ToSet
  <1>3. s = RowList(1..n)
    BY <1>2, AscendingIsRowList
  <1>4. QED
    BY <1>1, <1>3

(* Where the cell of a row is                                              *)
LEMMA CellAtPlace ==
  ASSUME NEW n, NEW rows, NEW S, Lists(rows, n, S), NEW r, NEW k \in 1..n
  PROVE  /\ Len(r) = 1 => CellFor(r, rows, rows[k]) = r[1]
         /\ Len(r) = n => CellFor(r, rows, rows[k]) = r[k]
  <1>1. n \in Nat /\ Len(rows) = n /\ \A l \in 1..n : l # k => rows[l] # rows[k]
    <2>1. ASSUME NEW l \in 1..n, l # k PROVE rows[l] # rows[k]
      <3>1. /\ rows[l] \in Int /\ rows[k] \in Int
            /\ l < k => rows[l] < rows[k]
            /\ k < l => rows[k] < rows[l]
        BY DEF Lists
      <3>2. l < k \/ k < l
        BY <2>1
      <3>3. QED
        BY <3>1, <3>2
    <2>2. QED
      BY <2>1 DEF Lists
  <1>2. CASE Len(r) = 1
    <2>1. CellFor(r, rows, rows[k]) = r[1]
      BY <1>2 DEF CellFor
    <2>2. n = 1 => k = 1
      OBVIOUS
    <2>3. QED
      BY <1>2, <2>1, <2>2
  <1>3. CASE Len(r) # 1
    <2>1. {l \in 1..Len(rows) : rows[l] = rows[k]} = {k}
      BY <1>1
    <2>2. Min({k}) = k
      <3>1. {k} \subseteq Int /\ k \in {k} /\ \A x \in {k} : k <= x
        OBVIOUS
      <3>2. QED
        BY <3>1, MinOf
    <2>3. SelectInSeq(rows, LAMBDA j : j = rows[k]) = k
      BY <2>1, <2>2 DEF SelectInSeq
    <2>4. QED
      BY <1>3, <2>3 DEF CellFor
  <1>4. QED
    BY <1>2, <1>3

-----------------------------------------------------------------------------
(* The slow path over all groups                                           *)

LEMMA UniqueOfGroup ==
  ASSUME NEW col, NEW n, NEW rows, NEW S, Lists(rows, n, S), S # {},
         NEW r, r = InnerResult("unique", CellsAt(col, rows))
  PROVE  /\ Len(r) \in {1, n} => \A k \in 1..n : CellFor(r, rows, rows[k]) = col[rows[k]]
         /\ Len(r) \notin {1, n} <=>
              \E i \in S : \E j, k \in S : j # k /\ col[j] = col[k] /\ col[i] # col[j]
  <1>1. PICK cells, F : cells = CellsAt(col, rows) /\ F = FirstPlaces(cells, n)
    OBVIOUS
  <1>2. /\ n \in Nat \ {0} /\ DOMAIN cells = 1..n /\ \A k \in 1..n : cells[k] = col[rows[k]]
        /\ S = {rows[k] : k \in 1..n} /\ \A k \in 1..n : rows[k] \in Int
    <2>1. n # 0
      BY DEF Lists
    <2>2. QED
      BY <1>1, <2>1 DEF CellsAt, Lists
  <1>3. PICK c : c = Cardinality(F)
    OBVIOUS
  <1>4. /\ F \subseteq 1..n /\ c \in Nat /\ Len(r) = c /\ ToSet(RowList(F)) = F
        /\ \A k \in 1..c : r[k] = cells[RowList(F)[k]]
        /\ IsFiniteSet(F)
    <2>1. r = InnerResult("unique", cells) /\ F = FirstPlaces(cells, n) /\ n \in Nat /\ DOMAIN cells = 1..n
      BY <1>1, <1>2
    <2>2. /\ IsFiniteSet(F) /\ F \subseteq 1..n /\ Cardinality(F) \in Nat
          /\ Len(r) = Cardinality(F)
          /\ \A k \in 1..Cardinality(F) : r[k] = cells[RowList(F)[k]]
          /\ ToSet(RowList(F)) = F
      BY <2>1, UniqueCells
    <2>3. QED
      BY <1>3, <2>2
  <1>5. c = n <=> \A k, l \in 1..n : k # l => cells[k] # cells[l]
    <2>1. F = FirstPlaces(cells, n) /\ n \in Nat
      BY <1>1, <1>2
    <2>2. Cardinality(F) = n <=> \A k, l \in 1..n : k # l => cells[k] # cells[l]
      BY <2>1, AllDiffer
    <2>3. QED
      BY <1>3, <2>2
  <1>6. c = 1 <=> \A k \in 1..n : cells[k] = cells[1]
    <2>1. F = FirstPlaces(cells, n) /\ n \in Nat \ {0}
      BY <1>1, <1>2
    <2>2. Cardinality(F) = 1 <=> \A k \in 1..n : cells[k] = cells[1]
      BY <2>1, AllSame
    <2>3. QED
      BY <1>3, <2>2
  <1>7. ASSUME c = n, NEW k \in 1..n PROVE CellFor(r, rows, rows[k]) = col[rows[k]]
    <2>1. F = 1..n
      <3>1. IsFiniteSet(1..n) /\ Cardinality(1..n) = n
        BY <1>2, FS_Interval
      <3>2. QED
        BY <1>3, <1>4, <1>7, <3>1, FS_Subset
    <2>2. r[k] = cells[k]
      BY <1>2, <1>4, <1>7, <2>1, AllPlaces
    <2>3. QED
      BY <1>2, <1>4, <1>7, <2>2, CellAtPlace
  <1>8. ASSUME c = 1, NEW k \in 1..n PROVE CellFor(r, rows, rows[k]) = col[rows[k]]
    <2>1. RowList(F)[1] \in 1..n
      <3>1. DOMAIN RowList(F) = 1..1
        <4>1. \A x \in F : x \in Int
          BY <1>4
        <4>2. DOMAIN RowList(F) = 1..c
          BY <1>3, <1>4, <4>1, RowListAscends
        <4>3. QED
          BY <1>8, <4>2
      <3>2. RowList(F)[1] \in ToSet(RowList(F))
        BY <3>1 DEF ToSet
      <3>3. QED
        BY <1>4, <3>2
    <2>2. r[1] = cells[RowList(F)[1]]
      BY <1>4, <1>8
    <2>3. r[1] = cells[k]
      BY <1>6, <1>8, <2>1, <2>2
    <2>4. CellFor(r, rows, rows[k]) = r[1]
      BY <1>4, <1>8, CellAtPlace
    <2>5. QED
      BY <1>2, <2>3, <2>4
  <1>9. ASSUME c \notin {1, n}
        PROVE  \E i \in S : \E j, k \in S : j # k /\ col[j] = col[k] /\ col[i] # col[j]
    <2>1. PICK k \in 1..n, l \in 1..n : k # l /\ cells[k] = cells[l]
      BY <1>5, <1>9
    <2>2. PICK m \in 1..n : cells[m] # cells[k]
      <3>1. PICK p \in 1..n : cells[p] # cells[1]
        BY <1>6, <1>9
      <3>2. 1 \in 1..n
        BY <1>2
      <3>3. QED
        BY <3>1, <3>2
    <2>3. rows[k] # rows[l]
      <3>1. /\ k < l => rows[k] < rows[l]
            /\ l < k => rows[l] < rows[k]
        BY DEF Lists
      <3>2. (k < l \/ l < k) /\ rows[k] \in Int /\ rows[l] \in Int
        BY <1>2, <2>1
      <3>3. QED
        BY <3>1, <3>2
    <2>4. rows[k] \in S /\ rows[l] \in S /\ rows[m] \in S
      BY <1>2
    <2>5. col[rows[k]] = col[rows[l]] /\ col[rows[m]] # col[rows[k]]
      BY <1>2, <2>1, <2>2
    <2>6. QED
      BY <2>3, <2>4, <2>5
  <1>10. ASSUME NEW i \in S, NEW j \in S, NEW k \in S, j # k, col[j] = col[k], col[i] # col[j]
         PROVE  c \notin {1, n}
    <2>1. PICK x \in 1..n, y \in 1..n, z \in 1..n : i = rows[x] /\ j = rows[y] /\ k = rows[z]
      BY <1>2
    <2>2. cells[y] = cells[z] /\ y # z /\ cells[x] # cells[y]
      BY <1>2, <1>10, <2>1
    <2>3. c # n
      BY <1>5, <2>2
    <2>4. c # 1
      BY <1>6, <2>2
    <2>5. QED
      BY <2>3, <2>4
  <1>11. QED
    BY <1>4, <1>7, <1>8, <1>9, <1>10

(* The lists of rows and the results of the groups                         *)
MembersOf(ht, g) == RowList({i \in 0..height-1 : ht.groupIDs[i+1] = g})
ResultOf(fn, col, ht, g) == InnerResult(fn, [k \in DOMAIN MembersOf(ht, g) |-> col[MembersOf(ht, g)[k]]])
GroupList(g) == RowList(InGroup(g, height))
GroupResult(fn, col, g) == InnerResult(fn, CellsAt(col, GroupList(g)))
Refused(fn, col) == \E g \in Groups : Len(GroupResult(fn, col, g)) \notin {1, Len(GroupList(g))}
RowCell(fn, col, i) == CellFor(GroupResult(fn, col, gids[i]), GroupList(gids[i]), i)

LEMMA SlowUnfolds ==
  ASSUME NEW fn, NEW col, NEW ht
  PROVE  windowSlowPath(fn, col, ht) =
           IF \E g \in 0..ht.nGroups-1 : Len(ResultOf(fn, col, ht, g)) \notin {1, Len(MembersOf(ht, g))} THEN Error
           ELSE [i \in 0..height-1 |-> CellFor(ResultOf(fn, col, ht, ht.groupIDs[i+1]), MembersOf(ht, ht.groupIDs[i+1]), i)]
  BY DEF windowSlowPath, MembersOf, ResultOf

LEMMA SlowByGroups ==
  ASSUME RowsNumbered, NEW ht, HasGroups(ht), NEW fn, NEW col
  PROVE  windowSlowPath(fn, col, ht) =
           IF Refused(fn, col) THEN Error ELSE [i \in 0..height-1 |-> RowCell(fn, col, i)]
  <1>1. ASSUME NEW g PROVE MembersOf(ht, g) = GroupList(g)
    <2>1. \A i \in 0..height-1 : ht.groupIDs[i+1] = gids[i]
      BY GroupOfRow
    <2>2. {i \in 0..height-1 : ht.groupIDs[i+1] = g} = InGroup(g, height)
      BY <2>1 DEF InGroup
    <2>3. QED
      BY <2>2 DEF MembersOf, GroupList
  <1>2. ASSUME NEW g PROVE ResultOf(fn, col, ht, g) = GroupResult(fn, col, g)
    BY <1>1 DEF ResultOf, GroupResult, CellsAt
  <1>3. (\E g \in 0..ht.nGroups-1 : Len(ResultOf(fn, col, ht, g)) \notin {1, Len(MembersOf(ht, g))}) <=> Refused(fn, col)
    BY <1>1, <1>2 DEF Refused, HasGroups, Groups
  <1>4. ASSUME NEW i \in 0..height-1
        PROVE  CellFor(ResultOf(fn, col, ht, ht.groupIDs[i+1]), MembersOf(ht, ht.groupIDs[i+1]), i) = RowCell(fn, col, i)
    BY <1>1, <1>2, GroupOfRow DEF RowCell
  <1>5. QED
    BY <1>3, <1>4, SlowUnfolds

LEMMA GroupListed ==
  ASSUME RowsNumbered, NEW col, ValueColumn(col), NEW g \in Groups
  PROVE  /\ Lists(GroupList(g), Cardinality(InGroup(g, height)), InGroup(g, height))
         /\ IntColumn(col, InGroup(g, height)) /\ InGroup(g, height) # {}
         /\ NonNull(col, InGroup(g, height)) = Valued(col, g, height)
  <1>1. PICK S : S = InGroup(g, height) /\ S = {i \in 0..height-1 : gids[i] = g}
    BY DEF InGroup
  <1>2. IsFiniteSet(S) /\ \A x \in S : x \in Int
    <2>1. IsFiniteSet(0..height-1) /\ S \subseteq 0..height-1
      BY <1>1, FS_Interval DEF RowsNumbered
    <2>2. IsFiniteSet(S)
      BY <2>1, FS_Subset
    <2>3. \A x \in S : x \in Int
      BY <2>1
    <2>4. QED
      BY <2>2, <2>3
  <1>3. Lists(GroupList(g), Cardinality(S), S)
    BY <1>1, <1>2, RowsListed DEF GroupList
  <1>4. IntColumn(col, S) /\ NonNull(col, S) = Valued(col, g, height)
    BY <1>1 DEF IntColumn, ValueColumn, NonNull, Valued
  <1>5. S # {}
    BY <1>1 DEF RowsNumbered, Groups
  <1>6. QED
    BY <1>1, <1>3, <1>4, <1>5

(* Row i is one of the rows of its group.                                  *)
LEMMA PlaceOfRow ==
  ASSUME RowsNumbered, NEW i \in 0..height-1, NEW n, Lists(GroupList(gids[i]), n, InGroup(gids[i], height))
  PROVE  /\ gids[i] \in Groups /\ \E k \in 1..n : GroupList(gids[i])[k] = i
  <1>1. gids[i] \in Groups
    BY DEF RowsNumbered, Groups
  <1>2. i \in InGroup(gids[i], height)
    BY DEF InGroup
  <1>3. QED
    BY <1>1, <1>2 DEF Lists

LEMMA LengthOne ==
  ASSUME RowsNumbered, NEW ht, HasGroups(ht), NEW fn, NEW col, ValueColumn(col), NEW cell,
         \A g \in Groups : GroupResult(fn, col, g) = <<cell[g]>>
  PROVE  windowSlowPath(fn, col, ht) = [i \in 0..height-1 |-> cell[gids[i]]]
  <1>1. ~Refused(fn, col)
    BY DEF Refused
  <1>2. ASSUME NEW i \in 0..height-1 PROVE RowCell(fn, col, i) = cell[gids[i]]
    <2>1. gids[i] \in Groups
      BY DEF RowsNumbered, Groups
    <2>2. PICK r : r = GroupResult(fn, col, gids[i]) /\ r = <<cell[gids[i]]>>
      BY <2>1
    <2>3. Len(r) = 1 /\ r[1] = cell[gids[i]]
      BY <2>2
    <2>4. PICK n : Lists(GroupList(gids[i]), n, InGroup(gids[i], height))
      BY <2>1, GroupListed
    <2>5. PICK k \in 1..n : GroupList(gids[i])[k] = i
      BY <2>4, PlaceOfRow
    <2>6. CellFor(r, GroupList(gids[i]), i) = r[1]
      BY <2>3, <2>4, <2>5, CellAtPlace
    <2>7. QED
      BY <2>2, <2>3, <2>6 DEF RowCell
  <1>3. QED
    BY <1>1, <1>2, SlowByGroups

(* Sum, Mean, Min, Max and Count of a window on the slow path              *)
LEMMA SlowAggregates ==
  ASSUME RowsNumbered, NEW ht, HasGroups(ht), NEW col, ValueColumn(col), NEW fn \in FastAggs \cup {"count"}
  PROVE  windowSlowPath(fn, col, ht) = [i \in 0..height-1 |-> CellOf(fn, col, RowsValued(col, i))]
  <1>1. PICK cell : cell = [g \in Groups |-> CellOf(fn, col, Valued(col, g, height))]
    OBVIOUS
  <1>2. ASSUME NEW g \in Groups PROVE GroupResult(fn, col, g) = <<cell[g]>>
    <2>1. InnerResult(fn, CellsAt(col, GroupList(g))) = <<CellOf(fn, col, NonNull(col, InGroup(g, height)))>>
      BY GroupListed, OneCell
    <2>2. NonNull(col, InGroup(g, height)) = Valued(col, g, height)
      BY GroupListed
    <2>3. QED
      BY <1>1, <2>1, <2>2 DEF GroupResult
  <1>3. windowSlowPath(fn, col, ht) = [i \in 0..height-1 |-> cell[gids[i]]]
    BY <1>2, LengthOne
  <1>4. ASSUME NEW i \in 0..height-1 PROVE cell[gids[i]] = CellOf(fn, col, RowsValued(col, i))
    BY <1>1 DEF RowsNumbered, Groups, RowsValued
  <1>5. QED
    BY <1>3, <1>4

(* First and Last                                                          *)
EndCell(fn, col, V) == IF V = {} THEN Null ELSE IF fn = "first" THEN col[Min(V)] ELSE col[Max(V)]

LEMMA SlowEnds ==
  ASSUME RowsNumbered, NEW ht, HasGroups(ht), NEW col, ValueColumn(col), NEW fn \in {"first", "last"}
  PROVE  windowSlowPath(fn, col, ht) = [i \in 0..height-1 |-> EndCell(fn, col, RowsValued(col, i))]
  <1>1. PICK cell : cell = [g \in Groups |-> EndCell(fn, col, Valued(col, g, height))]
    OBVIOUS
  <1>2. ASSUME NEW g \in Groups PROVE GroupResult(fn, col, g) = <<cell[g]>>
    <2>1. PICK V : V = NonNull(col, InGroup(g, height)) /\ V = Valued(col, g, height)
      BY GroupListed
    <2>2. /\ InnerResult("first", CellsAt(col, GroupList(g))) = Single(V, col[Min(V)])
          /\ InnerResult("last", CellsAt(col, GroupList(g))) = Single(V, col[Max(V)])
      BY <2>1, GroupListed, OneCell
    <2>3. InnerResult(fn, CellsAt(col, GroupList(g))) = <<EndCell(fn, col, V)>>
      BY <2>2 DEF EndCell, Single
    <2>4. QED
      BY <1>1, <2>1, <2>3 DEF GroupResult
  <1>3. windowSlowPath(fn, col, ht) = [i \in 0..height-1 |-> cell[gids[i]]]
    BY <1>2, LengthOne
  <1>4. ASSUME NEW i \in 0..height-1 PROVE cell[gids[i]] = EndCell(fn, col, RowsValued(col, i))
    BY <1>1 DEF RowsNumbered, Groups, RowsValued
  <1>5. QED
    BY <1>3, <1>4

(* A running sum                                                           *)
RunningCell(col, i) ==
  IF col[i] = Null THEN Null ELSE SumOver(col, {j \in RowsValued(col, i) : j <= i})

LEMMA SlowRunning ==
  ASSUME RowsNumbered, NEW ht, HasGroups(ht), NEW col, ValueColumn(col)
  PROVE  windowSlowPath("cumSum", col, ht) = [i \in 0..height-1 |-> RunningCell(col, i)]
  <1>1. ASSUME NEW g \in Groups PROVE Len(GroupResult("cumSum", col, g)) = Len(GroupList(g))
    <2>1. PICK n : Lists(GroupList(g), n, InGroup(g, height))
      BY GroupListed
    <2>2. Len(GroupResult("cumSum", col, g)) = n
      <3>1. IntColumn(col, InGroup(g, height))
        BY GroupListed
      <3>2. RunsOver(GroupResult("cumSum", col, g), col, n, GroupList(g), InGroup(g, height))
        BY <2>1, <3>1, RunningCells DEF GroupResult
      <3>3. QED
        BY <3>2 DEF RunsOver
    <2>3. QED
      BY <2>1, <2>2 DEF Lists
  <1>2. ~Refused("cumSum", col)
    BY <1>1 DEF Refused
  <1>3. ASSUME NEW i \in 0..height-1 PROVE RowCell("cumSum", col, i) = RunningCell(col, i)
    <2>1. PICK g, S, rows : g \in Groups /\ g = gids[i] /\ S = InGroup(g, height) /\ rows = GroupList(g)
      BY DEF RowsNumbered, Groups
    <2>2. PICK n : Lists(rows, n, S)
      BY <2>1, GroupListed
    <2>3. NonNull(col, S) = RowsValued(col, i)
      BY <2>1, GroupListed DEF RowsValued
    <2>ints. IntColumn(col, S)
      BY <2>1, GroupListed
    <2>4. PICK r : r = GroupResult("cumSum", col, g) /\ r = InnerResult("cumSum", CellsAt(col, rows))
      BY <2>1 DEF GroupResult
    <2>runs. RunsOver(r, col, n, rows, S)
      BY <2>2, <2>ints, <2>4, RunningCells
    <2>5. /\ Len(r) = n
          /\ \A k \in 1..n : r[k] = IF col[rows[k]] = Null THEN Null
                                   ELSE SumOver(col, {j \in NonNull(col, S) : j <= rows[k]})
      BY <2>runs DEF RunsOver
    <2>6. PICK k \in 1..n : rows[k] = i
      BY <2>1, <2>2, PlaceOfRow
    <2>7. CellFor(r, rows, i) = r[k]
      BY <2>2, <2>5, <2>6, CellAtPlace
    <2>8. r[k] = RunningCell(col, i)
      BY <2>3, <2>5, <2>6 DEF RunningCell
    <2>9. QED
      BY <2>1, <2>4, <2>7, <2>8 DEF RowCell
  <1>4. QED
    BY <1>2, <1>3, SlowByGroups

(* The different cells                                                     *)
LEMMA SlowUnique ==
  ASSUME RowsNumbered, NEW ht, HasGroups(ht), NEW col, ValueColumn(col),
         NEW uniques, uniques = windowSlowPath("unique", col, ht)
  PROVE  /\ uniques # Error => \A i \in 0..height-1 : uniques[i] = col[i]
         /\ (uniques = Error /\ height > 0) <=>
              \E g \in Groups : \E i, j, k \in InGroup(g, height) : j # k /\ col[j] = col[k] /\ col[i] # col[j]
  <1>1. ASSUME NEW g \in Groups
        PROVE  Len(GroupResult("unique", col, g)) \notin {1, Len(GroupList(g))} <=>
                 \E i, j, k \in InGroup(g, height) : j # k /\ col[j] = col[k] /\ col[i] # col[j]
    <2>1. PICK S, rows, r : /\ S = InGroup(g, height) /\ rows = GroupList(g)
                            /\ r = InnerResult("unique", CellsAt(col, rows))
      OBVIOUS
    <2>2. PICK n : Lists(rows, n, S) /\ S # {}
      BY <2>1, GroupListed
    <2>3. Len(r) \notin {1, n} <=>
            \E i \in S : \E j, k \in S : j # k /\ col[j] = col[k] /\ col[i] # col[j]
      BY <2>1, <2>2, UniqueOfGroup
    <2>4. r = GroupResult("unique", col, g) /\ Len(rows) = n
      BY <2>1, <2>2 DEF GroupResult, Lists
    <2>5. QED
      BY <2>1, <2>3, <2>4
  <1>2. Refused("unique", col) <=>
          \E g \in Groups : \E i, j, k \in InGroup(g, height) : j # k /\ col[j] = col[k] /\ col[i] # col[j]
    BY <1>1 DEF Refused
  <1>3. uniques = IF Refused("unique", col) THEN Error ELSE [i \in 0..height-1 |-> RowCell("unique", col, i)]
    BY SlowByGroups
  <1>4. ASSUME ~Refused("unique", col), NEW i \in 0..height-1 PROVE RowCell("unique", col, i) = col[i]
    <2>1. PICK g, S, rows : g \in Groups /\ g = gids[i] /\ S = InGroup(g, height) /\ rows = GroupList(g)
      BY DEF RowsNumbered, Groups
    <2>2. PICK n : Lists(rows, n, S) /\ S # {}
      BY <2>1, GroupListed
    <2>3. PICK r : r = GroupResult("unique", col, g) /\ r = InnerResult("unique", CellsAt(col, rows))
      BY <2>1 DEF GroupResult
    <2>4. Len(r) \in {1, n}
      BY <1>4, <2>1, <2>2, <2>3 DEF Refused, Lists
    <2>5. \A k \in 1..n : CellFor(r, rows, rows[k]) = col[rows[k]]
      BY <2>2, <2>3, <2>4, UniqueOfGroup
    <2>6. PICK k \in 1..n : rows[k] = i
      BY <2>1, <2>2, PlaceOfRow
    <2>7. QED
      BY <2>1, <2>3, <2>5, <2>6 DEF RowCell
  <1>5. height > 0 => (uniques = Error <=> Refused("unique", col))
    <2>1. ASSUME height > 0, ~Refused("unique", col) PROVE uniques # Error
      <3>1. 0 \in DOMAIN uniques
        BY <1>3, <2>1 DEF RowsNumbered
      <3>2. DOMAIN Error = {}
        BY DEF Error
      <3>3. QED
        BY <3>1, <3>2
    <2>2. QED
      BY <1>3, <2>1
  <1>6. Refused("unique", col) => height > 0
    <2> SUFFICES ASSUME Refused("unique", col) PROVE height > 0
      OBVIOUS
    <2>1. PICK g \in Groups : InGroup(g, height) # {}
      BY GroupListed DEF Refused
    <2>2. QED
      BY <2>1 DEF InGroup, RowsNumbered
  <1>7. uniques # Error => \A i \in 0..height-1 : uniques[i] = col[i]
    <2> SUFFICES ASSUME uniques # Error, NEW i \in 0..height-1 PROVE uniques[i] = col[i]
      OBVIOUS
    <2>1. ~Refused("unique", col)
      BY <1>3
    <2>2. QED
      BY <1>3, <1>4, <2>1
  <1>8. QED
    BY <1>2, <1>5, <1>6, <1>7

-----------------------------------------------------------------------------
(* GroupBy                                                                 *)

Aggregate(fn, col) ==
  CASE fn = "sum" -> Sum(col) [] fn = "mean" -> Mean(col)
    [] fn = "min" -> Smallest(col) [] fn = "max" -> Largest(col) [] fn = "count" -> Count(col)

LEMMA AggregateOfGroup ==
  ASSUME FullInv, KeysWellBehaved, Aggregated, NEW col \in Columns, NEW g \in Groups,
         NEW fn \in FastAggs \cup {"count"}
  PROVE  Aggregate(fn, col)[g] = CellOf(fn, col, Valid(col, g))
  <1>1. PICK rows : rows = Valid(col, g)
    OBVIOUS
  <1>2. /\ HaveValues(col, rows)
        /\ \A f \in AggFuncs : CellOK(f, Accumulate(col, f)[g], col, rows)
    <2>1. /\ HaveValues(col, Valid(col, g))
          /\ \A f \in AggFuncs : CellOK(f, Accumulate(col, f)[g], col, Valid(col, g))
      BY CellsOfGroup DEF AggFuncs
    <2>2. QED
      BY <1>1, <2>1
  <1>3. /\ Accumulate(col, "sum")[g] = <<SumOver(col, rows), Cardinality(rows)>>
        /\ Accumulate(col, "count")[g] = Cardinality(rows)
    BY <1>2 DEF CellOK, AggFuncs
  <1>4. Cardinality(rows) \in Nat /\ (Cardinality(rows) > 0 <=> rows # {})
    BY <1>2, CountsRows
  <1>5. /\ Sum(col)[g] = IF rows # {} THEN SumOver(col, rows) ELSE Null
        /\ Mean(col)[g] = IF rows # {} THEN <<SumOver(col, rows), Cardinality(rows)>> ELSE Null
    BY <1>3, <1>4 DEF Sum, Mean
  <1>6. Smallest(col)[g] = CellOf("min", col, rows) /\ Largest(col)[g] = CellOf("max", col, rows)
    BY <1>2, ExtremeCells DEF Smallest, Largest, AggFuncs
  <1>7. CASE fn \in {"sum", "mean"}
    BY <1>1, <1>5, <1>7 DEF Aggregate, CellOf
  <1>8. CASE fn \in {"min", "max"}
    BY <1>1, <1>6, <1>8 DEF Aggregate
  <1>9. CASE fn = "count"
    BY <1>1, <1>3, <1>9 DEF Aggregate, CellOf, Count
  <1>10. QED
    BY <1>7, <1>8, <1>9 DEF FastAggs

-----------------------------------------------------------------------------
(* The windows                                                             *)

PeersOf(i) == {j \in 0..height-1 : rowsEqual(i, j)}

LEMMA ColumnWindows ==
  ASSUME FullInv, KeysWellBehaved, Aggregated, RowsNumbered, NEW ht, HasGroups(ht), NEW col \in Columns
  PROVE  LET values(fn) == [i \in 0..height-1 |-> Aggregate(fn, col)[gids[i]]]
             running == windowSlowPath("cumSum", col, ht)
             uniques == windowSlowPath("unique", col, ht)
         IN  /\ \A fn \in FastAggs : windowAggTyped(fn, col, ht) = values(fn)
             /\ \A fn \in FastAggs \cup {"count"} : windowSlowPath(fn, col, ht) = values(fn)
             /\ \A i \in 0..height-1 :
                  LET valid == {j \in PeersOf(i) : col[j] # Null}
                      before == {j \in valid : j <= i}
                  IN  /\ windowSlowPath("first", col, ht)[i] = IF valid = {} THEN Null ELSE col[Min(valid)]
                      /\ windowSlowPath("last", col, ht)[i] = IF valid = {} THEN Null ELSE col[Max(valid)]
                      /\ running[i] = IF col[i] = Null THEN Null ELSE MapThenSumSet(LAMBDA j : col[j], before)
                      /\ uniques # Error => uniques[i] = col[i]
             /\ uniques = Error /\ height > 0 <=>
                  \E i \in 0..height-1 : \E j, k \in PeersOf(i) : j # k /\ col[j] = col[k] /\ col[i] # col[j]
  <1>1. ValueColumn(col)
    <2>1. height \in Heights
      BY DoneNumbered, TableAssumption DEF FullInv, Inv, TypeInv
    <2>2. QED
      BY <2>1, ColumnAssumption DEF ValueColumn
  <1>2. ASSUME NEW i \in 0..height-1
        PROVE  /\ gids[i] \in Groups /\ PeersOf(i) = InGroup(gids[i], height)
               /\ {j \in PeersOf(i) : col[j] # Null} = RowsValued(col, i)
               /\ Valid(col, gids[i]) = RowsValued(col, i)
    <2>1. gids[i] \in Groups
      BY DEF RowsNumbered, Groups
    <2>2. PeersOf(i) = InGroup(gids[i], height)
      BY DEF PeersOf, InGroup, RowsNumbered
    <2>3. {j \in PeersOf(i) : col[j] # Null} = RowsValued(col, i)
      BY <2>2 DEF InGroup, RowsValued, Valued
    <2>4. Members(gids[i]) = InGroup(gids[i], height)
      BY <2>1, GroupsAreMembers
    <2>5. Valid(col, gids[i]) = RowsValued(col, i)
      BY <2>4 DEF Valid, InGroup, RowsValued, Valued
    <2>6. QED
      BY <2>1, <2>2, <2>3, <2>5
  <1>3. ASSUME NEW fn \in FastAggs \cup {"count"}, NEW i \in 0..height-1
        PROVE  CellOf(fn, col, RowsValued(col, i)) = Aggregate(fn, col)[gids[i]]
    BY <1>2, AggregateOfGroup
  <1>4. \A fn \in FastAggs : windowAggTyped(fn, col, ht) = [i \in 0..height-1 |-> Aggregate(fn, col)[gids[i]]]
    BY <1>1, <1>3, FastPathRight
  <1>5. \A fn \in FastAggs \cup {"count"} :
          windowSlowPath(fn, col, ht) = [i \in 0..height-1 |-> Aggregate(fn, col)[gids[i]]]
    BY <1>1, <1>3, SlowAggregates
  <1>6. PICK uniques : uniques = windowSlowPath("unique", col, ht)
    OBVIOUS
  <1>7. ASSUME NEW i \in 0..height-1, NEW valid, valid = {j \in PeersOf(i) : col[j] # Null}
        PROVE  /\ windowSlowPath("first", col, ht)[i] = IF valid = {} THEN Null ELSE col[Min(valid)]
               /\ windowSlowPath("last", col, ht)[i] = IF valid = {} THEN Null ELSE col[Max(valid)]
               /\ windowSlowPath("cumSum", col, ht)[i] =
                    IF col[i] = Null THEN Null ELSE SumOver(col, {j \in valid : j <= i})
               /\ uniques # Error => uniques[i] = col[i]
    <2>1. valid = RowsValued(col, i)
      BY <1>2, <1>7
    <2>2. windowSlowPath("first", col, ht)[i] = EndCell("first", col, valid)
      <3>1. windowSlowPath("first", col, ht) = [k \in 0..height-1 |-> EndCell("first", col, RowsValued(col, k))]
        BY <1>1, SlowEnds
      <3>2. QED
        BY <2>1, <3>1
    <2>3. windowSlowPath("last", col, ht)[i] = EndCell("last", col, valid)
      <3>1. windowSlowPath("last", col, ht) = [k \in 0..height-1 |-> EndCell("last", col, RowsValued(col, k))]
        BY <1>1, SlowEnds
      <3>2. QED
        BY <2>1, <3>1
    <2>4. windowSlowPath("cumSum", col, ht)[i] = RunningCell(col, i)
      BY <1>1, SlowRunning
    <2>5. uniques # Error => uniques[i] = col[i]
      BY <1>1, <1>6, SlowUnique
    <2>6. QED
      BY <2>1, <2>2, <2>3, <2>4, <2>5 DEF EndCell, RunningCell
  <1>8. uniques = Error /\ height > 0 <=>
          \E i \in 0..height-1 : \E j, k \in PeersOf(i) : j # k /\ col[j] = col[k] /\ col[i] # col[j]
    <2>1. (uniques = Error /\ height > 0) <=>
            \E g \in Groups : \E i, j, k \in InGroup(g, height) : j # k /\ col[j] = col[k] /\ col[i] # col[j]
      BY <1>1, <1>6, SlowUnique
    <2>2. ASSUME NEW g \in Groups, NEW i \in InGroup(g, height)
          PROVE  i \in 0..height-1 /\ PeersOf(i) = InGroup(g, height)
      BY <1>2 DEF InGroup
    <2>3. ASSUME NEW i \in 0..height-1 PROVE i \in InGroup(gids[i], height)
      BY DEF InGroup
    <2>4. QED
      BY <1>2, <2>1, <2>2, <2>3
  <1>9. QED
    BY <1>4, <1>5, <1>6, <1>7, <1>8 DEF SumOver

LEMMA WindowsRight ==
  ASSUME FullInv, KeysWellBehaved
  PROVE  WindowsAreOverGroups
  <1>1. CASE ~Aggregated
    BY <1>1 DEF WindowsAreOverGroups, Aggregated
  <1>2. CASE Aggregated
    <2>1. RowsNumbered
      BY <1>2, DoneNumbered
    <2>2. PICK ht : ht = windowBuildGroups
      OBVIOUS
    <2>3. HasGroups(ht)
      BY <2>1, <2>2, WindowGroups DEF HasGroups, FullInv, Inv
    <2>4. ht.groupIDs = [k \in 1..height |-> gids[k-1]]
      BY <2>3 DEF HasGroups
    <2>5. QED
      BY <1>2, <2>1, <2>2, <2>3, <2>4, ColumnWindows DEF WindowsAreOverGroups, Aggregate, PeersOf
  <1>3. QED
    BY <1>1, <1>2

(* Sum, Mean, Min, Max, Count, First, Last, a running sum and Unique over  *)
(* windows: the second group table finds GroupBy's groups, both paths give *)
(* every row what GroupBy aggregates for its group, and a result of any    *)
(* other length is refused: for every hash function and value column.      *)
THEOREM WindowsFollowGroups == KeysWellBehaved => (Spec => []WindowsAreOverGroups)
  <1> SUFFICES ASSUME KeysWellBehaved PROVE Spec => []WindowsAreOverGroups
    OBVIOUS
  <1>1. FullInv => WindowsAreOverGroups
    BY WindowsRight
  <1>2. QED
    BY OrderInvariant, <1>1, PTL

=============================================================================
