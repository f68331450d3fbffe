--------------------------- MODULE HashJoinProofs ---------------------------
(***************************************************************************)
(* Proofs about the hash join, for every pair of data frames, every hash   *)
(* function, chunk size and number of hash values above the number of keys.*)
(*                                                                         *)
(* The index of the right rows is a hash table keyed by hash values, in    *)
(* which a colliding key takes the next free value: its invariant is that  *)
(* of linear probing.  The lookups then emit exactly the pairs of the join *)
(* row by row, and chunks that are merged in their order keep the order of *)
(* the left rows.                                                          *)
(***************************************************************************)
EXTENDS HashJoin, DataLemmas

FrameInv ==
  /\ call \in [how : JoinTypes, valid : BOOLEAN, keyType : ColumnTypes, dtype : ColumnTypes]
  /\ LeftHeight \in Nat /\ left \in [0..LeftHeight-1 -> Keys]
  /\ RightHeight \in Nat /\ right \in [0..RightHeight-1 -> Keys]
  /\ row \in 0..RightHeight
  /\ pc \in {"called", "build", "probe", "done", "error"}
  /\ pc \in {"build", "probe"} => call.how # CrossJoin

(* The p-th probe for key k is the first to meet an entry of k, and it     *)
(* meets no free place before.                                             *)
Reached(k, p) ==
  /\ Taken(k, p) /\ EntryKey(k, p) = k
  /\ \A q \in 0..p-1 : Taken(k, q) /\ EntryKey(k, q) # k

(* An entry has the rows of one key, in row order.                         *)
EntryOK(h) ==
  /\ table[h] \in Seq(Int) /\ Len(table[h]) > 0
  /\ table[h][1] \in 0..row-1
  /\ Ascending(table[h])
  /\ ToSet(table[h]) = {i \in 0..row-1 : right[i] = right[table[h][1]]}

(* There is one entry for the key of each indexed row, and probing for the *)
(* key reaches it.                                                         *)
IndexInv ==
  /\ \A h \in DOMAIN table : h \in 0..HashSpace-1 /\ EntryOK(h)
  /\ \A g, h \in DOMAIN table : right[table[g][1]] = right[table[h][1]] => g = h
  /\ \A j \in 0..row-1 : \E p \in 0..HashSpace-1 : Reached(right[j], p)

-----------------------------------------------------------------------------
(* Probing                                                                 *)

LEMMA PlaceInSpace ==
  ASSUME NEW k \in Keys
  PROVE  \A p \in Nat : Place(k, p) \in 0..HashSpace-1
  BY JoinAssumption DEF Place

LEMMA EveryPlaceProbed ==
  ASSUME NEW k \in Keys, NEW h \in 0..HashSpace-1
  PROVE  \E p \in 0..HashSpace-1 : Place(k, p) = h
  <1>1. Hash[k] \in 0..HashSpace-1 /\ HashSpace \in Nat \ {0}
    BY JoinAssumption
  <1>2. CASE h >= Hash[k]
    <2>1. h - Hash[k] \in 0..HashSpace-1 /\ Hash[k] + (h - Hash[k]) = h
      BY <1>1, <1>2
    <2>2. h % HashSpace = h
      BY <1>1
    <2>3. QED
      BY <2>1, <2>2 DEF Place
  <1>3. CASE h < Hash[k]
    <2>1. /\ h - Hash[k] + HashSpace \in 0..HashSpace-1
          /\ Hash[k] + (h - Hash[k] + HashSpace) = h + HashSpace
      BY <1>1, <1>3
    <2>2. (h + HashSpace) % HashSpace = h
      BY <1>1
    <2>3. QED
      BY <2>1, <2>2 DEF Place
  <1>4. QED
    BY <1>1, <1>2, <1>3

(* There are fewer entries than keys, so a probe meets a free place.       *)
LEMMA SomePlaceFree ==
  ASSUME FrameInv, IndexInv, NEW k \in Keys
  PROVE  \E p \in 0..HashSpace-1 : ~Taken(k, p)
  <1>1. PICK first : first = [h \in DOMAIN table |-> right[table[h][1]]]
    OBVIOUS
  <1>2. first \in Injection(DOMAIN table, Keys)
    <2>1. ASSUME NEW h \in DOMAIN table PROVE right[table[h][1]] \in Keys
      BY DEF IndexInv, EntryOK, FrameInv
    <2>2. QED
      BY <1>1, <2>1 DEF IndexInv, Injection, IsInjective
  <1>3. IsFiniteSet(DOMAIN table) /\ Cardinality(DOMAIN table) <= Cardinality(Keys)
    BY <1>2, FS_Injection, JoinAssumption
  <1>4. IsFiniteSet(0..HashSpace-1) /\ Cardinality(0..HashSpace-1) = HashSpace
    BY FS_Interval, JoinAssumption
  <1>5. Cardinality(DOMAIN table) \in Nat /\ Cardinality(Keys) \in Nat
    BY <1>3, FS_CardinalityType, JoinAssumption
  <1>6. PICK h \in 0..HashSpace-1 : h \notin DOMAIN table
    <2> SUFFICES ASSUME 0..HashSpace-1 \subseteq DOMAIN table PROVE FALSE
      OBVIOUS
    <2>1. PICK A : A = 0..HashSpace-1
      OBVIOUS
    <2>2. A \in SUBSET (DOMAIN table)
      BY <2>1
    <2>3. Cardinality(A) <= Cardinality(DOMAIN table)
      BY <1>3, <2>2, FS_Subset
    <2>4. QED
      BY <1>3, <1>4, <1>5, <2>1, <2>3, JoinAssumption
  <1>7. QED
    BY <1>6, EveryPlaceProbed DEF Taken

(* Where an insertion of key k stops.                                      *)
InsertProbe(k) == FirstProbe(LAMBDA p : Taken(k, p) => EntryKey(k, p) = k)

LEMMA InsertStops ==
  ASSUME FrameInv, IndexInv, NEW k \in Keys
  PROVE  /\ InsertPlace(k) = Place(k, InsertProbe(k))
         /\ InsertProbe(k) \in 0..HashSpace-1
         /\ Taken(k, InsertProbe(k)) => EntryKey(k, InsertProbe(k)) = k
         /\ \A q \in 0..InsertProbe(k)-1 : Taken(k, q) /\ EntryKey(k, q) # k
  <1> DEFINE S == {p \in 0..HashSpace : Taken(k, p) => EntryKey(k, p) = k}
  <1>1. PICK c \in 0..HashSpace-1 : ~Taken(k, c)
    BY SomePlaceFree
  <1>2. c \in 0..HashSpace /\ c \in S /\ HashSpace \in Int
    BY <1>1, JoinAssumption
  <1>3. PICK p \in 0..HashSpace : p \in S /\ p <= c /\ \A q \in 0..p-1 : q \notin S
    <2> HIDE DEF S
    <2>1. QED
      BY <1>2, FirstIn
  <1>4. /\ p \in 0..HashSpace-1 /\ (Taken(k, p) => EntryKey(k, p) = k)
        /\ \A q \in 0..p-1 : ~(Taken(k, q) => EntryKey(k, q) = k)
    BY <1>1, <1>3, JoinAssumption
  <1>5. \A r \in 0..HashSpace :
          /\ Taken(k, r) => EntryKey(k, r) = k
          /\ \A q \in 0..r-1 : ~(Taken(k, q) => EntryKey(k, q) = k)
          => r = p
    BY <1>4, JoinAssumption
  <1>6. InsertProbe(k) = p
    BY <1>4, <1>5, JoinAssumption DEF InsertProbe, FirstProbe
  <1>7. QED
    BY <1>4, <1>6 DEF InsertPlace, InsertProbe

(* An indexed row is in an entry of its key.                               *)
LEMMA KeyIsIndexed ==
  ASSUME FrameInv, IndexInv, NEW j \in 0..row-1, NEW p \in 0..HashSpace-1,
         \A q \in 0..p-1 : EntryKey(right[j], q) # right[j],
         Taken(right[j], p) => EntryKey(right[j], p) = right[j]
  PROVE  Reached(right[j], p)
  <1>1. PICK c \in 0..HashSpace-1 : Reached(right[j], c)
    BY DEF IndexInv
  <1>2. c = p
    BY <1>1 DEF Reached
  <1>3. QED
    BY <1>1, <1>2

-----------------------------------------------------------------------------
(* Building the index                                                      *)

LEMMA RowOfFrame ==
  ASSUME FrameInv, row < RightHeight
  PROVE  row \in 0..RightHeight-1 /\ right[row] \in Keys /\ row \in Nat
  BY DEF FrameInv

LEMMA BuildStep ==
  ASSUME FrameInv, IndexInv, BuildRow
  PROVE  IndexInv'
  <1> DEFINE k == right[row]
             p == InsertProbe(k)
             at == Place(k, p)
  <1>1. row \in 0..RightHeight-1 /\ k \in Keys /\ row \in Nat /\ row' = row + 1 /\ right' = right
    BY RowOfFrame DEF BuildRow
  <1>2. /\ InsertPlace(k) = at /\ p \in 0..HashSpace-1 /\ p \in Nat
        /\ Taken(k, p) => EntryKey(k, p) = k
        /\ \A q \in 0..p-1 : Taken(k, q) /\ EntryKey(k, q) # k
    BY <1>1, InsertStops
  <1>3. at \in 0..HashSpace-1
    BY <1>1, <1>2, PlaceInSpace
  <1>4. table' = [h \in DOMAIN table \cup {at} |->
                     IF h # at THEN table[h]
                     ELSE IF h \in DOMAIN table THEN Append(table[h], row) ELSE <<row>>]
    BY <1>2 DEF BuildRow
  <1>5. \A h \in DOMAIN table : h \in 0..HashSpace-1 /\ EntryOK(h)
    BY DEF IndexInv
  <1>6. 0..row'-1 = (0..row-1) \cup {row}
    BY <1>1
  <1>7. at \in DOMAIN table <=> Taken(k, p)
    BY DEF Taken
  <1>8. Taken(k, p) => right[table[at][1]] = k
    BY <1>2 DEF EntryKey
  <1> HIDE DEF k, p, at
  <1>9. ASSUME ~Taken(k, p), NEW j \in 0..row-1
        PROVE  right[j] # k
    <2> SUFFICES ASSUME right[j] = k PROVE FALSE
      OBVIOUS
    <2>1. Reached(right[j], p)
      BY <1>2, <1>9, KeyIsIndexed
    <2>2. QED
      BY <1>9, <2>1 DEF Reached
  <1>10. table'[at][1] \in 0..row /\ right[table'[at][1]] = k
    <2>1. CASE Taken(k, p)
      <3>1. table'[at] = Append(table[at], row) /\ EntryOK(at)
        BY <1>4, <1>5, <1>7, <2>1
      <3>2. table'[at][1] = table[at][1]
        BY <1>1, <3>1 DEF EntryOK
      <3>3. QED
        BY <1>1, <1>8, <2>1, <3>1, <3>2 DEF EntryOK
    <2>2. CASE ~Taken(k, p)
      BY <1>1, <1>4, <1>7, <2>2 DEF k
    <2>3. QED
      BY <2>1, <2>2
  <1>11. \A h \in DOMAIN table : table'[h][1] = table[h][1]
    <2>1. ASSUME NEW h \in DOMAIN table PROVE table'[h][1] = table[h][1]
      <3>1. CASE h = at
        <4>1. table'[at] = Append(table[at], row) /\ EntryOK(at)
          BY <1>4, <1>5, <3>1
        <4>2. QED
          BY <1>1, <3>1, <4>1 DEF EntryOK
      <3>2. CASE h # at
        BY <1>4, <3>2
      <3>3. QED
        BY <3>1, <3>2
    <2>2. QED
      BY <2>1
  <1>12. ASSUME NEW h \in DOMAIN table, h # at
         PROVE  right[table[h][1]] # k
    <2>1. table[h][1] \in 0..row-1
      BY <1>5 DEF EntryOK
    <2>2. CASE Taken(k, p)
      BY <1>7, <1>8, <1>12, <2>2 DEF IndexInv
    <2>3. CASE ~Taken(k, p)
      BY <1>9, <2>1, <2>3
    <2>4. QED
      BY <2>2, <2>3
  <1>13. ASSUME NEW h \in DOMAIN table'
         PROVE  h \in 0..HashSpace-1 /\ EntryOK(h)'
    <2>1. CASE h # at
      <3>1. h \in DOMAIN table /\ table'[h] = table[h] /\ EntryOK(h) /\ right[table[h][1]] # k
        BY <1>4, <1>5, <1>12, <2>1
      <3>2. {i \in 0..row'-1 : right[i] = right[table[h][1]]}
              = {i \in 0..row-1 : right[i] = right[table[h][1]]}
        BY <1>6, <3>1 DEF k
      <3>3. QED
        BY <1>1, <1>5, <1>6, <3>1, <3>2 DEF EntryOK
    <2>2. CASE h = at /\ Taken(k, p)
      <3>1. table'[at] = Append(table[at], row) /\ EntryOK(at) /\ right[table[at][1]] = k
        BY <1>4, <1>5, <1>7, <1>8, <2>2
      <3>2. \A x \in ToSet(table[at]) : x < row
        BY <1>1, <3>1 DEF EntryOK
      <3>3. /\ table'[at] \in Seq(Int) /\ Len(table'[at]) > 0 /\ Ascending(table'[at])
            /\ ToSet(table'[at]) = ToSet(table[at]) \cup {row}
        <4>1. table[at] \in Seq(Int) /\ Ascending(table[at]) /\ row \in Int
          BY <1>1, <3>1 DEF EntryOK
        <4>2. PICK s : s = table[at]
          OBVIOUS
        <4>3. /\ Append(s, row) \in Seq(Int) /\ Len(Append(s, row)) > 0 /\ Ascending(Append(s, row))
              /\ ToSet(Append(s, row)) = ToSet(s) \cup {row}
          BY <3>2, <4>1, <4>2, AppendAscends
        <4>4. QED
          BY <3>1, <4>2, <4>3
      <3>4. ToSet(table[at]) = {i \in 0..row-1 : right[i] = k}
        BY <3>1 DEF EntryOK
      <3>5. ToSet(table'[at]) = {i \in 0..row'-1 : right[i] = k}
        BY <1>6, <3>3, <3>4 DEF k
      <3>6. QED
        BY <1>1, <1>3, <1>6, <1>10, <2>2, <3>3, <3>5 DEF EntryOK
    <2>3. CASE h = at /\ ~Taken(k, p)
      <3>1. table'[at] = <<row>>
        BY <1>4, <1>7, <2>3
      <3>2. /\ table'[at] \in Seq(Int) /\ Len(table'[at]) > 0 /\ Ascending(table'[at])
            /\ ToSet(table'[at]) = {row}
        BY <1>1, <3>1 DEF Ascending, ToSet
      <3>3. {row} = {i \in 0..row'-1 : right[i] = k}
        BY <1>6, <1>9, <2>3 DEF k
      <3>4. QED
        BY <1>1, <1>3, <1>6, <1>10, <2>3, <3>2, <3>3 DEF EntryOK
    <2>4. QED
      BY <2>1, <2>2, <2>3
  <1>14. ASSUME NEW g \in DOMAIN table', NEW h \in DOMAIN table',
                right'[table'[g][1]] = right'[table'[h][1]]
         PROVE  g = h
    <2>1. \A f \in DOMAIN table' : f # at => f \in DOMAIN table /\ right'[table'[f][1]] = right[table[f][1]]
      BY <1>1, <1>4
    <2>2. right'[table'[at][1]] = k
      BY <1>1, <1>10
    <2>3. CASE g = at \/ h = at
      BY <1>12, <1>14, <2>1, <2>2, <2>3
    <2>4. CASE g # at /\ h # at
      BY <1>14, <2>1, <2>4 DEF IndexInv
    <2>5. QED
      BY <2>3, <2>4
  <1>15. \A l, q : Taken(l, q) => Taken(l, q)' /\ EntryKey(l, q)' = EntryKey(l, q)
    BY <1>1, <1>4, <1>11 DEF Taken, EntryKey, Place
  <1>16. \A l, c : Reached(l, c) => Reached(l, c)'
    BY <1>15 DEF Reached
  <1>17. \A l, c : l = k /\ c = p => Reached(l, c)'
    <2>1. \A l, c : l = k /\ c = p => Taken(l, c)' /\ EntryKey(l, c)' = l
      BY <1>1, <1>4, <1>10 DEF Taken, EntryKey, Place, at
    <2>2. QED
      BY <1>2, <1>15, <2>1 DEF Reached
  <1>18. ASSUME NEW j \in 0..row
         PROVE  \E c \in 0..HashSpace-1 : \A l : l = right[j] => Reached(l, c)'
    <2>1. CASE j \in 0..row-1
      <3>1. PICK c \in 0..HashSpace-1 : Reached(right[j], c)
        BY <2>1 DEF IndexInv
      <3>2. QED
        BY <1>16, <3>1
    <2>2. CASE j = row
      BY <1>2, <1>17, <2>2 DEF k
    <2>3. QED
      BY <1>1, <2>1, <2>2
  <1>19. 0..row'-1 = 0..row
    BY <1>1
  <1>20. \A j \in 0..row'-1 : \E c \in 0..HashSpace-1 : \A l : l = right[j] => Reached(l, c)'
    BY <1>18, <1>19
  <1>21. (\A j \in 0..row-1 : \E c \in 0..HashSpace-1 : Reached(right[j], c))'
    BY <1>1, <1>20 DEF Reached, Taken, EntryKey, Place
  <1>22. QED
    BY <1>13, <1>14, <1>21 DEF IndexInv

-----------------------------------------------------------------------------
(* Lookups                                                                 *)

LookupProbe(k) == FirstProbe(LAMBDA q : ~Taken(k, q) \/ EntryKey(k, q) = k \/ q > ProbeLimit)

LEMMA LookupStops ==
  ASSUME FrameInv, IndexInv, NEW k \in Keys
  PROVE  /\ lookupRight(k) = IF Taken(k, LookupProbe(k)) /\ EntryKey(k, LookupProbe(k)) = k
                               THEN table[Place(k, LookupProbe(k))] ELSE <<>>
         /\ LookupProbe(k) \in 0..HashSpace-1
         /\ ~Taken(k, LookupProbe(k)) \/ EntryKey(k, LookupProbe(k)) = k \/ LookupProbe(k) > ProbeLimit
         /\ \A q \in 0..LookupProbe(k)-1 : Taken(k, q) /\ EntryKey(k, q) # k /\ ~(q > ProbeLimit)
  <1> DEFINE S == {p \in 0..HashSpace : ~Taken(k, p) \/ EntryKey(k, p) = k \/ p > ProbeLimit}
  <1>1. PICK c \in 0..HashSpace-1 : ~Taken(k, c)
    BY SomePlaceFree
  <1>2. c \in 0..HashSpace /\ c \in S /\ HashSpace \in Int
    BY <1>1, JoinAssumption
  <1>3. PICK p \in 0..HashSpace : p \in S /\ p <= c /\ \A q \in 0..p-1 : q \notin S
    <2> HIDE DEF S
    <2>1. QED
      BY <1>2, FirstIn
  <1>4. /\ p \in 0..HashSpace-1 /\ (~Taken(k, p) \/ EntryKey(k, p) = k \/ p > ProbeLimit)
        /\ \A q \in 0..p-1 : ~(~Taken(k, q) \/ EntryKey(k, q) = k \/ q > ProbeLimit)
    BY <1>1, <1>3, JoinAssumption
  <1>5. \A r \in 0..HashSpace :
          /\ ~Taken(k, r) \/ EntryKey(k, r) = k \/ r > ProbeLimit
          /\ \A q \in 0..r-1 : ~(~Taken(k, q) \/ EntryKey(k, q) = k \/ q > ProbeLimit)
          => r = p
    BY <1>4, JoinAssumption
  <1>6. LookupProbe(k) = p
    BY <1>4, <1>5, JoinAssumption DEF LookupProbe, FirstProbe
  <1>7. QED
    BY <1>4, <1>6 DEF lookupRight, LookupProbe

(* What a lookup of key k gives: rows with this key, and all of them if    *)
(* one is there within reach.                                              *)
LookupOK(k) ==
  /\ lookupRight(k) \in Seq(Int) /\ Ascending(lookupRight(k))
  /\ ToSet(lookupRight(k)) \subseteq {j \in RightRows : right[j] = k}
  /\ WithinReach => ToSet(lookupRight(k)) = {j \in RightRows : right[j] = k}

LEMMA LookupFinds ==
  ASSUME FrameInv, IndexInv, row = RightHeight, NEW k \in Keys
  PROVE  LookupOK(k)
  <1> DEFINE p == LookupProbe(k)
  <1>1. /\ lookupRight(k) = IF Taken(k, p) /\ EntryKey(k, p) = k THEN table[Place(k, p)] ELSE <<>>
        /\ p \in 0..HashSpace-1
        /\ ~Taken(k, p) \/ EntryKey(k, p) = k \/ p > ProbeLimit
        /\ \A q \in 0..p-1 : Taken(k, q) /\ EntryKey(k, q) # k /\ ~(q > ProbeLimit)
    BY LookupStops
  <1> HIDE DEF p
  <1>2. RightRows = 0..row-1 /\ RightRows = 0..RightHeight-1
    BY DEF FrameInv, RightRows
  <1>3. CASE Taken(k, p) /\ EntryKey(k, p) = k
    <2>1. /\ lookupRight(k) = table[Place(k, p)] /\ EntryOK(Place(k, p))
          /\ right[table[Place(k, p)][1]] = k
      BY <1>1, <1>3 DEF IndexInv, Taken, EntryKey
    <2>2. QED
      BY <1>2, <2>1 DEF LookupOK, EntryOK
  <1>4. CASE ~(Taken(k, p) /\ EntryKey(k, p) = k)
    <2>1. lookupRight(k) = <<>>
      BY <1>1, <1>4
    <2>2. ASSUME WithinReach, NEW j \in RightRows, right[j] = k
          PROVE  FALSE
      <3>1. PICK c \in 0..HashSpace-1 : Reached(k, c)
        BY <1>2, <2>2 DEF IndexInv
      <3>2. InsertProbe(k) <= ProbeLimit + 1
        <4>1. InsertProbe(right[j]) <= ProbeLimit + 1
          BY <2>2 DEF WithinReach, InsertProbe
        <4>2. QED
          BY <2>2, <4>1
      <3>3. InsertProbe(k) = c
        <4>1. /\ InsertProbe(k) \in 0..HashSpace-1
              /\ Taken(k, InsertProbe(k)) => EntryKey(k, InsertProbe(k)) = k
              /\ \A q \in 0..InsertProbe(k)-1 : Taken(k, q) /\ EntryKey(k, q) # k
          BY InsertStops
        <4>2. QED
          BY <3>1, <4>1 DEF Reached
      <3>4. ~(p < c)
        BY <1>1, <1>4, <3>1, <3>2, <3>3, JoinAssumption DEF Reached
      <3>5. ~(c < p)
        BY <1>1, <3>1 DEF Reached
      <3>6. p = c
        BY <1>1, <3>1, <3>4, <3>5
      <3>7. QED
        BY <1>4, <3>1, <3>6 DEF Reached
    <2>3. ToSet(lookupRight(k)) = {} /\ lookupRight(k) \in Seq(Int) /\ Ascending(lookupRight(k))
      BY <2>1 DEF ToSet, Ascending
    <2>4. QED
      BY <2>2, <2>3 DEF LookupOK
  <1>5. QED
    BY <1>3, <1>4

-----------------------------------------------------------------------------
(* What a left row emits                                                   *)

SomePairs == (LeftRows \cup {None}) \X (RightRows \cup {None})
InOrder == {d \in SomePairs \X SomePairs : Before(d[1], d[2])}

(* The pairs that the left rows emit, and the right rows left over.        *)
EmittedBy(i) == ToSet(Emit(i, lookupRight(left[i])))
Emitted == {p \in SomePairs : \E i \in LeftRows : p \in EmittedBy(i)}
LeftOver == {<<None, j>> : j \in {k \in RightRows : needRightMatched /\ \A p \in Emitted : p[2] # k}}

LEMMA EmitsPairs ==
  ASSUME FrameInv, IndexInv, row = RightHeight, NEW i \in LeftRows
  PROVE  /\ Emit(i, lookupRight(left[i])) \in Seq(SomePairs)
         /\ OrderedBy(InOrder, Emit(i, lookupRight(left[i])))
         /\ \A p \in EmittedBy(i) : p \in SomePairs /\ p[1] = i
  <1> DEFINE m == lookupRight(left[i])
             e == Emit(i, m)
  <1>1. left[i] \in Keys /\ i \in Nat
    BY DEF FrameInv, LeftRows
  <1>2. LookupOK(left[i])
    BY <1>1, LookupFinds
  <1>3. m \in Seq(Int) /\ Ascending(m) /\ DOMAIN m = 1..Len(m) /\ Len(m) \in Nat
    BY <1>2 DEF LookupOK
  <1>4. \A k \in DOMAIN m : m[k] \in RightRows
    BY <1>2 DEF LookupOK, ToSet
  <1>5. \A j \in RightRows \cup {None} : <<i, j>> \in SomePairs
    BY DEF SomePairs
  <1> HIDE DEF m
  <1>6. \/ e = <<<<i, None>>>>
        \/ e = <<>>
        \/ e = [k \in DOMAIN m |-> <<i, m[k]>>]
    BY DEF Emit
  <1>7. CASE e = <<<<i, None>>>> \/ e = <<>>
    <2> HIDE DEF e
    <2>1. /\ DOMAIN e \subseteq {1} /\ e \in Seq(SomePairs)
          /\ \A k \in DOMAIN e : e[k] \in SomePairs /\ e[k][1] = i
      <3>1. CASE e = <<>>
        BY <3>1
      <3>2. CASE e = <<<<i, None>>>>
        <4>1. PICK x : x = <<i, None>>
          OBVIOUS
        <4>2. x \in SomePairs /\ x[1] = i
          BY <1>5, <4>1
        <4>3. e = <<x>>
          BY <3>2, <4>1
        <4>4. DOMAIN e = {1} /\ e \in Seq(SomePairs) /\ e[1] = x
          BY <4>2, <4>3
        <4>5. QED
          BY <4>2, <4>4
      <3>3. QED
        BY <1>7, <3>1, <3>2
    <2>2. OrderedBy(InOrder, e) /\ \A p \in ToSet(e) : p \in SomePairs /\ p[1] = i
      BY <2>1 DEF OrderedBy, ToSet
    <2>3. QED
      BY <2>1, <2>2 DEF EmittedBy, e, m
  <1>8. CASE e = [k \in DOMAIN m |-> <<i, m[k]>>]
    <2> HIDE DEF e
    <2>1. DOMAIN e = 1..Len(m) /\ \A k \in 1..Len(m) : e[k] = <<i, m[k]>> /\ e[k] \in SomePairs
      BY <1>3, <1>4, <1>5, <1>8
    <2>2. e \in Seq(SomePairs)
      BY <1>3, <1>8, <2>1
    <2>3. ASSUME NEW k \in DOMAIN e, NEW l \in DOMAIN e, k < l
          PROVE  <<e[k], e[l]>> \in InOrder
      <3>1. m[k] < m[l]
        BY <1>3, <2>1, <2>3 DEF Ascending
      <3>2. Before(e[k], e[l])
        BY <2>1, <3>1 DEF Before
      <3>3. QED
        BY <2>1, <3>2 DEF InOrder
    <2>4. \A p \in ToSet(e) : p \in SomePairs /\ p[1] = i
      BY <2>1 DEF ToSet
    <2>5. QED
      BY <2>2, <2>3, <2>4 DEF OrderedBy, EmittedBy, e, m
  <1>9. QED
    BY <1>6, <1>7, <1>8

-----------------------------------------------------------------------------
(* The chunks of left rows                                                 *)

(* A chunk has emitted the pairs of its rows before at.                    *)
ChunkOK(s) ==
  /\ chunks[s] \in [end : Nat, at : Nat, pairs : Seq(SomePairs)]
  /\ s \in LeftRows /\ s < chunks[s].end /\ chunks[s].end <= LeftHeight
  /\ chunks[s].at \in s..chunks[s].end
  /\ OrderedBy(InOrder, chunks[s].pairs)
  /\ ToSet(chunks[s].pairs) = {p \in SomePairs : \E i \in s..chunks[s].at-1 : p \in EmittedBy(i)}

(* The chunks tile the left rows.                                          *)
Tiled ==
  /\ \A s, t \in DOMAIN chunks : s < t => chunks[s].end <= t
  /\ \A i \in LeftRows : \E s \in DOMAIN chunks : s <= i /\ i < chunks[s].end

ProbeInv ==
  pc = "probe" =>
    /\ row = RightHeight /\ call.how # CrossJoin
    /\ \A s \in DOMAIN chunks : ChunkOK(s)
    /\ Tiled

DoneInv ==
  pc = "done" =>
    /\ pairs \in Seq(SomePairs) /\ OrderedBy(InOrder, pairs)
    /\ call.how # CrossJoin => row = RightHeight
    /\ ToSet(pairs) = IF call.how = CrossJoin THEN LeftRows \X RightRows
                                              ELSE Emitted \cup LeftOver

JoinInv == FrameInv /\ IndexInv /\ ProbeInv /\ DoneInv

(* What depends on the frames and the index stays when they do.            *)
LEMMA QuietFrames ==
  ASSUME UNCHANGED <<call, left, right, table>>
  PROVE  /\ SomePairs' = SomePairs /\ InOrder' = InOrder
         /\ \A i : EmittedBy(i)' = EmittedBy(i)
         /\ Emitted' = Emitted /\ LeftOver' = LeftOver
         /\ LeftHeight' = LeftHeight /\ RightHeight' = RightHeight
         /\ LeftRows' = LeftRows /\ RightRows' = RightRows
  <1>1. \A k : lookupRight(k)' = lookupRight(k)
    BY DEF lookupRight, FirstProbe, Taken, EntryKey, Place
  <1>2. \A i : EmittedBy(i)' = EmittedBy(i)
    BY <1>1 DEF EmittedBy, Emit
  <1>3. SomePairs' = SomePairs /\ InOrder' = InOrder
    BY DEF InOrder, SomePairs, LeftRows, RightRows
  <1>4. Emitted' = Emitted
    BY <1>2, <1>3 DEF Emitted, LeftRows
  <1>5. LeftOver' = LeftOver
    BY <1>4 DEF LeftOver, RightRows, needRightMatched
  <1>6. QED
    BY <1>2, <1>3, <1>4, <1>5 DEF LeftHeight, RightHeight, LeftRows, RightRows

LEMMA QuietFrameInv ==
  ASSUME FrameInv, UNCHANGED <<call, left, right>>, row' \in 0..RightHeight,
         pc' \in {"called", "build", "probe", "done", "error"},
         pc' \in {"build", "probe"} => call.how # CrossJoin
  PROVE  FrameInv'
  BY DEF FrameInv, LeftHeight, RightHeight, LeftRows, RightRows

LEMMA QuietIndexInv ==
  ASSUME IndexInv, UNCHANGED <<call, left, right, row, table>>
  PROVE  IndexInv'
  BY DEF IndexInv, EntryOK, Reached, Taken, EntryKey, Place

LEMMA StartTiles ==
  ASSUME FrameInv, NEW size, size \in Nat \ {0},
         chunks' = [s \in {i \in LeftRows : i % size = 0} |-> ChunkOf(s, size)],
         UNCHANGED <<call, left, right, table>>
  PROVE  /\ \A s \in DOMAIN chunks' : ChunkOK(s)'
         /\ Tiled'
  <1>1. LeftRows = 0..LeftHeight-1 /\ LeftHeight \in Nat /\ LeftHeight' = LeftHeight /\ LeftRows' = LeftRows
        /\ SomePairs' = SomePairs /\ InOrder' = InOrder
    BY QuietFrames DEF FrameInv, LeftRows
  <1>2. DOMAIN chunks' = {i \in LeftRows : i % size = 0}
    OBVIOUS
  <1>3. ASSUME NEW s \in DOMAIN chunks'
        PROVE  /\ s \in LeftRows /\ s \in Nat /\ s % size = 0
               /\ chunks'[s] = ChunkOf(s, size)
    BY <1>1, <1>2
  <1>4. ASSUME NEW s \in LeftRows
        PROVE  /\ ChunkOf(s, size).at = s /\ ChunkOf(s, size).pairs = <<>>
               /\ ChunkOf(s, size).end \in Nat /\ s < ChunkOf(s, size).end
               /\ ChunkOf(s, size).end <= LeftHeight
               /\ ChunkOf(s, size).end = (IF s + size > LeftHeight THEN LeftHeight ELSE s + size)
               /\ ChunkOf(s, size) \in [end : Nat, at : Nat, pairs : Seq(SomePairs)]
    <2>1. /\ ChunkOf(s, size).at = s /\ ChunkOf(s, size).pairs = <<>>
          /\ ChunkOf(s, size).end = (IF s + size > LeftHeight THEN LeftHeight ELSE s + size)
          /\ ChunkOf(s, size) = [end |-> ChunkOf(s, size).end, at |-> s, pairs |-> <<>>]
      BY DEF ChunkOf
    <2>2. /\ ChunkOf(s, size).end \in Nat /\ s < ChunkOf(s, size).end
          /\ ChunkOf(s, size).end <= LeftHeight /\ s \in Nat
      BY <1>1, <2>1
    <2>3. <<>> \in Seq(SomePairs)
      OBVIOUS
    <2>4. QED
      BY <2>1, <2>2, <2>3
  <1>5. ASSUME NEW s \in DOMAIN chunks' PROVE ChunkOK(s)'
    <2>1. s \in LeftRows /\ chunks'[s] = ChunkOf(s, size)
      BY <1>3
    <2>2. ToSet(<<>>) = {} /\ OrderedBy(InOrder, <<>>)
      BY DEF ToSet, OrderedBy
    <2>3. s..s-1 = {}
      BY <1>1, <2>1
    <2>4. /\ chunks'[s] \in [end : Nat, at : Nat, pairs : Seq(SomePairs)]
          /\ s < chunks'[s].end /\ chunks'[s].end <= LeftHeight
          /\ chunks'[s].at = s /\ s \in s..chunks'[s].end /\ chunks'[s].pairs = <<>>
      BY <1>1, <1>4, <2>1
    <2>5. QED
      BY <1>1, <2>1, <2>2, <2>3, <2>4 DEF ChunkOK
  <1>6. ASSUME NEW s \in DOMAIN chunks', NEW t \in DOMAIN chunks', s < t
        PROVE  chunks'[s].end <= t
    <2>1. s \in Nat /\ t \in Nat /\ s % size = 0 /\ t % size = 0 /\ s \in LeftRows
      BY <1>3
    <2>2. s + size <= t
      BY <1>6, <2>1, MultiplesApart
    <2>3. chunks'[s].end <= s + size
      <3>1. chunks'[s] = ChunkOf(s, size) /\ LeftHeight \in Int
        BY <1>1, <1>3
      <3>2. ChunkOf(s, size).end <= s + size
        BY <1>1, <1>4, <2>1
      <3>3. QED
        BY <3>1, <3>2
    <2>4. chunks'[s].end \in Nat
      BY <1>3, <1>4
    <2>5. QED
      BY <2>1, <2>2, <2>3, <2>4
  <1>7. ASSUME NEW i \in LeftRows
        PROVE  \E s \in DOMAIN chunks' : s <= i /\ i < chunks'[s].end
    <2>0. i \in Nat
      BY <1>1
    <2>1. PICK s \in 0..i : s % size = 0 /\ i < s + size
      BY <2>0, MultipleBelow
    <2>2. s \in DOMAIN chunks' /\ s <= i /\ s \in LeftRows
      BY <1>1, <1>2, <2>1
    <2>3. i < ChunkOf(s, size).end
      BY <1>1, <1>4, <2>1, <2>2
    <2>4. QED
      BY <1>3, <2>2, <2>3
  <1>8. QED
    BY <1>1, <1>5, <1>6, <1>7 DEF Tiled

(* A chunk appends the pairs of its next row.                              *)
LEMMA ProbeStep ==
  ASSUME FrameInv, IndexInv, ProbeInv, NEW s, ProbeRow(s)
  PROVE  ProbeInv'
  <1> DEFINE i == chunks[s].at
             e == Emit(i, lookupRight(left[i]))
  <1>1. /\ pc = "probe" /\ s \in DOMAIN chunks /\ i < chunks[s].end
        /\ chunks' = [chunks EXCEPT ![s].at = i + 1, ![s].pairs = @ \o e]
        /\ UNCHANGED <<call, left, right, row, table, pc, pairs>>
    BY DEF ProbeRow
  <1>2. /\ row = RightHeight /\ call.how # CrossJoin
        /\ \A t \in DOMAIN chunks : chunks[t] \in [end : Nat, at : Nat, pairs : Seq(SomePairs)]
        /\ \A t \in DOMAIN chunks : ChunkOK(t)
        /\ Tiled
    BY <1>1 DEF ProbeInv, ChunkOK
  <1>3. /\ LeftRows = 0..LeftHeight-1 /\ LeftHeight \in Nat
        /\ s \in Nat /\ i \in Nat /\ i \in LeftRows /\ s <= i /\ chunks[s].end \in Nat
    BY <1>1, <1>2 DEF ChunkOK, FrameInv, LeftRows
  <1>4. /\ e \in Seq(SomePairs) /\ OrderedBy(InOrder, e)
        /\ \A p \in EmittedBy(i) : p \in SomePairs /\ p[1] = i
        /\ ToSet(e) = EmittedBy(i)
    BY <1>2, <1>3, EmitsPairs DEF EmittedBy
  <1>5. /\ DOMAIN chunks' = DOMAIN chunks
        /\ chunks'[s] = [end |-> chunks[s].end, at |-> i + 1, pairs |-> chunks[s].pairs \o e]
        /\ \A t \in DOMAIN chunks : t # s => chunks'[t] = chunks[t]
    BY <1>1, <1>2
  <1>6. ASSUME NEW x \in ToSet(chunks[s].pairs), NEW y \in ToSet(e)
        PROVE  <<x, y>> \in InOrder
    <2>1. PICK j \in s..i-1 : x \in EmittedBy(j) /\ x \in SomePairs
      BY <1>1, <1>2 DEF ChunkOK
    <2>2. j \in LeftRows /\ j < i
      BY <1>3, <2>1
    <2>3. x[1] = j /\ y[1] = i /\ y \in SomePairs
      BY <1>2, <1>4, <2>1, <2>2, EmitsPairs
    <2>4. Before(x, y)
      BY <1>3, <2>2, <2>3 DEF Before, None
    <2>5. QED
      BY <2>1, <2>3, <2>4 DEF InOrder
  <1> HIDE DEF e
  <1>7. chunks[s].pairs \in Seq(SomePairs) /\ OrderedBy(InOrder, chunks[s].pairs)
    BY <1>1, <1>2 DEF ChunkOK
  <1>8. /\ chunks[s].pairs \o e \in Seq(SomePairs)
        /\ ToSet(chunks[s].pairs \o e) = ToSet(chunks[s].pairs) \cup EmittedBy(i)
    BY <1>4, <1>7, ConcatElements
  <1>9. OrderedBy(InOrder, chunks[s].pairs \o e)
    BY <1>4, <1>6, <1>7, ConcatOrdered
  <1>10. ToSet(chunks[s].pairs) \cup EmittedBy(i)
           = {p \in SomePairs : \E j \in s..(i+1)-1 : p \in EmittedBy(j)}
    <2>1. s..(i+1)-1 = (s..i-1) \cup {i}
      BY <1>3
    <2>2. ToSet(chunks[s].pairs) = {p \in SomePairs : \E j \in s..i-1 : p \in EmittedBy(j)}
      BY <1>1, <1>2 DEF ChunkOK
    <2>3. QED
      BY <1>4, <2>1, <2>2
  <1>11. /\ SomePairs' = SomePairs /\ InOrder' = InOrder /\ \A j : EmittedBy(j)' = EmittedBy(j)
         /\ LeftHeight' = LeftHeight /\ LeftRows' = LeftRows /\ RightHeight' = RightHeight
    BY <1>1, QuietFrames
  <1>12. ChunkOK(s)'
    <2>1. i + 1 \in s..chunks[s].end /\ s \in LeftRows /\ s < chunks[s].end /\ chunks[s].end <= LeftHeight
      BY <1>1, <1>2, <1>3 DEF ChunkOK
    <2>2. /\ chunks'[s].at = i + 1 /\ chunks'[s].end = chunks[s].end
          /\ chunks'[s].pairs = chunks[s].pairs \o e
          /\ chunks'[s] \in [end : Nat, at : Nat, pairs : Seq(SomePairs)]
      BY <1>3, <1>5, <1>8
    <2>3. \A t : t = s => ChunkOK(t)'
      BY <1>8, <1>9, <1>10, <1>11, <2>1, <2>2 DEF ChunkOK
    <2>4. QED
      BY <2>3
  <1>13. ASSUME NEW t \in DOMAIN chunks, t # s PROVE ChunkOK(t)'
    BY <1>2, <1>5, <1>11, <1>13 DEF ChunkOK
  <1>15. Tiled'
    <2>1. \A t \in DOMAIN chunks : chunks'[t].end = chunks[t].end
      BY <1>5
    <2>2. QED
      BY <1>2, <1>5, <1>11, <2>1 DEF Tiled
  <1>16. QED
    BY <1>1, <1>2, <1>5, <1>11, <1>12, <1>13, <1>15 DEF ProbeInv

-----------------------------------------------------------------------------
(* The result                                                              *)

(* The right rows that were left over, with no left part, in row order.    *)
LEMMA UnmatchedRows ==
  ASSUME FrameInv, NEW c, c \in Seq(SomePairs), ToSet(c) = Emitted
  PROVE  /\ Unmatched(c) \in Seq(SomePairs) /\ OrderedBy(InOrder, Unmatched(c))
         /\ ToSet(Unmatched(c)) = LeftOver
         /\ \A p \in ToSet(Unmatched(c)) : p[1] = None /\ p \in SomePairs
  <1>1. CASE ~needRightMatched
    <2>1. Unmatched(c) = <<>> /\ LeftOver = {}
      BY <1>1 DEF Unmatched, LeftOver
    <2>2. ToSet(<<>>) = {} /\ OrderedBy(InOrder, <<>>) /\ <<>> \in Seq(SomePairs)
      BY DEF ToSet, OrderedBy
    <2>3. QED
      BY <2>1, <2>2
  <1>2. CASE needRightMatched
    <2> DEFINE rows == RightRows \ Matched(c)
               js == RowList(rows)
               u == [k \in DOMAIN js |-> <<None, js[k]>>]
    <2>1. Unmatched(c) = u
      BY <1>2 DEF Unmatched
    <2>2. RightRows = 0..RightHeight-1 /\ RightHeight \in Nat
      BY DEF FrameInv, RightRows
    <2>3. IsFiniteSet(rows) /\ (\A j \in rows : j \in Int) /\ rows \subseteq RightRows
      <3>1. IsFiniteSet(RightRows)
        BY <2>2, FS_Interval
      <3>2. PICK A : A = rows
        OBVIOUS
      <3>3. A \in SUBSET RightRows
        BY <3>2
      <3>4. IsFiniteSet(A)
        BY <3>1, <3>3, FS_Subset
      <3>5. QED
        BY <2>2, <3>2, <3>4
    <2>4. rows = {j \in RightRows : \A p \in Emitted : p[2] # j}
      <3>1. Matched(c) = {p[2] : p \in Emitted}
        BY DEF Matched, ToSet
      <3>2. QED
        BY <3>1
    <2> HIDE DEF rows
    <2>5. /\ js \in Seq(rows) /\ DOMAIN js = 1..Len(js) /\ Len(js) \in Nat
          /\ ToSet(js) = rows
          /\ \A k, l \in DOMAIN js : k < l => js[k] < js[l]
      BY <2>3, RowListAscends
    <2> HIDE DEF js
    <2>6. \A k \in DOMAIN js : js[k] \in rows
      BY <2>5
    <2>7. /\ DOMAIN u = 1..Len(js)
          /\ \A k \in 1..Len(js) : u[k] = <<None, js[k]>> /\ u[k] \in SomePairs
      BY <2>3, <2>5, <2>6 DEF SomePairs
    <2>7a. u = [k \in 1..Len(js) |-> u[k]]
      BY <2>5
    <2> HIDE DEF u
    <2>8. u \in Seq(SomePairs)
      BY <2>5, <2>7, <2>7a
    <2>9. ASSUME NEW k \in DOMAIN u, NEW l \in DOMAIN u, k < l
          PROVE  <<u[k], u[l]>> \in InOrder
      <3>1. js[k] < js[l]
        BY <2>5, <2>7, <2>9
      <3>2. Before(u[k], u[l])
        BY <2>7, <3>1 DEF Before
      <3>3. QED
        BY <2>7, <3>2 DEF InOrder
    <2>10. ToSet(u) = {<<None, j>> : j \in rows}
      <3>1. ToSet(u) = {u[k] : k \in 1..Len(js)}
        BY <2>7 DEF ToSet
      <3>2. rows = {js[k] : k \in 1..Len(js)}
        BY <2>5 DEF ToSet
      <3>3. QED
        BY <2>7, <3>1, <3>2
    <2>11. ToSet(u) = LeftOver
      BY <1>2, <2>4, <2>10 DEF LeftOver
    <2>12. \A p \in ToSet(u) : p[1] = None /\ p \in SomePairs
      BY <2>7 DEF ToSet
    <2>13. QED
      BY <2>1, <2>8, <2>9, <2>11, <2>12 DEF OrderedBy
  <1>3. QED
    BY <1>1, <1>2

(* The chunks, merged in their order, have the pairs of all left rows.     *)
LEMMA ChunksMerge ==
  ASSUME FrameInv, IndexInv, ProbeInv, MergeChunks
  PROVE  /\ Concatenated \in Seq(SomePairs) /\ OrderedBy(InOrder, Concatenated)
         /\ ToSet(Concatenated) = Emitted
  <1> DEFINE n == LeftHeight
             ss == [s \in 1..n |-> IF s - 1 \in DOMAIN chunks THEN chunks[s-1].pairs ELSE <<>>]
  <1>1. /\ row = RightHeight
        /\ \A s \in DOMAIN chunks : ChunkOK(s) /\ chunks[s].at = chunks[s].end
        /\ Tiled
    BY DEF ProbeInv, MergeChunks
  <1>2. LeftRows = 0..n-1 /\ n \in Nat
    BY DEF FrameInv, LeftRows
  <1>3. \A s \in DOMAIN chunks :
          /\ s \in 0..n-1 /\ chunks[s].end \in 0..n /\ s < chunks[s].end
          /\ chunks[s].pairs \in Seq(SomePairs) /\ OrderedBy(InOrder, chunks[s].pairs)
          /\ ToSet(chunks[s].pairs) = {p \in SomePairs : \E i \in s..chunks[s].end-1 : p \in EmittedBy(i)}
    <2> SUFFICES ASSUME NEW s \in DOMAIN chunks
                 PROVE  /\ s \in 0..n-1 /\ chunks[s].end \in 0..n /\ s < chunks[s].end
                        /\ chunks[s].pairs \in Seq(SomePairs) /\ OrderedBy(InOrder, chunks[s].pairs)
                        /\ ToSet(chunks[s].pairs)
                             = {p \in SomePairs : \E i \in s..chunks[s].end-1 : p \in EmittedBy(i)}
      OBVIOUS
    <2>1. ChunkOK(s) /\ chunks[s].at = chunks[s].end
      BY <1>1
    <2>2. /\ s \in 0..n-1 /\ chunks[s].end \in 0..n /\ s < chunks[s].end
          /\ chunks[s].pairs \in Seq(SomePairs) /\ OrderedBy(InOrder, chunks[s].pairs)
      BY <1>2, <2>1 DEF ChunkOK
    <2>3. QED
      BY <2>1, <2>2 DEF ChunkOK
  <1>4. \A s \in 1..n : /\ s - 1 \in DOMAIN chunks => ss[s] = chunks[s-1].pairs
                        /\ s - 1 \notin DOMAIN chunks => ss[s] = <<>>
    OBVIOUS
  <1>5. ss = [s \in 1..n |-> ss[s]]
    OBVIOUS
  <1>6. Concatenated = FlattenSeq(ss)
    BY DEF Concatenated
  <1> HIDE DEF ss, n
  <1>7. <<>> \in Seq(SomePairs) /\ OrderedBy(InOrder, <<>>) /\ ToSet(<<>>) = {}
    BY DEF OrderedBy, ToSet
  <1>8. \A s \in 1..n : ss[s] \in Seq(SomePairs) /\ OrderedBy(InOrder, ss[s])
    BY <1>3, <1>4, <1>7
  <1>9. ss \in [1..n -> Seq(SomePairs)]
    BY <1>5, <1>8
  <1>10. \A i \in LeftRows : \A p \in EmittedBy(i) : p \in SomePairs /\ p[1] = i
    BY <1>1, EmitsPairs
  <1>11. ASSUME NEW s \in 1..n, NEW t \in 1..n, s < t, NEW x \in ToSet(ss[s]), NEW y \in ToSet(ss[t])
         PROVE  <<x, y>> \in InOrder
    <2>1. s-1 \in DOMAIN chunks /\ x \in ToSet(chunks[s-1].pairs)
      BY <1>4, <1>7, <1>11
    <2>2. t-1 \in DOMAIN chunks /\ y \in ToSet(chunks[t-1].pairs)
      BY <1>4, <1>7, <1>11
    <2>3. PICK i \in s-1..chunks[s-1].end-1 : x \in EmittedBy(i) /\ x \in SomePairs
      BY <1>3, <2>1
    <2>4. PICK j \in t-1..chunks[t-1].end-1 : y \in EmittedBy(j) /\ y \in SomePairs
      BY <1>3, <2>2
    <2>5. s-1 < t-1
      BY <1>2, <1>11
    <2>6. chunks[s-1].end <= t-1
      BY <1>1, <2>1, <2>2, <2>5 DEF Tiled
    <2>7. chunks[s-1].end \in 0..n /\ chunks[t-1].end \in 0..n
      BY <1>3, <2>1, <2>2
    <2>8. i < j /\ i \in LeftRows /\ j \in LeftRows
      BY <1>2, <2>6, <2>7
    <2>9. x[1] = i /\ y[1] = j
      BY <1>10, <2>3, <2>4, <2>8
    <2>10. Before(x, y)
      BY <1>2, <2>8, <2>9 DEF Before, None
    <2>11. QED
      BY <2>3, <2>4, <2>10 DEF InOrder
  <1>12. /\ FlattenSeq(ss) \in Seq(SomePairs) /\ OrderedBy(InOrder, FlattenSeq(ss))
         /\ ToSet(FlattenSeq(ss)) = UNION {ToSet(ss[i]) : i \in 1..n}
    <2>1. \A i \in 1..n : OrderedBy(InOrder, ss[i])
      BY <1>8
    <2>2. \A i, j \in 1..n : i < j =>
            \A x \in ToSet(ss[i]) : \A y \in ToSet(ss[j]) : <<x, y>> \in InOrder
      BY <1>11
    <2>3. n \in Nat
      BY <1>2
    <2>4. OrderedParts(SomePairs, InOrder, n, ss)
      BY <1>9, <2>1, <2>2, <2>3 DEF OrderedParts
    <2>5. QED
      BY <2>4, FlattenOrdered
  <1>13. UNION {ToSet(ss[i]) : i \in 1..n} = Emitted
    <2>1. ASSUME NEW s \in 1..n, NEW x \in ToSet(ss[s]) PROVE x \in Emitted
      <3>1. s-1 \in DOMAIN chunks /\ x \in ToSet(chunks[s-1].pairs)
        BY <1>4, <1>7, <2>1
      <3>2. PICK i \in s-1..chunks[s-1].end-1 : x \in EmittedBy(i) /\ x \in SomePairs
        BY <1>3, <3>1
      <3>3. i \in LeftRows
        BY <1>2, <1>3, <3>1
      <3>4. QED
        BY <3>2, <3>3 DEF Emitted
    <2>2. ASSUME NEW x \in Emitted PROVE \E s \in 1..n : x \in ToSet(ss[s])
      <3>1. PICK i \in LeftRows : x \in EmittedBy(i) /\ x \in SomePairs
        BY <2>2 DEF Emitted
      <3>2. PICK s \in DOMAIN chunks : s <= i /\ i < chunks[s].end
        BY <1>1 DEF Tiled
      <3>3. i \in s..chunks[s].end-1 /\ s+1 \in 1..n /\ (s+1)-1 = s
        BY <1>2, <1>3, <3>2
      <3>4. x \in ToSet(chunks[s].pairs)
        BY <1>3, <3>1, <3>3
      <3>5. ss[s+1] = chunks[s].pairs
        BY <1>4, <3>3
      <3>6. QED
        BY <3>3, <3>4, <3>5
    <2>3. QED
      BY <2>1, <2>2
  <1>14. QED
    BY <1>6, <1>12, <1>13

LEMMA MergeStep ==
  ASSUME FrameInv, IndexInv, ProbeInv, MergeChunks
  PROVE  DoneInv'
  <1> DEFINE c == Concatenated
             u == Unmatched(c)
  <1>1. c \in Seq(SomePairs) /\ OrderedBy(InOrder, c) /\ ToSet(c) = Emitted
    BY ChunksMerge
  <1>2. /\ u \in Seq(SomePairs) /\ OrderedBy(InOrder, u) /\ ToSet(u) = LeftOver
        /\ \A p \in ToSet(u) : p[1] = None /\ p \in SomePairs
    BY <1>1, UnmatchedRows
  <1>3. /\ pairs' = c \o u /\ UNCHANGED <<call, left, right, row, table>> /\ call.how # CrossJoin
        /\ row = RightHeight
    BY DEF MergeChunks, ProbeInv
  <1> HIDE DEF c, u
  <1>4. ASSUME NEW x \in ToSet(c), NEW y \in ToSet(u) PROVE <<x, y>> \in InOrder
    <2>1. PICK i \in LeftRows : x \in EmittedBy(i) /\ x \in SomePairs
      BY <1>1 DEF Emitted
    <2>1a. x[1] = i /\ i # None
      BY <1>3, <2>1, EmitsPairs DEF FrameInv, LeftRows, None
    <2>2. Before(x, y)
      BY <1>2, <2>1a DEF Before
    <2>3. QED
      BY <1>2, <2>1, <2>2 DEF InOrder
  <1>5. c \o u \in Seq(SomePairs) /\ ToSet(c \o u) = Emitted \cup LeftOver
    BY <1>1, <1>2, ConcatElements
  <1>6. OrderedBy(InOrder, c \o u)
    BY <1>1, <1>2, <1>4, ConcatOrdered
  <1>7. /\ SomePairs' = SomePairs /\ InOrder' = InOrder /\ Emitted' = Emitted /\ LeftOver' = LeftOver
        /\ RightHeight' = RightHeight
    BY <1>3, QuietFrames
  <1>8. QED
    BY <1>3, <1>5, <1>6, <1>7 DEF DoneInv, OrderedBy

(* The k-th pair of a cross join is the k-th in the order of the rows.     *)
LEMMA CrossPairAt ==
  ASSUME NEW L \in Nat, NEW R \in Nat
  PROVE  /\ \A k \in 1..L * R : \E a \in 0..L-1 : \E r \in 0..R-1 :
              (k-1) \div R = a /\ (k-1) % R = r /\ k - 1 = R * a + r
         /\ \A i \in 0..L-1 : \A j \in 0..R-1 : \E k \in 1..L * R :
              (k-1) \div R = i /\ (k-1) % R = j
  <1>1. ASSUME NEW k \in 1..L * R
        PROVE  \E a \in 0..L-1 : \E r \in 0..R-1 :
                 (k-1) \div R = a /\ (k-1) % R = r /\ k - 1 = R * a + r
    <2>1. R # 0 /\ k - 1 \in Nat
      OBVIOUS
    <2>2. PICK a \in Nat, r \in 0..R-1 : k - 1 = R * a + r /\ (k-1) \div R = a /\ (k-1) % R = r
      BY <2>1, DivMod
    <2>3. a < L
      <3> SUFFICES ASSUME L <= a PROVE FALSE
        BY <2>2
      <3>1. R * L <= R * a
        BY <2>1
      <3>2. k - 1 < R * L
        OBVIOUS
      <3>3. QED
        BY <2>2, <3>1, <3>2
    <2>4. a \in 0..L-1
      BY <2>3
    <2>5. QED
      BY <2>2, <2>4
  <1>2. ASSUME NEW i \in 0..L-1, NEW j \in 0..R-1
        PROVE  \E k \in 1..L * R : (k-1) \div R = i /\ (k-1) % R = j
    <2>1. R \in Nat \ {0} /\ i \in Nat /\ i + 1 <= L
      OBVIOUS
    <2>2. PICK x : x = R * i + j
      OBVIOUS
    <2>3. x \in Nat /\ x < R * i + R
      BY <2>1, <2>2
    <2>4. R * i + R = R * (i + 1) /\ R * (i + 1) <= R * L
      BY <2>1
    <2>5. x + 1 \in 1..L * R /\ (x + 1) - 1 = x
      BY <2>3, <2>4
    <2>6. x \div R = i /\ x % R = j
      BY <2>1, <2>2
    <2>7. QED
      BY <2>5, <2>6
  <1>3. QED
    BY <1>1, <1>2

LEMMA CrossStep ==
  ASSUME FrameInv, CrossPairs
  PROVE  DoneInv'
  <1> DEFINE L == LeftHeight
             R == RightHeight
             c == [k \in 1..L * R |-> <<(k-1) \div R, (k-1) % R>>]
  <1>1. LeftRows = 0..L-1 /\ RightRows = 0..R-1 /\ L \in Nat /\ R \in Nat
    BY DEF FrameInv, LeftRows, RightRows
  <1>2. pairs' = c /\ UNCHANGED <<call, left, right, row, table>> /\ call.how = CrossJoin
    BY DEF CrossPairs
  <1> HIDE DEF L, R
  <1>3. L * R \in Nat
    BY <1>1
  <1>4. \A k \in 1..L * R : \E a \in 0..L-1 : \E r \in 0..R-1 :
          (k-1) \div R = a /\ (k-1) % R = r /\ k - 1 = R * a + r
    BY <1>1, CrossPairAt
  <1>5. \A i \in 0..L-1 : \A j \in 0..R-1 : \E k \in 1..L * R :
          (k-1) \div R = i /\ (k-1) % R = j
    BY <1>1, CrossPairAt
  <1>6. /\ DOMAIN c = 1..L * R
        /\ \A k \in 1..L * R : c[k][1] = (k-1) \div R /\ c[k][2] = (k-1) % R
        /\ \A k \in 1..L * R : c[k] = <<(k-1) \div R, (k-1) % R>>
        /\ c = [k \in 1..L * R |-> c[k]]
    OBVIOUS
  <1> HIDE DEF c
  <1>7. \A k \in 1..L * R : c[k] \in LeftRows \X RightRows /\ c[k] \in SomePairs
    <2> SUFFICES ASSUME NEW k \in 1..L * R
                 PROVE  c[k] \in LeftRows \X RightRows /\ c[k] \in SomePairs
      OBVIOUS
    <2>1. PICK a \in 0..L-1, r \in 0..R-1 : (k-1) \div R = a /\ (k-1) % R = r
      BY <1>4
    <2>2. a \in LeftRows /\ r \in RightRows
      BY <1>1
    <2>3. c[k] = <<a, r>>
      BY <1>6, <2>1, Zenon
    <2>4. QED
      BY <2>2, <2>3 DEF SomePairs
  <1>8. c \in Seq(SomePairs)
    BY <1>3, <1>6, <1>7
  <1>9. ASSUME NEW k \in DOMAIN c, NEW l \in DOMAIN c, k < l
        PROVE  <<c[k], c[l]>> \in InOrder
    <2>1. k \in 1..L * R /\ l \in 1..L * R
      BY <1>6
    <2>2. PICK a \in 0..L-1, r \in 0..R-1 : (k-1) \div R = a /\ (k-1) % R = r /\ k - 1 = R * a + r
      BY <1>4, <2>1
    <2>2a. PICK b \in 0..L-1, q \in 0..R-1 : (l-1) \div R = b /\ (l-1) % R = q /\ l - 1 = R * b + q
      BY <1>4, <2>1
    <2>3. /\ a \in Nat /\ r \in 0..R-1 /\ k - 1 = R * a + r
          /\ b \in Nat /\ q \in 0..R-1 /\ l - 1 = R * b + q
      BY <1>1, <2>2, <2>2a
    <2>4. R * a + r < R * b + q
      <3>1. k - 1 < l - 1
        BY <1>3, <1>6, <1>9
      <3>2. QED
        BY <2>3, <3>1
    <2>5. a = b => r < q
      BY <1>1, <2>3, <2>4
    <2>6. ~(b < a)
      <3> SUFFICES ASSUME b < a PROVE FALSE
        OBVIOUS
      <3>1. R * (b + 1) <= R * a
        BY <1>1, <2>3
      <3>2. R * (b + 1) = R * b + R
        BY <1>1, <2>3
      <3>3. PICK u, v : u = R * a /\ v = R * b
        OBVIOUS
      <3>4. v + R <= u /\ u + r < v + q /\ u \in Nat /\ v \in Nat
        BY <1>1, <2>3, <2>4, <3>1, <3>2, <3>3
      <3>5. QED
        BY <1>1, <2>3, <3>4
    <2>7. /\ c[k][1] = a /\ c[k][2] = r /\ c[l][1] = b /\ c[l][2] = q
      BY <1>6, <2>1, <2>2, <2>2a
    <2>8. Before(c[k], c[l])
      BY <2>3, <2>5, <2>6, <2>7 DEF Before, None
    <2>9. QED
      BY <1>6, <1>7, <2>8 DEF InOrder
  <1>10. ToSet(c) = LeftRows \X RightRows
    <2>1. \A x \in ToSet(c) : x \in LeftRows \X RightRows
      BY <1>6, <1>7 DEF ToSet
    <2>2. ASSUME NEW x \in LeftRows \X RightRows PROVE x \in ToSet(c)
      <3>1. x[1] \in 0..L-1 /\ x[2] \in 0..R-1 /\ x = <<x[1], x[2]>>
        BY <1>1
      <3>2. PICK k \in 1..L * R : (k-1) \div R = x[1] /\ (k-1) % R = x[2]
        BY <1>5, <3>1
      <3>3. c[k] = x
        BY <1>6, <3>1, <3>2
      <3>4. QED
        BY <1>6, <3>3 DEF ToSet
    <2>3. QED
      BY <2>1, <2>2
  <1>11. SomePairs' = SomePairs /\ InOrder' = InOrder /\ LeftRows' = LeftRows /\ RightRows' = RightRows
    BY <1>2, QuietFrames
  <1>12. QED
    BY <1>2, <1>8, <1>9, <1>10, <1>11 DEF DoneInv, OrderedBy

-----------------------------------------------------------------------------
(* The invariant                                                           *)

LEMMA InitInv ==
  ASSUME Init
  PROVE  JoinInv
  <1>1. \A n \in Nat : Cardinality(0..n-1) = n
    BY FS_Interval
  <1>2. LeftHeight \in Nat /\ left \in [0..LeftHeight-1 -> Keys]
    <2>1. PICK n \in LeftHeights : left \in [0..n-1 -> Keys]
      BY DEF Init
    <2>2. n \in Nat /\ LeftRows = 0..n-1
      BY <2>1, JoinAssumption DEF LeftRows
    <2>3. LeftHeight = n
      BY <1>1, <2>2 DEF LeftHeight
    <2>4. QED
      BY <2>1, <2>2, <2>3
  <1>3. RightHeight \in Nat /\ right \in [0..RightHeight-1 -> Keys]
    <2>1. PICK n \in RightHeights : right \in [0..n-1 -> Keys]
      BY DEF Init
    <2>2. n \in Nat /\ RightRows = 0..n-1
      BY <2>1, JoinAssumption DEF RightRows
    <2>3. RightHeight = n
      BY <1>1, <2>2 DEF RightHeight
    <2>4. QED
      BY <2>1, <2>2, <2>3
  <1>4. FrameInv
    BY <1>2, <1>3 DEF Init, FrameInv
  <1>5. IndexInv
    BY DEF Init, IndexInv
  <1>6. QED
    BY <1>4, <1>5 DEF JoinInv, ProbeInv, DoneInv, Init

LEMMA NextInv ==
  ASSUME JoinInv, [Next]_vars
  PROVE  JoinInv'
  <1> USE DEF JoinInv
  <1>1. CASE Reject
    <2>1. FrameInv' /\ IndexInv'
      BY <1>1, QuietFrameInv, QuietIndexInv DEF Reject, FrameInv
    <2>2. QED
      BY <1>1, <2>1 DEF Reject, ProbeInv, DoneInv
  <1>2. CASE StartBuild
    <2>1. FrameInv' /\ IndexInv'
      BY <1>2, QuietFrameInv, QuietIndexInv DEF StartBuild, FrameInv
    <2>2. QED
      BY <1>2, <2>1 DEF StartBuild, ProbeInv, DoneInv
  <1>3. CASE BuildRow
    <2>1. row' \in 0..RightHeight
      BY <1>3 DEF BuildRow, FrameInv
    <2>2. FrameInv'
      BY <1>3, <2>1, QuietFrameInv DEF BuildRow, FrameInv
    <2>3. IndexInv'
      BY <1>3, BuildStep
    <2>4. QED
      BY <1>3, <2>2, <2>3 DEF BuildRow, ProbeInv, DoneInv
  <1>4. CASE StartProbe
    <2>1. FrameInv' /\ IndexInv'
      BY <1>4, QuietFrameInv, QuietIndexInv DEF StartProbe, FrameInv
    <2>2. PICK size \in IF canParallel THEN ChunkSizes ELSE {LeftHeight + 1} :
            chunks' = [s \in {i \in LeftRows : i % size = 0} |-> ChunkOf(s, size)]
      BY <1>4 DEF StartProbe
    <2>3. size \in Nat \ {0}
      BY JoinAssumption DEF FrameInv
    <2>4. /\ UNCHANGED <<call, left, right, row, table>> /\ pc' = "probe" /\ row = RightHeight
      BY <1>4 DEF StartProbe
    <2>5. (\A s \in DOMAIN chunks' : ChunkOK(s)') /\ Tiled'
      BY <2>2, <2>3, <2>4, StartTiles
    <2>6. RightHeight' = RightHeight
      BY <2>4, QuietFrames
    <2>7. call.how # CrossJoin
      BY <1>4 DEF StartProbe, FrameInv
    <2>8. QED
      BY <2>1, <2>4, <2>5, <2>6, <2>7 DEF ProbeInv, DoneInv
  <1>5. ASSUME NEW s \in LeftRows, ProbeRow(s) PROVE JoinInv'
    <2>1. FrameInv' /\ IndexInv'
      BY <1>5, QuietFrameInv, QuietIndexInv DEF ProbeRow, FrameInv
    <2>2. ProbeInv'
      BY <1>5, ProbeStep
    <2>3. QED
      BY <1>5, <2>1, <2>2 DEF ProbeRow, DoneInv
  <1>6. CASE MergeChunks
    <2>1. FrameInv' /\ IndexInv'
      BY <1>6, QuietFrameInv, QuietIndexInv DEF MergeChunks, FrameInv
    <2>2. DoneInv'
      BY <1>6, MergeStep
    <2>3. QED
      BY <1>6, <2>1, <2>2 DEF MergeChunks, ProbeInv
  <1>7. CASE CrossPairs
    <2>1. FrameInv' /\ IndexInv'
      BY <1>7, QuietFrameInv, QuietIndexInv DEF CrossPairs, FrameInv
    <2>2. DoneInv'
      BY <1>7, CrossStep
    <2>3. QED
      BY <1>7, <2>1, <2>2 DEF CrossPairs, ProbeInv
  <1>8. CASE UNCHANGED vars
    <2>1. FrameInv' /\ IndexInv'
      BY <1>8, QuietFrameInv, QuietIndexInv DEF vars, FrameInv
    <2>2. /\ SomePairs' = SomePairs /\ InOrder' = InOrder /\ \A j : EmittedBy(j)' = EmittedBy(j)
          /\ LeftHeight' = LeftHeight /\ LeftRows' = LeftRows /\ RightHeight' = RightHeight
          /\ RightRows' = RightRows /\ Emitted' = Emitted /\ LeftOver' = LeftOver
      BY <1>8, QuietFrames DEF vars
    <2>3. ProbeInv'
      BY <1>8, <2>2 DEF vars, ProbeInv, ChunkOK, Tiled
    <2>4. DoneInv'
      BY <1>8, <2>2 DEF vars, DoneInv, OrderedBy
    <2>5. QED
      BY <2>1, <2>3, <2>4
  <1>9. QED
    BY <1>1, <1>2, <1>3, <1>4, <1>5, <1>6, <1>7, <1>8 DEF Next

(* The invariant holds in every reachable state: it says what the index    *)
(* holds after each indexed row, what each chunk has emitted, and what the *)
(* merged pairs are.                                                       *)
THEOREM JoinInvariant == Spec => []JoinInv
  <1>1. Init => JoinInv
    BY InitInv
  <1>2. JoinInv /\ [Next]_vars => JoinInv'
    BY NextInv
  <1>3. QED
    BY <1>1, <1>2, PTL DEF Spec

-----------------------------------------------------------------------------
(* What the invariant says                                                 *)

(* buildRightIndex and its lookups: every indexed right row is in the one  *)
(* entry of its key, in row order, and no probe for the key meets a free   *)
(* place before it, however the hash values collide and wrap around.       *)
THEOREM IndexComplete == Spec => []IndexHoldsRows
  <1>1. JoinInv => IndexHoldsRows
    <2> SUFFICES ASSUME JoinInv PROVE IndexHoldsRows
      OBVIOUS
    <2>1. ASSUME NEW h \in DOMAIN table PROVE table[h] # <<>> /\ Ascending(table[h])
      BY <2>1 DEF JoinInv, IndexInv, EntryOK
    <2>2. ASSUME NEW j \in 0..row-1
          PROVE  \E p \in 0..HashSpace-1 :
                   /\ Taken(right[j], p)
                   /\ \A q \in 0..p : Taken(right[j], q) /\ (q = p <=> EntryKey(right[j], q) = right[j])
                   /\ ToSet(table[Place(right[j], p)]) = {i \in 0..row-1 : right[i] = right[j]}
      <3>1. PICK p \in 0..HashSpace-1 : Reached(right[j], p)
        BY DEF JoinInv, IndexInv
      <3>2. Taken(right[j], p) /\ EntryKey(right[j], p) = right[j]
        BY <3>1 DEF Reached
      <3>3. \A q \in 0..p : Taken(right[j], q) /\ (q = p <=> EntryKey(right[j], q) = right[j])
        BY <3>1 DEF Reached
      <3>4. /\ EntryOK(Place(right[j], p))
            /\ right[table[Place(right[j], p)][1]] = right[j]
        BY <3>2 DEF JoinInv, IndexInv, Taken, EntryKey
      <3>5. QED
        BY <3>2, <3>3, <3>4 DEF EntryOK
    <2>3. QED
      BY <2>1, <2>2 DEF IndexHoldsRows
  <1>2. QED
    BY <1>1, JoinInvariant, PTL

(* The pairs of one left row: its matches, or itself alone.                *)
Expected(i) ==
  IF call.how = SemiJoin THEN {p \in {<<i, None>>} : HasMatch(i)}
  ELSE IF call.how = AntiJoin THEN {p \in {<<i, None>>} : ~HasMatch(i)}
  ELSE {p \in SomePairs : \/ p[1] = i /\ p[2] \in RightRows /\ left[i] = right[p[2]]
                          \/ call.how \in {LeftJoin, FullJoin} /\ p = <<i, None>> /\ ~HasMatch(i)}

LEMMA EmitsMatches ==
  ASSUME FrameInv, IndexInv, row = RightHeight, NEW i \in LeftRows
  PROVE  /\ \A p \in EmittedBy(i) :
              p[1] = i /\ (p[2] = None \/ (p[2] \in RightRows /\ right[p[2]] = left[i]))
         /\ WithinReach => EmittedBy(i) = Expected(i)
  <1> DEFINE m == lookupRight(left[i])
             e == Emit(i, m)
  <1>1. left[i] \in Keys
    BY DEF FrameInv, LeftRows
  <1>2. LookupOK(left[i])
    BY <1>1, LookupFinds
  <1>3. m \in Seq(Int) /\ DOMAIN m = 1..Len(m) /\ Len(m) \in Nat
    BY <1>2 DEF LookupOK
  <1>4. \A k \in DOMAIN m : m[k] \in RightRows /\ right[m[k]] = left[i]
    BY <1>2 DEF LookupOK, ToSet
  <1>5. m = <<>> <=> DOMAIN m = {}
    <2>1. \A s \in Seq(Int) : Len(s) = 0 => s = <<>>
      OBVIOUS
    <2>2. DOMAIN <<>> = {}
      OBVIOUS
    <2> HIDE DEF m
    <2>3. DOMAIN m = {} => Len(m) = 0
      BY <1>3
    <2>4. QED
      BY <1>3, <2>1, <2>2, <2>3
  <1>6. WithinReach => \A j \in RightRows : right[j] = left[i] => \E k \in DOMAIN m : m[k] = j
    BY <1>2 DEF LookupOK, ToSet
  <1>7. WithinReach => (m # <<>> <=> HasMatch(i))
    BY <1>4, <1>5, <1>6 DEF HasMatch
  <1>8. /\ EmittedBy(i) = ToSet(e) /\ <<i, None>> \in SomePairs
        /\ \A j \in RightRows : <<i, j>> \in SomePairs
    BY DEF EmittedBy, SomePairs
  <1> HIDE DEF m
  <1>9. ToSet(<<>>) = {} /\ ToSet(<<<<i, None>>>>) = {<<i, None>>}
    BY DEF ToSet
  <1>10. e = IF call.how \in {SemiJoin, AntiJoin}
               THEN (IF (m # <<>>) = (call.how = SemiJoin) THEN <<<<i, None>>>> ELSE <<>>)
             ELSE IF m = <<>> /\ call.how \in {LeftJoin, FullJoin} THEN <<<<i, None>>>>
             ELSE [k \in DOMAIN m |-> <<i, m[k]>>]
    BY DEF Emit
  <1> HIDE DEF e
  <1>11. CASE call.how \in {SemiJoin, AntiJoin}
    <2>1. \/ (m # <<>>) = (call.how = SemiJoin) /\ ToSet(e) = {<<i, None>>}
          \/ (m # <<>>) # (call.how = SemiJoin) /\ ToSet(e) = {}
      BY <1>9, <1>10, <1>11
    <2>2. \A p \in ToSet(e) : p[1] = i /\ p[2] = None
      BY <2>1
    <2>3. SemiJoin # AntiJoin
      BY DEF SemiJoin, AntiJoin
    <2>4. WithinReach => ToSet(e) = Expected(i)
      BY <1>7, <1>11, <2>1, <2>3 DEF Expected
    <2>5. QED
      BY <1>8, <2>2, <2>4
  <1>12. CASE call.how \notin {SemiJoin, AntiJoin} /\ m = <<>> /\ call.how \in {LeftJoin, FullJoin}
    <2>1. ToSet(e) = {<<i, None>>}
      BY <1>9, <1>10, <1>12
    <2>2. \A p \in ToSet(e) : p[1] = i /\ p[2] = None
      BY <2>1
    <2>3. WithinReach => ToSet(e) = Expected(i)
      BY <1>7, <1>8, <1>12, <2>1 DEF Expected, HasMatch
    <2>4. QED
      BY <1>8, <2>2, <2>3
  <1>13. CASE call.how \notin {SemiJoin, AntiJoin} /\ ~(m = <<>> /\ call.how \in {LeftJoin, FullJoin})
    <2>1. e = [k \in DOMAIN m |-> <<i, m[k]>>]
      BY <1>10, <1>13
    <2>2. ToSet(e) = {<<i, m[k]>> : k \in DOMAIN m}
      BY <2>1 DEF ToSet
    <2>3. \A p \in ToSet(e) : p[1] = i /\ p[2] \in RightRows /\ right[p[2]] = left[i] /\ p \in SomePairs
      BY <1>4, <1>8, <2>2
    <2>4. ASSUME WithinReach PROVE ToSet(e) = Expected(i)
      <3>1. \A p \in ToSet(e) : p \in Expected(i)
        BY <1>13, <2>3 DEF Expected
      <3>2. call.how \in {LeftJoin, FullJoin} => HasMatch(i)
        BY <1>7, <1>13, <2>4
      <3>3. ASSUME NEW p \in Expected(i) PROVE p \in ToSet(e)
        <4>1. p \in SomePairs /\ p[1] = i /\ p[2] \in RightRows /\ left[i] = right[p[2]]
          BY <1>13, <3>2 DEF Expected
        <4>2. PICK k \in DOMAIN m : m[k] = p[2]
          BY <1>6, <2>4, <4>1
        <4>3. p = <<i, m[k]>>
          BY <4>1, <4>2 DEF SomePairs
        <4>4. QED
          BY <2>2, <4>3
      <3>4. QED
        BY <3>1, <3>3
    <2>5. QED
      BY <1>8, <2>3, <2>4
  <1>14. QED
    BY <1>11, <1>12, <1>13

(* Every row of the result has the key of its left or its right row, for   *)
(* every join, when the key columns are of a type that gatherColumn has a  *)
(* case for: where the left cell of a right or full join is null, the      *)
(* right cell fills it.  Of other types nothing is claimed: their keys     *)
(* come out as empty strings.                                              *)
THEOREM KeysComplete == Spec => []KeyColumnComplete
  <1>1. JoinInv => KeyColumnComplete
    <2> SUFFICES ASSUME JoinInv, pc = "done", call.keyType \in GatheredTypes, NEW k \in DOMAIN pairs
                 PROVE  Result[k].key = KeyOfPair(pairs[k])
      BY DEF KeyColumnComplete
    <2> DEFINE p == pairs[k]
    <2>1. /\ Result[k].key = KeyOf(p) /\ p \in ToSet(pairs)
      BY DEF Result, ResultRow, ToSet
    <2>1a. \A keys, i : GatherKey(keys, i) = IF i = None THEN Null ELSE keys[i]
      BY DEF GatherKey, Gathered
    <2>1b. KeyOf(p) = LET l == IF p[1] = None THEN Null ELSE left[p[1]]
                      IN  IF needRightMatched /\ l = Null
                            THEN IF p[2] = None THEN Null ELSE right[p[2]]
                            ELSE l
      BY <2>1a DEF KeyOf
    <2>2. /\ FrameInv /\ IndexInv /\ (call.how # CrossJoin => row = RightHeight)
          /\ ToSet(pairs) = IF call.how = CrossJoin THEN LeftRows \X RightRows
                                                    ELSE Emitted \cup LeftOver
      BY DEF JoinInv, DoneInv
    <2>3. None \notin LeftRows
      BY <2>2 DEF FrameInv, LeftRows, None
    <2>3a. None \notin RightRows
      BY <2>2 DEF FrameInv, RightRows, None
    <2> HIDE DEF p
    <2>4. CASE call.how = CrossJoin
      <3>1. p[1] # None /\ ~needRightMatched
        BY <2>1, <2>2, <2>3, <2>4 DEF needRightMatched, RightJoin, FullJoin, CrossJoin
      <3>2. QED
        BY <2>1, <2>1b, <3>1 DEF KeyOfPair, p
    <2>5. CASE call.how # CrossJoin /\ p \in Emitted
      <3>1. PICK i \in LeftRows : p \in EmittedBy(i)
        BY <2>5 DEF Emitted
      <3>2. p[1] = i /\ (p[2] = None \/ right[p[2]] = left[i])
        BY <2>2, <2>5, <3>1, EmitsMatches
      <3>3. QED
        BY <2>1, <2>1b, <2>3, <3>2 DEF KeyOfPair, p
    <2>6. CASE call.how # CrossJoin /\ p \in LeftOver
      <3>1. p[1] = None /\ p[2] # None /\ needRightMatched
        BY <2>3a, <2>6 DEF LeftOver
      <3>2. QED
        BY <2>1, <2>1b, <3>1 DEF KeyOfPair, p
    <2>7. QED
      BY <2>1, <2>2, <2>4, <2>5, <2>6
  <1>2. QED
    BY <1>1, JoinInvariant, PTL

LEMMA EmittedIsExpected ==
  ASSUME FrameInv, IndexInv, row = RightHeight, WithinReach
  PROVE  /\ Emitted = {p \in SomePairs : \E i \in LeftRows : p \in Expected(i)}
         /\ LeftOver = {<<None, j>> : j \in {k \in RightRows : needRightMatched /\ ~IsMatched(k)}}
  <1>1. \A i \in LeftRows : EmittedBy(i) = Expected(i)
    BY EmitsMatches
  <1>2. Emitted = {p \in SomePairs : \E i \in LeftRows : p \in Expected(i)}
    BY <1>1 DEF Emitted
  <1>3. ASSUME needRightMatched, NEW j \in RightRows
        PROVE  (\A p \in Emitted : p[2] # j) <=> ~IsMatched(j)
    <2>1. call.how \in {RightJoin, FullJoin} /\ call.how \notin {SemiJoin, AntiJoin}
      BY <1>3 DEF needRightMatched, RightJoin, FullJoin, SemiJoin, AntiJoin
    <2>2. None \notin RightRows
      BY DEF FrameInv, RightRows, None
    <2>3. ASSUME NEW p \in Emitted, p[2] = j PROVE IsMatched(j)
      <3>1. PICK i \in LeftRows : p \in Expected(i)
        BY <1>2
      <3>2. left[i] = right[j]
        BY <2>1, <2>2, <2>3, <3>1 DEF Expected
      <3>3. QED
        BY <3>2 DEF IsMatched
    <2>4. ASSUME IsMatched(j) PROVE \E p \in Emitted : p[2] = j
      <3>1. PICK i \in LeftRows : left[i] = right[j]
        BY <2>4 DEF IsMatched
      <3>2. PICK p : p = <<i, j>>
        OBVIOUS
      <3>3. p \in SomePairs /\ p[1] = i /\ p[2] = j
        BY <3>2 DEF SomePairs
      <3>4. p \in Expected(i)
        BY <2>1, <3>1, <3>3 DEF Expected
      <3>5. QED
        BY <1>2, <3>3, <3>4
    <2>5. QED
      BY <2>3, <2>4
  <1>4. {k \in RightRows : needRightMatched /\ \A p \in Emitted : p[2] # k}
          = {k \in RightRows : needRightMatched /\ ~IsMatched(k)}
    BY <1>3
  <1>5. LeftOver = {<<None, j>> : j \in {k \in RightRows : needRightMatched /\ ~IsMatched(k)}}
    BY <1>4, Zenon DEF LeftOver
  <1>6. QED
    BY <1>2, <1>5

(* The pairs of the left rows are those of the join by its definition.     *)
LEMMA ExpectedIsJoin ==
  ASSUME FrameInv, call.how # CrossJoin
  PROVE  {p \in SomePairs : \E i \in LeftRows : p \in Expected(i)}
           \cup {<<None, j>> : j \in {k \in RightRows : needRightMatched /\ ~IsMatched(k)}}
         = JoinOf(call.how)
  <1> DEFINE expected == {p \in SomePairs : \E i \in LeftRows : p \in Expected(i)}
             over == {<<None, j>> : j \in {k \in RightRows : needRightMatched /\ ~IsMatched(k)}}
             matches == {p \in LeftRows \X RightRows : left[p[1]] = right[p[2]]}
             leftOnly == {<<i, None>> : i \in {k \in LeftRows : ~HasMatch(k)}}
             rightOnly == {<<None, j>> : j \in {k \in RightRows : ~IsMatched(k)}}
             semi == {<<i, None>> : i \in {k \in LeftRows : HasMatch(k)}}
  <1>1. /\ None \notin LeftRows /\ None \notin RightRows
        /\ \A i \in LeftRows : <<i, None>> \in SomePairs
        /\ \A i \in LeftRows, j \in RightRows : <<i, j>> \in SomePairs
    BY DEF FrameInv, LeftRows, RightRows, None, SomePairs
  <1>2. call.how \in JoinTypes /\ call.how # CrossJoin
    BY DEF FrameInv
  <1>3. \A p \in SomePairs : p = <<p[1], p[2]>>
    BY DEF SomePairs
  <1>4. CASE call.how = SemiJoin
    <2>1. expected = semi
      BY <1>1, <1>4 DEF Expected
    <2>2. over = {} /\ JoinOf(call.how) = semi
      BY <1>4 DEF needRightMatched, JoinOf, InnerJoin, LeftJoin, RightJoin, FullJoin, SemiJoin, AntiJoin, CrossJoin
    <2>3. QED
      BY <2>1, <2>2
  <1>5. CASE call.how = AntiJoin
    <2>1. expected = leftOnly
      BY <1>1, <1>5 DEF Expected, SemiJoin, AntiJoin
    <2>2. over = {} /\ JoinOf(call.how) = leftOnly
      BY <1>5 DEF needRightMatched, JoinOf, InnerJoin, LeftJoin, RightJoin, FullJoin, SemiJoin, AntiJoin, CrossJoin
    <2>3. QED
      BY <2>1, <2>2
  <1>6. CASE call.how \notin {SemiJoin, AntiJoin}
    <2>1. ASSUME NEW p \in SomePairs
          PROVE  p \in expected <=> p \in matches \/ (call.how \in {LeftJoin, FullJoin} /\ p \in leftOnly)
      <3>1. p \in matches <=> p[1] \in LeftRows /\ p[2] \in RightRows /\ left[p[1]] = right[p[2]]
        BY <1>3
      <3>2. p \in leftOnly <=> p[1] \in LeftRows /\ p[2] = None /\ ~HasMatch(p[1])
        BY <1>3
      <3>3. \A i \in LeftRows : p = <<i, None>> <=> p[1] = i /\ p[2] = None
        BY <1>3
      <3>4. \A i \in LeftRows : p \in Expected(i) <=>
              \/ p[1] = i /\ p[2] \in RightRows /\ left[i] = right[p[2]]
              \/ call.how \in {LeftJoin, FullJoin} /\ p[1] = i /\ p[2] = None /\ ~HasMatch(i)
        BY <1>6, <3>3 DEF Expected
      <3>5. QED
        BY <3>1, <3>2, <3>4
    <2>2. (\A p \in matches : p \in SomePairs) /\ (\A p \in leftOnly : p \in SomePairs)
      BY <1>1 DEF SomePairs
    <2>3. over = IF call.how \in {RightJoin, FullJoin} THEN rightOnly ELSE {}
      BY DEF needRightMatched
    <2>4. expected = matches \cup (IF call.how \in {LeftJoin, FullJoin} THEN leftOnly ELSE {})
      <3> HIDE DEF matches, leftOnly
      <3>1. \A p \in expected : p \in SomePairs
        OBVIOUS
      <3> HIDE DEF expected
      <3>2. QED
        BY <2>1, <2>2, <3>1
    <2>5. JoinOf(call.how) = IF call.how = InnerJoin THEN matches
                             ELSE IF call.how = LeftJoin THEN matches \cup leftOnly
                             ELSE IF call.how = RightJoin THEN matches \cup rightOnly
                             ELSE matches \cup leftOnly \cup rightOnly
      BY <1>2, <1>6 DEF JoinOf, JoinTypes, InnerJoin, LeftJoin, RightJoin, FullJoin, SemiJoin, AntiJoin, CrossJoin
    <2>6. call.how \in {InnerJoin, LeftJoin, RightJoin, FullJoin}
      BY <1>2, <1>6 DEF JoinTypes
    <2> HIDE DEF expected, over, matches, leftOnly, rightOnly
    <2>7. expected \cup over = JoinOf(call.how)
      BY <2>3, <2>4, <2>5, <2>6 DEF InnerJoin, LeftJoin, RightJoin, FullJoin
    <2>8. QED
      BY <2>7 DEF expected, over
  <1>7. QED
    BY <1>4, <1>5, <1>6

(* The result has exactly the pairs of the join by its definition, each    *)
(* once, in the order of the left rows and then of the right rows, with    *)
(* the unmatched right rows last: for every join, every way hash values    *)
(* collide, in one chunk or in many.                                       *)
THEOREM JoinsByDefinition == Spec => []ResultIsJoin
  <1>1. JoinInv => ResultIsJoin
    <2> SUFFICES ASSUME JoinInv, pc = "done", WithinReach
                 PROVE  /\ ToSet(pairs) = JoinOf(call.how)
                        /\ \A k \in 1..Len(pairs)-1 : Before(pairs[k], pairs[k+1])
      BY DEF ResultIsJoin
    <2>1. /\ FrameInv /\ IndexInv /\ (call.how # CrossJoin => row = RightHeight)
          /\ pairs \in Seq(SomePairs) /\ OrderedBy(InOrder, pairs)
          /\ ToSet(pairs) = IF call.how = CrossJoin THEN LeftRows \X RightRows
                                                    ELSE Emitted \cup LeftOver
      BY DEF JoinInv, DoneInv
    <2>2. ASSUME NEW k \in 1..Len(pairs)-1 PROVE Before(pairs[k], pairs[k+1])
      <3>1. k \in DOMAIN pairs /\ k+1 \in DOMAIN pairs /\ k < k+1
        BY <2>1
      <3>2. <<pairs[k], pairs[k+1]>> \in InOrder
        BY <2>1, <3>1 DEF OrderedBy
      <3>3. QED
        BY <3>2 DEF InOrder
    <2>3. CASE call.how = CrossJoin
      <3>1. JoinOf(CrossJoin) = LeftRows \X RightRows
        BY DEF JoinOf, InnerJoin, LeftJoin, RightJoin, FullJoin, SemiJoin, AntiJoin, CrossJoin
      <3>2. QED
        BY <2>1, <2>2, <2>3, <3>1
    <2>4. CASE call.how # CrossJoin
      <3>1. Emitted \cup LeftOver = JoinOf(call.how)
        BY <2>1, <2>4, EmittedIsExpected, ExpectedIsJoin
      <3>2. QED
        BY <2>1, <2>2, <2>4, <3>1
    <2>5. QED
      BY <2>3, <2>4
  <1>2. QED
    BY <1>1, JoinInvariant, PTL
=============================================================================
