----------------------------- MODULE DataLemmas -----------------------------
(***************************************************************************)
(* Facts about the data the modules are built from, which the proofs about *)
(* several components cite: a set of numbers has a least one, induction    *)
(* over an interval, ranks in a finite order, and what it means to         *)
(* concatenate sequences.                                                  *)
(*                                                                         *)
(* Induction is stated for a set of numbers, not for a predicate: it comes *)
(* from the well-foundedness of < by way of least counterexamples.         *)
(***************************************************************************)
EXTENDS Integers, FiniteSets, SequencesExt, RowLists, TLAPS, WellFoundedInduction, FiniteSetTheorems

-----------------------------------------------------------------------------
(* Induction                                                               *)

LEMMA Least ==
  ASSUME NEW T \in SUBSET Nat, T # {}
  PROVE  \E m \in T : \A k \in T : m <= k
  <1>1. PICK m \in T : \A k \in T : <<k, m>> \notin OpToRel(<, Nat)
    BY NatLessThanWellFounded, WFMin, Zenon
  <1>2. \A k \in T : ~(k < m)
    BY <1>1 DEF OpToRel
  <1>3. QED
    BY <1>2

(* Induction over an interval.                                             *)
LEMMA IntervalInduction ==
  ASSUME NEW a \in Int, NEW b \in Int, NEW S,
         a <= b => a \in S,
         \A i \in a..b-1 : i \in S => i+1 \in S
  PROVE  a..b \subseteq S
  <1> DEFINE T == {k \in Nat : a + k <= b /\ a + k \notin S}
  <1> SUFFICES ASSUME NEW c \in a..b, c \notin S PROVE FALSE
    OBVIOUS
  <1>1. c - a \in T
    OBVIOUS
  <1>2. PICK m \in T : \A k \in T : m <= k
    <2> HIDE DEF T
    <2>1. T \in SUBSET Nat
      BY DEF T
    <2>2. QED
      BY <1>1, <2>1, Least
  <1>3. m # 0
    BY <1>2
  <1>4. m - 1 \in Nat /\ m - 1 \notin T
    BY <1>2, <1>3
  <1>5. a + (m - 1) \in a..b-1 /\ a + (m - 1) \in S
    BY <1>2, <1>4
  <1>6. (a + (m - 1)) + 1 = a + m
    BY <1>2
  <1>7. a + m \in S
    BY <1>5, <1>6
  <1>8. QED
    BY <1>2, <1>7

(* The first number of an interval that is in a set.                       *)
LEMMA FirstIn ==
  ASSUME NEW b \in Int, NEW S, NEW c \in 0..b, c \in S
  PROVE  \E p \in 0..b : p \in S /\ p <= c /\ \A q \in 0..p-1 : q \notin S
  <1> DEFINE T == {k \in Nat : k \in 0..b /\ k \in S}
  <1>1. PICK m \in T : \A k \in T : m <= k
    <2>1. c \in T
      OBVIOUS
    <2> HIDE DEF T
    <2>2. T \in SUBSET Nat
      BY DEF T
    <2>3. QED
      BY <2>1, <2>2, Least
  <1>2. \A q \in 0..m-1 : q \notin S
    BY <1>1
  <1>3. m <= c
    BY <1>1
  <1>4. QED
    BY <1>1, <1>2, <1>3

(* Division with remainder.                                                *)
LEMMA Quotient ==
  ASSUME NEW x \in Nat, NEW y \in Nat \ {0}
  PROVE  \E a \in Nat : \E r \in 0..y-1 : x = y * a + r
  <1> DEFINE S == {n \in Nat : \E a \in Nat : \E r \in 0..y-1 : n = y * a + r}
  <1>1. 0 \in S
    <2>1. 0 = y * 0 + 0
      OBVIOUS
    <2>2. QED
      BY <2>1
  <1>2. ASSUME NEW n \in 0..x-1, n \in S PROVE n + 1 \in S
    <2>1. PICK a \in Nat, r \in 0..y-1 : n = y * a + r
      BY <1>2
    <2>2. CASE r + 1 < y
      <3>1. n + 1 = y * a + (r + 1) /\ r + 1 \in 0..y-1
        BY <2>1, <2>2
      <3>2. QED
        BY <3>1
    <2>3. CASE r + 1 = y
      <3>1. n + 1 = y * (a + 1) + 0 /\ a + 1 \in Nat /\ 0 \in 0..y-1
        BY <2>1, <2>3
      <3>2. \E b \in Nat : \E q \in 0..y-1 : n + 1 = y * b + q
        BY <3>1
      <3>3. QED
        BY <3>2
    <2>4. QED
      BY <2>2, <2>3
  <1>3. 0..x \subseteq S
    <2> HIDE DEF S
    <2>1. QED
      BY <1>1, <1>2, IntervalInduction
  <1>4. QED
    BY <1>3

LEMMA DivMod ==
  ASSUME NEW x \in Nat, NEW y \in Nat \ {0}
  PROVE  \E a \in Nat : \E r \in 0..y-1 : x = y * a + r /\ x \div y = a /\ x % y = r
  <1>1. PICK a \in Nat, r \in 0..y-1 : x = y * a + r
    BY Quotient
  <1>2. x \div y = a
    BY <1>1
  <1>3. x % y = r
    BY <1>1
  <1>4. QED
    BY <1>1, <1>2, <1>3

(* Products with one factor grow with the other.                           *)
LEMMA ProductGrows ==
  ASSUME NEW c, c \in Nat \ {0}, NEW j, j \in Nat, NEW k, k \in Nat
  PROVE  /\ j * c \in Nat
         /\ (j + 1) * c = j * c + c
         /\ j < k => j * c + c <= k * c
         /\ j <= k => j * c <= k * c
  <1>1. j * c \in Nat /\ k * c \in Nat /\ (j + 1) * c = j * c + c
    OBVIOUS
  <1>2. j < k => (j + 1) * c <= k * c
    OBVIOUS
  <1>3. j <= k => j * c <= k * c
    OBVIOUS
  <1>4. QED
    BY <1>1, <1>2, <1>3

(* The multiple of y at or below x, and the next one.                      *)
LEMMA MultipleBelow ==
  ASSUME NEW x \in Nat, NEW y \in Nat \ {0}
  PROVE  \E s \in 0..x : s % y = 0 /\ x < s + y
  <1>1. PICK a \in Nat, r \in 0..y-1 : x = y * a + r
    BY Quotient
  <1>2. y * a \in Nat /\ y * a = y * a + 0
    OBVIOUS
  <1>3. (y * a) % y = 0
    <2>1. \A b \in Nat : \A q \in 0..y-1 : (y * b + q) % y = q
      OBVIOUS
    <2>2. QED
      BY <1>2, <2>1
  <1>4. QED
    BY <1>1, <1>2, <1>3

LEMMA MultiplesApart ==
  ASSUME NEW s \in Nat, NEW t \in Nat, NEW y \in Nat \ {0}, s % y = 0, t % y = 0, s < t
  PROVE  s + y <= t
  <1>1. PICK a \in Nat : s = y * a
    BY DivMod
  <1>2. PICK b \in Nat : t = y * b
    BY DivMod
  <1>3. a < b
    BY <1>1, <1>2
  <1>4. a + 1 <= b
    BY <1>3
  <1>5. y * (a + 1) <= y * b
    BY <1>4
  <1>6. QED
    BY <1>1, <1>2, <1>5

-----------------------------------------------------------------------------
(* Ranks                                                                   *)

(* A finite set whose elements are ordered, as the function from each to   *)
(* the elements ahead of it.                                               *)
IsOrder(D, ahead) ==
  /\ ahead \in [D -> SUBSET D]
  /\ \A k \in D : k \notin ahead[k]
  /\ \A k, l \in D : k # l => k \in ahead[l] \/ l \in ahead[k]
  /\ \A k \in D : \A l \in ahead[k] : ahead[l] \subseteq ahead[k]

LEMMA RankGrows ==
  ASSUME NEW D, IsFiniteSet(D), NEW ahead, IsOrder(D, ahead), NEW k \in D, NEW l \in ahead[k]
  PROVE  Cardinality(ahead[l]) < Cardinality(ahead[k])
  <1>1. /\ l \in D /\ ahead[k] \in SUBSET D /\ ahead[l] \in SUBSET ahead[k]
        /\ l \notin ahead[l]
    BY DEF IsOrder
  <1>2. IsFiniteSet(ahead[k])
    BY <1>1, FS_Subset
  <1>3. /\ IsFiniteSet(ahead[l]) /\ Cardinality(ahead[l]) <= Cardinality(ahead[k])
        /\ (Cardinality(ahead[k]) = Cardinality(ahead[l]) => ahead[k] = ahead[l])
    BY <1>1, <1>2, FS_Subset
  <1>4. Cardinality(ahead[k]) \in Nat /\ Cardinality(ahead[l]) \in Nat
    BY <1>2, <1>3, FS_CardinalityType
  <1>5. QED
    BY <1>1, <1>3, <1>4

(* In a finite order every rank below the number of elements is that of    *)
(* one element, and a higher rank is that of a later element.              *)
LEMMA Ranks ==
  ASSUME NEW D, IsFiniteSet(D), NEW ahead, IsOrder(D, ahead)
  PROVE  /\ Cardinality(D) \in Nat
         /\ \A k \in D : Cardinality(ahead[k]) \in 0..Cardinality(D)-1
         /\ \A r \in 0..Cardinality(D)-1 : \E k \in D : Cardinality(ahead[k]) = r
         /\ \A k, l \in D : Cardinality(ahead[k]) < Cardinality(ahead[l]) <=> k \in ahead[l]
         /\ \A k, l \in D : Cardinality(ahead[k]) = Cardinality(ahead[l]) => k = l
  <1> DEFINE N == Cardinality(D)
             rank == [k \in D |-> Cardinality(ahead[k])]
  <1>1. N \in Nat
    BY FS_CardinalityType
  <1>2. ASSUME NEW k \in D
        PROVE  Cardinality(ahead[k]) \in 0..N-1
    <2>1. ahead[k] \in SUBSET D /\ k \notin ahead[k]
      BY DEF IsOrder
    <2>2. /\ IsFiniteSet(ahead[k]) /\ Cardinality(ahead[k]) <= N
          /\ (N = Cardinality(ahead[k]) => D = ahead[k])
      BY <2>1, FS_Subset
    <2>3. Cardinality(ahead[k]) \in Nat
      BY <2>2, FS_CardinalityType
    <2>4. QED
      BY <1>1, <2>1, <2>2, <2>3
  <1>3. \A k, l \in D : k \in ahead[l] => Cardinality(ahead[k]) < Cardinality(ahead[l])
    BY RankGrows
  <1>4. ASSUME NEW k \in D, NEW l \in D, Cardinality(ahead[k]) = Cardinality(ahead[l])
        PROVE  k = l
    <2> SUFFICES ASSUME k # l PROVE FALSE
      OBVIOUS
    <2>1. k \in ahead[l] \/ l \in ahead[k]
      BY DEF IsOrder
    <2>2. Cardinality(ahead[k]) < Cardinality(ahead[l]) \/ Cardinality(ahead[l]) < Cardinality(ahead[k])
      BY <1>3, <2>1
    <2>3. Cardinality(ahead[k]) \in Nat /\ Cardinality(ahead[l]) \in Nat
      BY <1>2
    <2>4. QED
      BY <1>4, <2>2, <2>3
  <1>5. ASSUME NEW k \in D, NEW l \in D, Cardinality(ahead[k]) < Cardinality(ahead[l])
        PROVE  k \in ahead[l]
    <2> SUFFICES ASSUME k \notin ahead[l] PROVE FALSE
      OBVIOUS
    <2>1. Cardinality(ahead[k]) \in Nat /\ Cardinality(ahead[l]) \in Nat
      BY <1>2
    <2>2. k # l
      BY <1>5, <2>1
    <2>3. l \in ahead[k]
      BY <2>2 DEF IsOrder
    <2>4. QED
      BY <1>3, <1>5, <2>1, <2>3
  <1>6. rank \in Injection(D, 0..N-1)
    BY <1>2, <1>4 DEF Injection, IsInjective
  <1>7. IsFiniteSet(0..N-1) /\ Cardinality(0..N-1) = N
    BY <1>1, FS_Interval
  <1>8. rank \in Surjection(D, 0..N-1)
    BY <1>6, <1>7, FS_Injection
  <1>9. \A r \in 0..N-1 : \E k \in D : Cardinality(ahead[k]) = r
    BY <1>8 DEF Surjection
  <1>10. QED
    BY <1>1, <1>2, <1>3, <1>4, <1>5, <1>9

LEMMA RankTaken ==
  ASSUME NEW D, IsFiniteSet(D), NEW ahead, IsOrder(D, ahead), NEW r \in 0..Cardinality(D)-1
  PROVE  \E k \in D : Cardinality(ahead[k]) = r
  BY Ranks

(* The element of each rank, in the order of the ranks.                    *)
IsRanking(D, ahead, s) ==
  /\ IsFiniteSet(D) /\ IsOrder(D, ahead)
  /\ \A p \in 1..Cardinality(D) : s[p] \in D /\ Cardinality(ahead[s[p]]) = p - 1

LEMMA RankList ==
  ASSUME NEW D, NEW ahead, NEW s, IsRanking(D, ahead, s)
  PROVE  /\ Cardinality(D) \in Nat
         /\ \A k \in D : \E p \in 1..Cardinality(D) : s[p] = k
         /\ \A p, q \in 1..Cardinality(D) : p < q => s[p] \in ahead[s[q]] /\ s[p] # s[q]
  <1> DEFINE N == Cardinality(D)
  <1>0. /\ IsFiniteSet(D) /\ IsOrder(D, ahead)
        /\ \A p \in 1..N : s[p] \in D /\ Cardinality(ahead[s[p]]) = p - 1
    BY DEF IsRanking
  <1>1. N \in Nat
    BY <1>0, Ranks
  <1>2. \A p \in 1..N : s[p] \in D /\ Cardinality(ahead[s[p]]) = p - 1
    BY <1>0
  <1>4. ASSUME NEW k \in D
        PROVE  \E p \in 1..N : s[p] = k
    <2>1. Cardinality(ahead[k]) \in 0..N-1
      BY <1>0, Ranks
    <2>2. Cardinality(ahead[k]) + 1 \in 1..N /\ (Cardinality(ahead[k]) + 1) - 1 = Cardinality(ahead[k])
      BY <1>1, <2>1
    <2>3. \A l \in D : Cardinality(ahead[k]) = Cardinality(ahead[l]) => k = l
      BY <1>0, Ranks
    <2>4. QED
      BY <1>2, <2>2, <2>3
  <1>5. ASSUME NEW p \in 1..N, NEW q \in 1..N, p < q
        PROVE  s[p] \in ahead[s[q]] /\ s[p] # s[q]
    <2>1. /\ s[p] \in D /\ s[q] \in D /\ Cardinality(ahead[s[p]]) = p - 1
          /\ Cardinality(ahead[s[q]]) = q - 1
      BY <1>2
    <2>2. Cardinality(ahead[s[p]]) < Cardinality(ahead[s[q]])
      BY <1>5, <2>1
    <2>3. \A k, l \in D : Cardinality(ahead[k]) < Cardinality(ahead[l]) <=> k \in ahead[l]
      BY <1>0, Ranks
    <2>4. \A k \in D : k \notin ahead[k]
      BY <1>0 DEF IsOrder
    <2>5. QED
      BY <2>1, <2>2, <2>3, <2>4
  <1>6. QED
    BY <1>1, <1>4, <1>5

(* A list of rows has every row of the set once, in ascending order.       *)
LEMMA RowListAscends ==
  ASSUME NEW S, \A x \in S : x \in Int, IsFiniteSet(S)
  PROVE  /\ RowList(S) \in Seq(S) /\ Len(RowList(S)) = Cardinality(S)
         /\ DOMAIN RowList(S) = 1..Cardinality(S) /\ Cardinality(S) \in Nat
         /\ ToSet(RowList(S)) = S
         /\ \A k, l \in DOMAIN RowList(S) : k < l => RowList(S)[k] < RowList(S)[l]
  <1>0. PICK ahead : ahead = [i \in S |-> {j \in S : j < i}]
    OBVIOUS
  <1>0a. PICK s : s = RowList(S)
    OBVIOUS
  <1>1. \A k \in S : ahead[k] = {j \in S : j < k}
    BY <1>0
  <1>2. ahead \in [S -> SUBSET S]
    BY <1>0
  <1>3. IsOrder(S, ahead)
    <2>1. \A k \in S : k \notin ahead[k]
      BY <1>1
    <2>2. \A k, l \in S : k # l => k \in ahead[l] \/ l \in ahead[k]
      BY <1>1
    <2>3. ASSUME NEW k \in S, NEW l \in ahead[k] PROVE ahead[l] \subseteq ahead[k]
      <3>1. l \in S /\ l < k /\ \A j \in S : j \in Int
        BY <1>1
      <3>2. \A j \in S : j < l => j < k
        BY <3>1
      <3>3. QED
        BY <1>1, <3>1, <3>2
    <2>4. QED
      BY <1>2, <2>1, <2>2, <2>3 DEF IsOrder
  <1>4. /\ \A k \in S : \E p \in 1..Cardinality(S) : s[p] = k
        /\ \A p, q \in 1..Cardinality(S) : p < q => s[p] \in ahead[s[q]] /\ s[p] # s[q]
        /\ Cardinality(S) \in Nat
        /\ s \in [1..Cardinality(S) -> S]
    <2>1. Cardinality(S) \in Nat
      BY FS_CardinalityType
    <2>2. ASSUME NEW p \in 1..Cardinality(S)
          PROVE  s[p] \in S /\ Cardinality({j \in S : j < s[p]}) = p - 1
      <3>1. \E k \in S : Cardinality(ahead[k]) = p - 1
        <4>1. p - 1 \in 0..Cardinality(S)-1
          BY <2>1
        <4>2. QED
          BY <1>3, <4>1, RankTaken
      <3>2. \E k \in S : Cardinality({j \in S : j < k}) = p - 1
        BY <1>1, <3>1
      <3>3. s[p] = CHOOSE i \in S : Cardinality({j \in S : j < i}) = p - 1
        BY <1>0a DEF RowList
      <3>4. QED
        BY <3>2, <3>3
    <2>3. s \in [1..Cardinality(S) -> S]
      BY <1>0a, <2>2 DEF RowList
    <2>4. \A p \in 1..Cardinality(S) : s[p] \in S /\ Cardinality(ahead[s[p]]) = p - 1
      BY <1>1, <2>2
    <2>5. /\ \A k \in S : \E p \in 1..Cardinality(S) : s[p] = k
          /\ \A p, q \in 1..Cardinality(S) : p < q => s[p] \in ahead[s[q]] /\ s[p] # s[q]
      BY <1>3, <2>4, RankList DEF IsRanking
    <2>6. QED
      BY <2>1, <2>3, <2>5
  <1>5. \A p, q \in 1..Cardinality(S) : p < q => s[p] < s[q]
    BY <1>1, <1>4
  <1>6. ToSet(s) = S
    <2>1. DOMAIN s = 1..Cardinality(S) /\ \A p \in 1..Cardinality(S) : s[p] \in S
      BY <1>4
    <2>2. QED
      BY <1>4, <2>1 DEF ToSet
  <1>7. s \in Seq(S) /\ Len(s) = Cardinality(S) /\ DOMAIN s = 1..Cardinality(S)
    BY <1>4
  <1>8. QED
    BY <1>0a, <1>4, <1>5, <1>6, <1>7

(* Appending a later row.                                                  *)
LEMMA AppendAscends ==
  ASSUME NEW s, s \in Seq(Int), NEW x, x \in Int
  PROVE  /\ Append(s, x) \in Seq(Int) /\ Len(Append(s, x)) > 0
         /\ ToSet(Append(s, x)) = ToSet(s) \cup {x}
         /\ Ascending(s) /\ (\A y \in ToSet(s) : y < x) => Ascending(Append(s, x))
  <1>1. PICK t : t = Append(s, x)
    OBVIOUS
  <1>2. /\ t \in Seq(Int) /\ Len(s) \in Nat /\ DOMAIN s = 1..Len(s) /\ DOMAIN t = 1..Len(s)+1
        /\ Len(t) = Len(s) + 1 /\ t[Len(s)+1] = x
        /\ \A k \in 1..Len(s) : t[k] = s[k]
    BY <1>1
  <1>3. 1..Len(s)+1 = (1..Len(s)) \cup {Len(s)+1}
    BY <1>2
  <1>4. ToSet(t) = ToSet(s) \cup {x}
    BY <1>2, <1>3 DEF ToSet
  <1>5. ASSUME Ascending(s), \A y \in ToSet(s) : y < x, NEW k \in DOMAIN t, NEW l \in DOMAIN t, k < l
        PROVE  t[k] < t[l]
    <2>1. k \in 1..Len(s)
      BY <1>2, <1>5
    <2>2. CASE l \in 1..Len(s)
      BY <1>2, <1>5, <2>1, <2>2 DEF Ascending
    <2>3. CASE l = Len(s)+1
      BY <1>2, <1>5, <2>1, <2>3 DEF ToSet
    <2>4. QED
      BY <1>2, <1>3, <2>2, <2>3
  <1>6. QED
    BY <1>1, <1>2, <1>4, <1>5 DEF Ascending

(* A list of rows in row order is the only one of its rows.                *)
LEMMA AscendingIsRowList ==
  ASSUME NEW s, s \in Seq(Int), Ascending(s), NEW S, S = ToSet(s)
  PROVE  s = RowList(S) /\ IsFiniteSet(S) /\ Cardinality(S) = Len(s)
  <1> DEFINE n == Len(s)
  <1>1. /\ n \in Nat /\ DOMAIN s = 1..n /\ S = {s[k] : k \in 1..n} /\ S \subseteq Int
        /\ \A k, l \in 1..n : k < l => s[k] < s[l]
        /\ s = [k \in 1..n |-> s[k]] /\ \A k \in 1..n : s[k] \in S /\ s[k] \in Int
    BY DEF Ascending, ToSet
  <1> HIDE DEF n
  <1>1a. \A l \in 1..n : \A m \in 1..l-1 : m \in 1..n /\ m < l
    <2>1. n \in Nat
      BY <1>1
    <2>2. QED
      BY <2>1
  <1>2. \A k, l \in 1..n : s[k] < s[l] => k < l
    <2> SUFFICES ASSUME NEW k \in 1..n, NEW l \in 1..n, s[k] < s[l], ~(k < l) PROVE FALSE
      OBVIOUS
    <2>1. l < k \/ k = l
      OBVIOUS
    <2>2. s[k] \in Int /\ s[l] \in Int
      BY <1>1
    <2>3. CASE l < k
      <3>1. s[l] < s[k]
        BY <1>1, <2>3
      <3>2. QED
        BY <2>2, <3>1
    <2>4. CASE k = l
      BY <2>2, <2>4
    <2>5. QED
      BY <2>1, <2>3, <2>4
  <1>3. ASSUME NEW k \in 1..n+1, NEW T, T = {s[l] : l \in 1..k-1}
        PROVE  IsFiniteSet(T) /\ Cardinality(T) = k-1
    <2>1. PICK f : f = [l \in 1..k-1 |-> s[l]]
      OBVIOUS
    <2>2. \A l \in 1..k-1 : l \in 1..n
      BY <1>1
    <2>3. \A l, m \in 1..k-1 : f[l] = f[m] => l = m
      <3> SUFFICES ASSUME NEW l \in 1..k-1, NEW m \in 1..k-1, s[l] = s[m], l # m PROVE FALSE
        BY <2>1
      <3>1. l < m \/ m < l
        OBVIOUS
      <3>2. l \in 1..n /\ m \in 1..n /\ s[l] \in Int /\ s[m] \in Int
        BY <1>1, <2>2
      <3>3. s[l] < s[m] \/ s[m] < s[l]
        BY <1>1, <3>1, <3>2
      <3>4. QED
        BY <3>2, <3>3
    <2>4. f \in Bijection(1..k-1, T)
      BY <1>3, <2>1, <2>3 DEF Bijection, Injection, Surjection, IsInjective
    <2>5. IsFiniteSet(1..k-1) /\ Cardinality(1..k-1) = k-1
      <3>1. k-1 \in Nat /\ 1 \in Int
        BY <1>1
      <3>2. \A m \in Nat : IsFiniteSet(1..m) /\ Cardinality(1..m) = m
        BY FS_Interval
      <3>3. QED
        BY <3>1, <3>2
    <2>6. QED
      BY <2>4, <2>5, FS_Bijection DEF ExistsBijection
  <1>4. IsFiniteSet(S) /\ Cardinality(S) = n
    <2>1. n+1 \in 1..n+1 /\ (n+1)-1 = n
      BY <1>1
    <2>2. QED
      BY <1>1, <1>3, <2>1
  <1>5. ASSUME NEW k \in 1..n
        PROVE  s[k] = CHOOSE i \in S : Cardinality({j \in S : j < i}) = k - 1
    <2>1. ASSUME NEW l \in 1..n PROVE Cardinality({j \in S : j < s[l]}) = l - 1
      <3>1. {j \in S : j < s[l]} = {s[m] : m \in 1..l-1}
        <4>1. ASSUME NEW m \in 1..l-1 PROVE s[m] \in S /\ s[m] < s[l]
          <5>1. m \in 1..n /\ m < l
            BY <1>1a
          <5>2. QED
            BY <1>1, <5>1
        <4>2. ASSUME NEW j \in S, j < s[l] PROVE \E m \in 1..l-1 : j = s[m]
          <5>1. PICK m \in 1..n : j = s[m]
            BY <1>1
          <5>2. m < l
            BY <1>2, <4>2, <5>1
          <5>3. QED
            BY <5>1, <5>2
        <4>3. QED
          BY <4>1, <4>2
      <3>2. l \in 1..n+1
        BY <1>1
      <3>3. QED
        BY <1>3, <3>1, <3>2
    <2>2. \A i \in S : Cardinality({j \in S : j < i}) = k - 1 => i = s[k]
      <3> SUFFICES ASSUME NEW i \in S, Cardinality({j \in S : j < i}) = k - 1 PROVE i = s[k]
        OBVIOUS
      <3>1. PICK l \in 1..n : i = s[l]
        BY <1>1
      <3>2. l - 1 = k - 1
        BY <2>1, <3>1
      <3>3. l = k
        BY <1>1, <3>2
      <3>4. QED
        BY <3>1, <3>3
    <2>3. s[k] \in S /\ Cardinality({j \in S : j < s[k]}) = k - 1
      BY <1>1, <2>1
    <2>4. QED
      BY <2>2, <2>3
  <1>6. RowList(S) = [k \in 1..n |-> s[k]]
    BY <1>4, <1>5 DEF RowList
  <1>7. QED
    BY <1>1, <1>4, <1>6 DEF n

-----------------------------------------------------------------------------
(* Sequences                                                               *)

(* The elements of s stand in the order R, a set of pairs.                 *)
OrderedBy(R, s) == \A k, l \in DOMAIN s : k < l => <<s[k], s[l]>> \in R

LEMMA ConcatAt ==
  ASSUME NEW T, NEW s \in Seq(T), NEW t \in Seq(T)
  PROVE  /\ s \o t \in Seq(T) /\ DOMAIN (s \o t) = 1..Len(s)+Len(t)
         /\ Len(s) \in Nat /\ Len(t) \in Nat
         /\ DOMAIN s = 1..Len(s) /\ DOMAIN t = 1..Len(t)
         /\ \A k \in 1..Len(s) : (s \o t)[k] = s[k]
         /\ \A k \in 1..Len(t) : (s \o t)[Len(s) + k] = t[k]
         /\ \A k \in DOMAIN (s \o t) :
              \/ k \in 1..Len(s) /\ (s \o t)[k] = s[k]
              \/ k - Len(s) \in 1..Len(t) /\ (s \o t)[k] = t[k - Len(s)]
  <1> DEFINE c == s \o t
  <1>1. /\ c \in Seq(T) /\ Len(c) = Len(s) + Len(t) /\ Len(s) \in Nat /\ Len(t) \in Nat
        /\ DOMAIN c = 1..Len(c) /\ DOMAIN s = 1..Len(s) /\ DOMAIN t = 1..Len(t)
        /\ \A k \in 1..Len(s) : c[k] = s[k]
        /\ \A k \in 1..Len(t) : c[Len(s) + k] = t[k]
    OBVIOUS
  <1> HIDE DEF c
  <1>2. ASSUME NEW k \in DOMAIN c, k \notin 1..Len(s)
        PROVE  k - Len(s) \in 1..Len(t) /\ c[k] = t[k - Len(s)]
    <2>1. k - Len(s) \in 1..Len(t) /\ k = Len(s) + (k - Len(s))
      BY <1>1, <1>2
    <2>2. QED
      BY <1>1, <2>1
  <1>3. QED
    BY <1>1, <1>2 DEF c

LEMMA ConcatElements ==
  ASSUME NEW T, NEW s \in Seq(T), NEW t \in Seq(T)
  PROVE  /\ s \o t \in Seq(T)
         /\ ToSet(s \o t) = ToSet(s) \cup ToSet(t)
  <1> DEFINE c == s \o t
  <1>1. /\ c \in Seq(T) /\ DOMAIN c = 1..Len(s)+Len(t) /\ Len(s) \in Nat /\ Len(t) \in Nat
        /\ DOMAIN s = 1..Len(s) /\ DOMAIN t = 1..Len(t)
        /\ \A k \in 1..Len(s) : c[k] = s[k]
        /\ \A k \in 1..Len(t) : c[Len(s) + k] = t[k]
        /\ \A k \in DOMAIN c : \/ k \in 1..Len(s) /\ c[k] = s[k]
                               \/ k - Len(s) \in 1..Len(t) /\ c[k] = t[k - Len(s)]
    BY ConcatAt
  <1> HIDE DEF c
  <1>2. ASSUME NEW k \in 1..Len(t) PROVE \E j \in DOMAIN c : c[j] = t[k]
    <2>1. Len(s) + k \in DOMAIN c
      BY <1>1
    <2>2. QED
      BY <1>1, <2>1
  <1>3. ASSUME NEW k \in 1..Len(s) PROVE \E j \in DOMAIN c : c[j] = s[k]
    <2>1. k \in DOMAIN c
      BY <1>1
    <2>2. QED
      BY <1>1, <2>1
  <1>4. ToSet(c) = ToSet(s) \cup ToSet(t)
    BY <1>1, <1>2, <1>3 DEF ToSet
  <1>5. QED
    BY <1>1, <1>4 DEF c

LEMMA ConcatOrdered ==
  ASSUME NEW T, NEW R, NEW s \in Seq(T), NEW t \in Seq(T),
         OrderedBy(R, s), OrderedBy(R, t),
         \A x \in ToSet(s) : \A y \in ToSet(t) : <<x, y>> \in R
  PROVE  OrderedBy(R, s \o t)
  <1> DEFINE c == s \o t
  <1>1. /\ c \in Seq(T) /\ DOMAIN c = 1..Len(s)+Len(t) /\ Len(s) \in Nat /\ Len(t) \in Nat
        /\ DOMAIN s = 1..Len(s) /\ DOMAIN t = 1..Len(t)
        /\ \A k \in DOMAIN c : \/ k \in 1..Len(s) /\ c[k] = s[k]
                               \/ k - Len(s) \in 1..Len(t) /\ c[k] = t[k - Len(s)]
        /\ \A k \in 1..Len(s) : c[k] = s[k]
    BY ConcatAt
  <1> HIDE DEF c
  <1> SUFFICES ASSUME NEW k \in DOMAIN c, NEW l \in DOMAIN c, k < l PROVE <<c[k], c[l]>> \in R
    BY DEF OrderedBy, c
  <1>2. CASE k \in 1..Len(s) /\ l \in 1..Len(s)
    BY <1>1, <1>2 DEF OrderedBy
  <1>3. CASE k \in 1..Len(s) /\ l \notin 1..Len(s)
    BY <1>1, <1>3 DEF ToSet
  <1>4. CASE k \notin 1..Len(s)
    <2>1. k - Len(s) \in 1..Len(t) /\ c[k] = t[k - Len(s)]
      BY <1>1, <1>4
    <2>2. l - Len(s) \in 1..Len(t) /\ c[l] = t[l - Len(s)]
      BY <1>1, <1>4
    <2>3. k - Len(s) < l - Len(s)
      BY <1>1
    <2>4. QED
      BY <1>1, <2>1, <2>2, <2>3 DEF OrderedBy
  <1>5. QED
    BY <1>2, <1>3, <1>4

(* FlattenSeq is the last of the prefixes it builds.                       *)
IsFlatten(f, ss, n) ==
  f = [i \in 1..n |-> IF i = 1 THEN ss[i] ELSE f[i-1] \o ss[i]]

LEMMA FlattenExists ==
  ASSUME NEW ss, NEW n \in Nat
  PROVE  \E f : IsFlatten(f, ss, n)
  <1> DEFINE S == {m \in Nat : \E f : IsFlatten(f, ss, m)}
  <1>1. 0 \in S
    <2>1. IsFlatten([i \in 1..0 |-> 0], ss, 0)
      BY DEF IsFlatten
    <2>2. QED
      BY <2>1
  <1>2. ASSUME NEW m \in 0..n-1, m \in S PROVE m+1 \in S
    <2>1. PICK f : IsFlatten(f, ss, m)
      BY <1>2
    <2> DEFINE g == [i \in 1..m+1 |-> IF i = 1 THEN ss[i]
                                      ELSE IF i = m+1 THEN f[m] \o ss[i] ELSE f[i]]
    <2>2. ASSUME NEW i \in 1..m+1
          PROVE  g[i] = IF i = 1 THEN ss[i] ELSE g[i-1] \o ss[i]
      <3>1. CASE i = 1
        BY <3>1
      <3>2. CASE i # 1 /\ i = m+1
        <4>1. i-1 = m /\ m \in 1..m /\ m # m+1
          BY <3>2
        <4>1a. g[i] = f[m] \o ss[i]
          BY <3>2
        <4>2. g[m] = f[m]
          <5>1. CASE m = 1
            BY <2>1, <4>1, <5>1 DEF IsFlatten
          <5>2. CASE m # 1
            BY <4>1, <5>2
          <5>3. QED
            BY <5>1, <5>2
        <4>3. QED
          BY <3>2, <4>1, <4>1a, <4>2
      <3>3. CASE i # 1 /\ i # m+1
        <4>1. i \in 1..m /\ i-1 \in 1..m /\ i-1 # m+1
          BY <3>3
        <4>2. g[i] = f[i] /\ f[i] = f[i-1] \o ss[i]
          BY <2>1, <3>3, <4>1 DEF IsFlatten
        <4>3. g[i-1] = f[i-1]
          <5>1. CASE i-1 = 1
            BY <2>1, <4>1, <5>1 DEF IsFlatten
          <5>2. CASE i-1 # 1
            BY <4>1, <5>2
          <5>3. QED
            BY <5>1, <5>2
        <4>4. QED
          BY <3>3, <4>2, <4>3
      <3>4. QED
        BY <3>1, <3>2, <3>3
    <2>3. g = [i \in 1..m+1 |-> g[i]]
      OBVIOUS
    <2> HIDE DEF g
    <2>4. IsFlatten(g, ss, m+1)
      BY <2>2, <2>3 DEF IsFlatten
    <2>5. QED
      BY <2>4
  <1>3. 0..n \subseteq S
    <2> HIDE DEF S
    <2>1. QED
      BY <1>1, <1>2, IntervalInduction
  <1>4. QED
    BY <1>3

LEMMA FlattenIsLast ==
  ASSUME NEW ss, Len(ss) \in Nat \ {0}
  PROVE  \E f : IsFlatten(f, ss, Len(ss)) /\ FlattenSeq(ss) = f[Len(ss)]
  <1>1. \E f : IsFlatten(f, ss, Len(ss))
    BY FlattenExists
  <1>2. FlattenSeq(ss) = (CHOOSE f : IsFlatten(f, ss, Len(ss)))[Len(ss)]
    BY DEF FlattenSeq, IsFlatten
  <1>3. QED
    BY <1>1, <1>2

FlatSoFar(T, R, ss, s, i) ==
  /\ s \in Seq(T)
  /\ ToSet(s) = UNION {ToSet(ss[j]) : j \in 1..i}
  /\ OrderedBy(R, s)

(* Ordered sequences, each after the one before it, flatten to an ordered  *)
(* sequence of all their elements.                                         *)
OrderedParts(T, R, n, ss) ==
  /\ n \in Nat /\ ss \in [1..n -> Seq(T)]
  /\ \A i \in 1..n : OrderedBy(R, ss[i])
  /\ \A i, j \in 1..n : i < j => \A x \in ToSet(ss[i]) : \A y \in ToSet(ss[j]) : <<x, y>> \in R

LEMMA FlattenOrdered ==
  ASSUME NEW T, NEW R, NEW n, NEW ss, OrderedParts(T, R, n, ss)
  PROVE  /\ FlattenSeq(ss) \in Seq(T)
         /\ ToSet(FlattenSeq(ss)) = UNION {ToSet(ss[i]) : i \in 1..n}
         /\ OrderedBy(R, FlattenSeq(ss))
  <1> USE DEF OrderedParts
  <1>1. Len(ss) = n
    OBVIOUS
  <1>2. CASE n = 0
    <2>1. FlattenSeq(ss) = ss /\ ss = <<>>
      BY <1>1, <1>2 DEF FlattenSeq
    <2>2. QED
      BY <1>2, <2>1 DEF OrderedBy, ToSet
  <1>3. CASE n # 0
    <2>1. PICK f : IsFlatten(f, ss, n) /\ FlattenSeq(ss) = f[n]
      BY <1>1, <1>3, FlattenIsLast
    <2> DEFINE S == {i \in 1..n : FlatSoFar(T, R, ss, f[i], i)}
    <2>2. 1 \in S
      <3>1. f[1] = ss[1]
        BY <1>3, <2>1 DEF IsFlatten
      <3>2. UNION {ToSet(ss[j]) : j \in 1..1} = ToSet(ss[1])
        OBVIOUS
      <3>3. QED
        BY <1>3, <3>1, <3>2 DEF FlatSoFar
    <2>3. ASSUME NEW i \in 1..n-1, i \in S PROVE i+1 \in S
      <3>1. f[i+1] = f[i] \o ss[i+1] /\ i+1 \in 1..n
        <4>1. i+1 \in 1..n /\ i+1 # 1 /\ (i+1)-1 = i
          OBVIOUS
        <4>2. f[i+1] = f[(i+1)-1] \o ss[i+1]
          BY <2>1, <4>1 DEF IsFlatten
        <4>3. QED
          BY <4>1, <4>2
      <3>2. /\ f[i] \in Seq(T) /\ OrderedBy(R, f[i]) /\ ss[i+1] \in Seq(T)
            /\ ToSet(f[i]) = UNION {ToSet(ss[j]) : j \in 1..i}
            /\ OrderedBy(R, ss[i+1])
        BY <2>3, <3>1 DEF FlatSoFar
      <3>3. \A x \in ToSet(f[i]) : \A y \in ToSet(ss[i+1]) : <<x, y>> \in R
        <4> SUFFICES ASSUME NEW x \in ToSet(f[i]), NEW y \in ToSet(ss[i+1]) PROVE <<x, y>> \in R
          OBVIOUS
        <4>1. PICK j \in 1..i : x \in ToSet(ss[j])
          BY <3>2
        <4>2. j \in 1..n /\ j < i+1
          BY <4>1
        <4>3. QED
          BY <3>1, <4>1, <4>2
      <3>4. UNION {ToSet(ss[j]) : j \in 1..i+1} = ToSet(f[i]) \cup ToSet(ss[i+1])
        <4>1. 1..i+1 = (1..i) \cup {i+1}
          OBVIOUS
        <4>2. QED
          BY <3>2, <4>1
      <3>5. /\ f[i+1] \in Seq(T) /\ OrderedBy(R, f[i+1])
            /\ ToSet(f[i+1]) = ToSet(f[i]) \cup ToSet(ss[i+1])
        <4>1. /\ f[i] \o ss[i+1] \in Seq(T)
              /\ ToSet(f[i] \o ss[i+1]) = ToSet(f[i]) \cup ToSet(ss[i+1])
          BY <3>2, ConcatElements
        <4>2. OrderedBy(R, f[i] \o ss[i+1])
          BY <3>2, <3>3, ConcatOrdered
        <4>3. QED
          BY <3>1, <4>1, <4>2
      <3>6. QED
        <4>1. ToSet(f[i+1]) = UNION {ToSet(ss[j]) : j \in 1..i+1}
          BY <3>4, <3>5
        <4>2. FlatSoFar(T, R, ss, f[i+1], i+1)
          BY <3>5, <4>1 DEF FlatSoFar
        <4>3. QED
          BY <3>1, <4>2
    <2>4. 1..n \subseteq S
      <3> HIDE DEF S
      <3>1. n \in Int /\ 1 \in Int /\ (1 <= n => 1 \in S)
        BY <2>2
      <3>2. \A i \in 1..n-1 : i \in S => i+1 \in S
        BY <2>3
      <3>3. QED
        BY <3>1, <3>2, IntervalInduction
    <2>5. FlatSoFar(T, R, ss, f[n], n)
      BY <1>3, <2>4
    <2>6. QED
      BY <2>1, <2>5 DEF FlatSoFar
  <1>4. QED
    BY <1>2, <1>3

-----------------------------------------------------------------------------
(* Sums                                                                    *)

(* The sum of the cells of the rows in S, as MapThenSumSet builds it: for  *)
(* the subsets of S by size.                                               *)
SumOver(col, S) == MapThenSumSet(LAMBDA i : col[i], S)

Some(s) == CHOOSE x \in s : TRUE

IsSum(f, col, dom) ==
  f = [s \in dom |-> IF s = {} THEN 0 ELSE col[Some(s)] + f[s \ {Some(s)}]]

LEMMA SumUnfolds ==
  ASSUME NEW col, NEW S
  PROVE  SumOver(col, S) = (CHOOSE f : IsSum(f, col, SUBSET S))[S]
  BY DEF SumOver, MapThenSumSet, MapThenFoldSet, IsSum, Some

UpTo(S, n) == {s \in SUBSET S : Cardinality(s) <= n}

LEMMA SmallerSubset ==
  ASSUME NEW S, IsFiniteSet(S), NEW s \in SUBSET S, NEW x \in s
  PROVE  /\ s \ {x} \in SUBSET S /\ s \ {x} # s
         /\ Cardinality(s) \in Nat /\ Cardinality(s \ {x}) = Cardinality(s) - 1
         /\ Cardinality(s \ {x}) \in Nat
  <1>1. IsFiniteSet(s)
    BY FS_Subset
  <1>2. IsFiniteSet(s \ {x}) /\ Cardinality(s \ {x}) = Cardinality(s) - 1
    BY <1>1, FS_RemoveElement
  <1>3. QED
    BY <1>1, <1>2, FS_CardinalityType

LEMMA SumExists ==
  ASSUME NEW col, NEW S, IsFiniteSet(S)
  PROVE  \E f : IsSum(f, col, SUBSET S)
  <1> DEFINE N == {n \in Nat : \E f : IsSum(f, col, UpTo(S, n))}
  <1>0. \A s \in SUBSET S : Cardinality(s) \in Nat /\ (Cardinality(s) = 0 <=> s = {})
    BY FS_Subset, FS_CardinalityType, FS_EmptySet
  <1>1. 0 \in N
    <2>1. IsSum([s \in UpTo(S, 0) |-> 0], col, UpTo(S, 0))
      <3>1. \A s \in UpTo(S, 0) : s = {}
        BY <1>0 DEF UpTo
      <3>2. QED
        BY <3>1 DEF IsSum
    <2>2. QED
      BY <2>1
  <1>2. ASSUME NEW n \in 0..Cardinality(S)-1, n \in N PROVE n+1 \in N
    <2>1. PICK f : IsSum(f, col, UpTo(S, n))
      BY <1>2
    <2>2. PICK g : g = [s \in UpTo(S, n+1) |->
                          IF s \in UpTo(S, n) THEN f[s] ELSE col[Some(s)] + f[s \ {Some(s)}]]
      OBVIOUS
    <2>3. ASSUME NEW s \in UpTo(S, n+1), s # {}
          PROVE  /\ s \ {Some(s)} \in UpTo(S, n)
                 /\ s \ {Some(s)} \in UpTo(S, n+1)
      <3>1. Some(s) \in s
        BY <2>3 DEF Some
      <3>2. /\ s \ {Some(s)} \in SUBSET S /\ Cardinality(s \ {Some(s)}) = Cardinality(s) - 1
            /\ Cardinality(s) \in Nat
        BY <3>1, SmallerSubset DEF UpTo
      <3>3. Cardinality(s) <= n+1
        BY DEF UpTo
      <3>4. QED
        BY <3>2, <3>3 DEF UpTo
    <2>4. ASSUME NEW s \in UpTo(S, n+1)
          PROVE  g[s] = IF s = {} THEN 0 ELSE col[Some(s)] + g[s \ {Some(s)}]
      <3>1. CASE s = {}
        <4>1. s \in UpTo(S, n)
          BY <1>0, <3>1 DEF UpTo
        <4>2. QED
          BY <2>1, <2>2, <3>1, <4>1 DEF IsSum
      <3>2. CASE s # {}
        <4>1. g[s \ {Some(s)}] = f[s \ {Some(s)}]
          BY <2>2, <2>3, <3>2
        <4>2. CASE s \in UpTo(S, n)
          BY <2>1, <2>2, <3>2, <4>1, <4>2 DEF IsSum
        <4>3. CASE s \notin UpTo(S, n)
          BY <2>2, <3>2, <4>1, <4>3
        <4>4. QED
          BY <4>2, <4>3
      <3>3. QED
        BY <3>1, <3>2
    <2>5. g = [s \in UpTo(S, n+1) |-> g[s]]
      BY <2>2
    <2>6. IsSum(g, col, UpTo(S, n+1))
      BY <2>4, <2>5 DEF IsSum
    <2>7. QED
      BY <2>6
  <1>3. Cardinality(S) \in Nat
    BY FS_CardinalityType
  <1>4. Cardinality(S) \in N
    <2> HIDE DEF N
    <2>1. 0..Cardinality(S) \subseteq N
      BY <1>1, <1>2, <1>3, IntervalInduction
    <2>2. QED
      BY <1>3, <2>1
  <1>5. UpTo(S, Cardinality(S)) = SUBSET S
    BY FS_Subset DEF UpTo
  <1>6. QED
    BY <1>4, <1>5

(* A function that adds some cell of every set adds any.                   *)
LEMMA AnyCellFirst ==
  ASSUME NEW col, NEW S, IsFiniteSet(S), \A x \in S : col[x] \in Int,
         NEW f, IsSum(f, col, SUBSET S)
  PROVE  \A s \in SUBSET S : f[s] \in Int /\ \A x \in s : f[s] = col[x] + f[s \ {x}]
  <1> DEFINE Good(s) == f[s] \in Int /\ \A x \in s : f[s] = col[x] + f[s \ {x}]
             N == {n \in Nat : \A s \in UpTo(S, n) : Good(s)}
  <1>0. \A s \in SUBSET S : Cardinality(s) \in Nat /\ (Cardinality(s) = 0 <=> s = {})
    BY FS_Subset, FS_CardinalityType, FS_EmptySet
  <1>0a. f[{}] = 0 /\ \A s \in SUBSET S : s # {} => f[s] = col[Some(s)] + f[s \ {Some(s)}] /\ Some(s) \in s
    <2>1. \A s \in SUBSET S : s # {} => Some(s) \in s
      BY DEF Some
    <2>2. QED
      BY <2>1 DEF IsSum
  <1>1. 0 \in N
    <2>1. \A s \in UpTo(S, 0) : s = {}
      BY <1>0 DEF UpTo
    <2>2. ASSUME NEW s \in UpTo(S, 0) PROVE Good(s)
      BY <1>0a, <2>1
    <2>3. QED
      BY <2>2
  <1>2. ASSUME NEW n \in 0..Cardinality(S)-1, n \in N PROVE n+1 \in N
    <2>1. ASSUME NEW s \in SUBSET S, Cardinality(s) <= n+1, s # {}, NEW x \in s
          PROVE  f[s] \in Int /\ f[s] = col[x] + f[s \ {x}]
      <3> DEFINE c == Some(s)
      <3>1. c \in s /\ f[s] = col[c] + f[s \ {c}] /\ c \in S /\ x \in S
        BY <1>0a, <2>1
      <3>2. \A y \in s : s \ {y} \in UpTo(S, n)
        <4> SUFFICES ASSUME NEW y \in s PROVE s \ {y} \in UpTo(S, n)
          OBVIOUS
        <4>1. s \ {y} \in SUBSET S /\ Cardinality(s \ {y}) = Cardinality(s) - 1 /\ Cardinality(s) \in Nat
          BY SmallerSubset
        <4>2. QED
          BY <2>1, <4>1 DEF UpTo
      <3>3. \A y \in s : Good(s \ {y})
        BY <1>2, <3>2
      <3> HIDE DEF c
      <3>4. CASE x = c
        BY <3>1, <3>3, <3>4
      <3>5. CASE x # c
        <4>1. x \in s \ {c} /\ c \in s \ {x} /\ (s \ {c}) \ {x} = (s \ {x}) \ {c}
          BY <3>1, <3>5
        <4>2. f[s \ {c}] = col[x] + f[(s \ {c}) \ {x}] /\ f[s \ {c}] \in Int
          BY <3>1, <3>3, <4>1
        <4>3. f[s \ {x}] = col[c] + f[(s \ {x}) \ {c}] /\ f[s \ {x}] \in Int
          BY <3>1, <3>3, <4>1
        <4>4. PICK r : r = f[(s \ {x}) \ {c}]
          OBVIOUS
        <4>5. r \in Int
          <5>1. (s \ {x}) \ {c} \in UpTo(S, n)
            <6>1. s \ {x} \in SUBSET S /\ Cardinality(s \ {x}) <= n /\ Cardinality(s \ {x}) \in Nat
              BY <1>0, <3>2 DEF UpTo
            <6>2. /\ (s \ {x}) \ {c} \in SUBSET S
                  /\ Cardinality((s \ {x}) \ {c}) = Cardinality(s \ {x}) - 1
              BY <4>1, <6>1, SmallerSubset
            <6>3. QED
              BY <6>1, <6>2 DEF UpTo
          <5>2. QED
            BY <1>2, <4>4, <5>1
        <4>6. col[c] \in Int /\ col[x] \in Int
          BY <3>1
        <4>7. f[s \ {c}] = col[x] + r /\ f[s \ {x}] = col[c] + r
          BY <4>1, <4>2, <4>3, <4>4
        <4>8. QED
          BY <3>1, <4>5, <4>6, <4>7
      <3>6. QED
        BY <3>4, <3>5
    <2>2. ASSUME NEW s \in UpTo(S, n+1) PROVE Good(s)
      <3>1. CASE s = {}
        BY <1>0a, <3>1
      <3>2. CASE s # {}
        BY <2>1, <3>2 DEF UpTo
      <3>3. QED
        BY <3>1, <3>2
    <2>3. QED
      BY <2>2
  <1>3. Cardinality(S) \in Nat
    BY FS_CardinalityType
  <1>4. Cardinality(S) \in N
    <2> HIDE DEF N
    <2>1. 0..Cardinality(S) \subseteq N
      BY <1>1, <1>2, <1>3, IntervalInduction
    <2>2. QED
      BY <1>3, <2>1
  <1>5. UpTo(S, Cardinality(S)) = SUBSET S
    BY FS_Subset DEF UpTo
  <1>6. QED
    BY <1>4, <1>5

(* Two such functions agree where both are defined.                        *)
AgreeOn(f, g, T) == \A s \in SUBSET T : f[s] = g[s]

LEMMA SumsAgree ==
  ASSUME NEW col, NEW S, NEW T \in SUBSET S, IsFiniteSet(S),
         NEW f, IsSum(f, col, SUBSET S), NEW g, IsSum(g, col, SUBSET T)
  PROVE  AgreeOn(f, g, T)
  <1> DEFINE N == {n \in Nat : \A s \in UpTo(T, n) : f[s] = g[s]}
  <1>T. IsFiniteSet(T)
    BY FS_Subset
  <1>0. \A s \in SUBSET T : Cardinality(s) \in Nat /\ (Cardinality(s) = 0 <=> s = {})
    BY <1>T, FS_Subset, FS_CardinalityType, FS_EmptySet
  <1>0a. /\ f[{}] = 0 /\ g[{}] = 0
         /\ \A s \in SUBSET T : s # {} => /\ f[s] = col[Some(s)] + f[s \ {Some(s)}]
                                          /\ g[s] = col[Some(s)] + g[s \ {Some(s)}]
                                          /\ Some(s) \in s
    <2>1. \A s \in SUBSET T : s # {} => Some(s) \in s
      BY DEF Some
    <2>2. QED
      BY <2>1 DEF IsSum
  <1>1. 0 \in N
    <2>1. \A s \in UpTo(T, 0) : s = {}
      BY <1>0 DEF UpTo
    <2>2. QED
      BY <1>0a, <2>1
  <1>2. ASSUME NEW n \in 0..Cardinality(T)-1, n \in N PROVE n+1 \in N
    <2>1. ASSUME NEW s \in UpTo(T, n+1) PROVE f[s] = g[s]
      <3>1. CASE s = {}
        BY <1>0a, <3>1
      <3>2. CASE s # {}
        <4>1. s \in SUBSET T /\ Cardinality(s) <= n+1 /\ Some(s) \in s
          BY <1>0a, <3>2 DEF UpTo
        <4>2. /\ s \ {Some(s)} \in SUBSET T /\ Cardinality(s \ {Some(s)}) = Cardinality(s) - 1
              /\ Cardinality(s) \in Nat
          BY <1>T, <4>1, SmallerSubset
        <4>3. s \ {Some(s)} \in UpTo(T, n)
          BY <4>1, <4>2 DEF UpTo
        <4>4. QED
          BY <1>0a, <1>2, <3>2, <4>1, <4>3
      <3>3. QED
        BY <3>1, <3>2
    <2>2. QED
      BY <2>1
  <1>3. Cardinality(T) \in Nat
    BY <1>T, FS_CardinalityType
  <1>4. Cardinality(T) \in N
    <2> HIDE DEF N
    <2>1. 0..Cardinality(T) \subseteq N
      BY <1>1, <1>2, <1>3, IntervalInduction
    <2>2. QED
      BY <1>3, <2>1
  <1>5. UpTo(T, Cardinality(T)) = SUBSET T
    BY <1>T, FS_Subset DEF UpTo
  <1>6. QED
    BY <1>4, <1>5 DEF AgreeOn

(* The sum of a finite set, with the cell of any one of its rows apart.    *)
LEMMA SumOne ==
  ASSUME NEW col, NEW S, IsFiniteSet(S), \A y \in S : col[y] \in Int
  PROVE  /\ SumOver(col, {}) = 0 /\ SumOver(col, S) \in Int
         /\ \A x \in S : SumOver(col, S) = SumOver(col, S \ {x}) + col[x]
  <1>1. \A T \in SUBSET S : \E f : IsSum(f, col, SUBSET T) /\ SumOver(col, T) = f[T]
    <2> SUFFICES ASSUME NEW T \in SUBSET S
                 PROVE  \E f : IsSum(f, col, SUBSET T) /\ SumOver(col, T) = f[T]
      OBVIOUS
    <2>1. IsFiniteSet(T)
      BY FS_Subset
    <2>2. QED
      BY <2>1, SumExists, SumUnfolds
  <1>2. PICK f : IsSum(f, col, SUBSET S) /\ SumOver(col, S) = f[S]
    BY <1>1
  <1>3. \A s \in SUBSET S : f[s] \in Int /\ \A x \in s : f[s] = col[x] + f[s \ {x}]
    BY <1>2, AnyCellFirst
  <1>4. \A T \in SUBSET S : SumOver(col, T) = f[T]
    <2> SUFFICES ASSUME NEW T \in SUBSET S PROVE SumOver(col, T) = f[T]
      OBVIOUS
    <2>1. PICK g : IsSum(g, col, SUBSET T) /\ SumOver(col, T) = g[T]
      BY <1>1
    <2>2. AgreeOn(f, g, T)
      BY <1>2, <2>1, SumsAgree
    <2>3. QED
      BY <2>1, <2>2 DEF AgreeOn
  <1>5. SumOver(col, {}) = 0
    <2>1. f[{}] = 0
      BY <1>2 DEF IsSum
    <2>2. QED
      BY <1>4, <2>1
  <1>6. SumOver(col, S) = f[S] /\ f[S] \in Int
    BY <1>2, <1>3
  <1>7. ASSUME NEW x \in S PROVE SumOver(col, S) = SumOver(col, S \ {x}) + col[x]
    <2>1. S \ {x} \in SUBSET S /\ f[S] = col[x] + f[S \ {x}] /\ f[S \ {x}] \in Int /\ col[x] \in Int
      BY <1>3
    <2>2. SumOver(col, S \ {x}) = f[S \ {x}]
      BY <1>4, <2>1
    <2>3. QED
      BY <1>6, <2>1, <2>2
  <1>8. QED
    BY <1>5, <1>6, <1>7

-----------------------------------------------------------------------------
(* Parts of lists, lists of parts, and lists of what the elements stand for *)

(* The elements of s from a to b                                           *)
ElementsAt(s, a, b) == {s[k] : k \in a..b}

(* A part of a list in row order is the list of its rows.                  *)
LEMMA RowListPart ==
  ASSUME NEW s, s \in Seq(Int), Ascending(s), NEW a \in Nat \ {0}, NEW b \in Nat, b <= Len(s)
  PROVE  /\ SubSeq(s, a, b) \in Seq(Int) /\ Ascending(SubSeq(s, a, b))
         /\ ToSet(SubSeq(s, a, b)) = ElementsAt(s, a, b)
         /\ SubSeq(s, a, b) = RowList(ElementsAt(s, a, b))
         /\ (SubSeq(s, a, b) = <<>> <=> b < a)
  <1>0. /\ Len(s) \in Nat /\ DOMAIN s = 1..Len(s) /\ \A k \in a..b : k \in 1..Len(s)
        /\ \A k \in 1..Len(s) : s[k] \in Int
        /\ \A k, l \in 1..Len(s) : k < l => s[k] < s[l]
    BY DEF Ascending
  <1>1. PICK t : t = SubSeq(s, a, b)
    OBVIOUS
  <1>2. CASE b < a
    <2>1. t = <<>> /\ a..b = {} /\ {s[k] : k \in a..b} = {}
      BY <1>0, <1>1, <1>2
    <2>2. t \in Seq(Int) /\ Ascending(t) /\ ToSet(t) = {s[k] : k \in a..b}
      <3>1. t \in Seq(Int) /\ Len(t) = 0 /\ DOMAIN t = {}
        BY <2>1
      <3>2. Ascending(t)
        BY <3>1 DEF Ascending
      <3>3. ToSet(t) = {}
        BY <3>1 DEF ToSet
      <3>4. QED
        BY <2>1, <3>1, <3>2, <3>3
    <2>3. t = RowList({s[k] : k \in a..b})
      BY <2>2, AscendingIsRowList
    <2>4. QED
      BY <1>1, <1>2, <2>1, <2>2, <2>3 DEF ElementsAt
  <1>3. CASE ~(b < a)
    <2>1. /\ Len(t) = b - a + 1 /\ DOMAIN t = 1..b-a+1 /\ b - a + 1 \in Nat \ {0}
          /\ t = [k \in 1..b-a+1 |-> s[a+k-1]]
      BY <1>0, <1>1, <1>3
    <2>2. \A k \in 1..b-a+1 : t[k] = s[a+k-1] /\ a+k-1 \in a..b
      BY <2>1
    <2>3. t \in Seq(Int)
      <3>1. \A k \in 1..b-a+1 : s[a+k-1] \in Int
        BY <1>0, <2>2
      <3>2. QED
        BY <2>1, <3>1
    <2>4. Ascending(t)
      <3> SUFFICES ASSUME NEW k \in 1..b-a+1, NEW l \in 1..b-a+1, k < l PROVE t[k] < t[l]
        BY <2>1 DEF Ascending
      <3>1. a+k-1 \in 1..Len(s) /\ a+l-1 \in 1..Len(s) /\ a+k-1 < a+l-1
        BY <1>0, <2>2
      <3>2. s[a+k-1] < s[a+l-1]
        BY <1>0, <3>1
      <3>3. QED
        BY <2>2, <3>2
    <2>5. ToSet(t) = {s[k] : k \in a..b}
      <3>1. ASSUME NEW k \in a..b PROVE \E l \in DOMAIN t : t[l] = s[k]
        <4>1. k-a+1 \in 1..b-a+1 /\ a+(k-a+1)-1 = k
          BY <1>3
        <4>2. QED
          BY <2>1, <2>2, <4>1
      <3>2. ASSUME NEW l \in DOMAIN t PROVE t[l] \in {s[k] : k \in a..b}
        <4>1. l \in 1..b-a+1
          BY <2>1
        <4>2. t[l] = s[a+l-1] /\ a+l-1 \in a..b
          BY <2>2, <4>1
        <4>3. QED
          BY <4>2
      <3>3. \A x \in {s[k] : k \in a..b} : \E l \in DOMAIN t : t[l] = x
        BY <3>1
      <3>4. ToSet(t) = {t[l] : l \in DOMAIN t}
        BY DEF ToSet
      <3>5. QED
        BY <3>2, <3>3, <3>4, Zenon
    <2>6. t = RowList({s[k] : k \in a..b})
      BY <2>3, <2>4, <2>5, AscendingIsRowList
    <2>7. t # <<>>
      BY <2>1
    <2>8. QED
      BY <1>1, <1>3, <2>3, <2>4, <2>5, <2>6, <2>7 DEF ElementsAt
  <1>4. QED
    BY <1>2, <1>3

(* Rows that are all before others are listed before them.                 *)
LEMMA RowListJoins ==
  ASSUME NEW S, IsFiniteSet(S), \A x \in S : x \in Int, NEW T \in SUBSET S,
         \A x \in T : \A y \in S \ T : x < y
  PROVE  /\ Cardinality(T) \in Nat /\ Cardinality(S \ T) \in Nat
         /\ Cardinality(S) = Cardinality(T) + Cardinality(S \ T)
         /\ \A k \in 1..Cardinality(T) : RowList(S)[k] = RowList(T)[k]
         /\ \A k \in 1..Cardinality(S \ T) : RowList(S)[Cardinality(T) + k] = RowList(S \ T)[k]
  <1> DEFINE U == S \ T
             t == RowList(T)
             u == RowList(U)
             R == {p \in Int \X Int : p[1] < p[2]}
  <1>1. IsFiniteSet(T) /\ IsFiniteSet(U) /\ T \cup U = S
    BY FS_Subset
  <1>2. /\ t \in Seq(T) /\ Len(t) = Cardinality(T) /\ DOMAIN t = 1..Cardinality(T)
        /\ Cardinality(T) \in Nat /\ ToSet(t) = T
        /\ \A k, l \in DOMAIN t : k < l => t[k] < t[l]
    BY <1>1, RowListAscends
  <1>3. /\ u \in Seq(U) /\ ToSet(u) = U /\ Len(u) = Cardinality(U) /\ Cardinality(U) \in Nat
        /\ \A k, l \in DOMAIN u : k < l => u[k] < u[l]
    BY <1>1, RowListAscends
  <1>4. t \in Seq(Int) /\ u \in Seq(Int)
    BY <1>2, <1>3
  <1> HIDE DEF t, u, U
  <1>5. OrderedBy(R, t) /\ OrderedBy(R, u)
    <2>1. \A k \in DOMAIN t : t[k] \in Int
      BY <1>4
    <2>2. \A k \in DOMAIN u : u[k] \in Int
      BY <1>4
    <2>3. QED
      BY <1>2, <1>3, <2>1, <2>2 DEF OrderedBy
  <1>6. \A x \in ToSet(t) : \A y \in ToSet(u) : <<x, y>> \in R
    BY <1>2, <1>3 DEF U
  <1>7. OrderedBy(R, t \o u)
    <2> HIDE DEF R
    <2>1. QED
      BY <1>4, <1>5, <1>6, ConcatOrdered
  <1>8. t \o u \in Seq(Int) /\ ToSet(t \o u) = S
    <2>1. t \o u \in Seq(Int) /\ ToSet(t \o u) = ToSet(t) \cup ToSet(u)
      BY <1>4, ConcatElements
    <2>2. QED
      BY <1>1, <1>2, <1>3, <2>1
  <1>9. Ascending(t \o u)
    BY <1>7 DEF OrderedBy, Ascending
  <1>10. t \o u = RowList(S) /\ Cardinality(S) = Len(t \o u)
    BY <1>8, <1>9, AscendingIsRowList
  <1>11. /\ \A k \in 1..Len(t) : (t \o u)[k] = t[k]
         /\ \A k \in 1..Len(u) : (t \o u)[Len(t) + k] = u[k]
         /\ Len(t \o u) = Len(t) + Len(u)
    BY <1>4
  <1>12. /\ \A k \in 1..Cardinality(T) : RowList(S)[k] = RowList(T)[k]
         /\ Cardinality(S) = Cardinality(T) + Cardinality(U)
    BY <1>2, <1>3, <1>10, <1>11 DEF t
  <1>13. \A k \in 1..Cardinality(U) : RowList(S)[Cardinality(T) + k] = RowList(U)[k]
    BY <1>2, <1>3, <1>10, <1>11 DEF u
  <1>14. QED
    BY <1>2, <1>3, <1>12, <1>13 DEF U

LEMMA RowListSplits ==
  ASSUME NEW S, IsFiniteSet(S), \A x \in S : x \in Int, NEW T \in SUBSET S,
         \A x \in T : \A y \in S \ T : x < y
  PROVE  /\ Cardinality(T) \in Nat /\ Cardinality(S) \in Nat /\ Cardinality(T) <= Cardinality(S)
         /\ \A k \in 1..Cardinality(T) : RowList(S)[k] = RowList(T)[k]
  <1>1. /\ Cardinality(T) \in Nat /\ Cardinality(S \ T) \in Nat
        /\ Cardinality(S) = Cardinality(T) + Cardinality(S \ T)
        /\ \A k \in 1..Cardinality(T) : RowList(S)[k] = RowList(T)[k]
    BY RowListJoins
  <1>2. QED
    BY <1>1

(* Looking the elements of a sequence up in m                              *)
Image(m, f) == [k \in DOMAIN f |-> m[f[k]]]

(* A function on 1..n is a sequence.                                       *)
LEMMA SequenceOf ==
  ASSUME NEW V, NEW n \in Nat, NEW A, DOMAIN A = 1..n, A = [k \in 1..n |-> A[k]],
         \A k \in 1..n : A[k] \in V
  PROVE  A \in Seq(V) /\ Len(A) = n
  <1>1. A \in [1..n -> V]
    OBVIOUS
  <1>2. QED
    BY <1>1

Into(m, D, V) == \A x \in D : m[x] \in V

(* Looking up goes through concatenation,                                  *)
LEMMA ImageConcat ==
  ASSUME NEW D, NEW V, NEW m, Into(m, D, V), NEW a \in Seq(D), NEW b \in Seq(D)
  PROVE  Image(m, a) \o Image(m, b) = Image(m, a \o b)
  <1>1. PICK A, B : A = [k \in DOMAIN a |-> m[a[k]]] /\ B = [k \in DOMAIN b |-> m[b[k]]]
    OBVIOUS
  <1>2. /\ DOMAIN A = DOMAIN a /\ \A k \in DOMAIN a : A[k] = m[a[k]]
        /\ DOMAIN B = DOMAIN b /\ \A k \in DOMAIN b : B[k] = m[b[k]]
    BY <1>1
  <1>3. /\ Len(a) \in Nat /\ Len(b) \in Nat /\ DOMAIN a = 1..Len(a) /\ DOMAIN b = 1..Len(b)
        /\ (\A k \in DOMAIN a : a[k] \in D) /\ (\A k \in DOMAIN b : b[k] \in D)
    OBVIOUS
  <1>4. A \in Seq(V) /\ Len(A) = Len(a)
    <2>1. A = [k \in 1..Len(a) |-> A[k]] /\ \A k \in 1..Len(a) : A[k] \in V
      BY <1>1, <1>2, <1>3 DEF Into
    <2>2. QED
      BY <1>2, <1>3, <2>1, SequenceOf
  <1>5. B \in Seq(V) /\ Len(B) = Len(b)
    <2>1. B = [k \in 1..Len(b) |-> B[k]] /\ \A k \in 1..Len(b) : B[k] \in V
      BY <1>1, <1>2, <1>3 DEF Into
    <2>2. QED
      BY <1>2, <1>3, <2>1, SequenceOf
  <1>6. /\ DOMAIN (a \o b) = 1..Len(a)+Len(b)
        /\ \A k \in DOMAIN (a \o b) :
             \/ k \in 1..Len(a) /\ (a \o b)[k] = a[k]
             \/ k - Len(a) \in 1..Len(b) /\ (a \o b)[k] = b[k - Len(a)]
    BY ConcatAt
  <1>7. PICK C : C = A \o B
    OBVIOUS
  <1>8. /\ C \in Seq(V) /\ DOMAIN C = 1..Len(A)+Len(B)
        /\ \A k \in 1..Len(A) : C[k] = A[k]
        /\ \A k \in 1..Len(B) : C[Len(A) + k] = B[k]
    BY <1>4, <1>5, <1>7, ConcatAt
  <1>9. /\ C \in Seq(V) /\ DOMAIN C = 1..Len(a)+Len(b)
        /\ \A k \in 1..Len(a) : C[k] = A[k]
        /\ \A k \in 1..Len(b) : C[Len(a) + k] = B[k]
    BY <1>4, <1>5, <1>8
  <1>10. ASSUME NEW k \in DOMAIN (a \o b) PROVE C[k] = m[(a \o b)[k]]
    <2>1. CASE k \in 1..Len(a) /\ (a \o b)[k] = a[k]
      BY <1>2, <1>3, <1>9, <2>1
    <2>2. CASE k - Len(a) \in 1..Len(b) /\ (a \o b)[k] = b[k - Len(a)]
      <3>1. PICK j : j = k - Len(a)
        OBVIOUS
      <3>2. k \in Int /\ j \in 1..Len(b) /\ (a \o b)[k] = b[j]
        BY <1>6, <2>2, <3>1
      <3>3. Len(a) + j = k
        BY <1>3, <3>1, <3>2
      <3>4. C[Len(a) + j] = B[j]
        BY <1>9, <3>2
      <3>5. QED
        BY <1>2, <1>3, <3>2, <3>3, <3>4
    <2>3. QED
      BY <1>6, <2>1, <2>2
  <1>11. C = [k \in DOMAIN C |-> C[k]]
    BY <1>9
  <1>12. QED
    BY <1>1, <1>6, <1>7, <1>9, <1>10, <1>11 DEF Image

(* and so through flattening.                                              *)
IsMapped(m, D, ss, tt, n) ==
  /\ n \in Nat /\ DOMAIN ss = 1..n /\ DOMAIN tt = 1..n
  /\ \A i \in 1..n : /\ ss[i] \in Seq(D)
                     /\ tt[i] = Image(m, ss[i])

LEMMA FlattenMapped ==
  ASSUME NEW m, NEW D, NEW V, Into(m, D, V), NEW ss, NEW tt, NEW n, IsMapped(m, D, ss, tt, n),
         ss \in Seq(Seq(D)), tt \in Seq(Seq(V))
  PROVE  FlattenSeq(tt) = Image(m, FlattenSeq(ss))
  <1>1. n \in Nat /\ Len(ss) = n /\ Len(tt) = n /\ DOMAIN ss = 1..n /\ DOMAIN tt = 1..n
    BY DEF IsMapped
  <1>2. CASE n = 0
    <2>1. ss = <<>> /\ tt = <<>>
      BY <1>1, <1>2
    <2>2. FlattenSeq(ss) = <<>> /\ FlattenSeq(tt) = <<>>
      BY <2>1 DEF FlattenSeq
    <2>3. QED
      BY <2>2 DEF Image
  <1>3. CASE n # 0
    <2>1. PICK f : IsFlatten(f, ss, n) /\ FlattenSeq(ss) = f[n]
      BY <1>1, <1>3, FlattenIsLast
    <2>2. PICK g : IsFlatten(g, tt, n) /\ FlattenSeq(tt) = g[n]
      BY <1>1, <1>3, FlattenIsLast
    <2> DEFINE S == {i \in 1..n : f[i] \in Seq(D) /\ g[i] = Image(m, f[i])}
    <2>3. 1 \in S
      <3>1. f[1] = ss[1] /\ g[1] = tt[1] /\ 1 \in 1..n
        BY <1>1, <1>3, <2>1, <2>2 DEF IsFlatten
      <3>2. QED
        BY <3>1 DEF IsMapped
    <2>4. ASSUME NEW i \in 1..n-1, i \in S PROVE i+1 \in S
      <3>1. i+1 \in 1..n /\ i+1 # 1 /\ (i+1)-1 = i
        BY <1>1
      <3>2. f[i+1] = f[i] \o ss[i+1]
        <4>1. f[i+1] = f[(i+1)-1] \o ss[i+1]
          BY <2>1, <3>1 DEF IsFlatten
        <4>2. QED
          BY <3>1, <4>1
      <3>3. g[i+1] = g[i] \o tt[i+1]
        <4>1. g[i+1] = g[(i+1)-1] \o tt[i+1]
          BY <2>2, <3>1 DEF IsFlatten
        <4>2. QED
          BY <3>1, <4>1
      <3>4. PICK a, b : a = f[i] /\ b = ss[i+1]
        OBVIOUS
      <3>5. a \in Seq(D) /\ b \in Seq(D) /\ g[i] = Image(m, a) /\ tt[i+1] = Image(m, b)
        BY <2>4, <3>1, <3>4 DEF IsMapped
      <3>6. Image(m, a) \o Image(m, b) = Image(m, a \o b)
        <4>1. a \in Seq(D) /\ b \in Seq(D)
          BY <3>5
        <4>2. QED
          BY <4>1, ImageConcat
      <3>7. a \o b \in Seq(D)
        BY <3>5
      <3>8. QED
        BY <3>1, <3>2, <3>3, <3>4, <3>5, <3>6, <3>7
    <2>5. 1..n \subseteq S
      <3> HIDE DEF S
      <3>1. n \in Int /\ 1 \in Int
        BY <1>1
      <3>2. QED
        BY <2>3, <2>4, <3>1, IntervalInduction
    <2>6. n \in S
      BY <1>1, <1>3, <2>5
    <2>7. QED
      BY <2>1, <2>2, <2>6
  <1>4. QED
    BY <1>2, <1>3

-----------------------------------------------------------------------------
(* A loop that starts from a and takes a step for each number up to n      *)

IsLoop(f, S, a, step, n) ==
  /\ f \in [0..n -> S]
  /\ f = [k \in 0..n |-> IF k = 0 THEN a ELSE step[k][f[k-1]]]

LEMMA LoopExists ==
  ASSUME NEW S, NEW a \in S, NEW n \in Nat, NEW step,
         \A k \in 1..n : \A x \in S : step[k][x] \in S
  PROVE  \E f : IsLoop(f, S, a, step, n)
  <1> DEFINE T == {m \in Nat : \E f : IsLoop(f, S, a, step, m)}
  <1>1. 0 \in T
    <2>1. PICK f : f = [k \in 0..0 |-> a]
      OBVIOUS
    <2>2. f \in [0..0 -> S] /\ f = [k \in 0..0 |-> IF k = 0 THEN a ELSE step[k][f[k-1]]]
      BY <2>1
    <2>3. QED
      BY <2>2 DEF IsLoop
  <1>2. ASSUME NEW m \in 0..n-1, m \in T PROVE m+1 \in T
    <2>1. PICK f : f \in [0..m -> S] /\ f = [k \in 0..m |-> IF k = 0 THEN a ELSE step[k][f[k-1]]]
      BY <1>2 DEF IsLoop
    <2>2. /\ \A k \in 0..m : f[k] \in S /\ f[k] = IF k = 0 THEN a ELSE step[k][f[k-1]]
      BY <2>1
    <2>3. PICK g : g = [k \in 0..m+1 |-> IF k = m+1 THEN step[k][f[m]] ELSE f[k]]
      OBVIOUS
    <2>4. \A k \in 0..m : g[k] = f[k] /\ k \in 0..m+1
      BY <2>3
    <2>5. g[m+1] = step[m+1][f[m]] /\ g[m+1] \in S
      BY <2>2, <2>3
    <2>6. \A k \in 0..m+1 : k \in 0..m \/ k = m+1
      OBVIOUS
    <2>7. \A k \in 0..m+1 : g[k] \in S
      BY <2>2, <2>4, <2>5, <2>6
    <2>8. ASSUME NEW k \in 0..m+1 PROVE g[k] = IF k = 0 THEN a ELSE step[k][g[k-1]]
      <3>1. CASE k = m+1
        BY <2>4, <2>5, <3>1
      <3>2. CASE k \in 1..m
        <4>1. k-1 \in 0..m /\ k \in 0..m /\ k # 0
          BY <3>2
        <4>2. QED
          BY <2>2, <2>4, <4>1
      <3>3. CASE k = 0
        BY <2>2, <2>4, <3>3
      <3>4. QED
        BY <3>1, <3>2, <3>3
    <2>9. g = [k \in 0..m+1 |-> g[k]]
      BY <2>3
    <2>10. g \in [0..m+1 -> S]
      BY <2>7, <2>9
    <2>11. g = [k \in 0..m+1 |-> IF k = 0 THEN a ELSE step[k][g[k-1]]]
      BY <2>8, <2>9, Zenon
    <2>12. QED
      BY <2>10, <2>11 DEF IsLoop
  <1>3. n \in T
    <2> HIDE DEF T
    <2>1. 0..n \subseteq T
      BY <1>1, <1>2, IntervalInduction
    <2>2. QED
      BY <2>1
  <1>4. QED
    BY <1>3

-----------------------------------------------------------------------------
(* Texts one after the other                                               *)

(* f[k] is the sum of the first k numbers of len.                          *)
IsTotal(f, len, n) == f = [k \in 0..n |-> IF k = 0 THEN 0 ELSE f[k-1] + len[k]]

LEMMA TotalExists ==
  ASSUME NEW len, NEW n \in Nat
  PROVE  \E f : IsTotal(f, len, n)
  <1> DEFINE T == {m \in Nat : \E f : IsTotal(f, len, m)}
  <1>1. 0 \in T
    <2>1. PICK f : f = [k \in 0..0 |-> 0]
      OBVIOUS
    <2>2. f = [k \in 0..0 |-> IF k = 0 THEN 0 ELSE f[k-1] + len[k]]
      <3>1. \A k \in 0..0 : k = 0
        OBVIOUS
      <3>2. \A k \in 0..0 : f[k] = IF k = 0 THEN 0 ELSE f[k-1] + len[k]
        BY <2>1, <3>1
      <3>3. f = [k \in 0..0 |-> f[k]]
        BY <2>1
      <3>4. QED
        BY <3>2, <3>3, Zenon
    <2>3. QED
      BY <2>2 DEF IsTotal
  <1>2. ASSUME NEW m \in 0..n-1, m \in T PROVE m+1 \in T
    <2>1. PICK f : f = [k \in 0..m |-> IF k = 0 THEN 0 ELSE f[k-1] + len[k]]
      BY <1>2 DEF IsTotal
    <2>2. \A k \in 0..m : f[k] = IF k = 0 THEN 0 ELSE f[k-1] + len[k]
      BY <2>1
    <2>3. PICK g : g = [k \in 0..m+1 |-> IF k = m+1 THEN f[m] + len[k] ELSE f[k]]
      OBVIOUS
    <2>4. \A k \in 0..m : g[k] = f[k] /\ k \in 0..m+1
      BY <2>3
    <2>5. g[m+1] = f[m] + len[m+1]
      BY <2>3
    <2>6. \A k \in 0..m+1 : k \in 0..m \/ k = m+1
      OBVIOUS
    <2>7. ASSUME NEW k \in 0..m+1 PROVE g[k] = IF k = 0 THEN 0 ELSE g[k-1] + len[k]
      <3>1. CASE k = m+1
        <4>1. k - 1 = m /\ m \in 0..m /\ k # 0
          BY <3>1
        <4>2. g[m] = f[m]
          BY <2>4, <4>1
        <4>3. QED
          BY <2>5, <3>1, <4>1, <4>2
      <3>2. CASE k \in 1..m
        <4>1. k-1 \in 0..m /\ k \in 0..m /\ k # 0
          BY <3>2
        <4>2. QED
          BY <2>2, <2>4, <4>1
      <3>3. CASE k = 0
        BY <2>2, <2>4, <3>3
      <3>4. QED
        BY <2>6, <3>1, <3>2, <3>3
    <2>8. g = [k \in 0..m+1 |-> g[k]]
      BY <2>3
    <2>9. g = [k \in 0..m+1 |-> IF k = 0 THEN 0 ELSE g[k-1] + len[k]]
      BY <2>7, <2>8, Zenon
    <2>10. QED
      BY <2>9 DEF IsTotal
  <1>3. n \in T
    <2> HIDE DEF T
    <2>1. 0..n \subseteq T
      BY <1>1, <1>2, IntervalInduction
    <2>2. QED
      BY <2>1
  <1>4. QED
    BY <1>3

(* A function on 1..n for some n                                           *)
IsList(s) == Len(s) \in Nat /\ DOMAIN s = 1..Len(s) /\ s = [k \in 1..Len(s) |-> s[k]]

LEMMA ListOf ==
  ASSUME NEW n \in Nat, NEW s, DOMAIN s = 1..n, s = [k \in 1..n |-> s[k]]
  PROVE  IsList(s) /\ Len(s) = n
  <1>1. s \in Seq({s[k] : k \in 1..n}) /\ Len(s) = n
    <2>1. \A k \in 1..n : s[k] \in {s[i] : i \in 1..n}
      OBVIOUS
    <2>2. QED
      BY <2>1, SequenceOf
  <1>2. QED
    BY <1>1 DEF IsList

(* Lists are sequences of the elements of all of them.                     *)
ElementsOf(s) == {s[k] : k \in 1..Len(s)}

LEMMA ListIsSeq ==
  ASSUME NEW s, IsList(s), NEW T, ElementsOf(s) \subseteq T
  PROVE  s \in Seq(T)
  <1>1. \A k \in 1..Len(s) : s[k] \in T
    BY DEF ElementsOf
  <1>2. QED
    BY <1>1, SequenceOf DEF IsList

LEMMA SeqIsList ==
  ASSUME NEW T, NEW s \in Seq(T)
  PROVE  IsList(s)
  BY DEF IsList

(* The length of a list, and where its elements are                        *)
LEMMA ListsConcat ==
  ASSUME NEW s, IsList(s), NEW t, IsList(t)
  PROVE  /\ IsList(s \o t) /\ Len(s \o t) = Len(s) + Len(t)
         /\ \A k \in 1..Len(s) : (s \o t)[k] = s[k]
         /\ \A k \in 1..Len(t) : (s \o t)[Len(s) + k] = t[k]
  <1>1. PICK T : T = ElementsOf(s) \cup ElementsOf(t)
    OBVIOUS
  <1>2. s \in Seq(T) /\ t \in Seq(T)
    BY <1>1, ListIsSeq
  <1>3. PICK c : c = s \o t
    OBVIOUS
  <1>4. /\ c \in Seq(T) /\ DOMAIN c = 1..Len(s)+Len(t)
        /\ \A k \in 1..Len(s) : c[k] = s[k]
        /\ \A k \in 1..Len(t) : c[Len(s) + k] = t[k]
    BY <1>2, <1>3, ConcatAt
  <1>5. IsList(c)
    BY <1>4, SeqIsList
  <1>6. Len(c) = Len(s) + Len(t)
    BY <1>2, <1>3
  <1>7. QED
    BY <1>3, <1>4, <1>5, <1>6

(* off[k] is where list k + 1 begins                                       *)
ListsAt(ss, n, off) ==
  /\ n \in Nat /\ DOMAIN ss = 1..n /\ ss = [k \in 1..n |-> ss[k]]
  /\ off[0] = 0
  /\ \A k \in 1..n : IsList(ss[k]) /\ off[k] = off[k-1] + Len(ss[k])

Flattened(s, ss, off, i) ==
  /\ IsList(s) /\ Len(s) = off[i]
  /\ \A k \in 0..i : off[k] \in Nat /\ off[k] <= off[i]
  /\ \A k \in 1..i : \A j \in 1..Len(ss[k]) : s[off[k-1] + j] = ss[k][j]

LEMMA OneMoreList ==
  ASSUME NEW ss, NEW n, NEW off, ListsAt(ss, n, off), NEW i \in 1..n-1, NEW s, Flattened(s, ss, off, i)
  PROVE  Flattened(s \o ss[i+1], ss, off, i+1)
  <1>1. i \in Nat /\ n \in Nat /\ i \in 1..n-1 /\ i+1 \in 1..n /\ (i+1)-1 = i /\ i \in 0..i
    <2>1. n \in Nat
      BY DEF ListsAt
    <2>2. i \in Nat
      BY <2>1
    <2>3. QED
      BY <2>1, <2>2
  <1>t. PICK t : t = ss[i+1]
    OBVIOUS
  <1>z. PICK z : z = s \o t
    OBVIOUS
  <1>2. PICK m, l : t = ss[i+1] /\ z = s \o t /\ m = Len(s) /\ l = Len(t)
    BY <1>t, <1>z
  <1>3. IsList(t) /\ l \in Nat /\ off[i+1] = m + l
    BY <1>1, <1>2 DEF ListsAt, Flattened, IsList
  <1>4. IsList(s) /\ m = off[i] /\ m \in Nat
    BY <1>1, <1>2 DEF Flattened
  <1>5. /\ IsList(z) /\ Len(z) = m + l
        /\ \A k \in 1..m : z[k] = s[k]
        /\ \A k \in 1..l : z[m + k] = t[k]
    <2>1. /\ IsList(s \o t) /\ Len(s \o t) = Len(s) + Len(t)
          /\ \A k \in 1..Len(s) : (s \o t)[k] = s[k]
          /\ \A k \in 1..Len(t) : (s \o t)[Len(s) + k] = t[k]
      BY <1>3, <1>4, ListsConcat
    <2>2. QED
      BY <1>2, <2>1
  <1>6. ASSUME NEW k \in 0..i+1 PROVE off[k] \in Nat /\ off[k] <= off[i+1]
    <2>1. CASE k = i+1
      BY <1>3, <1>4, <2>1
    <2>2. CASE k # i+1
      <3>1. k \in 0..i
        BY <1>1, <2>2
      <3>2. off[k] \in Nat /\ off[k] <= m
        BY <1>4, <3>1 DEF Flattened
      <3>3. QED
        BY <1>3, <1>4, <3>2
    <2>3. QED
      BY <2>1, <2>2
  <1>7. ASSUME NEW k \in 1..i+1, NEW j \in 1..Len(ss[k]) PROVE z[off[k-1] + j] = ss[k][j]
    <2>1. CASE k = i+1
      <3>1. k - 1 = i /\ ss[k] = t /\ j \in 1..l
        BY <1>1, <1>2, <2>1
      <3>2. z[m + j] = t[j]
        BY <1>5, <3>1
      <3>3. off[k-1] = m
        BY <1>4, <3>1
      <3>4. QED
        BY <3>1, <3>2, <3>3
    <2>2. CASE k # i+1
      <3>1. k \in 1..i /\ k \in 0..i /\ k-1 \in 0..i /\ k \in 1..n
        BY <1>1, <2>2
      <3>2. /\ off[k-1] \in Nat /\ off[k] \in Nat /\ off[k] <= m
            /\ s[off[k-1] + j] = ss[k][j]
        BY <1>4, <3>1 DEF Flattened
      <3>3. off[k] = off[k-1] + Len(ss[k]) /\ Len(ss[k]) \in Nat
        BY <3>1 DEF ListsAt, IsList
      <3>4. off[k-1] + j \in 1..m
        BY <1>4, <3>2, <3>3
      <3>5. QED
        BY <1>5, <3>2, <3>4
    <2>3. QED
      BY <2>1, <2>2
  <1>8. Flattened(z, ss, off, i+1)
    BY <1>3, <1>5, <1>6, <1>7 DEF Flattened
  <1>9. QED
    BY <1>2, <1>8

(* The elements of list k are from place off[k - 1] + 1 on.                *)
LEMMA FlattenPlaces ==
  ASSUME NEW ss, NEW n, NEW off, ListsAt(ss, n, off)
  PROVE  Flattened(FlattenSeq(ss), ss, off, n)
  <1>1. n \in Nat /\ DOMAIN ss = 1..n /\ ss = [k \in 1..n |-> ss[k]]
    BY DEF ListsAt
  <1>2. Len(ss) = n /\ IsList(ss)
    BY <1>1, ListOf
  <1>3. CASE n = 0
    <2>1. FlattenSeq(ss) = ss
      BY <1>2, <1>3 DEF FlattenSeq
    <2>2. QED
      BY <1>2, <1>3, <2>1 DEF ListsAt, Flattened
  <1>4. CASE n # 0
    <2>1. PICK f : IsFlatten(f, ss, n) /\ FlattenSeq(ss) = f[n]
      BY <1>1, <1>2, <1>4, FlattenIsLast
    <2> DEFINE S == {i \in 1..n : Flattened(f[i], ss, off, i)}
    <2>2. 1 \in S
      <3>1. 1 \in 1..n /\ 1 - 1 = 0
        BY <1>1, <1>4
      <3>2. f[1] = ss[1]
        BY <2>1, <3>1 DEF IsFlatten
      <3>3. IsList(ss[1]) /\ off[0] = 0 /\ off[1] = 0 + Len(ss[1]) /\ Len(ss[1]) \in Nat
        BY <3>1 DEF ListsAt, IsList
      <3>4. \A k \in 0..1 : off[k] \in Nat /\ off[k] <= off[1]
        BY <3>3
      <3>5. \A k \in 1..1 : \A j \in 1..Len(ss[k]) : ss[1][off[k-1] + j] = ss[k][j]
        <4> SUFFICES ASSUME NEW k \in 1..1, NEW j \in 1..Len(ss[k]) PROVE ss[1][off[k-1] + j] = ss[k][j]
          OBVIOUS
        <4>1. k = 1 /\ k - 1 = 0 /\ off[0] + j = j
          BY <3>3
        <4>2. QED
          BY <4>1
      <3>6. QED
        BY <3>1, <3>2, <3>3, <3>4, <3>5 DEF Flattened
    <2>3. ASSUME NEW i \in 1..n-1, i \in S PROVE i+1 \in S
      <3>1. i+1 \in 1..n /\ i+1 # 1 /\ (i+1)-1 = i
        BY <1>1
      <3>2. f[i+1] = f[(i+1)-1] \o ss[i+1]
        BY <2>1, <3>1 DEF IsFlatten
      <3>3. f[i+1] = f[i] \o ss[i+1]
        BY <3>1, <3>2
      <3>4. Flattened(f[i] \o ss[i+1], ss, off, i+1)
        BY <2>3, OneMoreList
      <3>5. QED
        BY <3>1, <3>3, <3>4
    <2>4. 1..n \subseteq S
      <3> HIDE DEF S
      <3>1. n \in Int /\ 1 \in Int /\ (1 <= n => 1 \in S)
        BY <1>1, <2>2
      <3>2. \A i \in 1..n-1 : i \in S => i+1 \in S
        BY <2>3
      <3>3. QED
        BY <3>1, <3>2, IntervalInduction
    <2>5. QED
      BY <1>1, <1>4, <2>1, <2>4
  <1>5. QED
    BY <1>3, <1>4

LEMMA LengthsAdd ==
  ASSUME NEW ss, NEW n \in Nat, DOMAIN ss = 1..n, ss = [k \in 1..n |-> ss[k]],
         \A k \in 1..n : IsList(ss[k])
  PROVE  \E off : ListsAt(ss, n, off)
  <1>1. PICK len : len = [k \in 1..n |-> Len(ss[k])]
    OBVIOUS
  <1>2. PICK off : IsTotal(off, len, n)
    BY TotalExists
  <1>3. off[0] = 0
    BY <1>2 DEF IsTotal
  <1>4. \A k \in 1..n : off[k] = off[k-1] + Len(ss[k])
    <2> SUFFICES ASSUME NEW k \in 1..n PROVE off[k] = off[k-1] + Len(ss[k])
      OBVIOUS
    <2>1. k \in 0..n /\ k # 0
      OBVIOUS
    <2>2. off[k] = off[k-1] + len[k]
      BY <1>2, <2>1 DEF IsTotal
    <2>3. QED
      BY <1>1, <2>2
  <1>5. QED
    BY <1>3, <1>4 DEF ListsAt

(* Lists flatten to a list.                                                *)
LEMMA FlattenIsList ==
  ASSUME NEW ss, NEW n \in Nat, DOMAIN ss = 1..n, ss = [k \in 1..n |-> ss[k]],
         \A k \in 1..n : IsList(ss[k])
  PROVE  IsList(FlattenSeq(ss))
  <1>1. PICK off : ListsAt(ss, n, off)
    BY LengthsAdd
  <1>2. QED
    BY <1>1, FlattenPlaces DEF Flattened

-----------------------------------------------------------------------------
(* The least and the greatest number of a finite set                       *)

IsLeast(m, S) == m \in S /\ \A x \in S : m <= x

IsGreatest(m, S) == m \in S /\ \A x \in S : m >= x

LEMMA MinIs ==
  ASSUME NEW S \in SUBSET Int, NEW m, IsLeast(m, S)
  PROVE  Min(S) = m
  <1>1. \A n \in S : (\A x \in S : n <= x) => n = m
    BY DEF IsLeast
  <1>2. QED
    BY <1>1 DEF Min, IsLeast

LEMMA MaxIs ==
  ASSUME NEW S \in SUBSET Int, NEW m, IsGreatest(m, S)
  PROVE  Max(S) = m
  <1>1. \A n \in S : (\A x \in S : n >= x) => n = m
    BY DEF IsGreatest
  <1>2. QED
    BY <1>1 DEF Max, IsGreatest

LEMMA Extremes ==
  ASSUME NEW S \in SUBSET Int, IsFiniteSet(S), S # {}
  PROVE  IsLeast(Min(S), S) /\ IsGreatest(Max(S), S)
  <1> DEFINE Bounded(T) == T = {} \/ \E m, n : IsLeast(m, T) /\ IsGreatest(n, T)
             N == {c \in Nat : \A T \in SUBSET S : Cardinality(T) = c => Bounded(T)}
  <1>1. 0 \in N
    BY FS_Subset, FS_EmptySet
  <1>2. ASSUME NEW c \in 0 .. Cardinality(S) - 1, c \in N PROVE c + 1 \in N
    <2>1. ASSUME NEW T \in SUBSET S, Cardinality(T) = c + 1 PROVE Bounded(T)
      <3>0. c \in Nat
        OBVIOUS
      <3>1. IsFiniteSet(T)
        BY FS_Subset
      <3>2. T # {}
        BY <2>1, <3>0, <3>1, FS_EmptySet
      <3>3. PICK x : x \in T
        BY <3>2
      <3>4. PICK U : U = T \ {x}
        OBVIOUS
      <3>5. U \in SUBSET S /\ Cardinality(U) = c /\ T = U \cup {x} /\ x \in Int
        <4>1. Cardinality(T \ {x}) = Cardinality(T) - 1
          BY <3>1, <3>3, FS_RemoveElement
        <4>2. Cardinality(U) = c
          BY <2>1, <3>0, <3>4, <4>1
        <4>3. QED
          BY <3>3, <3>4, <4>2
      <3>6. Bounded(U)
        BY <1>2, <3>5
      <3>7. CASE U = {}
        <4>1. IsLeast(x, T) /\ IsGreatest(x, T)
          BY <3>5, <3>7 DEF IsLeast, IsGreatest
        <4>2. QED
          BY <4>1
      <3>8. CASE U # {}
        <4>1. PICK m, n : IsLeast(m, U) /\ IsGreatest(n, U)
          BY <3>6, <3>8
        <4>2. m \in Int /\ n \in Int /\ \A y \in U : y \in Int
          BY <3>5, <4>1 DEF IsLeast, IsGreatest
        <4>3. IsLeast(IF x < m THEN x ELSE m, T)
          BY <3>5, <4>1, <4>2 DEF IsLeast
        <4>4. IsGreatest(IF x > n THEN x ELSE n, T)
          BY <3>5, <4>1, <4>2 DEF IsGreatest
        <4>5. QED
          BY <4>3, <4>4
      <3>9. QED
        BY <3>7, <3>8
    <2>2. c + 1 \in Nat
      OBVIOUS
    <2> HIDE DEF Bounded
    <2>3. QED
      BY <2>1, <2>2
  <1>3. Cardinality(S) \in Nat
    BY FS_CardinalityType
  <1>4. 0 .. Cardinality(S) \subseteq N
    <2> HIDE DEF N
    <2>1. 0 \in Int /\ Cardinality(S) \in Int
      BY <1>3
    <2>2. QED
      BY <1>1, <1>2, <2>1, IntervalInduction
  <1>5. PICK m, n : IsLeast(m, S) /\ IsGreatest(n, S)
    <2>1. Cardinality(S) \in N
      BY <1>3, <1>4
    <2>2. Bounded(S)
      BY <2>1
    <2>3. QED
      BY <2>2
  <1>6. QED
    BY <1>5, MinIs, MaxIs

-----------------------------------------------------------------------------
(* Folds over sequences                                                    *)

(* The values of a fold over the positions 1 .. n, as FoldLeft builds them: *)
(* for the sets of positions, the greatest one last.                       *)
IsFold(f, a, step, dom) ==
  f = [s \in dom |-> IF s = {} THEN a ELSE step[Max(s)][f[s \ {Max(s)}]]]

LEMMA LastOfPositions ==
  ASSUME NEW n \in Nat, NEW s \in SUBSET (1 .. n), s # {}
  PROVE  /\ Max(s) \in s /\ Max(s) \in 1 .. n /\ s \ {Max(s)} \in SUBSET (1 .. n)
         /\ Cardinality(s) \in Nat /\ Cardinality(s \ {Max(s)}) = Cardinality(s) - 1
  <1>1. IsFiniteSet(1 .. n)
    <2>1. 1 \in Int /\ n \in Int
      OBVIOUS
    <2>2. QED
      BY <2>1, FS_Interval
  <1>2. IsFiniteSet(s) /\ s \in SUBSET Int
    <2>1. IsFiniteSet(s)
      BY <1>1, FS_Subset
    <2>2. QED
      BY <2>1
  <1>3. IsGreatest(Max(s), s)
    BY <1>2, Extremes
  <1>4. Max(s) \in s
    BY <1>3 DEF IsGreatest
  <1>5. /\ s \ {Max(s)} \in SUBSET (1 .. n)
        /\ Cardinality(s) \in Nat /\ Cardinality(s \ {Max(s)}) = Cardinality(s) - 1
    <2>1. PICK D : D = 1 .. n
      OBVIOUS
    <2>2. PICK x : x = Max(s)
      OBVIOUS
    <2>3. IsFiniteSet(D) /\ s \in SUBSET D /\ x \in s
      BY <1>1, <1>4, <2>1, <2>2
    <2>4. /\ s \ {x} \in SUBSET D
          /\ Cardinality(s) \in Nat /\ Cardinality(s \ {x}) = Cardinality(s) - 1
      BY <2>3, SmallerSubset
    <2>5. QED
      BY <2>1, <2>2, <2>4
  <1>6. Max(s) \in 1 .. n
    BY <1>4
  <1>7. QED
    BY <1>4, <1>5, <1>6

LEMMA FoldExists ==
  ASSUME NEW n \in Nat, NEW S, NEW a \in S, NEW step,
         \A k \in 1 .. n : \A x \in S : step[k][x] \in S
  PROVE  \E f : IsFold(f, a, step, SUBSET (1 .. n)) /\ \A s \in SUBSET (1 .. n) : f[s] \in S
  <1> DEFINE N == {c \in Nat : \E f : IsFold(f, a, step, UpTo(1 .. n, c))
                                      /\ \A s \in UpTo(1 .. n, c) : f[s] \in S}
  <1>F. IsFiniteSet(1 .. n) /\ Cardinality(1 .. n) = n
    <2>1. 1 \in Int /\ n \in Int
      OBVIOUS
    <2>2. QED
      BY <2>1, FS_Interval
  <1>0. \A s \in SUBSET (1 .. n) : Cardinality(s) \in Nat /\ (Cardinality(s) = 0 <=> s = {})
    BY <1>F, FS_Subset, FS_CardinalityType, FS_EmptySet
  <1>1. 0 \in N
    <2>1. \A s \in UpTo(1 .. n, 0) : s = {}
      BY <1>0 DEF UpTo
    <2>2. PICK f : f = [s \in UpTo(1 .. n, 0) |-> a]
      OBVIOUS
    <2>3. IsFold(f, a, step, UpTo(1 .. n, 0))
      BY <2>1, <2>2 DEF IsFold
    <2>4. \A s \in UpTo(1 .. n, 0) : f[s] \in S
      BY <2>2
    <2>5. QED
      BY <2>3, <2>4
  <1>2. ASSUME NEW c \in 0 .. n - 1, c \in N PROVE c + 1 \in N
    <2>1. PICK f : IsFold(f, a, step, UpTo(1 .. n, c)) /\ \A s \in UpTo(1 .. n, c) : f[s] \in S
      BY <1>2
    <2>2. PICK g : g = [s \in UpTo(1 .. n, c + 1) |->
                          IF s \in UpTo(1 .. n, c) THEN f[s] ELSE step[Max(s)][f[s \ {Max(s)}]]]
      OBVIOUS
    <2>3. ASSUME NEW s \in UpTo(1 .. n, c + 1), s # {}
          PROVE  /\ Max(s) \in 1 .. n
                 /\ s \ {Max(s)} \in UpTo(1 .. n, c) /\ s \ {Max(s)} \in UpTo(1 .. n, c + 1)
      <3>1. s \in SUBSET (1 .. n) /\ Cardinality(s) <= c + 1
        BY DEF UpTo
      <3>2. /\ Max(s) \in 1 .. n /\ s \ {Max(s)} \in SUBSET (1 .. n)
            /\ Cardinality(s) \in Nat /\ Cardinality(s \ {Max(s)}) = Cardinality(s) - 1
        BY <2>3, <3>1, LastOfPositions
      <3>3. QED
        BY <3>1, <3>2 DEF UpTo
    <2>4. ASSUME NEW s \in UpTo(1 .. n, c + 1)
          PROVE  /\ g[s] = IF s = {} THEN a ELSE step[Max(s)][g[s \ {Max(s)}]]
                 /\ g[s] \in S
      <3>1. CASE s = {}
        <4>1. s \in UpTo(1 .. n, c)
          BY <1>0, <3>1 DEF UpTo
        <4>2. QED
          BY <2>1, <2>2, <3>1, <4>1 DEF IsFold
      <3>2. CASE s # {}
        <4>1. g[s \ {Max(s)}] = f[s \ {Max(s)}] /\ f[s \ {Max(s)}] \in S /\ Max(s) \in 1 .. n
          BY <2>1, <2>2, <2>3, <3>2
        <4>2. CASE s \in UpTo(1 .. n, c)
          BY <2>1, <2>2, <3>2, <4>1, <4>2 DEF IsFold
        <4>3. CASE s \notin UpTo(1 .. n, c)
          BY <2>2, <3>2, <4>1, <4>3
        <4>4. QED
          BY <4>2, <4>3
      <3>3. QED
        BY <3>1, <3>2
    <2>5. g = [s \in UpTo(1 .. n, c + 1) |-> g[s]]
      BY <2>2
    <2>6. IsFold(g, a, step, UpTo(1 .. n, c + 1))
      BY <2>4, <2>5 DEF IsFold
    <2>7. \A s \in UpTo(1 .. n, c + 1) : g[s] \in S
      BY <2>4
    <2>8. c + 1 \in Nat
      OBVIOUS
    <2>9. QED
      BY <2>6, <2>7, <2>8
  <1>4. n \in N
    <2> HIDE DEF N
    <2>0. 0 \in Int /\ n \in Int
      OBVIOUS
    <2>1. 0 .. n \subseteq N
      BY <1>1, <1>2, <2>0, IntervalInduction
    <2>2. QED
      BY <2>1
  <1>5. UpTo(1 .. n, n) = SUBSET (1 .. n)
    <2>1. \A s \in SUBSET (1 .. n) : Cardinality(s) <= n
      BY <1>F, FS_Subset
    <2>2. QED
      BY <2>1 DEF UpTo
  <1>6. QED
    BY <1>4, <1>5

(* What is before the last of the first k positions                        *)
LEMMA FirstPositions ==
  ASSUME NEW n \in Nat, NEW k \in 1 .. n
  PROVE  /\ 1 .. k \in SUBSET (1 .. n) /\ 1 .. k # {} /\ Max(1 .. k) = k
         /\ (1 .. k) \ {k} = 1 .. k - 1
  <1>1. 1 .. k \in SUBSET Int /\ IsGreatest(k, 1 .. k)
    BY DEF IsGreatest
  <1>2. Max(1 .. k) = k
    BY <1>1, MaxIs
  <1>3. QED
    BY <1>2

LEMMA FoldSteps ==
  ASSUME NEW n \in Nat, NEW a, NEW step, NEW f, IsFold(f, a, step, SUBSET (1 .. n))
  PROVE  f[{}] = a /\ \A k \in 1 .. n : f[1 .. k] = step[k][f[1 .. k - 1]]
  <1>1. f[{}] = a
    BY DEF IsFold
  <1>2. ASSUME NEW k \in 1 .. n PROVE f[1 .. k] = step[k][f[1 .. k - 1]]
    <2>1. 1 .. k \in SUBSET (1 .. n) /\ 1 .. k # {} /\ Max(1 .. k) = k /\ (1 .. k) \ {k} = 1 .. k - 1
      BY FirstPositions
    <2>2. QED
      BY <2>1 DEF IsFold
  <1>3. QED
    BY <1>1, <1>2

(* What every step keeps, the whole fold has.                              *)
LEMMA FoldStays ==
  ASSUME NEW n \in Nat, NEW S, NEW step, NEW f, f[{}] \in S,
         \A k \in 1 .. n : \A x \in S : step[k][x] \in S,
         \A k \in 1 .. n : f[1 .. k - 1] \in S => f[1 .. k] = step[k][f[1 .. k - 1]]
  PROVE  \A k \in 0 .. n : f[1 .. k] \in S
  <1> DEFINE P == {k \in 0 .. n : f[1 .. k] \in S}
  <1>1. 0 \in P
    <2>1. 1 .. 0 = {}
      OBVIOUS
    <2>2. QED
      BY <2>1
  <1>2. ASSUME NEW k \in 0 .. n - 1, k \in P PROVE k + 1 \in P
    <2>1. k + 1 \in 1 .. n /\ (k + 1) - 1 = k /\ k + 1 \in 0 .. n
      OBVIOUS
    <2>2. f[1 .. k] \in S
      BY <1>2
    <2>3. f[1 .. (k + 1) - 1] \in S
      BY <2>1, <2>2
    <2>4. f[1 .. k + 1] = step[k + 1][f[1 .. (k + 1) - 1]]
      BY <2>1, <2>3
    <2>5. f[1 .. k + 1] \in S
      BY <2>1, <2>3, <2>4
    <2>6. QED
      BY <2>1, <2>5
  <1>3. 0 \in Int /\ n \in Int /\ (0 <= n => 0 \in P)
    BY <1>1
  <1>4. 0 .. n \subseteq P
    <2> HIDE DEF P
    <2>1. QED
      BY <1>2, <1>3, IntervalInduction
  <1>5. QED
    BY <1>4
=============================================================================
