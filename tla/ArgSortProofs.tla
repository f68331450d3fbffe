---------------------------- MODULE ArgSortProofs ----------------------------
(***************************************************************************)
(* Proofs about the argument sorts, for every column, base, number of      *)
(* digits and threshold.                                                   *)
(*                                                                         *)
(* Each sort is stable and by a weight: the number a pattern stands for    *)
(* (the comparison sort), the sort key (the key sort) or one digit of it   *)
(* (a radix pass), negated when descending.  The radix passes keep the     *)
(* rows ordered by the low digits of their keys, and by row where those    *)
(* are equal; after the last pass these are the whole keys, whose order is *)
(* that of the numbers.                                                    *)
(***************************************************************************)
EXTENDS ArgSort, DataLemmas

-----------------------------------------------------------------------------
(* The weights of the digits                                               *)

IsWeight(f, m) == f = [d \in 0..m |-> IF d = 0 THEN 1 ELSE Base * f[d-1]]

LEMMA WeightExists ==
  ASSUME NEW m \in Nat
  PROVE  \E f : IsWeight(f, m)
  <1> DEFINE S == {i \in Nat : \E f : IsWeight(f, i)}
  <1>1. 0 \in S
    <2>1. IsWeight([d \in 0..0 |-> 1], 0)
      BY DEF IsWeight
    <2>2. QED
      BY <2>1
  <1>2. ASSUME NEW i \in 0..m-1, i \in S PROVE i+1 \in S
    <2>1. PICK f : IsWeight(f, i)
      BY <1>2
    <2> DEFINE g == [d \in 0..i+1 |-> IF d = i+1 THEN Base * f[i] ELSE f[d]]
    <2>2. ASSUME NEW d \in 0..i+1
          PROVE  g[d] = IF d = 0 THEN 1 ELSE Base * g[d-1]
      <3>1. CASE d = i+1
        BY <3>1
      <3>2. CASE d # i+1
        <4>1. d \in 0..i
          BY <3>2
        <4>2. g[d] = f[d] /\ f[d] = IF d = 0 THEN 1 ELSE Base * f[d-1]
          BY <2>1, <3>2, <4>1 DEF IsWeight
        <4>3. d # 0 => d-1 \in 0..i+1 /\ d-1 # i+1
          BY <4>1
        <4>4. d # 0 => g[d-1] = f[d-1]
          BY <4>3
        <4>5. QED
          BY <4>2, <4>4
      <3>3. QED
        BY <3>1, <3>2
    <2>3. g = [d \in 0..i+1 |-> g[d]]
      OBVIOUS
    <2> HIDE DEF g
    <2>4. IsWeight(g, i+1)
      BY <2>2, <2>3 DEF IsWeight
    <2>5. QED
      BY <2>4
  <1>3. 0..m \subseteq S
    <2> HIDE DEF S
    <2>1. QED
      BY <1>1, <1>2, IntervalInduction
  <1>4. QED
    BY <1>3

LEMMA WeightGrows ==
  /\ Weight[0] = 1
  /\ \A d \in 0..Digits-1 : Weight[d+1] = Base * Weight[d]
  <1>1. IsWeight(Weight, Digits)
    <2>1. \E f : IsWeight(f, Digits)
      BY WeightExists, SortAssumption
    <2>2. Weight = CHOOSE f : IsWeight(f, Digits)
      BY DEF Weight, IsWeight
    <2>3. QED
      BY <2>1, <2>2
  <1>2. Weight[0] = 1
    BY <1>1, SortAssumption DEF IsWeight
  <1>3. ASSUME NEW d \in 0..Digits-1 PROVE Weight[d+1] = Base * Weight[d]
    <2>1. d+1 \in 0..Digits /\ d+1 # 0 /\ (d+1)-1 = d
      BY SortAssumption
    <2>2. Weight[d+1] = Base * Weight[(d+1)-1]
      BY <1>1, <2>1 DEF IsWeight
    <2>3. QED
      BY <2>1, <2>2
  <1>4. QED
    BY <1>2, <1>3

LEMMA WeightType ==
  \A d \in 0..Digits : Weight[d] \in Nat \ {0}
  <1> DEFINE S == {d \in Int : Weight[d] \in Nat \ {0}}
  <1>1. 0 \in S
    BY WeightGrows
  <1>2. ASSUME NEW d \in 0..Digits-1, d \in S PROVE d+1 \in S
    <2>1. PICK x : x = Weight[d]
      OBVIOUS
    <2>2. x \in Nat \ {0} /\ Base \in Nat \ {0}
      BY <1>2, <2>1, SortAssumption
    <2>3. Base * x \in Nat \ {0}
      BY <2>2
    <2>4. Weight[d+1] = Base * x
      BY <2>1, WeightGrows
    <2>5. QED
      BY <2>3, <2>4
  <1>3. 0..Digits \subseteq S
    <2> HIDE DEF S
    <2>1. Digits \in Int
      BY SortAssumption
    <2>2. QED
      BY <1>1, <1>2, <2>1, IntervalInduction
  <1>4. QED
    BY <1>3

(* A word has an even number of patterns.                                  *)
LEMMA WordHalves ==
  Half \in Nat \ {0} /\ Full = 2 * Half /\ Full \in Nat
  <1>1. Digits-1 \in 0..Digits-1 /\ (Digits-1)+1 = Digits /\ Digits-1 \in 0..Digits
    BY SortAssumption
  <1>2. PICK x \in Nat \ {0} : Full = Base * x
    BY <1>1, WeightGrows, WeightType DEF Full
  <1>3. PICK b \in Nat : Base = 2 * b
    <2>1. Base \in Nat /\ Base % 2 = 0
      BY SortAssumption
    <2>2. PICK a \in Nat, r \in 0..1 : Base = 2 * a + r /\ Base % 2 = r
      BY <2>1, DivMod
    <2>3. QED
      BY <2>1, <2>2
  <1>4. b # 0
    BY <1>3, SortAssumption
  <1>5. b * x \in Nat \ {0} /\ Full = 2 * (b * x)
    BY <1>2, <1>3, <1>4
  <1>6. Half = b * x
    BY <1>5 DEF Half
  <1>7. QED
    BY <1>5, <1>6

(* One digit more.                                                         *)
SplitsAt(x, w, b) ==
  \E q \in 0..b-1 : \E r \in 0..w-1 :
    (x \div w) % b = q /\ x % w = r /\ x % (b * w) = q * w + r

LEMMA SplitDigit ==
  ASSUME NEW x, x \in Nat, NEW w, w \in Nat \ {0}, NEW b, b \in Nat \ {0}
  PROVE  SplitsAt(x, w, b)
  <1>1. PICK a \in Nat, r \in 0..w-1 : x = w * a + r /\ x \div w = a /\ x % w = r
    BY DivMod
  <1>2. PICK c \in Nat, q \in 0..b-1 : a = b * c + q /\ a \div b = c /\ a % b = q
    BY DivMod
  <1>3. PICK z : z = b * w
    OBVIOUS
  <1>4. z \in Nat \ {0}
    BY <1>3
  <1>5. x = z * c + (q * w + r)
    <2>1. w * a = w * (b * c) + w * q
      BY <1>1, <1>2
    <2>2. w * (b * c) = z * c
      BY <1>2, <1>3
    <2>3. QED
      BY <1>1, <1>2, <2>1, <2>2
  <1>6. q * w + r \in 0..z-1
    <2>1. q + 1 <= b
      BY <1>2
    <2>2. (q + 1) * w <= b * w
      BY <1>2, <2>1
    <2>3. (q + 1) * w = q * w + w /\ q * w \in Nat
      BY <1>2
    <2>4. PICK y \in Nat : y = q * w
      BY <2>3
    <2>5. QED
      BY <1>1, <1>3, <1>4, <2>2, <2>3, <2>4
  <1>7. x % z = q * w + r
    <2>1. PICK y : y = q * w + r
      OBVIOUS
    <2>2. y \in 0..z-1 /\ x = z * c + y
      BY <1>5, <1>6, <2>1
    <2>3. x % z = y
      BY <1>2, <1>4, <2>2
    <2>4. QED
      BY <2>1, <2>3
  <1>8. x % (b * w) = q * w + r
    BY <1>3, <1>7, Zenon
  <1>9. QED
    BY <1>1, <1>2, <1>8, Zenon DEF SplitsAt

-----------------------------------------------------------------------------
(* Sorting by a weight                                                     *)

(* t has the elements of s ordered by their weights, and by their places   *)
(* where these are equal.                                                  *)
IsStableSort(t, s, w) ==
  /\ DOMAIN t = DOMAIN s
  /\ \E perm \in [DOMAIN s -> DOMAIN s] :
       /\ \A p \in DOMAIN s : t[p] = s[perm[p]]
       /\ \A k \in DOMAIN s : \E p \in DOMAIN s : perm[p] = k
       /\ \A p, q \in DOMAIN s : p < q =>
            \/ w[perm[p]] < w[perm[q]]
            \/ w[perm[p]] = w[perm[q]] /\ perm[p] < perm[q]

LEMMA SortByWeight ==
  ASSUME NEW s, s \in Seq(Int), NEW w, \A k \in DOMAIN s : w[k] \in Int,
         NEW t, DOMAIN t = DOMAIN s,
         \A p \in DOMAIN s :
           t[p] = s[CHOOSE k \in DOMAIN s :
                      Cardinality({l \in DOMAIN s : w[l] < w[k] \/ (~(w[k] < w[l]) /\ l < k)}) = p - 1]
  PROVE  IsStableSort(t, s, w)
  <1>1. PICK n : n = Len(s)
    OBVIOUS
  <1>2. PICK D : D = 1..n
    OBVIOUS
  <1>3. n \in Nat /\ DOMAIN s = D /\ \A k \in D : k \in Int
    BY <1>1, <1>2
  <1>4. IsFiniteSet(D) /\ Cardinality(D) = n
    <2>1. \A a, b \in Int : IsFiniteSet(a..b) /\ Cardinality(a..b) = IF a > b THEN 0 ELSE b - a + 1
      BY FS_Interval
    <2>2. QED
      BY <1>2, <1>3, <2>1
  <1>5. PICK ahead : ahead = [k \in D |-> {l \in D : w[l] < w[k] \/ (~(w[k] < w[l]) /\ l < k)}]
    OBVIOUS
  <1>6. \A k \in D : ahead[k] = {l \in D : w[l] < w[k] \/ (~(w[k] < w[l]) /\ l < k)}
    BY <1>5
  <1>7. \A k \in D : w[k] \in Int
    BY <1>3
  <1>8. \A k, l \in D : l \in ahead[k] <=> w[l] < w[k] \/ (w[l] = w[k] /\ l < k)
    BY <1>3, <1>6, <1>7
  <1>9. IsOrder(D, ahead)
    <2>1. ahead \in [D -> SUBSET D]
      BY <1>5
    <2>2. \A k \in D : k \notin ahead[k]
      BY <1>3, <1>7, <1>8
    <2>3. \A k, l \in D : k # l => k \in ahead[l] \/ l \in ahead[k]
      BY <1>3, <1>7, <1>8
    <2>4. ASSUME NEW k \in D, NEW l \in ahead[k], NEW j \in ahead[l] PROVE j \in ahead[k]
      <3>1. l \in D /\ j \in D
        BY <2>1
      <3>2. QED
        BY <1>3, <1>7, <1>8, <3>1
    <2>5. QED
      BY <2>1, <2>2, <2>3, <2>4 DEF IsOrder
  <1>10. PICK perm : perm = [p \in D |-> CHOOSE k \in D :
                      Cardinality({l \in D : w[l] < w[k] \/ (~(w[k] < w[l]) /\ l < k)}) = p - 1]
    OBVIOUS
  <1>11. ASSUME NEW p \in D
         PROVE  /\ perm[p] \in D /\ Cardinality(ahead[perm[p]]) = p - 1
                /\ t[p] = s[perm[p]]
    <2>1. p - 1 \in 0..Cardinality(D)-1
      BY <1>2, <1>3, <1>4
    <2>2. \E k \in D : Cardinality(ahead[k]) = p - 1
      BY <1>4, <1>9, <2>1, RankTaken
    <2>3. \E k \in D :
            Cardinality({l \in D : w[l] < w[k] \/ (~(w[k] < w[l]) /\ l < k)}) = p - 1
      BY <1>6, <2>2
    <2>4. perm[p] = CHOOSE k \in D :
            Cardinality({l \in D : w[l] < w[k] \/ (~(w[k] < w[l]) /\ l < k)}) = p - 1
      BY <1>10
    <2>5. perm[p] \in D /\ Cardinality({l \in D : w[l] < w[perm[p]] \/ (~(w[perm[p]] < w[l]) /\ l < perm[p])}) = p - 1
      BY <2>3, <2>4
    <2>6. t[p] = s[perm[p]]
      BY <1>3, <2>4
    <2>7. QED
      BY <1>6, <2>5, <2>6
  <1>12. \A p \in 1..Cardinality(D) : perm[p] \in D /\ Cardinality(ahead[perm[p]]) = p - 1
    BY <1>2, <1>4, <1>11
  <1>13. /\ \A k \in D : \E p \in 1..Cardinality(D) : perm[p] = k
         /\ \A p, q \in 1..Cardinality(D) : p < q => perm[p] \in ahead[perm[q]] /\ perm[p] # perm[q]
    <2>1. IsFiniteSet(D)
      BY <1>4
    <2>2. IsRanking(D, ahead, perm)
      BY <1>9, <1>12, <2>1 DEF IsRanking
    <2>3. QED
      BY <2>2, RankList
  <1>14. perm \in [D -> D]
    BY <1>10, <1>11
  <1>15. \A p, q \in D : p < q => \/ w[perm[p]] < w[perm[q]]
                                  \/ w[perm[p]] = w[perm[q]] /\ perm[p] < perm[q]
    BY <1>2, <1>4, <1>8, <1>11, <1>13
  <1>16. \A k \in D : \E p \in D : perm[p] = k
    BY <1>2, <1>4, <1>13
  <1>17. \A p \in D : t[p] = s[perm[p]]
    BY <1>11
  <1>18. QED
    BY <1>3, <1>14, <1>15, <1>16, <1>17 DEF IsStableSort

(* A stable sort moves the elements, and keeps an order that the weights   *)
(* agree with.                                                             *)
LEMMA SortKeepsElements ==
  ASSUME NEW T, NEW s, s \in Seq(T), NEW w, NEW t, t = [p \in DOMAIN s |-> t[p]], IsStableSort(t, s, w)
  PROVE  t \in Seq(T) /\ Len(t) = Len(s) /\ Range(t) = Range(s)
  <1>1. PICK perm \in [DOMAIN s -> DOMAIN s] :
          /\ \A p \in DOMAIN s : t[p] = s[perm[p]]
          /\ \A k \in DOMAIN s : \E p \in DOMAIN s : perm[p] = k
    BY DEF IsStableSort
  <1>2. PICK n \in Nat : n = Len(s) /\ DOMAIN s = 1..n
    OBVIOUS
  <1>3. \A k \in 1..n : s[k] \in T
    BY <1>2
  <1>4. \A p \in 1..n : t[p] \in T
    BY <1>1, <1>2, <1>3
  <1>5. t \in Seq(T) /\ Len(t) = n /\ DOMAIN t = 1..n
    BY <1>2, <1>4
  <1>6. Range(t) = Range(s)
    <2>1. \A p \in 1..n : \E k \in 1..n : t[p] = s[k]
      BY <1>1, <1>2
    <2>2. \A k \in 1..n : \E p \in 1..n : t[p] = s[k]
      BY <1>1, <1>2
    <2>3. /\ \A x : x \in Range(t) <=> \E p \in 1..n : x = t[p]
          /\ \A x : x \in Range(s) <=> \E p \in 1..n : x = s[p]
      BY <1>2, <1>5 DEF Range
    <2>4. Range(t) \subseteq Range(s)
      BY <2>1, <2>3
    <2>5. Range(s) \subseteq Range(t)
      BY <2>2, <2>3
    <2>6. QED
      BY <2>4, <2>5
  <1>7. QED
    BY <1>2, <1>5, <1>6

-----------------------------------------------------------------------------
(* The invariant                                                           *)

Signed(x) == IF descending THEN -x ELSE x

(* Rows ordered by the low digits of their keys, and then by row.          *)
Low(i, d) == SortKey(vals[i]) % Weight[d]
LowAhead(i, j, d) ==
  \/ Signed(Low(i, d)) < Signed(Low(j, d))
  \/ Low(i, d) = Low(j, d) /\ i < j

RadixOrdered == \A k, l \in DOMAIN nonNull : k < l => LowAhead(nonNull[k], nonNull[l], pass)

ColumnInv ==
  /\ dtype \in Types /\ descending \in BOOLEAN /\ pass \in 0..Digits
  /\ pc \in {"partition", "shortcut", "sort", "radix", "done"}
  /\ IsFiniteSet(DOMAIN vals) /\ valid \subseteq DOMAIN vals
  /\ \A i \in DOMAIN vals : i \in Int /\ vals[i] \in 0..Full-1

RowsInv ==
  pc # "partition" =>
    /\ nonNull \in Seq(valid) /\ Range(nonNull) = valid /\ Len(nonNull) = Cardinality(valid)
    /\ nulls = RowList(DOMAIN vals \ valid)

OrderInv ==
  /\ pc \in {"partition", "shortcut", "sort"} => pass = 0
  /\ Len(nonNull) < RadixMin => pass = 0
  /\ pc \in {"shortcut", "sort", "radix"} => RadixOrdered
  /\ pc = "done" => SortedByNumber /\ TiesKeptOrAllReversed /\ LowDigitsOrdered

SortInv == ColumnInv /\ RowsInv /\ OrderInv

-----------------------------------------------------------------------------
(* Keys and numbers                                                        *)

(* The keys have the order of the numbers, but for NaN.                    *)
LEMMA KeysAndNumbers ==
  ASSUME ColumnInv
  PROVE  /\ \A v \in 0..Full-1 : /\ SortKey(v) \in 0..Full-1 /\ SortKey(v) \in Int
                               /\ Number(v) \in Int /\ Number(v) > -Full
         /\ \A u, v \in 0..Full-1 : SortKey(u) <= SortKey(v) => Number(u) <= Number(v)
  <1>1. Half \in Nat \ {0} /\ Full = 2 * Half /\ Full \in Nat
    BY WordHalves
  <1>2. dtype \in {"uint64", "int64", "float64", "int16"}
    BY SortAssumption DEF ColumnInv
  <1>3. CASE dtype = "uint64"
    BY <1>1, <1>3 DEF SortKey, Number
  <1>4. CASE dtype \in {"int64", "int16"}
    <2>1. \A v \in 0..Full-1 : (v + Half) % Full = IF v >= Half THEN v - Half ELSE v + Half
      <3> SUFFICES ASSUME NEW v \in 0..Full-1
                   PROVE  (v + Half) % Full = IF v >= Half THEN v - Half ELSE v + Half
        OBVIOUS
      <3>1. CASE v >= Half
        <4>1. v + Half = Full * 1 + (v - Half) /\ v - Half \in 0..Full-1
          BY <1>1, <3>1
        <4>2. QED
          BY <1>1, <3>1, <4>1
      <3>2. CASE ~(v >= Half)
        <4>1. v + Half \in 0..Full-1
          BY <1>1, <3>2
        <4>2. QED
          BY <1>1, <3>2, <4>1
      <3>3. QED
        BY <3>1, <3>2
    <2>2. \A v \in 0..Full-1 : /\ SortKey(v) = (IF v >= Half THEN v - Half ELSE v + Half)
                               /\ Number(v) = (IF v >= Half THEN v - Full ELSE v)
      BY <1>4, <2>1 DEF SortKey, Number
    <2>3. QED
      BY <1>1, <2>2
  <1>5. CASE dtype = "float64"
    BY <1>1, <1>5 DEF SortKey, Number
  <1>6. QED
    BY <1>2, <1>3, <1>4, <1>5

LEMMA RowsOfColumn ==
  ASSUME ColumnInv, RowsInv, pc # "partition"
  PROVE  /\ DOMAIN nonNull = 1..Len(nonNull) /\ Len(nonNull) \in Nat /\ nonNull \in Seq(Int)
         /\ \A k \in DOMAIN nonNull : /\ nonNull[k] \in valid /\ nonNull[k] \in Int
                                      /\ vals[nonNull[k]] \in 0..Full-1
  <1>1. nonNull \in Seq(valid) /\ \A i \in valid : i \in Int /\ vals[i] \in 0..Full-1
    BY DEF ColumnInv, RowsInv
  <1>2. DOMAIN nonNull = 1..Len(nonNull) /\ Len(nonNull) \in Nat /\ \A k \in DOMAIN nonNull : nonNull[k] \in valid
    BY <1>1
  <1>3. nonNull \in Seq(Int)
    <2>1. \A s : s \in Seq(valid) /\ (\A k \in DOMAIN s : s[k] \in Int) => s \in Seq(Int)
      OBVIOUS
    <2>2. QED
      BY <1>1, <1>2, <2>1
  <1>4. QED
    BY <1>1, <1>2, <1>3

(* What the three sorts sort by.                                           *)
NumberOrNaN(v) == IF IsNaN(v) THEN -Full ELSE Number(v)

LEMMA ComparesNumbers ==
  ASSUME ColumnInv, NEW u \in 0..Full-1, NEW v \in 0..Full-1
  PROVE  /\ NumberOrNaN(u) \in Int
         /\ Directed(Below, u, v) <=> Signed(NumberOrNaN(u)) < Signed(NumberOrNaN(v))
  <1>1. /\ Number(u) \in Int /\ Number(u) > -Full /\ Number(v) \in Int /\ Number(v) > -Full
        /\ Full \in Nat
    BY KeysAndNumbers, WordHalves
  <1>2. Directed(Below, u, v) <=> IF descending THEN Below(v, u) ELSE Below(u, v)
    BY DEF Directed
  <1>3. Below(u, v) <=> NumberOrNaN(u) < NumberOrNaN(v)
    BY <1>1 DEF Below, Less, NumberOrNaN
  <1>4. Below(v, u) <=> NumberOrNaN(v) < NumberOrNaN(u)
    BY <1>1 DEF Below, Less, NumberOrNaN
  <1>5. NumberOrNaN(u) \in Int /\ NumberOrNaN(v) \in Int
    BY <1>1 DEF NumberOrNaN
  <1>6. PICK x \in Int, y \in Int : x = NumberOrNaN(u) /\ y = NumberOrNaN(v)
    BY <1>5
  <1>7. CASE descending
    <2>1. Signed(x) = -x /\ Signed(y) = -y
      BY <1>7 DEF Signed
    <2>2. Directed(Below, u, v) <=> y < x
      BY <1>2, <1>4, <1>6, <1>7
    <2>3. Directed(Below, u, v) <=> Signed(x) < Signed(y)
      BY <2>1, <2>2
    <2>4. QED
      BY <1>5, <1>6, <2>3
  <1>8. CASE ~descending
    <2>1. Signed(x) = x /\ Signed(y) = y
      BY <1>8 DEF Signed
    <2>2. Directed(Below, u, v) <=> x < y
      BY <1>2, <1>3, <1>6, <1>8
    <2>3. QED
      BY <1>5, <1>6, <2>1, <2>2
  <1>9. QED
    BY <1>7, <1>8

LEMMA SignedInt ==
  ASSUME NEW x, x \in Int
  PROVE  Signed(x) \in Int
  BY DEF Signed

LEMMA CompareSortIsStable ==
  ASSUME ColumnInv, RowsInv, pc # "partition",
         NEW t, t = StableSort(nonNull, LAMBDA a, b : Directed(Below, a, b))
  PROVE  IsStableSort(t, nonNull, [k \in DOMAIN nonNull |-> Signed(NumberOrNaN(vals[nonNull[k]]))])
  <1> DEFINE D == DOMAIN nonNull
  <1>1. PICK w : w = [k \in D |-> Signed(NumberOrNaN(vals[nonNull[k]]))]
    OBVIOUS
  <1>2. nonNull \in Seq(Int) /\ \A k \in D : vals[nonNull[k]] \in 0..Full-1
    BY RowsOfColumn
  <1>3. \A k \in D : w[k] \in Int
    <2>1. \A k \in D : NumberOrNaN(vals[nonNull[k]]) \in Int
      BY <1>2, ComparesNumbers
    <2>2. \A k \in D : Signed(NumberOrNaN(vals[nonNull[k]])) \in Int
      BY <2>1, SignedInt
    <2>3. QED
      BY <1>1, <2>2
  <1>4. \A k, l \in D : Directed(Below, vals[nonNull[l]], vals[nonNull[k]]) <=> w[l] < w[k]
    BY <1>1, <1>2, ComparesNumbers
  <1>5. DOMAIN t = D
    BY DEF StableSort
  <1>6. ASSUME NEW p \in D
        PROVE  t[p] = nonNull[CHOOSE k \in D :
                  Cardinality({l \in D : w[l] < w[k] \/ (~(w[k] < w[l]) /\ l < k)}) = p - 1]
    <2>1. t[p] = nonNull[CHOOSE k \in D : Cardinality({l \in D :
                     \/ Directed(Below, vals[nonNull[l]], vals[nonNull[k]])
                     \/ ~Directed(Below, vals[nonNull[k]], vals[nonNull[l]]) /\ l < k}) = p - 1]
      BY DEF StableSort
    <2>2. \A k \in D : {l \in D :
                     \/ Directed(Below, vals[nonNull[l]], vals[nonNull[k]])
                     \/ ~Directed(Below, vals[nonNull[k]], vals[nonNull[l]]) /\ l < k}
                   = {l \in D : w[l] < w[k] \/ (~(w[k] < w[l]) /\ l < k)}
      BY <1>4
    <2>3. QED
      BY <2>1, <2>2
  <1>7. IsStableSort(t, nonNull, w)
    BY <1>2, <1>3, <1>5, <1>6, SortByWeight
  <1>8. QED
    BY <1>1, <1>7

LEMMA ComparesKeys ==
  ASSUME NEW u, NEW v, SortKey(u) \in Int, SortKey(v) \in Int
  PROVE  Directed(LAMBDA x, y : SortKey(x) < SortKey(y), u, v) <=> Signed(SortKey(u)) < Signed(SortKey(v))
  <1>1. PICK x \in Int, y \in Int : x = SortKey(u) /\ y = SortKey(v)
    OBVIOUS
  <1>2. CASE descending
    <2>1. Signed(x) = -x /\ Signed(y) = -y
      BY <1>2 DEF Signed
    <2>2. Directed(LAMBDA a, b : SortKey(a) < SortKey(b), u, v) <=> y < x
      BY <1>1, <1>2 DEF Directed
    <2>3. -x < -y <=> y < x
      OBVIOUS
    <2>4. QED
      BY <1>1, <2>1, <2>2, <2>3, Zenon
  <1>3. CASE ~descending
    <2>1. Signed(x) = x /\ Signed(y) = y
      BY <1>3 DEF Signed
    <2>2. Directed(LAMBDA a, b : SortKey(a) < SortKey(b), u, v) <=> x < y
      BY <1>1, <1>3 DEF Directed
    <2>3. QED
      BY <1>1, <2>1, <2>2, Zenon
  <1>4. QED
    BY <1>2, <1>3

LEMMA KeySortIsStable ==
  ASSUME ColumnInv, RowsInv, pc # "partition",
         NEW t, t = StableSort(nonNull, LAMBDA a, b : Directed(LAMBDA x, y : SortKey(x) < SortKey(y), a, b))
  PROVE  IsStableSort(t, nonNull, [k \in DOMAIN nonNull |-> Signed(SortKey(vals[nonNull[k]]))])
  <1> DEFINE D == DOMAIN nonNull
             before(a, b) == Directed(LAMBDA x, y : SortKey(x) < SortKey(y), a, b)
  <1>1. PICK w : w = [k \in D |-> Signed(SortKey(vals[nonNull[k]]))]
    OBVIOUS
  <1>2. nonNull \in Seq(Int) /\ \A k \in D : vals[nonNull[k]] \in 0..Full-1
    BY RowsOfColumn
  <1>2a. \A k \in D : SortKey(vals[nonNull[k]]) \in Int
    <2>1. \A v \in 0..Full-1 : SortKey(v) \in Int
      BY KeysAndNumbers
    <2>2. QED
      BY <1>2, <2>1
  <1>3. \A k \in D : w[k] \in Int
    <2>1. \A k \in D : Signed(SortKey(vals[nonNull[k]])) \in Int
      BY <1>2a, SignedInt
    <2>2. QED
      BY <1>1, <2>1
  <1>4. ASSUME NEW k \in D, NEW l \in D
        PROVE  before(vals[nonNull[l]], vals[nonNull[k]]) <=> w[l] < w[k]
    <2>1. SortKey(vals[nonNull[k]]) \in Int /\ SortKey(vals[nonNull[l]]) \in Int
      BY <1>2a
    <2>2. before(vals[nonNull[l]], vals[nonNull[k]]) <=> Signed(SortKey(vals[nonNull[l]])) < Signed(SortKey(vals[nonNull[k]]))
      BY <2>1, ComparesKeys
    <2>3. QED
      BY <1>1, <2>2
  <1>5. DOMAIN t = D
    BY DEF StableSort
  <1>6. ASSUME NEW p \in D
        PROVE  t[p] = nonNull[CHOOSE k \in D :
                  Cardinality({l \in D : w[l] < w[k] \/ (~(w[k] < w[l]) /\ l < k)}) = p - 1]
    <2>1. t[p] = nonNull[CHOOSE k \in D : Cardinality({l \in D :
                     \/ before(vals[nonNull[l]], vals[nonNull[k]])
                     \/ ~before(vals[nonNull[k]], vals[nonNull[l]]) /\ l < k}) = p - 1]
      BY DEF StableSort
    <2> HIDE DEF before
    <2>2. \A k \in D : {l \in D :
                     \/ before(vals[nonNull[l]], vals[nonNull[k]])
                     \/ ~before(vals[nonNull[k]], vals[nonNull[l]]) /\ l < k}
                   = {l \in D : w[l] < w[k] \/ (~(w[k] < w[l]) /\ l < k)}
      BY <1>4
    <2>3. QED
      BY <2>1, <2>2
  <1>7. IsStableSort(t, nonNull, w)
    BY <1>2, <1>3, <1>5, <1>6, SortByWeight
  <1>8. QED
    BY <1>1, <1>7

LEMMA DigitInt ==
  ASSUME ColumnInv, NEW d \in 0..Digits-1
  PROVE  \A v \in 0..Full-1 : Digit(v, d) \in Int
  <1> SUFFICES ASSUME NEW v \in 0..Full-1 PROVE Digit(v, d) \in Int
    OBVIOUS
  <1>1. SortKey(v) \in Nat /\ Weight[d] \in Nat \ {0} /\ Base \in Nat \ {0}
    <2>1. Full \in Nat /\ SortKey(v) \in 0..Full-1
      BY KeysAndNumbers, WordHalves
    <2>2. QED
      BY <2>1, WeightType, SortAssumption
  <1>2. PICK q \in 0..Base-1 : (SortKey(v) \div Weight[d]) % Base = q
    BY <1>1, SplitDigit DEF SplitsAt
  <1>3. QED
    BY <1>2 DEF Digit

LEMMA ComparesDigits ==
  ASSUME NEW u, NEW v, Digit(u, pass) \in Int, Digit(v, pass) \in Int
  PROVE  Directed(LAMBDA x, y : Digit(x, pass) < Digit(y, pass), u, v) <=> Signed(Digit(u, pass)) < Signed(Digit(v, pass))
  <1>1. PICK x \in Int, y \in Int : x = Digit(u, pass) /\ y = Digit(v, pass)
    OBVIOUS
  <1>2. CASE descending
    <2>1. Signed(x) = -x /\ Signed(y) = -y
      BY <1>2 DEF Signed
    <2>2. Directed(LAMBDA a, b : Digit(a, pass) < Digit(b, pass), u, v) <=> y < x
      BY <1>1, <1>2 DEF Directed
    <2>3. -x < -y <=> y < x
      OBVIOUS
    <2>4. QED
      BY <1>1, <2>1, <2>2, <2>3, Zenon
  <1>3. CASE ~descending
    <2>1. Signed(x) = x /\ Signed(y) = y
      BY <1>3 DEF Signed
    <2>2. Directed(LAMBDA a, b : Digit(a, pass) < Digit(b, pass), u, v) <=> x < y
      BY <1>1, <1>3 DEF Directed
    <2>3. QED
      BY <1>1, <2>1, <2>2, Zenon
  <1>4. QED
    BY <1>2, <1>3

LEMMA PassIsStable ==
  ASSUME ColumnInv, RowsInv, pc # "partition", pass \in 0..Digits-1,
         NEW t, t = Scatter(nonNull, pass)
  PROVE  IsStableSort(t, nonNull, [k \in DOMAIN nonNull |-> Signed(Digit(vals[nonNull[k]], pass))])
  <1> DEFINE D == DOMAIN nonNull
             before(a, b) == Directed(LAMBDA x, y : Digit(x, pass) < Digit(y, pass), a, b)
  <1>1. PICK w : w = [k \in D |-> Signed(Digit(vals[nonNull[k]], pass))]
    OBVIOUS
  <1>2. nonNull \in Seq(Int) /\ \A k \in D : vals[nonNull[k]] \in 0..Full-1
    BY RowsOfColumn
  <1>2a. \A k \in D : Digit(vals[nonNull[k]], pass) \in Int
    <2>1. \A v \in 0..Full-1 : Digit(v, pass) \in Int
      BY DigitInt
    <2>2. QED
      BY <1>2, <2>1
  <1>3. \A k \in D : w[k] \in Int
    <2>1. \A k \in D : Signed(Digit(vals[nonNull[k]], pass)) \in Int
      BY <1>2a, SignedInt
    <2>2. QED
      BY <1>1, <2>1
  <1>4. ASSUME NEW k \in D, NEW l \in D
        PROVE  before(vals[nonNull[l]], vals[nonNull[k]]) <=> w[l] < w[k]
    <2>1. Digit(vals[nonNull[k]], pass) \in Int /\ Digit(vals[nonNull[l]], pass) \in Int
      BY <1>2a
    <2>2. before(vals[nonNull[l]], vals[nonNull[k]]) <=> Signed(Digit(vals[nonNull[l]], pass)) < Signed(Digit(vals[nonNull[k]], pass))
      BY <2>1, ComparesDigits
    <2>3. QED
      BY <1>1, <2>2
  <1>5. DOMAIN t = D
    BY DEF StableSort, Scatter
  <1>6. ASSUME NEW p \in D
        PROVE  t[p] = nonNull[CHOOSE k \in D :
                  Cardinality({l \in D : w[l] < w[k] \/ (~(w[k] < w[l]) /\ l < k)}) = p - 1]
    <2>1. t[p] = nonNull[CHOOSE k \in D : Cardinality({l \in D :
                     \/ before(vals[nonNull[l]], vals[nonNull[k]])
                     \/ ~before(vals[nonNull[k]], vals[nonNull[l]]) /\ l < k}) = p - 1]
      BY DEF StableSort, Scatter
    <2> HIDE DEF before
    <2>2. \A k \in D : {l \in D :
                     \/ before(vals[nonNull[l]], vals[nonNull[k]])
                     \/ ~before(vals[nonNull[k]], vals[nonNull[l]]) /\ l < k}
                   = {l \in D : w[l] < w[k] \/ (~(w[k] < w[l]) /\ l < k)}
      BY <1>4
    <2>3. QED
      BY <2>1, <2>2
  <1>7. IsStableSort(t, nonNull, w)
    BY <1>2, <1>3, <1>5, <1>6, SortByWeight
  <1>8. QED
    BY <1>1, <1>7

-----------------------------------------------------------------------------
(* Orders of rows                                                          *)

(* One digit more: the digit decides, then the digits below it.            *)
LEMMA LowDigit ==
  ASSUME ColumnInv, NEW i, i \in DOMAIN vals, NEW d \in 0..Digits-1
  PROVE  \E q \in 0..Base-1 : \E r \in 0..Weight[d]-1 :
           Digit(vals[i], d) = q /\ Low(i, d) = r /\ Low(i, d+1) = q * Weight[d] + r
  <1>1. vals[i] \in 0..Full-1 /\ Full \in Nat
    BY WordHalves DEF ColumnInv
  <1>2. SortKey(vals[i]) \in Nat
    <2>1. SortKey(vals[i]) \in 0..Full-1
      BY <1>1, KeysAndNumbers
    <2>2. QED
      BY <1>1, <2>1
  <1>3. Weight[d] \in Nat \ {0} /\ Base \in Nat \ {0} /\ Weight[d+1] = Base * Weight[d]
    BY WeightType, WeightGrows, SortAssumption
  <1>4. \E q \in 0..Base-1 : \E r \in 0..Weight[d]-1 :
           /\ (SortKey(vals[i]) \div Weight[d]) % Base = q
           /\ SortKey(vals[i]) % Weight[d] = r
           /\ SortKey(vals[i]) % (Base * Weight[d]) = q * Weight[d] + r
    <2>1. PICK x, w : x = SortKey(vals[i]) /\ w = Weight[d]
      OBVIOUS
    <2>2. x \in Nat /\ w \in Nat \ {0} /\ Base \in Nat \ {0}
      BY <1>2, <1>3, <2>1
    <2>3. SplitsAt(x, w, Base)
      BY <2>2, SplitDigit
    <2>4. QED
      BY <2>1, <2>3 DEF SplitsAt
  <1>5. QED
    BY <1>3, <1>4 DEF Digit, Low

LEMMA OneDigitMore ==
  ASSUME ColumnInv, NEW i, i \in DOMAIN vals, NEW j, j \in DOMAIN vals, NEW d \in 0..Digits-1,
         \/ Signed(Digit(vals[i], d)) < Signed(Digit(vals[j], d))
         \/ Signed(Digit(vals[i], d)) = Signed(Digit(vals[j], d)) /\ LowAhead(i, j, d)
  PROVE  LowAhead(i, j, d+1)
  <1>1. PICK q \in 0..Base-1, r \in 0..Weight[d]-1 :
          Digit(vals[i], d) = q /\ Low(i, d) = r /\ Low(i, d+1) = q * Weight[d] + r
    BY LowDigit
  <1>2. PICK p \in 0..Base-1, t \in 0..Weight[d]-1 :
          Digit(vals[j], d) = p /\ Low(j, d) = t /\ Low(j, d+1) = p * Weight[d] + t
    BY LowDigit
  <1>3. PICK w \in Nat : w = Weight[d] /\ r \in 0..w-1 /\ t \in 0..w-1
    <2>1. d \in 0..Digits
      BY SortAssumption
    <2>2. Weight[d] \in Nat
      BY <2>1, WeightType
    <2>3. QED
      BY <2>2
  <1>4. q \in Nat /\ p \in Nat
    BY SortAssumption
  <1>5. \A x, y \in Nat : x < y => x * w + w <= y * w
    <2> SUFFICES ASSUME NEW x \in Nat, NEW y \in Nat, x < y PROVE x * w + w <= y * w
      OBVIOUS
    <2>1. (x + 1) * w <= y * w
      OBVIOUS
    <2>2. (x + 1) * w = x * w + w
      OBVIOUS
    <2>3. QED
      BY <2>1, <2>2
  <1>6. PICK a \in Nat, b \in Nat : a = q * w /\ b = p * w
    BY <1>4
  <1>7. (q < p => a + w <= b) /\ (p < q => b + w <= a) /\ (p = q => a = b)
    BY <1>4, <1>5, <1>6
  <1>8. Low(i, d+1) = a + r /\ Low(j, d+1) = b + t
    BY <1>1, <1>2, <1>3, <1>6
  <1>9. CASE descending
    <2>1. \A x \in Int : Signed(x) = -x
      BY <1>9 DEF Signed
    <2>2. -q < -p \/ (-q = -p /\ (-r < -t \/ (r = t /\ i < j)))
      BY <1>1, <1>2, <1>3, <1>4, <2>1 DEF LowAhead
    <2>3. -(a + r) < -(b + t) \/ (a + r = b + t /\ i < j)
      BY <1>3, <1>4, <1>7, <2>2
    <2>4. QED
      BY <1>3, <1>8, <2>1, <2>3 DEF LowAhead
  <1>10. CASE ~descending
    <2>1. \A x \in Int : Signed(x) = x
      BY <1>10 DEF Signed
    <2>2. q < p \/ (q = p /\ (r < t \/ (r = t /\ i < j)))
      BY <1>1, <1>2, <1>3, <1>4, <2>1 DEF LowAhead
    <2>3. a + r < b + t \/ (a + r = b + t /\ i < j)
      BY <1>3, <1>4, <1>7, <2>2
    <2>4. QED
      BY <1>3, <1>8, <2>1, <2>3 DEF LowAhead
  <1>11. QED
    BY <1>9, <1>10

(* No digit at all is 0, all the digits are the key.                       *)
LEMMA NoDigitsAllDigits ==
  ASSUME ColumnInv, NEW i, i \in DOMAIN vals
  PROVE  Low(i, 0) = 0 /\ Low(i, Digits) = SortKey(vals[i])
  <1>1. vals[i] \in 0..Full-1 /\ Full \in Nat \ {0}
    BY WordHalves DEF ColumnInv
  <1>2. SortKey(vals[i]) \in 0..Full-1
    BY <1>1, KeysAndNumbers
  <1>3. \A x \in Nat : x % 1 = 0
    OBVIOUS
  <1>4. SortKey(vals[i]) % Full = SortKey(vals[i])
    <2>1. \A x \in 0..Full-1 : x % Full = x
      BY <1>1
    <2>2. QED
      BY <1>2, <2>1
  <1>5. SortKey(vals[i]) \in Nat
    BY <1>1, <1>2
  <1>6. Low(i, 0) = 0
    BY <1>3, <1>5, WeightGrows DEF Low
  <1>7. QED
    BY <1>4, <1>6 DEF Low, Full

-----------------------------------------------------------------------------
(* Outcomes                                                                *)

TiesKept(t) ==
  \A k, l \in DOMAIN t : k < l /\ vals[t[k]] = vals[t[l]] => t[k] < t[l]

AllReversed(t) == \A k, l \in DOMAIN t : k < l => t[k] > t[l]

(* What the properties say of the list t of rows.                          *)
SortedOutcome(t) == ~HasNaN => InOrder(t, descending) /\ (TiesKept(t) \/ AllReversed(t))

ByRank(t) == \A k, l \in DOMAIN t : k < l => LowAhead(t[k], t[l], Digits)

RowsOK(t) == t \in Seq(Int) /\ \A k \in DOMAIN t : t[k] \in valid /\ t[k] \in DOMAIN vals

LEMMA RankOutcome ==
  ASSUME ColumnInv, NEW t, RowsOK(t), ByRank(t)
  PROVE  SortedOutcome(t)
  <1>1. DOMAIN t = 1..Len(t) /\ Len(t) \in Nat /\ \A k \in DOMAIN t : t[k] \in Int
    BY DEF RowsOK
  <1>2. \A k \in DOMAIN t : vals[t[k]] \in 0..Full-1 /\ t[k] \in valid
    BY DEF RowsOK, ColumnInv
  <1>3. \A k \in DOMAIN t : /\ SortKey(vals[t[k]]) \in Int /\ Low(t[k], Digits) = SortKey(vals[t[k]])
                            /\ Number(vals[t[k]]) \in Int
    <2> SUFFICES ASSUME NEW k \in DOMAIN t
                 PROVE  /\ SortKey(vals[t[k]]) \in Int /\ Low(t[k], Digits) = SortKey(vals[t[k]])
                        /\ Number(vals[t[k]]) \in Int
      OBVIOUS
    <2>1. vals[t[k]] \in 0..Full-1 /\ t[k] \in DOMAIN vals
      BY <1>2 DEF RowsOK
    <2>2. Low(t[k], Digits) = SortKey(vals[t[k]])
      BY <2>1, NoDigitsAllDigits
    <2>3. QED
      BY <2>1, <2>2, KeysAndNumbers
  <1>4. ASSUME NEW k \in DOMAIN t, NEW l \in DOMAIN t, k < l
        PROVE  /\ descending => SortKey(vals[t[l]]) <= SortKey(vals[t[k]])
               /\ ~descending => SortKey(vals[t[k]]) <= SortKey(vals[t[l]])
               /\ SortKey(vals[t[k]]) = SortKey(vals[t[l]]) => t[k] < t[l]
    <2>1. PICK x \in Int, y \in Int : x = SortKey(vals[t[k]]) /\ y = SortKey(vals[t[l]])
      BY <1>3
    <2>2. Signed(x) < Signed(y) \/ (x = y /\ t[k] < t[l])
      BY <1>3, <1>4, <2>1 DEF ByRank, LowAhead
    <2>3. CASE descending
      <3>1. -x < -y \/ (x = y /\ t[k] < t[l])
        BY <2>2, <2>3 DEF Signed
      <3>2. y < x \/ (x = y /\ t[k] < t[l])
        BY <3>1
      <3>3. QED
        BY <2>1, <2>3, <3>2
    <2>4. CASE ~descending
      <3>1. x < y \/ (x = y /\ t[k] < t[l])
        BY <2>2, <2>4 DEF Signed
      <3>2. QED
        BY <2>1, <2>4, <3>1
    <2>5. QED
      BY <2>3, <2>4
  <1>5. \A u, v \in 0..Full-1 : SortKey(u) <= SortKey(v) => Number(u) <= Number(v)
    BY KeysAndNumbers
  <1>6. InOrder(t, descending)
    <2> SUFFICES ASSUME NEW k \in 1..Len(t)-1
                 PROVE  IF descending THEN ~Less(vals[t[k]], vals[t[k+1]]) ELSE ~Less(vals[t[k+1]], vals[t[k]])
      BY DEF InOrder
    <2>1. k \in DOMAIN t /\ k+1 \in DOMAIN t /\ k < k+1
      BY <1>1
    <2>2. /\ descending => Number(vals[t[k+1]]) <= Number(vals[t[k]])
          /\ ~descending => Number(vals[t[k]]) <= Number(vals[t[k+1]])
      BY <1>2, <1>4, <1>5, <2>1
    <2>3. QED
      BY <1>3, <2>1, <2>2 DEF Less
  <1>7. TiesKept(t)
    BY <1>4 DEF TiesKept
  <1>8. QED
    BY <1>6, <1>7 DEF SortedOutcome

LEMMA RowsAscend ==
  ASSUME ColumnInv, RowsInv, pc # "partition", RadixOrdered, pass = 0
  PROVE  \A k, l \in DOMAIN nonNull : k < l => nonNull[k] < nonNull[l]
  <1> SUFFICES ASSUME NEW k \in DOMAIN nonNull, NEW l \in DOMAIN nonNull, k < l
               PROVE  nonNull[k] < nonNull[l]
    OBVIOUS
  <1>1. nonNull[k] \in DOMAIN vals /\ nonNull[l] \in DOMAIN vals
    BY RowsOfColumn DEF ColumnInv
  <1>2. Low(nonNull[k], 0) = 0 /\ Low(nonNull[l], 0) = 0
    BY <1>1, NoDigitsAllDigits
  <1>3. LowAhead(nonNull[k], nonNull[l], 0)
    BY DEF RadixOrdered
  <1>4. ~(Signed(0) < Signed(0))
    <2>1. PICK x : x = Signed(0)
      OBVIOUS
    <2>2. x \in Int
      BY <2>1, SignedInt
    <2>3. QED
      BY <2>1, <2>2
  <1>5. QED
    BY <1>2, <1>3, <1>4 DEF LowAhead

LEMMA CompareOutcome ==
  ASSUME ColumnInv, RowsInv, pc = "sort", RadixOrdered, pass = 0,
         NEW t, IsStableSort(t, nonNull, [k \in DOMAIN nonNull |-> Signed(NumberOrNaN(vals[nonNull[k]]))]),
         RowsOK(t)
  PROVE  SortedOutcome(t)
  <1> DEFINE D == DOMAIN nonNull
  <1>1. PICK w : w = [k \in D |-> Signed(NumberOrNaN(vals[nonNull[k]]))]
    OBVIOUS
  <1>2. /\ DOMAIN t = D
        /\ \E perm \in [D -> D] :
             /\ \A p \in D : t[p] = nonNull[perm[p]]
             /\ \A k \in D : \E p \in D : perm[p] = k
             /\ \A p, q \in D : p < q =>
                  \/ w[perm[p]] < w[perm[q]]
                  \/ w[perm[p]] = w[perm[q]] /\ perm[p] < perm[q]
    <2>1. IsStableSort(t, nonNull, w)
      BY <1>1
    <2>2. QED
      BY <2>1, Zenon DEF IsStableSort
  <1>3. PICK perm \in [D -> D] :
          /\ \A p \in D : t[p] = nonNull[perm[p]]
          /\ \A p, q \in D : p < q =>
               \/ w[perm[p]] < w[perm[q]]
               \/ w[perm[p]] = w[perm[q]] /\ perm[p] < perm[q]
    BY <1>2
  <1>4. /\ \A k, l \in D : k < l => nonNull[k] < nonNull[l]
        /\ D = 1..Len(nonNull) /\ Len(nonNull) \in Nat
        /\ \A k \in D : vals[nonNull[k]] \in 0..Full-1 /\ nonNull[k] \in valid
    BY RowsAscend, RowsOfColumn
  <1>5. ASSUME ~HasNaN, NEW p \in D, NEW q \in D, p < q
        PROVE  /\ descending => Number(vals[t[q]]) <= Number(vals[t[p]])
               /\ ~descending => Number(vals[t[p]]) <= Number(vals[t[q]])
               /\ Number(vals[t[p]]) = Number(vals[t[q]]) => t[p] < t[q]
    <2>1. perm[p] \in D /\ perm[q] \in D /\ t[p] = nonNull[perm[p]] /\ t[q] = nonNull[perm[q]]
      BY <1>3
    <2>2. /\ vals[t[p]] \in 0..Full-1 /\ ~IsNaN(vals[t[p]])
          /\ vals[t[q]] \in 0..Full-1 /\ ~IsNaN(vals[t[q]])
      BY <1>4, <1>5, <2>1 DEF HasNaN
    <2>3. PICK x \in Int, y \in Int : x = Number(vals[t[p]]) /\ y = Number(vals[t[q]])
      BY <2>2, KeysAndNumbers
    <2>4. w[perm[p]] = Signed(x) /\ w[perm[q]] = Signed(y)
      BY <1>1, <2>1, <2>2, <2>3 DEF NumberOrNaN
    <2>5. perm[p] < perm[q] => t[p] < t[q]
      BY <1>4, <2>1
    <2>6. Signed(x) < Signed(y) \/ (Signed(x) = Signed(y) /\ t[p] < t[q])
      BY <1>3, <1>5, <2>4, <2>5
    <2>7. CASE descending
      <3>1. -x < -y \/ (-x = -y /\ t[p] < t[q])
        BY <2>6, <2>7 DEF Signed
      <3>2. y < x \/ (x = y /\ t[p] < t[q])
        BY <3>1
      <3>3. QED
        BY <2>3, <2>7, <3>2
    <2>8. CASE ~descending
      <3>1. x < y \/ (x = y /\ t[p] < t[q])
        BY <2>6, <2>8 DEF Signed
      <3>2. QED
        BY <2>3, <2>8, <3>1
    <2>9. QED
      BY <2>7, <2>8
  <1>6. \A p \in D : Number(vals[t[p]]) \in Int
    <2> SUFFICES ASSUME NEW p \in D PROVE Number(vals[t[p]]) \in Int
      OBVIOUS
    <2>1. vals[t[p]] \in 0..Full-1
      BY <1>3, <1>4
    <2>2. QED
      BY <2>1, KeysAndNumbers
  <1>7. ASSUME ~HasNaN PROVE InOrder(t, descending)
    <2> SUFFICES ASSUME NEW k \in 1..Len(t)-1
                 PROVE  IF descending THEN ~Less(vals[t[k]], vals[t[k+1]]) ELSE ~Less(vals[t[k+1]], vals[t[k]])
      BY DEF InOrder
    <2>1. k \in D /\ k+1 \in D /\ k < k+1
      <3>1. DOMAIN t = 1..Len(t) /\ Len(t) \in Nat
        BY DEF RowsOK
      <3>2. k \in DOMAIN t /\ k+1 \in DOMAIN t /\ k < k+1
        BY <3>1
      <3>3. QED
        BY <1>2, <3>2
    <2>2. /\ descending => Number(vals[t[k+1]]) <= Number(vals[t[k]])
          /\ ~descending => Number(vals[t[k]]) <= Number(vals[t[k+1]])
      BY <1>5, <1>7, <2>1
    <2>3. QED
      BY <1>6, <2>1, <2>2 DEF Less
  <1>8. ASSUME ~HasNaN PROVE TiesKept(t)
    BY <1>2, <1>5, <1>8 DEF TiesKept
  <1>9. QED
    BY <1>7, <1>8 DEF SortedOutcome

(* Sorted data keeps its rows; data sorted the other way is reversed.      *)
LEMMA ShortcutOutcome ==
  ASSUME ColumnInv, RowsInv, pc = "shortcut", RadixOrdered, pass = 0,
         NEW t, t = Shortcut(nonNull), t # <<>>
  PROVE  /\ t \in Seq(valid) /\ Range(t) = Range(nonNull) /\ Len(t) = Len(nonNull)
         /\ SortedOutcome(t)
  <1>1. /\ \A k, l \in DOMAIN nonNull : k < l => nonNull[k] < nonNull[l]
        /\ DOMAIN nonNull = 1..Len(nonNull) /\ Len(nonNull) \in Nat /\ nonNull \in Seq(valid)
        /\ \A k \in DOMAIN nonNull : nonNull[k] \in valid /\ nonNull[k] \in Int
    BY RowsAscend, RowsOfColumn DEF RowsInv
  <1>2. CASE InOrder(nonNull, descending)
    <2>1. t = nonNull
      BY <1>2 DEF Shortcut
    <2>2. TiesKept(nonNull)
      BY <1>1 DEF TiesKept
    <2>3. QED
      BY <1>1, <1>2, <2>1, <2>2 DEF SortedOutcome
  <1>3. CASE ~InOrder(nonNull, descending)
    <2>1. InOrder(nonNull, ~descending) /\ t = Reverse(nonNull)
      BY <1>3 DEF Shortcut
    <2>2. PICK n \in Nat : n = Len(nonNull)
      BY <1>1
    <2>3. /\ t = [i \in 1..n |-> nonNull[(n - i) + 1]]
          /\ DOMAIN t = 1..n /\ \A i \in 1..n : t[i] = nonNull[(n - i) + 1] /\ (n - i) + 1 \in 1..n
      BY <2>1, <2>2 DEF Reverse
    <2>4. t \in Seq(valid) /\ Len(t) = n
      BY <1>1, <2>2, <2>3
    <2>5. Range(t) = Range(nonNull)
      <3>1. \A i \in 1..n : (n - i) + 1 \in 1..n /\ (n - ((n - i) + 1)) + 1 = i
        OBVIOUS
      <3>2. \A i \in 1..n : t[(n - i) + 1] = nonNull[i]
        BY <2>3, <3>1
      <3>3. \A x : x \in Range(t) <=> \E i \in 1..n : x = t[i]
        BY <2>3 DEF Range
      <3>4. \A x : x \in Range(nonNull) <=> \E i \in 1..n : x = nonNull[i]
        BY <1>1, <2>2 DEF Range
      <3>5. Range(t) \subseteq Range(nonNull)
        <4>1. ASSUME NEW i \in 1..n PROVE \E j \in 1..n : t[i] = nonNull[j]
          BY <2>3
        <4>2. QED
          BY <3>3, <3>4, <4>1
      <3>6. Range(nonNull) \subseteq Range(t)
        <4>1. ASSUME NEW i \in 1..n PROVE \E j \in 1..n : nonNull[i] = t[j]
          BY <3>1, <3>2
        <4>2. QED
          BY <3>3, <3>4, <4>1
      <3>7. QED
        BY <3>5, <3>6
    <2>6. ASSUME NEW k \in 1..n, NEW l \in 1..n, k < l PROVE t[k] > t[l]
      <3>1. (n - l) + 1 < (n - k) + 1 /\ (n - l) + 1 \in 1..n /\ (n - k) + 1 \in 1..n
        BY <2>6
      <3>2. nonNull[(n - l) + 1] < nonNull[(n - k) + 1]
        BY <1>1, <2>2, <3>1
      <3>3. QED
        BY <1>1, <2>2, <2>3, <3>1, <3>2
    <2>7. InOrder(t, descending)
      <3> SUFFICES ASSUME NEW k \in 1..n-1
                   PROVE  IF descending THEN ~Less(vals[t[k]], vals[t[k+1]]) ELSE ~Less(vals[t[k+1]], vals[t[k]])
        BY <2>4 DEF InOrder
      <3>1. PICK m \in 1..n-1 : m = n - k
        OBVIOUS
      <3>2. t[k] = nonNull[m+1] /\ t[k+1] = nonNull[m]
        <4>1. k \in 1..n /\ k+1 \in 1..n /\ (n - k) + 1 = m+1 /\ (n - (k+1)) + 1 = m
          BY <3>1
        <4>2. QED
          BY <2>3, <4>1
      <3>3. IF ~descending THEN ~Less(vals[nonNull[m]], vals[nonNull[m+1]])
                           ELSE ~Less(vals[nonNull[m+1]], vals[nonNull[m]])
        BY <2>1, <2>2 DEF InOrder
      <3>4. QED
        BY <3>2, <3>3
    <2>8. QED
      BY <2>2, <2>3, <2>4, <2>5, <2>6, <2>7 DEF SortedOutcome, AllReversed
  <1>4. QED
    BY <1>2, <1>3

-----------------------------------------------------------------------------
(* What each sort makes of the rows                                        *)

LEMMA StableRows ==
  ASSUME ColumnInv, RowsInv, pc # "partition",
         NEW w, NEW t, t = [p \in DOMAIN nonNull |-> t[p]], IsStableSort(t, nonNull, w)
  PROVE  /\ t \in Seq(valid) /\ Range(t) = valid /\ Len(t) = Len(nonNull)
         /\ RowsOK(t)
  <1>1. nonNull \in Seq(valid) /\ Range(nonNull) = valid
    BY DEF RowsInv
  <1>2. t \in Seq(valid) /\ Len(t) = Len(nonNull) /\ Range(t) = Range(nonNull)
    BY <1>1, SortKeepsElements
  <1>3. \A i \in valid : i \in DOMAIN vals /\ i \in Int
    BY DEF ColumnInv
  <1>4. \A k \in DOMAIN t : t[k] \in valid
    BY <1>2
  <1>5. t \in Seq(Int)
    <2>1. \A s : s \in Seq(valid) /\ (\A k \in DOMAIN s : s[k] \in Int) => s \in Seq(Int)
      OBVIOUS
    <2>2. QED
      BY <1>2, <1>3, <1>4, <2>1
  <1>6. QED
    BY <1>1, <1>2, <1>3, <1>4, <1>5 DEF RowsOK

(* A stable sort by the keys orders by all the digits.                     *)
LEMMA KeysOutcome ==
  ASSUME ColumnInv, RowsInv, pc = "radix", RadixOrdered, pass = 0,
         NEW t, IsStableSort(t, nonNull, [k \in DOMAIN nonNull |-> Signed(SortKey(vals[nonNull[k]]))]),
         RowsOK(t)
  PROVE  SortedOutcome(t)
  <1> DEFINE D == DOMAIN nonNull
  <1>1. PICK w : w = [k \in D |-> Signed(SortKey(vals[nonNull[k]]))]
    OBVIOUS
  <1>2. /\ DOMAIN t = D
        /\ \E perm \in [D -> D] :
             /\ \A p \in D : t[p] = nonNull[perm[p]]
             /\ \A k \in D : \E p \in D : perm[p] = k
             /\ \A p, q \in D : p < q =>
                  \/ w[perm[p]] < w[perm[q]]
                  \/ w[perm[p]] = w[perm[q]] /\ perm[p] < perm[q]
    <2>1. IsStableSort(t, nonNull, w)
      BY <1>1
    <2>2. QED
      BY <2>1, Zenon DEF IsStableSort
  <1>3. PICK perm \in [D -> D] :
          /\ \A p \in D : t[p] = nonNull[perm[p]]
          /\ \A p, q \in D : p < q =>
               \/ w[perm[p]] < w[perm[q]]
               \/ w[perm[p]] = w[perm[q]] /\ perm[p] < perm[q]
    BY <1>2
  <1>4. /\ \A k, l \in D : k < l => nonNull[k] < nonNull[l]
        /\ \A k \in D : vals[nonNull[k]] \in 0..Full-1 /\ nonNull[k] \in DOMAIN vals
    BY RowsAscend, RowsOfColumn DEF ColumnInv
  <1>5. ASSUME NEW p \in D, NEW q \in D, p < q PROVE LowAhead(t[p], t[q], Digits)
    <2>1. perm[p] \in D /\ perm[q] \in D /\ t[p] = nonNull[perm[p]] /\ t[q] = nonNull[perm[q]]
      BY <1>3
    <2>2. t[p] \in DOMAIN vals /\ t[q] \in DOMAIN vals
      BY <1>4, <2>1
    <2>3. /\ Low(t[p], Digits) = SortKey(vals[t[p]])
          /\ Low(t[q], Digits) = SortKey(vals[t[q]])
      BY <2>2, NoDigitsAllDigits
    <2>4. PICK x \in Int, y \in Int : x = SortKey(vals[t[p]]) /\ y = SortKey(vals[t[q]])
      <3>1. SortKey(vals[t[p]]) \in Int /\ SortKey(vals[t[q]]) \in Int
        BY <1>4, <2>1, KeysAndNumbers
      <3>2. QED
        BY <3>1
    <2>5. w[perm[p]] = Signed(x) /\ w[perm[q]] = Signed(y)
      BY <1>1, <2>1, <2>4
    <2>6. perm[p] < perm[q] => t[p] < t[q]
      BY <1>4, <2>1
    <2>7. Signed(x) < Signed(y) \/ (Signed(x) = Signed(y) /\ t[p] < t[q])
      BY <1>3, <1>5, <2>5, <2>6
    <2>8. Signed(x) = Signed(y) => x = y
      <3>1. CASE descending
        <4>1. Signed(x) = -x /\ Signed(y) = -y
          BY <3>1 DEF Signed
        <4>2. QED
          BY <4>1
      <3>2. CASE ~descending
        BY <3>2 DEF Signed
      <3>3. QED
        BY <3>1, <3>2
    <2>9. QED
      BY <2>3, <2>4, <2>7, <2>8 DEF LowAhead
  <1>6. ByRank(t)
    BY <1>2, <1>5 DEF ByRank
  <1>7. QED
    BY <1>6, RankOutcome

(* A pass leaves the rows ordered by one digit more.                       *)
LEMMA PassOrders ==
  ASSUME ColumnInv, RowsInv, pc = "radix", RadixOrdered, pass \in 0..Digits-1,
         NEW t, IsStableSort(t, nonNull, [k \in DOMAIN nonNull |-> Signed(Digit(vals[nonNull[k]], pass))])
  PROVE  \A k, l \in DOMAIN t : k < l => LowAhead(t[k], t[l], pass + 1)
  <1> DEFINE D == DOMAIN nonNull
  <1>1. PICK w : w = [k \in D |-> Signed(Digit(vals[nonNull[k]], pass))]
    OBVIOUS
  <1>2. /\ DOMAIN t = D
        /\ \E perm \in [D -> D] :
             /\ \A p \in D : t[p] = nonNull[perm[p]]
             /\ \A k \in D : \E p \in D : perm[p] = k
             /\ \A p, q \in D : p < q =>
                  \/ w[perm[p]] < w[perm[q]]
                  \/ w[perm[p]] = w[perm[q]] /\ perm[p] < perm[q]
    <2>1. IsStableSort(t, nonNull, w)
      BY <1>1
    <2>2. QED
      BY <2>1, Zenon DEF IsStableSort
  <1>3. PICK perm \in [D -> D] :
          /\ \A p \in D : t[p] = nonNull[perm[p]]
          /\ \A p, q \in D : p < q =>
               \/ w[perm[p]] < w[perm[q]]
               \/ w[perm[p]] = w[perm[q]] /\ perm[p] < perm[q]
    BY <1>2
  <1>4. \A k \in D : nonNull[k] \in DOMAIN vals
    BY RowsOfColumn DEF ColumnInv
  <1>5. ASSUME NEW p \in D, NEW q \in D, p < q PROVE LowAhead(t[p], t[q], pass + 1)
    <2>1. perm[p] \in D /\ perm[q] \in D /\ t[p] = nonNull[perm[p]] /\ t[q] = nonNull[perm[q]]
      BY <1>3
    <2>2. t[p] \in DOMAIN vals /\ t[q] \in DOMAIN vals
      BY <1>4, <2>1
    <2>3. /\ w[perm[p]] = Signed(Digit(vals[t[p]], pass))
          /\ w[perm[q]] = Signed(Digit(vals[t[q]], pass))
      BY <1>1, <2>1
    <2>4. perm[p] < perm[q] => LowAhead(t[p], t[q], pass)
      BY <2>1 DEF RadixOrdered
    <2>5. \/ Signed(Digit(vals[t[p]], pass)) < Signed(Digit(vals[t[q]], pass))
          \/ /\ Signed(Digit(vals[t[p]], pass)) = Signed(Digit(vals[t[q]], pass))
             /\ LowAhead(t[p], t[q], pass)
      BY <1>3, <1>5, <2>3, <2>4
    <2>6. QED
      BY <2>2, <2>5, OneDigitMore
  <1>6. QED
    BY <1>2, <1>5

(* The partition lists the rows that are not null in their order.          *)
LEMMA PartitionRows ==
  ASSUME ColumnInv, pass = 0, NEW t, t = RowList(valid)
  PROVE  /\ t \in Seq(valid) /\ Range(t) = valid /\ Len(t) = Cardinality(valid)
         /\ Len(t) \in Nat
         /\ \A k, l \in DOMAIN t : k < l => LowAhead(t[k], t[l], pass)
         /\ Len(t) <= 1 => SortedOutcome(t)
  <1>1. IsFiniteSet(valid) /\ \A x \in valid : x \in Int /\ x \in DOMAIN vals
    BY FS_Subset DEF ColumnInv
  <1>2. /\ t \in Seq(valid) /\ Len(t) = Cardinality(valid)
        /\ DOMAIN t = 1..Cardinality(valid) /\ Cardinality(valid) \in Nat
        /\ ToSet(t) = valid
        /\ \A k, l \in DOMAIN t : k < l => t[k] < t[l]
    BY <1>1, RowListAscends
  <1>3. Range(t) = valid
    BY <1>2 DEF Range, ToSet
  <1>4. ASSUME NEW k \in DOMAIN t, NEW l \in DOMAIN t, k < l PROVE LowAhead(t[k], t[l], pass)
    <2>1. t[k] \in DOMAIN vals /\ t[l] \in DOMAIN vals /\ t[k] < t[l]
      BY <1>1, <1>2, <1>4
    <2>2. Low(t[k], 0) = 0 /\ Low(t[l], 0) = 0
      BY <2>1, NoDigitsAllDigits
    <2>3. QED
      BY <2>1, <2>2 DEF LowAhead
  <1>5. TiesKept(t)
    BY <1>2 DEF TiesKept
  <1>6. Len(t) <= 1 => InOrder(t, descending)
    <2>1. Len(t) <= 1 => 1..Len(t)-1 = {}
      BY <1>2
    <2>2. QED
      BY <2>1 DEF InOrder
  <1>7. QED
    BY <1>2, <1>3, <1>4, <1>5, <1>6 DEF SortedOutcome

-----------------------------------------------------------------------------
(* The properties of a state                                               *)

LEMMA OutcomeShows ==
  SortedOutcome(nonNull) => SortedByNumber /\ TiesKeptOrAllReversed
  BY DEF SortedOutcome, SortedByNumber, TiesKeptOrAllReversed, TiesKept, AllReversed

LEMMA RadixShows ==
  ColumnInv /\ RowsInv /\ pc # "partition" /\ RadixOrdered => LowDigitsOrdered
  <1> SUFFICES ASSUME ColumnInv, RowsInv, pc # "partition", RadixOrdered,
                      NEW k \in DOMAIN nonNull, NEW l \in DOMAIN nonNull, k < l
               PROVE  IF descending THEN Low(nonNull[k], pass) >= Low(nonNull[l], pass)
                                    ELSE Low(nonNull[k], pass) <= Low(nonNull[l], pass)
    BY DEF LowDigitsOrdered, Low
  <1>1. LowAhead(nonNull[k], nonNull[l], pass)
    BY DEF RadixOrdered
  <1>2. \A i \in DOMAIN vals : Low(i, pass) \in Int
    <2> SUFFICES ASSUME NEW i \in DOMAIN vals PROVE Low(i, pass) \in Int
      OBVIOUS
    <2>1. vals[i] \in 0..Full-1 /\ Full \in Nat /\ Weight[pass] \in Nat \ {0}
      BY WordHalves, WeightType DEF ColumnInv
    <2>2. SortKey(vals[i]) \in 0..Full-1
      BY <2>1, KeysAndNumbers
    <2>3. PICK x \in Nat, y \in Nat \ {0} : x = SortKey(vals[i]) /\ y = Weight[pass]
      BY <2>1, <2>2
    <2>4. x % y \in Int
      BY DivMod
    <2>5. QED
      BY <2>3, <2>4 DEF Low
  <1>3. nonNull[k] \in DOMAIN vals /\ nonNull[l] \in DOMAIN vals
    BY RowsOfColumn DEF ColumnInv
  <1>4. PICK x \in Int, y \in Int : x = Low(nonNull[k], pass) /\ y = Low(nonNull[l], pass)
    BY <1>2, <1>3
  <1>5. Signed(x) < Signed(y) \/ x = y
    BY <1>1, <1>4 DEF LowAhead
  <1>6. CASE descending
    <2>1. -x < -y \/ x = y
      BY <1>5, <1>6 DEF Signed
    <2>2. x >= y
      BY <2>1
    <2>3. QED
      BY <1>4, <1>6, <2>2
  <1>7. CASE ~descending
    <2>1. x < y \/ x = y
      BY <1>5, <1>7 DEF Signed
    <2>2. x <= y
      BY <2>1
    <2>3. QED
      BY <1>4, <1>7, <2>2
  <1>8. QED
    BY <1>6, <1>7

LEMMA LastPassShows ==
  ColumnInv /\ RowsInv /\ pc = "done" /\ RadixOrdered /\ pass = Digits => SortedOutcome(nonNull)
  <1> SUFFICES ASSUME ColumnInv, RowsInv, pc = "done", RadixOrdered, pass = Digits
               PROVE  SortedOutcome(nonNull)
    OBVIOUS
  <1>1. RowsOK(nonNull)
    BY RowsOfColumn DEF RowsOK, ColumnInv
  <1>2. ByRank(nonNull)
    BY DEF ByRank, RadixOrdered
  <1>3. QED
    BY <1>1, <1>2, RankOutcome

-----------------------------------------------------------------------------
(* The steps                                                               *)

ColumnUnchanged == UNCHANGED <<dtype, vals, valid, descending>>

LEMMA KeySortIsFunction ==
  ASSUME NEW t, t = StableSort(nonNull, LAMBDA a, b : Directed(LAMBDA x, y : SortKey(x) < SortKey(y), a, b))
  PROVE  t = [p \in DOMAIN nonNull |-> t[p]]
  <1> DEFINE before(a, b) == Directed(LAMBDA x, y : SortKey(x) < SortKey(y), a, b)
             row(p) == nonNull[CHOOSE k \in DOMAIN nonNull : Cardinality({l \in DOMAIN nonNull :
                          \/ before(vals[nonNull[l]], vals[nonNull[k]])
                          \/ ~before(vals[nonNull[k]], vals[nonNull[l]]) /\ l < k}) = p - 1]
  <1>1. t = [p \in DOMAIN nonNull |-> row(p)]
    BY DEF StableSort
  <1> HIDE DEF row
  <1>2. QED
    BY <1>1

LEMMA ScatterIsFunction ==
  ASSUME NEW t, t = Scatter(nonNull, pass)
  PROVE  t = [p \in DOMAIN nonNull |-> t[p]]
  <1> DEFINE before(a, b) == Directed(LAMBDA x, y : Digit(x, pass) < Digit(y, pass), a, b)
             row(p) == nonNull[CHOOSE k \in DOMAIN nonNull : Cardinality({l \in DOMAIN nonNull :
                          \/ before(vals[nonNull[l]], vals[nonNull[k]])
                          \/ ~before(vals[nonNull[k]], vals[nonNull[l]]) /\ l < k}) = p - 1]
  <1>1. t = [p \in DOMAIN nonNull |-> row(p)]
    BY DEF StableSort, Scatter
  <1> HIDE DEF row
  <1>2. QED
    BY <1>1

LEMMA SameMeaning ==
  ASSUME ColumnUnchanged
  PROVE  /\ \A i, d : Low(i, d)' = Low(i, d)
         /\ \A x : Signed(x)' = Signed(x)
         /\ \A u : IsNaN(u)' <=> IsNaN(u)
         /\ \A u, v : Less(u, v)' <=> Less(u, v)
  <1>1. dtype' = dtype /\ vals' = vals /\ descending' = descending
    BY DEF ColumnUnchanged
  <1>2. \A v : SortKey(v)' = SortKey(v)
    BY <1>1 DEF SortKey
  <1>3. ASSUME NEW i, NEW d PROVE Low(i, d)' = Low(i, d)
    <2>1. Low(i, d)' = SortKey(vals[i])' % Weight[d]
      BY DEF Low
    <2>2. SortKey(vals[i])' = SortKey(vals[i])
      BY <1>1 DEF SortKey
    <2>3. QED
      BY <2>1, <2>2 DEF Low
  <1>4. \A u : IsNaN(u)' <=> IsNaN(u)
    BY <1>1 DEF IsNaN
  <1>5. \A u : Number(u)' = Number(u)
    BY <1>1 DEF Number
  <1>6. \A u, v : Less(u, v)' <=> Less(u, v)
    BY <1>4, <1>5 DEF Less
  <1>7. \A x : Signed(x)' = Signed(x)
    BY <1>1 DEF Signed
  <1>8. QED
    BY <1>3, <1>4, <1>6, <1>7

LEMMA SameOrder ==
  ASSUME ColumnUnchanged, NEW d, pass' = d,
         \A k, l \in DOMAIN nonNull' : k < l => LowAhead(nonNull'[k], nonNull'[l], d)
  PROVE  RadixOrdered'
  <1>1. \A i, j, e : LowAhead(i, j, e)' <=> LowAhead(i, j, e)
    <2>1. SUFFICES ASSUME NEW i, NEW j, NEW e
                   PROVE LowAhead(i, j, e)' <=> LowAhead(i, j, e)
      OBVIOUS
    <2>2. PICK x, y : x = Low(i, e) /\ y = Low(j, e)
      OBVIOUS
    <2>3. Low(i, e)' = x /\ Low(j, e)' = y
      BY <2>2, SameMeaning
    <2>4. Signed(x)' = Signed(x) /\ Signed(y)' = Signed(y)
      BY SameMeaning
    <2>5. Signed(Low(i, e))' = Signed(x)' /\ Signed(Low(j, e))' = Signed(y)'
      BY <2>3 DEF Signed
    <2>6. Signed(Low(i, e)) = Signed(x) /\ Signed(Low(j, e)) = Signed(y)
      BY <2>2
    <2>7. QED
      BY <2>2, <2>3, <2>4, <2>5, <2>6, Zenon DEF LowAhead
  <1>2. \A i, j, e, k, l : i = nonNull[k]' /\ j = nonNull[l]' /\ e = pass' =>
           (LowAhead(i, j, e)' <=> LowAhead(nonNull[k], nonNull[l], pass)')
    BY DEF LowAhead, Low, Signed
  <1>3. QED
    BY <1>1, <1>2 DEF RadixOrdered

LEMMA OutcomeIs ==
  SortedOutcome(nonNull) <=>
    HasNaN \/ (InOrder(nonNull, descending) /\ (TiesKept(nonNull) \/ AllReversed(nonNull)))
  BY DEF SortedOutcome

LEMMA SameOutcome ==
  ASSUME ColumnUnchanged, NEW t, nonNull' = t, SortedOutcome(t)
  PROVE  SortedOutcome(nonNull)'
  <1>1. vals' = vals /\ valid' = valid /\ descending' = descending
    BY DEF ColumnUnchanged
  <1>2. InOrder(t, descending) => InOrder(nonNull, descending)'
    <2> SUFFICES ASSUME InOrder(t, descending), NEW k \in 1..Len(t)-1
                 PROVE  IF descending THEN ~Less(vals[nonNull[k]], vals[nonNull[k+1]])'
                                      ELSE ~Less(vals[nonNull[k+1]], vals[nonNull[k]])'
      BY <1>1 DEF InOrder
    <2>1. \A u, v, i, j : u = vals[nonNull[i]]' /\ v = vals[nonNull[j]]' =>
             (Less(u, v)' <=> Less(vals[nonNull[i]], vals[nonNull[j]])')
      BY DEF Less, IsNaN, Number
    <2>2. PICK i : i = k+1
      OBVIOUS
    <2>3. IF descending THEN ~Less(vals[t[k]], vals[t[i]]) ELSE ~Less(vals[t[i]], vals[t[k]])
      BY <2>2 DEF InOrder
    <2>4. IF descending THEN ~Less(vals[nonNull[k]], vals[nonNull[i]])'
                        ELSE ~Less(vals[nonNull[i]], vals[nonNull[k]])'
      BY <1>1, <2>1, <2>3, SameMeaning
    <2>5. QED
      BY <2>2, <2>4
  <1>3. /\ TiesKept(t) => TiesKept(nonNull)'
        /\ AllReversed(t) => AllReversed(nonNull)'
    BY <1>1 DEF TiesKept, AllReversed
  <1>4. SortedOutcome(t) => HasNaN \/ (InOrder(t, descending) /\ (TiesKept(t) \/ AllReversed(t)))
    BY DEF SortedOutcome
  <1>5. \/ HasNaN
        \/ InOrder(nonNull, descending)' /\ (TiesKept(nonNull)' \/ AllReversed(nonNull)')
    BY <1>2, <1>3, <1>4
  <1>6. HasNaN => HasNaN'
    <2>1. \A i, u : u = vals[i]' => (IsNaN(u)' <=> IsNaN(vals[i])')
      BY DEF IsNaN
    <2>2. QED
      BY <1>1, <2>1, SameMeaning DEF HasNaN
  <1>7. (HasNaN \/ (InOrder(nonNull, descending) /\ (TiesKept(nonNull) \/ AllReversed(nonNull))))'
    BY <1>5, <1>6
  <1>8. QED
    BY <1>7, OutcomeIs, PTL

LEMMA SameColumn ==
  ASSUME ColumnInv, ColumnUnchanged, pass' \in 0..Digits,
         pc' \in {"partition", "shortcut", "sort", "radix", "done"}
  PROVE  ColumnInv'
  BY DEF ColumnInv, ColumnUnchanged

(* A sort that puts the rows in order in one go.                           *)
LEMMA OrderedAtOnce ==
  ASSUME SortInv, ColumnUnchanged, pc # "partition", pc' = "done", pass = 0, UNCHANGED <<nulls, pass>>,
         NEW t, nonNull' = t, t \in Seq(valid), Range(t) = valid, Len(t) = Len(nonNull),
         SortedOutcome(t)
  PROVE  SortInv'
  <1>1. ColumnInv'
    <2>1. pass' \in 0..Digits
      BY DEF SortInv, ColumnInv
    <2>2. QED
      BY <2>1, SameColumn DEF SortInv
  <1>2. RowsInv'
    BY DEF SortInv, RowsInv, ColumnUnchanged
  <1>3. SortedOutcome(nonNull)'
    BY SameOutcome
  <1>4. (SortedByNumber /\ TiesKeptOrAllReversed)'
    BY <1>3, OutcomeShows, PTL
  <1>5. LowDigitsOrdered'
    BY DEF LowDigitsOrdered
  <1>6. OrderInv'
    BY <1>4, <1>5 DEF OrderInv
  <1>7. QED
    BY <1>1, <1>2, <1>6 DEF SortInv

LEMMA InitSortInv == Init => SortInv
  <1> SUFFICES ASSUME Init PROVE SortInv
    OBVIOUS
  <1>1. PICK n \in Lengths : vals \in [0..n-1 -> Patterns[dtype]] /\ valid \in SUBSET (0..n-1)
    BY DEF Init
  <1>2. n \in Nat /\ IsFiniteSet(0..n-1)
    <2>1. n \in Nat
      BY SortAssumption
    <2>2. QED
      BY <2>1, FS_Interval
  <1>3. Patterns[dtype] \subseteq 0..Full-1
    BY SortAssumption DEF Init, Full
  <1>4. ColumnInv
    BY <1>1, <1>2, <1>3, SortAssumption DEF Init, ColumnInv
  <1>5. RowsInv
    BY DEF Init, RowsInv
  <1>6. OrderInv
    BY DEF Init, OrderInv
  <1>7. QED
    BY <1>4, <1>5, <1>6 DEF SortInv

LEMMA PartitionStep ==
  ASSUME SortInv, Partition
  PROVE  SortInv'
  <1>1. /\ ColumnInv /\ pass = 0 /\ ColumnUnchanged /\ pass' = pass
        /\ nonNull' = RowList(valid) /\ nulls' = RowList(DOMAIN vals \ valid)
        /\ pc' = IF Len(nonNull') <= 1 THEN "done" ELSE IF dtype = "int16" THEN "sort" ELSE "shortcut"
    BY DEF SortInv, OrderInv, Partition, ColumnUnchanged
  <1>2. PICK t : t = RowList(valid)
    OBVIOUS
  <1>3. /\ t \in Seq(valid) /\ Range(t) = valid /\ Len(t) = Cardinality(valid)
        /\ Len(t) \in Nat
        /\ \A k, l \in DOMAIN t : k < l => LowAhead(t[k], t[l], pass)
        /\ Len(t) <= 1 => SortedOutcome(t)
    BY <1>1, <1>2, PartitionRows
  <1>4. nonNull' = t
    BY <1>1, <1>2
  <1>5. ColumnInv'
    <2>1. pass' \in 0..Digits /\ pc' \in {"partition", "shortcut", "sort", "radix", "done"}
      BY <1>1 DEF ColumnInv
    <2>2. QED
      BY <1>1, <2>1, SameColumn
  <1>6. RowsInv'
    BY <1>1, <1>3, <1>4 DEF RowsInv, ColumnUnchanged
  <1>7. RadixOrdered'
    BY <1>1, <1>3, <1>4, SameOrder
  <1>8. Len(t) <= 1 => (SortedByNumber /\ TiesKeptOrAllReversed)'
    <2>1. Len(t) <= 1 => SortedOutcome(nonNull)'
      BY <1>1, <1>3, <1>4, SameOutcome
    <2>2. SortedOutcome(nonNull)' => (SortedByNumber /\ TiesKeptOrAllReversed)'
      BY OutcomeShows, PTL
    <2>3. QED
      BY <2>1, <2>2
  <1>9. LowDigitsOrdered'
    BY <1>1 DEF LowDigitsOrdered
  <1>10. pc' = "done" => Len(t) <= 1
    BY <1>1, <1>4
  <1>11. OrderInv'
    BY <1>1, <1>4, <1>7, <1>8, <1>9, <1>10 DEF OrderInv
  <1>12. QED
    BY <1>5, <1>6, <1>11 DEF SortInv

LEMMA TakeShortcutStep ==
  ASSUME SortInv, TakeShortcut
  PROVE  SortInv'
  <1>1. /\ ColumnInv /\ RowsInv /\ RadixOrdered /\ pass = 0 /\ pc = "shortcut"
        /\ ColumnUnchanged /\ UNCHANGED <<nulls, pass>> /\ pc' = "done"
    BY DEF SortInv, OrderInv, TakeShortcut, ColumnUnchanged
  <1>2. PICK t : t = Shortcut(nonNull) /\ t # <<>> /\ nonNull' = t
    BY DEF TakeShortcut
  <1>3. /\ t \in Seq(valid) /\ Range(t) = valid /\ Len(t) = Len(nonNull)
        /\ SortedOutcome(t)
    BY <1>1, <1>2, ShortcutOutcome DEF RowsInv
  <1>4. QED
    BY <1>1, <1>2, <1>3, OrderedAtOnce

LEMMA NoShortcutStep ==
  ASSUME SortInv, NoShortcut
  PROVE  SortInv'
  <1>1. /\ ColumnInv /\ RowsInv /\ RadixOrdered /\ pass = 0 /\ pc = "shortcut"
        /\ ColumnUnchanged /\ UNCHANGED <<nonNull, nulls, pass>> /\ pc' \in {"sort", "radix"}
    BY DEF SortInv, OrderInv, NoShortcut, ColumnUnchanged
  <1>2. ColumnInv'
    <2>1. pass' \in 0..Digits
      BY <1>1 DEF ColumnInv
    <2>2. QED
      BY <1>1, <2>1, SameColumn
  <1>3. RowsInv'
    BY <1>1 DEF RowsInv, ColumnUnchanged
  <1>4. RadixOrdered'
    <2>1. \A k, l \in DOMAIN nonNull' : k < l => LowAhead(nonNull'[k], nonNull'[l], pass)
      BY <1>1 DEF RadixOrdered
    <2>2. QED
      BY <1>1, <2>1, SameOrder
  <1>5. OrderInv'
    BY <1>1, <1>4 DEF OrderInv
  <1>6. QED
    BY <1>2, <1>3, <1>5 DEF SortInv

LEMMA CompareSortStep ==
  ASSUME SortInv, CompareSort
  PROVE  SortInv'
  <1>1. /\ ColumnInv /\ RowsInv /\ RadixOrdered /\ pass = 0 /\ pc = "sort"
        /\ ColumnUnchanged /\ UNCHANGED <<nulls, pass>> /\ pc' = "done"
    BY DEF SortInv, OrderInv, CompareSort, ColumnUnchanged
  <1>2. \E t : /\ nonNull' = t /\ t = [p \in DOMAIN nonNull |-> t[p]]
               /\ IsStableSort(t, nonNull, [k \in DOMAIN nonNull |-> Signed(NumberOrNaN(vals[nonNull[k]]))])
    <2>1. PICK t : nonNull' = t /\ t = StableSort(nonNull, LAMBDA a, b : Directed(Below, a, b))
      BY DEF CompareSort
    <2>2. t = [p \in DOMAIN nonNull |-> t[p]]
      BY <2>1 DEF StableSort
    <2>3. IsStableSort(t, nonNull, [k \in DOMAIN nonNull |-> Signed(NumberOrNaN(vals[nonNull[k]]))])
      BY <1>1, <2>1, CompareSortIsStable
    <2>4. QED
      BY <2>1, <2>2, <2>3
  <1>3. PICK t : /\ nonNull' = t /\ t = [p \in DOMAIN nonNull |-> t[p]]
                 /\ IsStableSort(t, nonNull, [k \in DOMAIN nonNull |-> Signed(NumberOrNaN(vals[nonNull[k]]))])
    BY <1>2
  <1>4. t \in Seq(valid) /\ Range(t) = valid /\ Len(t) = Len(nonNull) /\ RowsOK(t)
    BY <1>1, <1>3, StableRows
  <1>5. SortedOutcome(t)
    BY <1>1, <1>3, <1>4, CompareOutcome
  <1>6. QED
    BY <1>1, <1>3, <1>4, <1>5, OrderedAtOnce

LEMMA KeySortStep ==
  ASSUME SortInv, KeySort
  PROVE  SortInv'
  <1>1. /\ ColumnInv /\ RowsInv /\ RadixOrdered /\ pass = 0 /\ pc = "radix"
        /\ ColumnUnchanged /\ UNCHANGED <<nulls, pass>> /\ pc' = "done"
    BY DEF SortInv, OrderInv, KeySort, ColumnUnchanged
  <1>2. \E t : /\ nonNull' = t /\ t = [p \in DOMAIN nonNull |-> t[p]]
               /\ IsStableSort(t, nonNull, [k \in DOMAIN nonNull |-> Signed(SortKey(vals[nonNull[k]]))])
    <2>1. PICK t : /\ nonNull' = t
                   /\ t = StableSort(nonNull, LAMBDA a, b : Directed(LAMBDA x, y : SortKey(x) < SortKey(y), a, b))
      BY DEF KeySort
    <2>2. t = [p \in DOMAIN nonNull |-> t[p]]
      BY <2>1, KeySortIsFunction
    <2>3. IsStableSort(t, nonNull, [k \in DOMAIN nonNull |-> Signed(SortKey(vals[nonNull[k]]))])
      BY <1>1, <2>1, KeySortIsStable
    <2>4. QED
      BY <2>1, <2>2, <2>3
  <1>3. PICK t : /\ nonNull' = t /\ t = [p \in DOMAIN nonNull |-> t[p]]
                 /\ IsStableSort(t, nonNull, [k \in DOMAIN nonNull |-> Signed(SortKey(vals[nonNull[k]]))])
    BY <1>2
  <1>4. t \in Seq(valid) /\ Range(t) = valid /\ Len(t) = Len(nonNull) /\ RowsOK(t)
    BY <1>1, <1>3, StableRows
  <1>5. SortedOutcome(t)
    BY <1>1, <1>3, <1>4, KeysOutcome
  <1>6. QED
    BY <1>1, <1>3, <1>4, <1>5, OrderedAtOnce

LEMMA RadixPassStep ==
  ASSUME SortInv, RadixPass
  PROVE  SortInv'
  <1>1. /\ ColumnInv /\ RowsInv /\ RadixOrdered /\ pc = "radix" /\ pass \in 0..Digits-1
        /\ Len(nonNull) >= RadixMin
        /\ ColumnUnchanged /\ nulls' = nulls /\ pass' = pass + 1
        /\ pc' = IF pass' = Digits THEN "done" ELSE "radix"
    <2>1. pass \in 0..Digits /\ pass < Digits
      BY DEF SortInv, ColumnInv, RadixPass
    <2>2. pass \in 0..Digits-1
      BY <2>1, SortAssumption
    <2>3. QED
      BY <2>2 DEF SortInv, OrderInv, RadixPass, ColumnUnchanged
  <1>2. \E t : /\ nonNull' = t /\ t = [p \in DOMAIN nonNull |-> t[p]]
               /\ IsStableSort(t, nonNull, [k \in DOMAIN nonNull |-> Signed(Digit(vals[nonNull[k]], pass))])
    <2>1. PICK t : nonNull' = t /\ t = Scatter(nonNull, pass)
      BY DEF RadixPass
    <2>2. t = [p \in DOMAIN nonNull |-> t[p]]
      BY <2>1, ScatterIsFunction
    <2>3. IsStableSort(t, nonNull, [k \in DOMAIN nonNull |-> Signed(Digit(vals[nonNull[k]], pass))])
      BY <1>1, <2>1, PassIsStable
    <2>4. QED
      BY <2>1, <2>2, <2>3
  <1>3. PICK t : /\ nonNull' = t /\ t = [p \in DOMAIN nonNull |-> t[p]]
                 /\ IsStableSort(t, nonNull, [k \in DOMAIN nonNull |-> Signed(Digit(vals[nonNull[k]], pass))])
    BY <1>2
  <1>4. t \in Seq(valid) /\ Range(t) = valid /\ Len(t) = Len(nonNull)
    BY <1>1, <1>3, StableRows
  <1>5. RadixOrdered'
    <2>1. \A k, l \in DOMAIN t : k < l => LowAhead(t[k], t[l], pass + 1)
      BY <1>1, <1>3, PassOrders
    <2>2. PICK d : d = pass + 1
      OBVIOUS
    <2>3. \A k, l \in DOMAIN nonNull' : k < l => LowAhead(nonNull'[k], nonNull'[l], d)
      BY <1>3, <2>1, <2>2
    <2>4. QED
      BY <1>1, <2>2, <2>3, SameOrder
  <1>6. ColumnInv'
    <2>1. pass' \in 0..Digits /\ pc' \in {"partition", "shortcut", "sort", "radix", "done"}
      <3>1. \A d \in 0..Digits-1 : d + 1 \in 0..Digits
        BY SortAssumption
      <3>2. QED
        BY <1>1, <3>1
    <2>2. QED
      BY <1>1, <2>1, SameColumn
  <1>7. RowsInv'
    BY <1>1, <1>3, <1>4 DEF RowsInv, ColumnUnchanged
  <1>8. LowDigitsOrdered'
    <2>1. (ColumnInv /\ RowsInv /\ pc # "partition" /\ RadixOrdered)'
      BY <1>1, <1>5, <1>6, <1>7
    <2>2. QED
      BY <2>1, RadixShows, PTL
  <1>9. pc' = "done" => (SortedByNumber /\ TiesKeptOrAllReversed)'
    <2>1. pc' = "done" => (ColumnInv /\ RowsInv /\ pc = "done" /\ RadixOrdered /\ pass = Digits)'
      BY <1>1, <1>5, <1>6, <1>7
    <2>2. QED
      BY <2>1, LastPassShows, OutcomeShows, PTL
  <1>10. ~(Len(nonNull') < RadixMin)
    <2>1. Len(nonNull) \in Nat
      BY <1>1, RowsOfColumn
    <2>2. PICK n \in Nat : n = Len(nonNull)
      BY <2>1
    <2>3. n >= RadixMin /\ Len(nonNull') = n
      BY <1>1, <1>3, <1>4, <2>2
    <2>4. ~(n < RadixMin)
      BY <2>3, SortAssumption
    <2>5. QED
      BY <2>3, <2>4
  <1>11. pc' \in {"radix", "done"}
    BY <1>1
  <1>12. OrderInv'
    BY <1>5, <1>8, <1>9, <1>10, <1>11 DEF OrderInv
  <1>13. QED
    BY <1>6, <1>7, <1>12 DEF SortInv

LEMMA StutterStep ==
  ASSUME SortInv, UNCHANGED vars
  PROVE  SortInv'
  <1>1. /\ ColumnUnchanged /\ UNCHANGED <<pc, nonNull, nulls, pass>>
    BY DEF vars, ColumnUnchanged
  <1>2. ColumnInv'
    <2>1. pass' \in 0..Digits /\ pc' \in {"partition", "shortcut", "sort", "radix", "done"}
      BY <1>1 DEF SortInv, ColumnInv
    <2>2. QED
      BY <1>1, <2>1, SameColumn DEF SortInv
  <1>3. RowsInv'
    BY <1>1 DEF SortInv, RowsInv, ColumnUnchanged
  <1>4. RadixOrdered => RadixOrdered'
    <2>1. RadixOrdered => \A k, l \in DOMAIN nonNull' : k < l => LowAhead(nonNull'[k], nonNull'[l], pass)
      BY <1>1 DEF RadixOrdered
    <2>2. QED
      BY <1>1, <2>1, SameOrder
  <1>5. UNCHANGED <<SortedByNumber, TiesKeptOrAllReversed, LowDigitsOrdered>>
    BY DEF vars, SortedByNumber, TiesKeptOrAllReversed, LowDigitsOrdered, HasNaN, IsNaN, InOrder,
           Less, Number, SortKey
  <1>6. OrderInv'
    BY <1>1, <1>4, <1>5 DEF SortInv, OrderInv
  <1>7. QED
    BY <1>2, <1>3, <1>6 DEF SortInv

-----------------------------------------------------------------------------
(* Theorems                                                                *)

(* A sort holds, through every shortcut and pass, the rows of its column,  *)
(* ordered by the digits it has seen and by row where these are equal.     *)
THEOREM SortInvariant == Spec => []SortInv
  <1>1. Init => SortInv
    BY InitSortInv
  <1>2. SortInv /\ [Next]_vars => SortInv'
    <2> SUFFICES ASSUME SortInv, [Next]_vars PROVE SortInv'
      OBVIOUS
    <2>1. CASE Partition
      BY <2>1, PartitionStep
    <2>2. CASE TakeShortcut
      BY <2>2, TakeShortcutStep
    <2>3. CASE NoShortcut
      BY <2>3, NoShortcutStep
    <2>4. CASE CompareSort
      BY <2>4, CompareSortStep
    <2>5. CASE KeySort
      BY <2>5, KeySortStep
    <2>6. CASE RadixPass
      BY <2>6, RadixPassStep
    <2>7. CASE Finished \/ UNCHANGED vars
      BY <2>7, StutterStep DEF Finished
    <2>8. QED
      BY <2>1, <2>2, <2>3, <2>4, <2>5, <2>6, <2>7 DEF Next
  <1>3. QED
    BY <1>1, <1>2, PTL DEF Spec

(* The rows that are not null and the null rows are all the rows.          *)
LEMMA RowsComplete == SortInv => NoRowLost
  <1> SUFFICES ASSUME SortInv, pc # "partition"
               PROVE  /\ Len(Result) = Cardinality(DOMAIN vals)
                      /\ Range(Result) = DOMAIN vals
                      /\ Range(nonNull) = valid
                      /\ \A k, l \in DOMAIN nulls : k < l => nulls[k] < nulls[l]
    BY DEF NoRowLost
  <1>1. PICK D, N : D = DOMAIN vals /\ N = D \ valid
    OBVIOUS
  <1>2. /\ IsFiniteSet(D) /\ valid \subseteq D /\ \A i \in D : i \in Int
        /\ nonNull \in Seq(valid) /\ Range(nonNull) = valid /\ Len(nonNull) = Cardinality(valid)
        /\ nulls = RowList(N)
    BY <1>1 DEF SortInv, ColumnInv, RowsInv
  <1>3. IsFiniteSet(N) /\ IsFiniteSet(valid) /\ \A i \in N : i \in Int
    BY <1>1, <1>2, FS_Subset
  <1>4. /\ nulls \in Seq(N) /\ Len(nulls) = Cardinality(N) /\ ToSet(nulls) = N
        /\ \A k, l \in DOMAIN nulls : k < l => nulls[k] < nulls[l]
    BY <1>2, <1>3, RowListAscends
  <1>5. nonNull \in Seq(D) /\ nulls \in Seq(D)
    <2>1. \A s, A : s \in Seq(A) /\ A \subseteq D => s \in Seq(D)
      OBVIOUS
    <2>2. N \subseteq D
      BY <1>1
    <2>3. QED
      BY <1>2, <1>4, <2>1, <2>2
  <1>6. Range(Result) = D
    <2>1. /\ Result \in Seq(D)
          /\ ToSet(Result) = ToSet(nonNull) \cup ToSet(nulls)
      BY <1>5, ConcatElements DEF Result
    <2>2. ToSet(nonNull) = valid
      BY <1>2 DEF ToSet, Range
    <2>3. ToSet(Result) = D
      BY <1>1, <1>2, <1>4, <2>1, <2>2
    <2>4. QED
      BY <2>3 DEF ToSet, Range
  <1>7. Len(Result) = Cardinality(D)
    <2>1. Len(Result) = Len(nonNull) + Len(nulls)
      BY <1>5 DEF Result
    <2>2. D = valid \cup N /\ valid \cap N = {}
      BY <1>1, <1>2
    <2>3. Cardinality(D) = Cardinality(valid) + Cardinality(N)
      <3>1. Cardinality(valid \cup N) = Cardinality(valid) + Cardinality(N) - Cardinality(valid \cap N)
        BY <1>3, FS_Union
      <3>2. Cardinality({}) = 0 /\ Cardinality(valid) \in Nat /\ Cardinality(N) \in Nat
        BY <1>3, FS_EmptySet, FS_CardinalityType
      <3>3. QED
        BY <2>2, <3>1, <3>2
    <2>4. QED
      BY <1>2, <1>4, <2>1, <2>3
  <1>8. QED
    BY <1>1, <1>2, <1>4, <1>6, <1>7

(* The sort of a column names every row once and puts the null rows last,  *)
(* in row order, whichever path it takes.                                  *)
THEOREM RowsKept == Spec => []NoRowLost
  BY SortInvariant, RowsComplete, PTL

(* After k passes of the radix sort the rows are ordered by the k low      *)
(* digits of their keys.                                                   *)
THEOREM PassesFromLowToHigh == Spec => []LowDigitsOrdered
  <1>1. SortInv => LowDigitsOrdered
    <2> SUFFICES ASSUME SortInv PROVE LowDigitsOrdered
      OBVIOUS
    <2>1. CASE pc \in {"partition", "shortcut", "sort"}
      BY <2>1 DEF SortInv, OrderInv, LowDigitsOrdered
    <2>2. CASE pc = "radix"
      BY <2>2, RadixShows DEF SortInv, OrderInv
    <2>3. CASE pc = "done"
      BY <2>3 DEF SortInv, OrderInv
    <2>4. QED
      BY <2>1, <2>2, <2>3 DEF SortInv, ColumnInv
  <1>2. QED
    BY <1>1, SortInvariant, PTL

(* A column without NaN comes out sorted by the numbers its patterns stand *)
(* for, in the direction asked for.                                        *)
THEOREM SortsByNumber == Spec => []SortedByNumber
  <1>1. SortInv => SortedByNumber
    BY DEF SortInv, OrderInv, SortedByNumber
  <1>2. QED
    BY <1>1, SortInvariant, PTL

(* Rows of one bit pattern keep their order on every path but the reversing *)
(* shortcut, which reverses the whole column; +0 and -0 are two patterns.  *)
THEOREM SortIsStable == Spec => []TiesKeptOrAllReversed
  <1>1. SortInv => TiesKeptOrAllReversed
    BY DEF SortInv, OrderInv, TiesKeptOrAllReversed
  <1>2. QED
    BY <1>1, SortInvariant, PTL
=============================================================================
