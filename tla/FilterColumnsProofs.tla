------------------------ MODULE FilterColumnsProofs ------------------------
(***************************************************************************)
(* Theorems about queries on the columns of a frame.                       *)
(***************************************************************************)
EXTENDS FilterColumns, ColumnLemmas

-----------------------------------------------------------------------------
(* The chunks of an aggregate                                              *)

Reduced(a, R) ==
  [found |-> R # {}, count |-> Cardinality(R),
   total |-> SumOf([i \in R |-> a.values[i]]),
   sq |-> SumOf([i \in R |-> a.values[i] * a.values[i]]),
   min |-> IF R = {} THEN 0 ELSE Min(ValuesAt(a, R)),
   max |-> IF R = {} THEN 0 ELSE Max(ValuesAt(a, R))]

SumOfPart(v, R) == SumOf([i \in R |-> v[i]])

LEMMA SumsOfRows ==
  ASSUME NEW S, IsFiniteSet(S), NEW v, \A i \in S : v[i] \in Int,
         NEW R \in SUBSET S, NEW T \in SUBSET S, R \cap T = {}
  PROVE  /\ SumOfPart(v, R) \in Int /\ SumOfPart(v, T) \in Int
         /\ SumOfPart(v, R \cup T) = SumOfPart(v, R) + SumOfPart(v, T)
  <1>1. ASSUME NEW U \in SUBSET S
        PROVE  SumOfPart(v, U) = SumOver(v, U) /\ IsFiniteSet(U)
    <2>1. PICK c : c = [i \in U |-> v[i]]
      OBVIOUS
    <2>2. DOMAIN c = U /\ \A i \in U : c[i] = v[i]
      BY <2>1
    <2>3. IsFiniteSet(U)
      BY FS_Subset
    <2>4. SumOver(c, U) = SumOver(v, U)
      BY <2>2, <2>3, SameSum
    <2>5. SumOf(c) = SumOver(c, U)
      BY <2>2 DEF SumOf, SumOver
    <2>6. QED
      BY <2>1, <2>3, <2>4, <2>5 DEF SumOfPart
  <1>2. R \cup T \in SUBSET S /\ \A i \in R \cup T : v[i] \in Int
    OBVIOUS
  <1>3. IsFiniteSet(R) /\ IsFiniteSet(T)
    BY <1>1
  <1>4. /\ SumOver(v, R) \in Int /\ SumOver(v, T) \in Int
        /\ SumOver(v, R \cup T) = SumOver(v, R) + SumOver(v, T)
    BY <1>2, <1>3, SumOfUnion
  <1>5. QED
    BY <1>1, <1>2, <1>4

LEMMA ReductionsMerge ==
  ASSUME NEW S, IsFiniteSet(S), NEW a, \A i \in S : a.values[i] \in Int,
         NEW R \in SUBSET S, NEW T \in SUBSET S, R \cap T = {}
  PROVE  Merge(Reduced(a, R), Reduced(a, T)) = Reduced(a, R \cup T)
  <1>1. PICK p, q, u : p = Reduced(a, R) /\ q = Reduced(a, T) /\ u = Reduced(a, R \cup T)
    OBVIOUS
  <1>2. IsFiniteSet(R) /\ IsFiniteSet(T)
    BY FS_Subset
  <1>3. u.count = p.count + q.count /\ p.count \in Nat /\ q.count \in Nat
    <2>1. Cardinality(R \cup T) = Cardinality(R) + Cardinality(T) - Cardinality(R \cap T)
      BY <1>2, FS_Union
    <2>2. Cardinality(R \cap T) = 0 /\ Cardinality(R) \in Nat /\ Cardinality(T) \in Nat
      BY <1>2, FS_EmptySet, FS_CardinalityType
    <2>3. QED
      BY <1>1, <2>1, <2>2 DEF Reduced
  <1>4. u.total = p.total + q.total /\ p.total \in Int /\ q.total \in Int /\ (T = {} => q.total = 0)
    <2>1. PICK v : v = [i \in S |-> a.values[i]]
      OBVIOUS
    <2>2. \A i \in S : v[i] \in Int
      BY <2>1
    <2>2a. \A U \in SUBSET S : [i \in U |-> v[i]] = [i \in U |-> a.values[i]]
      BY <2>1
    <2>3. SumOfPart(v, R \cup T) = SumOfPart(v, R) + SumOfPart(v, T)
      BY <2>2, SumsOfRows
    <2>3a. SumOfPart(v, R) \in Int
      BY <2>2, SumsOfRows
    <2>3b. SumOfPart(v, T) \in Int
      BY <2>2, SumsOfRows
    <2>4. ASSUME T = {} PROVE SumOfPart(v, T) = 0
      <3>1. PICK c : c = [i \in T |-> v[i]]
        OBVIOUS
      <3>2. DOMAIN c = {} /\ SumOver(c, {}) = 0
        BY <2>4, <3>1, <1>2, SumOne
      <3>3. QED
        BY <3>1, <3>2 DEF SumOfPart, SumOf, SumOver
    <2>5. u.total = SumOfPart(v, R \cup T) /\ p.total = SumOfPart(v, R) /\ q.total = SumOfPart(v, T)
      BY <1>1, <2>2a DEF Reduced, SumOfPart
    <2>6. QED
      BY <2>3, <2>3a, <2>3b, <2>4, <2>5
  <1>5. u.sq = p.sq + q.sq
    <2>1. PICK v : v = [i \in S |-> a.values[i] * a.values[i]]
      OBVIOUS
    <2>2. \A i \in S : v[i] \in Int
      BY <2>1
    <2>3. SumOfPart(v, R \cup T) = SumOfPart(v, R) + SumOfPart(v, T)
      BY <2>2, SumsOfRows
    <2>4. \A U \in SUBSET S : [i \in U |-> v[i]] = [i \in U |-> a.values[i] * a.values[i]]
      BY <2>1
    <2>5. u.sq = SumOfPart(v, R \cup T) /\ p.sq = SumOfPart(v, R) /\ q.sq = SumOfPart(v, T)
      BY <1>1, <2>4 DEF Reduced, SumOfPart
    <2>6. QED
      BY <2>3, <2>5
  <1>6. ASSUME NEW U \in SUBSET S, U # {}
        PROVE  /\ ValuesAt(a, U) \in SUBSET Int
               /\ IsLeast(Min(ValuesAt(a, U)), ValuesAt(a, U))
               /\ IsGreatest(Max(ValuesAt(a, U)), ValuesAt(a, U))
    <2>1. ValuesAt(a, U) \in SUBSET Int /\ ValuesAt(a, U) # {}
      BY <1>6 DEF ValuesAt
    <2>2. IsFiniteSet(ValuesAt(a, U))
      <3>1. IsFiniteSet(U)
        BY FS_Subset
      <3>2. PICK f : f = [i \in U |-> a.values[i]]
        OBVIOUS
      <3>3. f \in [U -> ValuesAt(a, U)] /\ \A x \in ValuesAt(a, U) : \E i \in U : f[i] = x
        BY <3>2 DEF ValuesAt
      <3>4. f \in Surjection(U, ValuesAt(a, U))
        BY <3>3 DEF Surjection
      <3>5. QED
        BY <3>1, <3>4, FS_Surjection
    <2>3. QED
      BY <2>1, <2>2, Extremes
  <1>7. ValuesAt(a, R \cup T) = ValuesAt(a, R) \cup ValuesAt(a, T)
    BY DEF ValuesAt
  <1>8. R \cup T \in SUBSET S
    OBVIOUS
  <1>9. PICK A, B : A = ValuesAt(a, R) /\ B = ValuesAt(a, T)
    OBVIOUS
  <1>10. u.min = (IF T # {} /\ (R = {} \/ q.min < p.min) THEN q.min ELSE p.min)
    <2>1. CASE T = {}
      BY <1>1, <2>1 DEF Reduced
    <2>2. CASE T # {} /\ R = {}
      <3>1. R \cup T = T
        BY <2>2
      <3>2. QED
        BY <1>1, <2>2, <3>1 DEF Reduced
    <2>3. CASE T # {} /\ R # {}
      <3>1. /\ A \in SUBSET Int /\ B \in SUBSET Int /\ IsLeast(Min(A), A) /\ IsLeast(Min(B), B)
        BY <1>6, <1>9, <2>3
      <3>2. p.min = Min(A) /\ q.min = Min(B) /\ u.min = Min(A \cup B)
        BY <1>1, <1>7, <1>9, <2>3 DEF Reduced
      <3>3. PICK m : m = IF Min(B) < Min(A) THEN Min(B) ELSE Min(A)
        OBVIOUS
      <3>4. Min(A) \in Int /\ Min(B) \in Int
        BY <3>1 DEF IsLeast
      <3>5. IsLeast(m, A \cup B)
        BY <3>1, <3>3, <3>4 DEF IsLeast
      <3>6. Min(A \cup B) = m
        <4>1. A \cup B \in SUBSET Int
          BY <3>1
        <4>2. QED
          BY <3>5, <4>1, MinIs
      <3>7. QED
        BY <2>3, <3>2, <3>3, <3>6
    <2>4. QED
      BY <2>1, <2>2, <2>3
  <1>11. u.max = (IF T # {} /\ (R = {} \/ q.max > p.max) THEN q.max ELSE p.max)
    <2>1. CASE T = {}
      BY <1>1, <2>1 DEF Reduced
    <2>2. CASE T # {} /\ R = {}
      <3>1. R \cup T = T
        BY <2>2
      <3>2. QED
        BY <1>1, <2>2, <3>1 DEF Reduced
    <2>3. CASE T # {} /\ R # {}
      <3>1. /\ A \in SUBSET Int /\ B \in SUBSET Int /\ IsGreatest(Max(A), A) /\ IsGreatest(Max(B), B)
        BY <1>6, <1>9, <2>3
      <3>2. p.max = Max(A) /\ q.max = Max(B) /\ u.max = Max(A \cup B)
        BY <1>1, <1>7, <1>9, <2>3 DEF Reduced
      <3>3. PICK m : m = IF Max(B) > Max(A) THEN Max(B) ELSE Max(A)
        OBVIOUS
      <3>4. Max(A) \in Int /\ Max(B) \in Int
        BY <3>1 DEF IsGreatest
      <3>5. IsGreatest(m, A \cup B)
        BY <3>1, <3>3, <3>4 DEF IsGreatest
      <3>6. Max(A \cup B) = m
        <4>1. A \cup B \in SUBSET Int
          BY <3>1
        <4>2. QED
          BY <3>5, <4>1, MaxIs
      <3>7. QED
        BY <2>3, <3>2, <3>3, <3>6
    <2>4. QED
      BY <2>1, <2>2, <2>3
  <1>12. u.found = (p.found \/ q.found) /\ p.found = (R # {}) /\ q.found = (T # {})
    BY <1>1 DEF Reduced
  <1>13. u = [found |-> u.found, count |-> u.count, total |-> u.total, sq |-> u.sq, min |-> u.min, max |-> u.max]
    BY <1>1 DEF Reduced
  <1>14. Merge(p, q) = [found |-> p.found \/ q.found, count |-> p.count + q.count,
                        total |-> IF q.found THEN p.total + q.total ELSE p.total, sq |-> p.sq + q.sq,
                        min |-> IF q.found /\ (~p.found \/ q.min < p.min) THEN q.min ELSE p.min,
                        max |-> IF q.found /\ (~p.found \/ q.max > p.max) THEN q.max ELSE p.max]
    BY DEF Merge
  <1>15. u.total = IF q.found THEN p.total + q.total ELSE p.total
    <2>1. CASE T = {}
      BY <1>4, <1>12, <2>1
    <2>2. CASE T # {}
      BY <1>4, <1>12, <2>2
    <2>3. QED
      BY <2>1, <2>2
  <1>16. /\ u.min = IF q.found /\ (~p.found \/ q.min < p.min) THEN q.min ELSE p.min
         /\ u.max = IF q.found /\ (~p.found \/ q.max > p.max) THEN q.max ELSE p.max
    BY <1>10, <1>11, <1>12
  <1>17. Merge(p, q) = u
    BY <1>3, <1>5, <1>12, <1>13, <1>14, <1>15, <1>16
  <1>18. QED
    BY <1>1, <1>17

(* The chunks of a column, merged in row order                             *)
IsMerging(f, a, bounds, n) ==
  f = [k \in 0 .. n |-> IF k = 0 THEN NoPartial
                        ELSE Merge(f[k - 1], Partial(a, bounds[k], bounds[k + 1]))]

LEMMA PartialReduces ==
  ASSUME NEW a, NEW start, NEW end
  PROVE  Partial(a, start, end) = Reduced(a, ValidRows(a, start, end))
  BY DEF Partial, Reduced, ValidRows, ValuesAt

LEMMA NothingReduced ==
  ASSUME NEW a
  PROVE  Reduced(a, {}) = NoPartial
  <1>1. ASSUME NEW c, DOMAIN c = {} PROVE SumOf(c) = 0
    <2>1. SumOver(c, {}) = 0
      BY SumOne, FS_EmptySet
    <2>2. QED
      BY <1>1, <2>1 DEF SumOf, SumOver
  <1>2. SumOf([i \in {} |-> a.values[i]]) = 0 /\ SumOf([i \in {} |-> a.values[i] * a.values[i]]) = 0
    BY <1>1
  <1>3. Cardinality({}) = 0
    BY FS_EmptySet
  <1>4. QED
    BY <1>2, <1>3 DEF Reduced, NoPartial

(* However the chunks are cut, merging them reduces all valid rows.        *)
LEMMA ChunksMerge ==
  ASSUME NEW a, IsTyped(a), a.length \in Nat, NEW C, C \subseteq 0 .. a.length,
         0 \in C, a.length \in C
  PROVE  LET bounds == RowList(C)
             n == Len(bounds) - 1
         IN (CHOOSE f : IsMerging(f, a, bounds, n))[n] = Reduced(a, ValidRows(a, 0, a.length))
  <1>1. PICK bounds, n : bounds = RowList(C) /\ n = Len(bounds) - 1
    OBVIOUS
  <1>2. IsFiniteSet(C) /\ \A x \in C : x \in Int
    <2>1. 0 \in Int /\ a.length \in Int
      OBVIOUS
    <2>2. /\ IsFiniteSet(0 .. a.length)
          /\ Cardinality(0 .. a.length) = IF 0 > a.length THEN 0 ELSE a.length - 0 + 1
      BY <2>1, FS_Interval
    <2>3. IsFiniteSet(C)
      BY <2>2, FS_Subset
    <2>4. \A x \in C : x \in Int
      OBVIOUS
    <2>5. QED
      BY <2>3, <2>4
  <1>3. /\ bounds \in Seq(C) /\ Len(bounds) = Cardinality(C)
        /\ DOMAIN bounds = 1..Cardinality(C) /\ Cardinality(C) \in Nat
        /\ ToSet(bounds) = C
        /\ \A k, l \in DOMAIN bounds : k < l => bounds[k] < bounds[l]
    BY <1>1, <1>2, RowListAscends
  <1>4. /\ n \in Nat /\ DOMAIN bounds = 1 .. n + 1
        /\ \A k \in 1 .. n + 1 : bounds[k] \in 0 .. a.length
        /\ \A k \in 1 .. n : bounds[k] < bounds[k + 1]
    <2>1. PICK k : k \in DOMAIN bounds /\ bounds[k] = 0
      BY <1>3 DEF ToSet
    <2>2. n \in Nat /\ DOMAIN bounds = 1 .. n + 1
      BY <1>1, <1>3, <2>1
    <2>3. \A l \in 1 .. n + 1 : bounds[l] \in 0 .. a.length
      BY <1>3, <2>2 DEF ToSet
    <2>4. \A l \in 1 .. n : l \in DOMAIN bounds /\ l + 1 \in DOMAIN bounds /\ l < l + 1
      BY <2>2
    <2>5. QED
      BY <1>3, <2>2, <2>3, <2>4
  <1>5. bounds[1] = 0 /\ bounds[n + 1] = a.length
    <2>1. PICK k \in 1 .. n + 1 : bounds[k] = 0
      BY <1>3, <1>4 DEF ToSet
    <2>2. PICK l \in 1 .. n + 1 : bounds[l] = a.length
      BY <1>3, <1>4 DEF ToSet
    <2>3. k = 1
      <3>1. 1 \in DOMAIN bounds /\ k \in DOMAIN bounds /\ bounds[1] >= 0
        BY <1>4
      <3>2. 1 < k => bounds[1] < bounds[k]
        BY <1>3, <3>1
      <3>3. QED
        BY <1>4, <2>1, <3>1, <3>2
    <2>4. l = n + 1
      <3>1. n + 1 \in DOMAIN bounds /\ l \in DOMAIN bounds /\ bounds[n + 1] <= a.length
        BY <1>4
      <3>2. l < n + 1 => bounds[l] < bounds[n + 1]
        BY <1>3, <3>1
      <3>3. bounds[n + 1] \in Int
        BY <1>4
      <3>4. QED
        BY <1>4, <2>2, <3>1, <3>2, <3>3
    <2>5. QED
      BY <2>1, <2>2, <2>3, <2>4
  <1> DEFINE Upto(k) == Reduced(a, ValidRows(a, 0, bounds[k + 1]))
  <1>6. ASSUME NEW k \in 1 .. n
        PROVE  Merge(Upto(k - 1), Partial(a, bounds[k], bounds[k + 1])) = Upto(k)
    <2>1. PICK S, R, T : /\ S = 0 .. a.length - 1 /\ R = ValidRows(a, 0, bounds[k])
                         /\ T = ValidRows(a, bounds[k], bounds[k + 1])
      OBVIOUS
    <2>2. bounds[k] \in 0 .. a.length /\ bounds[k + 1] \in 0 .. a.length /\ bounds[k] < bounds[k + 1]
      BY <1>4
    <2>3. R \in SUBSET S /\ T \in SUBSET S /\ R \cap T = {}
      BY <2>1, <2>2 DEF ValidRows
    <2>4. R \cup T = ValidRows(a, 0, bounds[k + 1])
      BY <2>1, <2>2 DEF ValidRows
    <2>5. IsFiniteSet(S) /\ \A i \in S : a.values[i] \in Int
      BY <2>1, RowCount DEF IsTyped
    <2>6. Merge(Reduced(a, R), Reduced(a, T)) = Reduced(a, R \cup T)
      BY <2>3, <2>5, ReductionsMerge
    <2>7. Partial(a, bounds[k], bounds[k + 1]) = Reduced(a, T)
      BY <2>1, PartialReduces
    <2>8. Upto(k - 1) = Reduced(a, R)
      <3>1. (k - 1) + 1 = k
        OBVIOUS
      <3>2. QED
        BY <2>1, <3>1
    <2>9. QED
      BY <2>4, <2>6, <2>7, <2>8
  <1>7. Upto(0) = NoPartial
    <2>1. ValidRows(a, 0, 0) = {}
      BY DEF ValidRows
    <2>2. QED
      BY <1>5, <2>1, NothingReduced
  <1> HIDE DEF Upto
  <1>8. PICK g : g = [k \in 0 .. n |-> Upto(k)]
    OBVIOUS
  <1>9. IsMerging(g, a, bounds, n)
    <2>1. \A k \in 0 .. n : g[k] = IF k = 0 THEN NoPartial
                                   ELSE Merge(g[k - 1], Partial(a, bounds[k], bounds[k + 1]))
      <3>1. ASSUME NEW k \in 0 .. n, k # 0 PROVE g[k] = Merge(g[k - 1], Partial(a, bounds[k], bounds[k + 1]))
        <4>1. k \in 1 .. n /\ k - 1 \in 0 .. n
          BY <1>4, <3>1
        <4>2. g[k - 1] = Upto(k - 1) /\ g[k] = Upto(k)
          BY <1>8, <4>1
        <4>3. QED
          BY <1>6, <4>1, <4>2
      <3>2. g[0] = NoPartial
        BY <1>4, <1>7, <1>8
      <3>3. QED
        BY <3>1, <3>2
    <2>2. g = [k \in 0 .. n |-> g[k]]
      BY <1>8
    <2>3. g = [k \in 0 .. n |-> IF k = 0 THEN NoPartial
                                ELSE Merge(g[k - 1], Partial(a, bounds[k], bounds[k + 1]))]
      BY <2>1, <2>2, Zenon
    <2>4. QED
      BY <2>3 DEF IsMerging
  <1>10. PICK f : f = CHOOSE h : IsMerging(h, a, bounds, n)
    OBVIOUS
  <1>11. IsMerging(f, a, bounds, n)
    BY <1>9, <1>10
  <1>12. \A k \in 0 .. n : f[k] = IF k = 0 THEN NoPartial
                                  ELSE Merge(f[k - 1], Partial(a, bounds[k], bounds[k + 1]))
    BY <1>11 DEF IsMerging
  <1> DEFINE F == {k \in 0 .. n : f[k] = Upto(k)}
  <1>13. 0 \in F
    BY <1>4, <1>7, <1>12
  <1>14. ASSUME NEW k \in 0 .. n - 1, k \in F PROVE k + 1 \in F
    <2>1. k + 1 \in 1 .. n /\ k + 1 \in 0 .. n /\ (k + 1) - 1 = k /\ k + 1 # 0
      BY <1>4, <1>14
    <2>2. f[k + 1] = Merge(f[(k + 1) - 1], Partial(a, bounds[k + 1], bounds[(k + 1) + 1]))
      BY <1>12, <2>1
    <2>3. Merge(Upto((k + 1) - 1), Partial(a, bounds[k + 1], bounds[(k + 1) + 1])) = Upto(k + 1)
      BY <1>6, <2>1
    <2>4. f[(k + 1) - 1] = Upto((k + 1) - 1)
      BY <1>14, <2>1
    <2>5. QED
      BY <2>1, <2>2, <2>3, <2>4
  <1>15. n \in F
    <2> HIDE DEF F
    <2>1. 0 \in Int /\ n \in Int
      BY <1>4
    <2>2. 0 .. n \subseteq F
      BY <1>13, <1>14, <2>1, IntervalInduction
    <2>3. QED
      BY <1>4, <2>2
  <1>16. f[n] = Upto(n)
    BY <1>15
  <1>17. QED
    BY <1>1, <1>5, <1>10, <1>16 DEF Upto

-----------------------------------------------------------------------------
(* What holds in every state                                               *)

(* The aggregate is that of all valid rows.                                *)
AggregateDone ==
  request.op = "aggregate" =>
    /\ phase = "done" /\ request.column \in DOMAIN df
    /\ df[request.column].dtype \notin {"Boolean", "String"}
    /\ result = Reduced(df[request.column].arr,
                        ValidRows(df[request.column].arr, 0, df[request.column].arr.length))

RollingDone ==
  request.op = "rolling" =>
    /\ phase = "done" /\ request.column \in DOMAIN df /\ request.window \in Int
    /\ request.fn \in {"sum", "mean", "std", "min", "max"}
    /\ result = Rolled(df[request.column], request.fn, request.window)

MeltPending ==
  phase = "long" => request = [op |-> "unpivot", ids |-> request.ids, vals |-> request.vals]

QueryInv == IsFrame(df) /\ AggregateDone /\ RollingDone /\ MeltPending

LEMMA InitQuery == Init => QueryInv
  <1> SUFFICES ASSUME Init PROVE QueryInv
    OBVIOUS
  <1>1. IsFrame(df)
    BY FramesAssumption DEF Init
  <1>2. request.op = "none" /\ phase = "slice"
    BY DEF Init
  <1>3. QED
    BY <1>1, <1>2 DEF QueryInv, AggregateDone, RollingDone, MeltPending

LEMMA AggregateReduces ==
  ASSUME IsFrame(df), NEW c \in DOMAIN df, NEW cuts \in SUBSET (1 .. Height(df) - 1), Aggregate(c, cuts)
  PROVE  AggregateDone'
  <1>1. PICK a : a = df[c].arr
    OBVIOUS
  <1>2. a.length = Height(df) /\ a.length \in Nat /\ IsTyped(a)
    <2>1. a.length = Height(df) /\ IsArray(df[c].dtype, a) /\ df[c].dtype \notin {"Boolean", "String"}
      BY <1>1 DEF IsFrame, IsSeries, Aggregate
    <2>2. QED
      BY <2>1 DEF IsArray
  <1>3. PICK C, bounds, n : C = cuts \cup {0, a.length} /\ bounds = RowList(C) /\ n = Len(bounds) - 1
    OBVIOUS
  <1>4. C \subseteq 0 .. a.length /\ 0 \in C /\ a.length \in C
    <2>1. cuts \subseteq 1 .. a.length - 1
      BY <1>2
    <2>2. \A x \in cuts : x \in 0 .. a.length
      BY <1>2, <2>1
    <2>3. 0 \in 0 .. a.length /\ a.length \in 0 .. a.length
      BY <1>2
    <2>4. QED
      BY <1>3, <2>2, <2>3
  <1>5. (CHOOSE f : IsMerging(f, a, bounds, n))[n] = Reduced(a, ValidRows(a, 0, a.length))
    BY <1>2, <1>3, <1>4, ChunksMerge
  <1>6. result' = (CHOOSE f : IsMerging(f, a, bounds, n))[n]
    BY <1>1, <1>3 DEF Aggregate, IsMerging
  <1>7. request' = [op |-> "aggregate", column |-> c] /\ phase' = "done" /\ df' = df
        /\ df[c].dtype \notin {"Boolean", "String"}
    BY DEF Aggregate
  <1>8. request'.op = "aggregate" /\ request'.column = c
    BY <1>7
  <1>9. QED
    BY <1>1, <1>5, <1>6, <1>7, <1>8 DEF AggregateDone

LEMMA NextQuery == QueryInv /\ [Next]_vars => QueryInv'
  <1> SUFFICES ASSUME QueryInv, [Next]_vars PROVE QueryInv'
    OBVIOUS
  <1> USE DEF QueryInv, MeltPending
  <1>1. ASSUME phase # "done", phase' # "long", UNCHANGED request
        PROVE  AggregateDone' /\ RollingDone' /\ MeltPending'
    BY <1>1 DEF AggregateDone, RollingDone
  <1>2. ASSUME request'.op \notin {"aggregate", "rolling"}, phase' # "long"
        PROVE  AggregateDone' /\ RollingDone' /\ MeltPending'
    BY <1>2 DEF AggregateDone, RollingDone
  <1>3. ASSUME NEW sl \in Slices, SliceFrame(sl[1], sl[2]) PROVE QueryInv'
    <2>1. AggregateDone' /\ RollingDone' /\ MeltPending'
      BY <1>1, <1>3 DEF SliceFrame
    <2>2. Height(df) \in Nat
      BY DEF IsFrame, IsSeries, IsArray, Height
    <2>3. PICK e, b : /\ e = MinOf(sl[2], Height(df))
                      /\ b = MinOf(IF sl[1] < 0 THEN 0 ELSE sl[1], e)
      OBVIOUS
    <2>4. e \in Nat /\ b \in Nat /\ b <= e /\ e <= Height(df)
      BY <2>2, <2>3, SlicesAssumption DEF MinOf
    <2>5. df' = [c \in DOMAIN df |-> SliceSeries(df[c], b, e)]
      BY <1>3, <2>3 DEF SliceFrame
    <2>6. IsFrame(df')
      BY <2>4, <2>5, SliceIsFrame
    <2>7. QED
      BY <2>1, <2>6
  <1>4. CASE NoSlice
    BY <1>1, <1>4 DEF NoSlice
  <1>5. ASSUME NEW cond \in Conditions, StartCompare(cond) PROVE QueryInv'
    BY <1>2, <1>5 DEF StartCompare
  <1>6. ASSUME NEW wi \in todo, CompareWord(wi) PROVE QueryInv'
    BY <1>1, <1>6 DEF CompareWord
  <1>7. CASE Logical
    BY <1>1, <1>7 DEF Logical
  <1>8. CASE StartFilter
    BY <1>1, <1>8 DEF StartFilter
  <1>9. ASSUME NEW c \in DOMAIN df, FilterWord(c) PROVE QueryInv'
    BY <1>1, <1>9 DEF FilterWord
  <1>10. ASSUME NEW indices, StartTake(indices) PROVE QueryInv'
    BY <1>2, <1>10 DEF StartTake
  <1>11. ASSUME NEW c \in DOMAIN df, TakeColumn(c) PROVE QueryInv'
    BY <1>1, <1>11 DEF TakeColumn
  <1>12. CASE Assemble
    BY <1>1, <1>12 DEF Assemble
  <1>13. ASSUME NEW c \in DOMAIN df, NEW cuts \in SUBSET (1 .. Height(df) - 1), Aggregate(c, cuts)
         PROVE  QueryInv'
    <2>1. AggregateDone'
      BY <1>13, AggregateReduces
    <2>2. request'.op = "aggregate" /\ phase' = "done" /\ df' = df
      BY <1>13 DEF Aggregate
    <2>3. QED
      BY <2>1, <2>2 DEF RollingDone
  <1>14. ASSUME NEW req, NEW res, Shaped(req, res), req.op \notin {"aggregate", "rolling", "unpivot"}
         PROVE  QueryInv'
    BY <1>2, <1>14 DEF Shaped
  <1>15. ASSUME NEW a \in 0 .. Height(df), NEW b \in 0 .. Height(df), NEW read \in BOOLEAN,
                ConcatParts(a, b, read)
         PROVE  QueryInv'
    <2>1. PICK res : Shaped([op |-> "concat"], res)
      BY <1>15 DEF ConcatParts
    <2>2. QED
      BY <1>14, <2>1
  <1>16. ASSUME NEW last \in DOMAIN df, NEW first \in DOMAIN df, ConcatColumns(last, first) PROVE QueryInv'
    <2>1. PICK req, res : Shaped(req, res) /\ req = [op |-> "beside", last |-> last, first |-> first]
      BY <1>16 DEF ConcatColumns
    <2>2. QED
      BY <1>14, <2>1
  <1>17. ASSUME NEW c \in DOMAIN df, NEW fn \in {"sum", "mean", "std", "min", "max"},
                NEW window \in Windows, RollColumn(c, fn, window)
         PROVE  QueryInv'
    <2>1. /\ request' = [op |-> "rolling", column |-> c, fn |-> fn, window |-> window]
          /\ result' = Rolled(df[c], fn, window) /\ phase' = "done" /\ df' = df
      BY <1>17 DEF RollColumn, Shaped, Rolled
    <2>2. request'.op = "rolling" /\ request'.column = c /\ request'.fn = fn /\ request'.window = window
      BY <2>1
    <2>3. window \in Int
      BY WindowsAssumption
    <2>4. RollingDone'
      BY <2>1, <2>2, <2>3 DEF RollingDone
    <2>5. QED
      BY <2>1, <2>2, <2>4 DEF AggregateDone
  <1>18. ASSUME NEW melt \in Melts, UnpivotFrame(melt[1], melt[2]) PROVE QueryInv'
    <2>1. request' = [op |-> "unpivot", ids |-> melt[1], vals |-> melt[2]] /\ df' = df
      BY <1>18 DEF UnpivotFrame, Shaped
    <2>2. request'.op = "unpivot" /\ request'.ids = melt[1] /\ request'.vals = melt[2]
      BY <2>1
    <2>3. QED
      BY <2>1, <2>2 DEF AggregateDone, RollingDone
  <1>19. CASE PivotBack
    <2>1. request' = [request EXCEPT !.op = "pivot"] /\ phase' = "done" /\ df' = df
      BY <1>19 DEF PivotBack
    <2>2. request'.op = "pivot"
      BY <1>19, <2>1 DEF PivotBack
    <2>3. QED
      BY <1>2, <2>1, <2>2
  <1>20. CASE TransposeFrame
    BY <1>14, <1>20 DEF TransposeFrame
  <1>21. ASSUME NEW c \in DOMAIN df, ExplodeColumn(c) PROVE QueryInv'
    <2>1. PICK req, res : Shaped(req, res) /\ req = [op |-> "explode", column |-> c]
      BY <1>21 DEF ExplodeColumn
    <2>2. QED
      BY <1>14, <2>1
  <1>22. CASE Finished \/ UNCHANGED vars
    BY <1>22 DEF Finished, vars, AggregateDone, RollingDone
  <1>23. QED
    BY <1>3, <1>4, <1>5, <1>6, <1>7, <1>8, <1>9, <1>10, <1>11, <1>12, <1>13, <1>15, <1>16, <1>17,
       <1>18, <1>19, <1>20, <1>21, <1>22 DEF Next

LEMMA QueryAggregates == QueryInv => AggregatesIgnoreChunks
  <1> SUFFICES ASSUME QueryInv, phase = "done", request.op = "aggregate" PROVE AggregatesIgnoreChunks
    BY DEF AggregatesIgnoreChunks
  <1>1. PICK s, a, R, V : /\ s = df[request.column] /\ a = s.arr /\ R = ValidRows(a, 0, a.length)
                          /\ V = {i \in Rows : Cell(s, i) # Null}
    OBVIOUS
  <1>2. /\ IsSeries(s) /\ s.dtype \notin {"Boolean", "String"} /\ a.length = Height(df)
        /\ result = Reduced(a, R)
    BY <1>1 DEF QueryInv, AggregateDone, IsFrame
  <1>3. \A i \in Rows : /\ (Cell(s, i) = Null) <=> IsNull(a, i)
                        /\ Cell(s, i) # Null => Cell(s, i) = a.values[i]
    BY <1>1, <1>2, CellOfTyped DEF Rows
  <1>4. V = R
    BY <1>1, <1>2, <1>3 DEF Rows, ValidRows
  <1>5. \A i \in V : Cell(s, i) = a.values[i]
    BY <1>1, <1>3
  <1>6. [i \in V |-> Cell(s, i)] = [i \in R |-> a.values[i]]
    BY <1>4, <1>5
  <1>7. [i \in V |-> Cell(s, i) * Cell(s, i)] = [i \in R |-> a.values[i] * a.values[i]]
    BY <1>4, <1>5
  <1>8. {Cell(s, i) : i \in V} = ValuesAt(a, R)
    BY <1>4, <1>5 DEF ValuesAt
  <1>9. /\ result.found <=> V # {}
        /\ result.count = Cardinality(V)
        /\ result.total = SumOf([i \in V |-> Cell(s, i)])
        /\ result.sq = SumOf([i \in V |-> Cell(s, i) * Cell(s, i)])
        /\ V # {} => /\ result.min = Min({Cell(s, i) : i \in V})
                     /\ result.max = Max({Cell(s, i) : i \in V})
    BY <1>2, <1>4, <1>6, <1>7, <1>8 DEF Reduced
  <1>10. QED
    BY <1>1, <1>9 DEF AggregatesIgnoreChunks

(* The data frame keeps columns of one length and distinct names.          *)
THEOREM FramesStayWhole == Spec => []IsFrame(df)
  <1>1. QueryInv => IsFrame(df)
    BY DEF QueryInv
  <1>2. QED
    BY InitQuery, NextQuery, <1>1, PTL DEF Spec

(* Sum, Mean, Variance, Min and Max give the aggregate of the valid cells, *)
(* however ParallelReduce cuts the rows into chunks.                       *)
THEOREM AggregatesChunkFree == Spec => []AggregatesIgnoreChunks
  BY InitQuery, NextQuery, QueryAggregates, PTL DEF Spec

-----------------------------------------------------------------------------
(* A rolling column, of its window                                         *)

OffMean(c, window, j) == window * c[j] - SumOf(c)

SquaresOff(c, window) ==
  SumOf([j \in DOMAIN c |-> OffMean(c, window, j) * OffMean(c, window, j)])

IsDeviation(out, c, window) == window * out = SquaresOff(c, window)

IsOfWindow(out, fn, c, window) ==
  CASE fn \in {"sum", "mean"} -> out = SumOf(c)
    [] fn = "std" -> IsDeviation(out, c, window)
    [] fn = "min" -> out = Min(CellSet(c))
    [] fn = "max" -> out = Max(CellSet(c))

LEMMA SumIsOfWindow ==
  ASSUME NEW n \in Nat, NEW v \in [0 .. n - 1 -> Int], NEW window \in Nat \ {0}, NEW i \in window - 1 .. n - 1,
         NEW c, IsWindow(c, v, window, i)
  PROVE  /\ SumOf(c) = WindowSum(PrefixSum(v), window, i)
         /\ SumOf(c) = SumOver(v, Windowed(window, i)) /\ SumOf(c) \in Int
         /\ IsFiniteSet(Windowed(window, i))
  <1>1. PICK W : W = Windowed(window, i)
    OBVIOUS
  <1>2. IsFiniteSet(W) /\ SumOver(v, W) \in Int /\ WindowSum(PrefixSum(v), window, i) = SumOver(v, W)
    BY <1>1, WindowIsSum DEF Windowed
  <1>3. SumOver(c, W) = SumOver(v, W)
    BY <1>1, <1>2, SameSum DEF IsWindow
  <1>4. SumOf(c) = SumOver(c, W)
    BY <1>1 DEF SumOf, SumOver, IsWindow
  <1>5. QED
    BY <1>1, <1>2, <1>3, <1>4

LEMMA StdIsOfWindow ==
  ASSUME NEW n \in Nat, NEW v \in [0 .. n - 1 -> Int], NEW window \in Nat \ {0}, NEW i \in window - 1 .. n - 1,
         NEW c, IsWindow(c, v, window, i)
  PROVE  IsDeviation(rollingSum("std", v, window, i), c, window)
  <1>0. /\ SumOf(c) = WindowSum(PrefixSum(v), window, i)
        /\ SumOf(c) = SumOver(v, Windowed(window, i)) /\ SumOf(c) \in Int
        /\ IsFiniteSet(Windowed(window, i))
    BY SumIsOfWindow
  <1>1. PICK W, s, u, d, q :
          /\ W = Windowed(window, i) /\ s = SumOf(c)
          /\ u = [k \in DOMAIN v |-> v[k] * v[k]]
          /\ d = [j \in W |-> OffMean(c, window, j) * OffMean(c, window, j)]
          /\ q = SumOver(u, W)
    OBVIOUS
  <1>2. /\ s = WindowSum(PrefixSum(v), window, i) /\ s = SumOver(v, W) /\ s \in Int
        /\ IsFiniteSet(W)
    BY <1>0, <1>1
  <1>3. u \in [0 .. n - 1 -> Int]
    BY <1>1
  <1>4. WindowSum(PrefixSum(u), window, i) = q /\ q \in Int
    <2>1. /\ IsFiniteSet(i - window + 1 .. i)
          /\ SumOver(u, i - window + 1 .. i) \in Int
          /\ WindowSum(PrefixSum(u), window, i) = SumOver(u, i - window + 1 .. i)
      BY <1>3, WindowIsSum
    <2>2. QED
      BY <1>1, <2>1 DEF Windowed
  <1>5. rollingSum("std", v, window, i) = window * q - s * s
    BY <1>1, <1>2, <1>4 DEF rollingSum
  <1>6. Squares(W, v, u, d, window, s)
    <2>1. \A x \in W : x \in 0 .. n - 1
      BY <1>1 DEF Windowed
    <2>2. QED
      BY <1>1, <2>1 DEF OffMean, Squares, IsWindow
  <1>7. SumOver(d, W) = window * window * q - 2 * window * s * s + Cardinality(W) * s * s
    <2>1. window \in Int
      OBVIOUS
    <2>2. SquaresAddUp(W, v, u, d, window, s)
      BY <1>2, <1>6, <2>1, Deviations
    <2>3. QED
      BY <1>1, <1>2, <2>2 DEF SquaresAddUp
  <1>8. Cardinality(W) = window
    <2>1. i - window + 1 \in Int /\ i \in Int
      OBVIOUS
    <2>2. /\ IsFiniteSet(i - window + 1 .. i)
          /\ Cardinality(i - window + 1 .. i) = IF i - window + 1 > i THEN 0 ELSE i - (i - window + 1) + 1
      BY <2>1, FS_Interval
    <2>3. QED
      BY <1>1, <2>2 DEF Windowed
  <1>9. SquaresOff(c, window) = SumOver(d, W)
    <2>1. DOMAIN c = W /\ DOMAIN d = W
      BY <1>1 DEF IsWindow
    <2>2. SquaresOff(c, window) = SumOf(d)
      BY <1>1, <2>1 DEF SquaresOff
    <2>3. QED
      BY <2>1, <2>2 DEF SumOf, SumOver
  <1>10. WithoutMean(window, s, q)
    BY <1>2, <1>4, MeanDeviation
  <1>11. QED
    BY <1>5, <1>7, <1>8, <1>9, <1>10 DEF IsDeviation, WithoutMean

(* Every cell of a rolling column                                          *)
LEMMA RolledColumn ==
  ASSUME NEW s, IsSeries(s), NEW fn \in {"sum", "mean", "std", "min", "max"},
         NEW window \in Nat \ {0}, NEW i \in 0 .. s.arr.length - 1, Rolled(s, fn, window) # nil
  PROVE  LET out == Cell(Rolled(s, fn, window).cols[1], i)
             c == CellsOf(s, window, i)
         IN IF i < window - 1 THEN out = Null
            ELSE IF \E j \in DOMAIN c : c[j] = Null THEN out = Null
            ELSE IsOfWindow(out, fn, c, window)
  <1>1. PICK out, c, W, a, n, v : /\ out = Cell(Rolled(s, fn, window).cols[1], i)
                                  /\ c = CellsOf(s, window, i) /\ W = Windowed(window, i)
                                  /\ a = s.arr /\ n = a.length /\ v = FloatValues(a)
    OBVIOUS
  <1>2. n \in Nat /\ i \in 0 .. n - 1 /\ n # 0
    BY <1>1 DEF IsSeries, IsArray
  <1>3. s.dtype \notin {"Boolean", "String"}
    <2>1. s.dtype \in {"Int64", "Float64"}
      <3>1. rollingAgg(s, fn, window) # nil
        BY DEF Rolled
      <3>2. QED
        BY <1>1, <1>2, <3>1 DEF rollingAgg
    <2>2. QED
      BY <2>1
  <1>4. out = IF i \in InvalidRows(a, window) THEN Null ELSE Rolling1(fn, v, window, i)
    BY <1>1, <1>2, RolledCell
  <1>5. i \in InvalidRows(a, window) <=> i < window - 1 \/ \E j \in W : IsNull(a, j)
    BY <1>1, <1>2, ValidWindow
  <1>6. DOMAIN c = W /\ \A j \in W : c[j] = Cell(s, j)
    BY <1>1 DEF CellsOf
  <1>7. CASE i < window - 1
    BY <1>1, <1>4, <1>5, <1>7
  <1>8. CASE i >= window - 1
    <2>1. \A j \in W : j \in 0 .. n - 1
      BY <1>1, <1>2, <1>8 DEF Windowed
    <2>2. \A j \in W : (c[j] = Null) <=> IsNull(a, j)
      BY <1>1, <1>3, <1>6, <2>1, CellOfTyped
    <2>3. CASE \E j \in W : IsNull(a, j)
      BY <1>1, <1>4, <1>5, <1>6, <1>8, <2>2, <2>3
    <2>4. CASE \A j \in W : ~IsNull(a, j)
      <3>1. out = Rolling1(fn, v, window, i)
        BY <1>2, <1>4, <1>5, <1>8, <2>4
      <3>2. i \in window - 1 .. n - 1
        BY <1>2, <1>8
      <3>3. v \in [0 .. n - 1 -> Int] /\ \A j \in W : v[j] \in Int /\ v[j] = c[j]
        BY <1>1, <1>3, <2>4, <3>2, WindowCells
      <3>4. IsWindow(c, v, window, i)
        BY <1>1, <1>6, <3>3 DEF IsWindow
      <3>5. IsOfWindow(out, fn, c, window)
        <4>1. CASE fn \in {"sum", "mean"}
          <5>1. SumOf(c) = WindowSum(PrefixSum(v), window, i)
            BY <1>2, <3>2, <3>3, <3>4, SumIsOfWindow
          <5>2. out = SumOf(c)
            BY <3>1, <4>1, <5>1 DEF Rolling1, rollingSum
          <5>3. QED
            BY <4>1, <5>2 DEF IsOfWindow
        <4>2. CASE fn = "std"
          <5>1. IsDeviation(rollingSum("std", v, window, i), c, window)
            BY <1>2, <3>2, <3>3, <3>4, StdIsOfWindow
          <5>2. QED
            BY <3>1, <4>2, <5>1 DEF Rolling1, IsOfWindow
        <4>3. CASE fn \in {"min", "max"}
          <5>1. rollingMinMax("min", v, window, i) = Min(CellSet(c))
            BY <1>2, <3>2, <3>3, <3>4, BestIsOfWindow
          <5>2. rollingMinMax("max", v, window, i) = Max(CellSet(c))
            BY <1>2, <3>2, <3>3, <3>4, BestIsOfWindow
          <5>3. out = rollingMinMax(fn, v, window, i)
            BY <3>1, <4>3 DEF Rolling1
          <5>4. QED
            BY <4>3, <5>1, <5>2, <5>3 DEF IsOfWindow
        <4>4. QED
          BY <4>1, <4>2, <4>3
      <3>6. QED
        BY <1>1, <1>2, <1>6, <1>8, <2>2, <2>4, <3>5
    <2>5. QED
      BY <2>3, <2>4
  <1>9. QED
    BY <1>2, <1>7, <1>8

LEMMA QueryRolls == QueryInv => RollingIsOfWindow
  <1> SUFFICES ASSUME QueryInv, phase = "done", request.op = "rolling", request.window > 0, result # nil
               PROVE  RollingIsOfWindow
    BY DEF RollingIsOfWindow
  <1>1. /\ request.window \in Nat \ {0} /\ request.fn \in {"sum", "mean", "std", "min", "max"}
        /\ IsSeries(df[request.column]) /\ df[request.column].arr.length = Height(df)
        /\ result = Rolled(df[request.column], request.fn, request.window)
    BY DEF QueryInv, RollingDone, IsFrame
  <1>2. ASSUME NEW i \in Rows
        PROVE  LET out == Cell(result.cols[1], i)
                   c == CellsOf(df[request.column], request.window, i)
               IN IF i < request.window - 1 THEN out = Null
                  ELSE IF \E j \in DOMAIN c : c[j] = Null THEN out = Null
                  ELSE IsOfWindow(out, request.fn, c, request.window)
    <2>1. i \in 0 .. df[request.column].arr.length - 1
      BY <1>1 DEF Rows
    <2>2. QED
      BY <1>1, <2>1, RolledColumn
  <1>3. QED
    BY <1>2 DEF RollingIsOfWindow, IsOfWindow, IsDeviation, CellSet, SquaresOff, OffMean, CellsOf, Windowed

(* RollingSum, RollingMean, RollingStd, RollingMin and RollingMax compute  *)
(* each cell from its own window, whatever prefix sums and queue hold of   *)
(* the rows before it.                                                     *)
THEOREM RollingUsesWindow == Spec => []RollingIsOfWindow
  BY InitQuery, NextQuery, QueryRolls, PTL DEF Spec

-----------------------------------------------------------------------------
(* What one word of a filter adds to a column of each kind                 *)

Remaining(m, wi) == MinOf(m.len - wi * wordSize, wordSize)

(* The rows picked of a word are those it selects, in order; a dense word  *)
(* selects all the rows there are.                                         *)
LEMMA Picked ==
  ASSUME NEW m, IsBitmap(m), NEW a, a.length = m.len, NEW wi \in WordIndexes(m.len)
  PROVE  LET rows == PickedRows(a, m.data[wi], wi)
             n == Remaining(m, wi)
         IN /\ rows = RowList(InWord(m, wi))
            /\ n \in 1 .. wordSize /\ wi * wordSize + n <= m.len
            /\ n = wordSize \/ wi * wordSize + n = m.len
            /\ allSet(m.data[wi], n) =>
                 m.data[wi] = LowBits(n) /\ rows = [k \in 1 .. n |-> wi * wordSize + k - 1]
  <1>1. PICK b, w, n : b = wi * wordSize /\ w = wordSize /\ n = Remaining(m, wi)
    OBVIOUS
  <1>2. w \in Nat \ {0} /\ m.len \in Nat /\ wi \in Nat /\ b < m.len
    BY <1>1, Words, WordOf DEF IsBitmap
  <1>3. b \in Nat
    BY <1>1, <1>2, ProductGrows
  <1>4. n \in 1 .. w /\ b + n <= m.len /\ (n = w \/ b + n = m.len)
    BY <1>1, <1>2, <1>3 DEF Remaining, MinOf
  <1>5. PICK word : word = m.data[wi]
    OBVIOUS
  <1>6. /\ InWord(m, wi) = {b + p : p \in word}
        /\ word \in SUBSET Positions /\ \A p \in word : b + p < m.len
    BY <1>1, <1>5, BitsOfWord
  <1>7. /\ PickedRows(a, word, wi) = IF allSet(word, n) THEN [k \in 1 .. n |-> b + k - 1]
                                   ELSE RowList({i \in {b + p : p \in word} : i < a.length})
    BY <1>1 DEF PickedRows, Remaining
  <1>8. ASSUME allSet(word, n)
        PROVE  word = LowBits(n) /\ [k \in 1 .. n |-> b + k - 1] = RowList(InWord(m, wi))
    <2>1. word = LowBits(n)
      <3>1. CASE word = AllOnes
        <4>1. w - 1 \in word
          BY <1>1, <1>2, <3>1, Words DEF AllOnes
        <4>2. b + (w - 1) < m.len
          BY <1>6, <4>1
        <4>3. n = w
          BY <1>1, <1>2, <1>3, <4>2 DEF Remaining, MinOf
        <4>4. QED
          BY <1>1, <3>1, <4>3 DEF AllOnes, LowBits, Positions
      <3>2. QED
        BY <1>8, <3>1 DEF allSet
    <2>2. PICK s : s = [k \in 1 .. n |-> b + k - 1]
      OBVIOUS
    <2>3. s \in Seq(Int) /\ DOMAIN s = 1 .. n /\ n \in Nat /\ \A k \in 1 .. n : s[k] = b + k - 1
      <3>1. \A k \in 1 .. n : b + k - 1 \in Int
        BY <1>3
      <3>2. n \in Nat
        BY <1>4
      <3>3. QED
        BY <2>2, <3>1, <3>2
    <2>4. Ascending(s)
      BY <1>3, <2>3 DEF Ascending
    <2>5. ToSet(s) = InWord(m, wi)
      <3>1. ASSUME NEW k \in 1 .. n PROVE \E p \in word : s[k] = b + p
        <4>1. k - 1 \in word /\ b + (k - 1) = s[k]
          BY <1>3, <1>4, <2>1, <2>3 DEF LowBits
        <4>2. QED
          BY <4>1
      <3>2. ASSUME NEW p \in word PROVE \E k \in 1 .. n : s[k] = b + p
        <4>1. p + 1 \in 1 .. n /\ s[p + 1] = b + p
          BY <1>3, <1>4, <2>1, <2>3 DEF LowBits
        <4>2. QED
          BY <4>1
      <3>3. ToSet(s) = {s[k] : k \in 1 .. n}
        BY <2>3 DEF ToSet
      <3>4. QED
        BY <1>6, <3>1, <3>2, <3>3
    <2>6. s = RowList(InWord(m, wi))
      BY <2>3, <2>4, <2>5, AscendingIsRowList
    <2>7. QED
      BY <2>1, <2>2, <2>6
  <1>9. {i \in {b + p : p \in word} : i < a.length} = InWord(m, wi)
    BY <1>6
  <1>10. PickedRows(a, word, wi) = RowList(InWord(m, wi))
    BY <1>7, <1>8, <1>9
  <1>11. allSet(word, n) => word = LowBits(n) /\ PickedRows(a, word, wi) = [k \in 1 .. n |-> b + k - 1]
    BY <1>7, <1>8
  <1>12. QED
    BY <1>1, <1>4, <1>5, <1>10, <1>11

LEMMA TypedAdds ==
  ASSUME NEW s, IsSeries(s), s.dtype \notin {"Boolean", "String"}, NEW n \in Nat, NEW m \in Nat,
         NEW cur, NEW j \in Nat, cur.j = j, NEW o, cur.arr = o, PartTyped(s.arr, o, n, j),
         NEW rows, DOMAIN rows = 1 .. m, \A q \in 1 .. m : rows[q] \in 0 .. s.arr.length - 1,
         j + m <= n
  PROVE  LET t == FilterTyped(s.arr, cur, rows)
         IN PartTyped(s.arr, t, n, j + m) /\ Added(s, t, o, rows, j)
  <1>1. PICK t, a : t = FilterTyped(s.arr, cur, rows) /\ a = s.arr
    OBVIOUS
  <1>2. /\ o = [values |-> o.values, validity |-> o.validity, length |-> n]
        /\ o.values \in [0 .. n - 1 -> Int] /\ IsValidity(o.validity, a, n, j)
    BY <1>1 DEF PartTyped
  <1>3. PICK v, u : /\ v = [p \in 0 .. n - 1 |-> IF p - j + 1 \in 1 .. m THEN a.values[rows[p - j + 1]]
                                                 ELSE o.values[p]]
                    /\ u = ClearNulls(o.validity, a, rows, j)
    OBVIOUS
  <1>3a. v = Put(o.values, j, rows, LAMBDA i : a.values[i])
    <2>1. DOMAIN o.values = 0 .. n - 1
      BY <1>2
    <2>2. Put(o.values, j, rows, LAMBDA i : a.values[i])
            = [p \in DOMAIN o.values |-> IF p - j + 1 \in DOMAIN rows THEN a.values[rows[p - j + 1]]
                                        ELSE o.values[p]]
      BY Zenon DEF Put
    <2>3. QED
      BY <1>3, <2>1, <2>2, Zenon
  <1>3b. t = WithValues(o, v, u)
    <2>1. t = WithValues(o, Put(o.values, j, rows, LAMBDA i : a.values[i]), ClearNulls(o.validity, a, rows, j))
      <3>1. \A x, k : x.arr = o /\ x.j = k =>
              FilterTyped(a, x, rows)
                = WithValues(o, Put(o.values, k, rows, LAMBDA i : a.values[i]), ClearNulls(o.validity, a, rows, k))
        BY Zenon DEF FilterTyped, WithValues
      <3>2. QED
        BY <1>1, <3>1, Zenon
    <2>2. QED
      BY <1>3, <1>3a, <2>1, Zenon
  <1>4. /\ t = [values |-> t.values, validity |-> t.validity, length |-> n]
        /\ t.values = v /\ t.validity = ClearNulls(o.validity, a, rows, j)
    <2>1. /\ t = [values |-> t.values, validity |-> t.validity, length |-> n]
          /\ t.values = v /\ t.validity = u
      BY <1>2, <1>3b, TypedRecord
    <2>2. QED
      BY <1>3, <2>1
  <1>5. t.values = [p \in 0 .. n - 1 |-> IF p - j + 1 \in 1 .. m THEN a.values[rows[p - j + 1]]
                                         ELSE o.values[p]]
    BY <1>3, <1>4
  <1>6. \A i \in 0 .. a.length - 1 : a.values[i] \in Int
    BY <1>1 DEF IsSeries, IsArray, IsTyped
  <1>7. t.values \in [0 .. n - 1 -> Int]
    <2>1. \A p \in 0 .. n - 1 :
            (IF p - j + 1 \in 1 .. m THEN a.values[rows[p - j + 1]] ELSE o.values[p]) \in Int
      BY <1>1, <1>2, <1>6
    <2>2. QED
      BY <1>5, <2>1
  <1>8. IsValidity(t.validity, a, n, j + m) /\ NullsOfRows(t.validity, o.validity, a, rows, j)
    BY <1>2, <1>4, NullsCleared
  <1>9. PartTyped(a, t, n, j + m)
    BY <1>4, <1>7, <1>8 DEF PartTyped
  <1>10. \A x \in {t, o} : \A k : Value(WithArr(s, x), k) = x.values[k]
    BY ArrOf DEF Value
  <1>11. \A k \in 0 .. j - 1 : Value(WithArr(s, t), k) = Value(WithArr(s, o), k)
    <2>1. ASSUME NEW k \in 0 .. j - 1 PROVE t.values[k] = o.values[k]
      <3>1. k \in 0 .. n - 1 /\ ~(k - j + 1 \in 1 .. m)
        OBVIOUS
      <3>2. QED
        BY <1>5, <3>1
    <2>2. QED
      BY <1>10, <2>1
  <1>12. \A q \in 1 .. m : Value(WithArr(s, t), j + q - 1) = Value(s, rows[q])
    <2>1. ASSUME NEW q \in 1 .. m PROVE t.values[j + q - 1] = a.values[rows[q]]
      <3>1. j + q - 1 \in 0 .. n - 1 /\ (j + q - 1) - j + 1 = q
        OBVIOUS
      <3>2. QED
        BY <1>5, <3>1
    <2>2. \A i : Value(s, i) = a.values[i]
      BY <1>1 DEF Value
    <2>3. QED
      BY <1>10, <2>1, <2>2
  <1>13. Added(s, t, o, rows, j)
    BY <1>1, <1>8, <1>11, <1>12, AddedByParts
  <1>14. QED
    BY <1>1, <1>9, <1>13

(* The bits of a boolean column, dense or bit by bit                       *)
LEMMA BooleanAdds ==
  ASSUME NEW s, IsSeries(s), s.dtype = "Boolean", NEW n \in Nat, NEW m \in Nat,
         NEW mask_, IsBitmapOf(mask_, s.arr.length), NEW wi \in WordIndexes(mask_.len),
         NEW cur, cur.wi = wi, NEW j \in Nat, cur.j = j, NEW o, cur.arr = o, PartBoolean(s.arr, o, n, j),
         NEW rows, rows = PickedRows(s.arr, mask_.data[wi], wi), DOMAIN rows = 1 .. m,
         \A q \in 1 .. m : rows[q] \in 0 .. s.arr.length - 1,
         j + m <= n,
         Remaining(mask_, wi) = wordSize \/ j + m = n
  PROVE  LET t == FilterBoolean(s.arr, cur, mask_.data[wi], rows)
         IN PartBoolean(s.arr, t, n, j + m) /\ Added(s, t, o, rows, j)
  <1>1. PICK t, a, r, b, w : /\ t = FilterBoolean(s.arr, cur, mask_.data[wi], rows) /\ a = s.arr
                             /\ r = Remaining(mask_, wi) /\ b = wi * wordSize /\ w = mask_.data[wi]
    OBVIOUS
  <1>2. /\ o = [data |-> o.data, validity |-> o.validity, length |-> n]
        /\ IsBitmapOf(o.data, n) /\ (\A k \in j .. n - 1 : ~IsSet(o.data, k))
        /\ IsValidity(o.validity, a, n, j)
    BY <1>1 DEF PartBoolean
  <1>3. /\ IsBitmap(mask_) /\ mask_.len = a.length /\ IsBitmapOf(a.data, a.length)
        /\ (a.validity = nil \/ IsBitmapOf(a.validity, a.length)) /\ a.length \in Nat
    BY <1>1 DEF IsBitmapOf, IsSeries, IsArray, IsBoolean
  <1>4. /\ r \in 1 .. wordSize /\ b + r <= a.length
        /\ allSet(w, r) => w = LowBits(r) /\ rows = [k \in 1 .. r |-> b + k - 1]
    BY <1>1, <1>3, Picked
  <1>5. r = MinOf(a.length - wi * wordSize, wordSize)
    BY <1>1, <1>3 DEF Remaining
  <1>6. \A v \in {t, o} : \A k : Value(WithArr(s, v), k) = IsSet(v.data, k)
    BY ArrOf DEF Value
  <1>7. \A i : Value(s, i) = IsSet(a.data, i)
    BY <1>1 DEF Value
  <1>8. SUFFICES /\ t = [data |-> t.data, validity |-> t.validity, length |-> n]
                 /\ IsBitmapOf(t.data, n)
                 /\ \A k \in j + m .. n - 1 : ~IsSet(t.data, k)
                 /\ \A k \in 0 .. j - 1 : IsSet(t.data, k) <=> IsSet(o.data, k)
                 /\ \A q \in 1 .. m : IsSet(t.data, j + q - 1) <=> IsSet(a.data, rows[q])
                 /\ IsValidity(t.validity, a, n, j + m)
                 /\ NullsOfRows(t.validity, o.validity, a, rows, j)
    <2>1. PartBoolean(a, t, n, j + m)
      BY <1>8 DEF PartBoolean
    <2>2. IsBitmap(t.data) /\ t.data.len = n /\ IsBitmap(o.data) /\ o.data.len = n
          /\ IsBitmap(a.data) /\ a.data.len = a.length
      BY <1>2, <1>3, <1>8 DEF IsBitmapOf
    <2>3. \A k \in 0 .. j - 1 : Value(WithArr(s, t), k) = Value(WithArr(s, o), k)
      <3>1. ASSUME NEW k \in 0 .. j - 1 PROVE IsSet(t.data, k) = IsSet(o.data, k)
        <4>1. k \in 0 .. n - 1
          OBVIOUS
        <4>2. QED
          BY <1>8, <2>2, <4>1, SameBit
      <3>2. QED
        BY <1>6, <3>1
    <2>4. \A q \in 1 .. m : Value(WithArr(s, t), j + q - 1) = Value(s, rows[q])
      <3>1. ASSUME NEW q \in 1 .. m PROVE IsSet(t.data, j + q - 1) = IsSet(a.data, rows[q])
        <4>1. j + q - 1 \in 0 .. n - 1 /\ rows[q] \in 0 .. a.length - 1
          BY <1>1
        <4>2. QED
          BY <1>8, <2>2, <4>1, SameBit
      <3>2. QED
        BY <1>6, <1>7, <3>1
    <2>5. Added(s, t, o, rows, j)
      BY <1>1, <1>8, <2>3, <2>4, AddedByParts
    <2>6. QED
      BY <1>1, <2>1, <2>5
  <1>9. CASE allSet(w, r) /\ IsAligned(cur)
    <2>1. PICK ow : ow = j \div wordSize
      OBVIOUS
    <2>2a. PICK v, u : /\ v = SetWord(o.data, ow, a.data.data[wi] \cap LowBits(r))
                       /\ u = IF a.validity = nil THEN o.validity
                              ELSE SetWord(o.validity, ow, a.validity.data[wi] \cap LowBits(r))
      OBVIOUS
    <2>2. t = WithBits(o, v, u)
      BY <1>1, <1>5, <1>9, <2>1, <2>2a DEF FilterBoolean, WithBits
    <2>3. /\ t = [data |-> t.data, validity |-> t.validity, length |-> n]
          /\ t.data = SetWord(o.data, ow, a.data.data[wi] \cap LowBits(r))
          /\ t.validity = IF a.validity = nil THEN o.validity
                          ELSE SetWord(o.validity, ow, a.validity.data[wi] \cap LowBits(r))
      <3>1. /\ t = [data |-> t.data, validity |-> t.validity, length |-> n]
            /\ t.data = v /\ t.validity = u
        BY <1>2, <2>2, BooleanRecord
      <3>2. QED
        BY <2>2a, <3>1
    <2>4. m = r /\ rows = [k \in 1 .. r |-> b + k - 1] /\ j % wordSize = 0
      <3>1. rows = [k \in 1 .. r |-> b + k - 1] /\ j % wordSize = 0
        BY <1>4, <1>9 DEF IsAligned
      <3>2. r \in Nat /\ 1 .. m = 1 .. r
        BY <1>4, <3>1
      <3>3. QED
        BY <3>1, <3>2
    <2>5. r = wordSize \/ j + r = n
      BY <1>1, <2>4
    <2>6. wi \in WordIndexes(a.length) /\ wi * wordSize + r <= a.length /\ j + r <= n
      BY <1>1, <1>3, <1>4, <2>4
    <2>7. /\ IsBitmapOf(t.data, n)
          /\ \A k \in 0 .. j - 1 : IsSet(t.data, k) <=> IsSet(o.data, k)
          /\ \A q \in 0 .. r - 1 : IsSet(t.data, j + q) <=> IsSet(a.data, wi * wordSize + q)
          /\ \A k \in j + r .. n - 1 : IsSet(t.data, k) <=> IsSet(o.data, k)
      <3>1. IsBitmap(a.data) /\ wi \in WordIndexes(a.data.len) /\ wi * wordSize + r <= a.data.len
        BY <1>3, <2>6 DEF IsBitmapOf
      <3>2. r \in 1 .. wordSize /\ n \in Nat /\ j \in Nat /\ j % wordSize = 0 /\ j + r <= n
            /\ IsBitmapOf(o.data, n) /\ ow = j \div wordSize
        BY <1>2, <1>4, <2>1, <2>4, <2>6
      <3>3. CopiedBits(SetWord(o.data, j \div wordSize, a.data.data[wi] \cap LowBits(r)),
                       o.data, n, j, a.data, wi * wordSize, r)
        BY <2>5, <3>1, <3>2, WordCopied
      <3>4. t.data = SetWord(o.data, j \div wordSize, a.data.data[wi] \cap LowBits(r))
        BY <2>3, <3>2
      <3>5. CopiedBits(t.data, o.data, n, j, a.data, wi * wordSize, r)
        BY <3>3, <3>4
      <3>6. QED
        BY <3>5 DEF CopiedBits
    <2>8. ASSUME a.validity # nil
          PROVE  /\ IsBitmapOf(t.validity, n)
                 /\ \A k \in 0 .. j - 1 : IsSet(t.validity, k) <=> IsSet(o.validity, k)
                 /\ \A q \in 0 .. r - 1 : IsSet(t.validity, j + q) <=> IsSet(a.validity, wi * wordSize + q)
                 /\ \A k \in j + r .. n - 1 : IsSet(t.validity, k) <=> IsSet(o.validity, k)
      <3>1. /\ IsBitmap(a.validity) /\ wi \in WordIndexes(a.validity.len)
            /\ wi * wordSize + r <= a.validity.len /\ IsBitmapOf(o.validity, n)
            /\ t.validity = SetWord(o.validity, ow, a.validity.data[wi] \cap LowBits(r))
        BY <1>2, <1>3, <2>3, <2>6, <2>8 DEF IsBitmapOf, IsValidity
      <3>2. r \in 1 .. wordSize /\ n \in Nat /\ j \in Nat /\ j % wordSize = 0 /\ j + r <= n
            /\ ow = j \div wordSize
        BY <1>4, <2>1, <2>4, <2>6
      <3>3. CopiedBits(SetWord(o.validity, j \div wordSize, a.validity.data[wi] \cap LowBits(r)),
                       o.validity, n, j, a.validity, wi * wordSize, r)
        BY <2>5, <3>1, <3>2, WordCopied
      <3>4. CopiedBits(t.validity, o.validity, n, j, a.validity, wi * wordSize, r)
        BY <3>1, <3>2, <3>3
      <3>5. QED
        BY <3>4 DEF CopiedBits
    <2>9. \A q \in 1 .. m : rows[q] = wi * wordSize + (q - 1) /\ j + q - 1 = j + (q - 1) /\ q - 1 \in 0 .. r - 1
      <3>1. b \in Int
        BY <1>1, <1>3, Words, WordOf, ProductGrows
      <3>2. \A q \in 1 .. m : rows[q] = b + (q - 1) /\ j + q - 1 = j + (q - 1) /\ q - 1 \in 0 .. r - 1
        BY <2>4, <3>1
      <3>3. QED
        BY <1>1, <3>2
    <2>10. \A q \in 1 .. m : IsSet(t.data, j + q - 1) <=> IsSet(a.data, rows[q])
      BY <2>7, <2>9
    <2>11. \A k \in j + m .. n - 1 : ~IsSet(t.data, k)
      <3>1. \A k \in j + m .. n - 1 : k \in j + r .. n - 1 /\ k \in j .. n - 1
        BY <2>4
      <3>2. QED
        BY <1>2, <2>7, <3>1
    <2>12. IsValidity(t.validity, a, n, j + m)
      <3>1. CASE a.validity = nil
        BY <1>2, <2>3, <3>1 DEF IsValidity
      <3>2. CASE a.validity # nil
        <4>1. \A k \in j + m .. n - 1 : k \in j + r .. n - 1 /\ k \in j .. n - 1
          BY <2>4
        <4>2. \A k \in j + m .. n - 1 : IsSet(t.validity, k)
          BY <1>2, <2>8, <3>2, <4>1 DEF IsValidity
        <4>3. QED
          BY <2>8, <3>2, <4>2 DEF IsValidity
      <3>3. QED
        BY <3>1, <3>2
    <2>13. NullsOfRows(t.validity, o.validity, a, rows, j)
      <3>1. CASE a.validity = nil
        BY <1>2, <2>3, <3>1 DEF IsValidity, NullsOfRows, NullAt, IsNull
      <3>2. CASE a.validity # nil
        <4>1. t.validity # nil /\ o.validity # nil
          BY <1>2, <2>8, <3>2, NilIsNoBitmap DEF IsValidity, IsBitmapOf
        <4>2. \A q \in 1 .. m : IsSet(t.validity, j + q - 1) <=> IsSet(a.validity, rows[q])
          BY <2>8, <2>9, <3>2
        <4>3. QED
          BY <2>8, <3>2, <4>1, <4>2 DEF NullsOfRows, NullAt, IsNull
      <3>3. QED
        BY <3>1, <3>2
    <2>14. QED
      BY <2>3, <2>7, <2>10, <2>11, <2>12, <2>13
  <1>10. CASE ~(allSet(w, r) /\ IsAligned(cur))
    <2>1. PICK S : S = {j + k - 1 : k \in {k \in 1 .. m : IsSet(a.data, rows[k])}}
      OBVIOUS
    <2>2a. PICK v, u : v = SetAll(o.data, S) /\ u = ClearNulls(o.validity, a, rows, j)
      OBVIOUS
    <2>2. t = WithBits(o, v, u)
      BY <1>1, <1>5, <1>10, <2>1, <2>2a DEF FilterBoolean, WithBits
    <2>3. /\ t = [data |-> t.data, validity |-> t.validity, length |-> n]
          /\ t.data = SetAll(o.data, S) /\ t.validity = ClearNulls(o.validity, a, rows, j)
      <3>1. /\ t = [data |-> t.data, validity |-> t.validity, length |-> n]
            /\ t.data = v /\ t.validity = u
        BY <1>2, <2>2, BooleanRecord
      <3>2. QED
        BY <2>2a, <3>1
    <2>4. \A i \in S : i \in j .. j + m - 1 /\ i \in 0 .. n - 1
      BY <2>1
    <2>5. /\ IsBitmapOf(t.data, n)
          /\ \A i \in 0 .. n - 1 : IsSet(t.data, i) <=> IsSet(o.data, i) \/ i \in S
      BY <1>2, <2>3, <2>4, BitsSet DEF IsBitmapOf
    <2>6. \A q \in 1 .. m : (j + q - 1) \in S <=> IsSet(a.data, rows[q])
      <3>1. ASSUME NEW q \in 1 .. m, (j + q - 1) \in S PROVE IsSet(a.data, rows[q])
        <4>1. PICK k \in 1 .. m : IsSet(a.data, rows[k]) /\ j + q - 1 = j + k - 1
          BY <2>1, <3>1
        <4>2. k = q
          BY <4>1
        <4>3. QED
          BY <4>1, <4>2
      <3>2. ASSUME NEW q \in 1 .. m, IsSet(a.data, rows[q]) PROVE (j + q - 1) \in S
        BY <2>1, <3>2
      <3>3. QED
        BY <3>1, <3>2
    <2>7. \A k \in 0 .. j - 1 : IsSet(t.data, k) <=> IsSet(o.data, k)
      <3>1. \A k \in 0 .. j - 1 : k \in 0 .. n - 1 /\ k \notin S
        BY <2>4
      <3>2. QED
        BY <2>5, <3>1
    <2>8. \A q \in 1 .. m : IsSet(t.data, j + q - 1) <=> IsSet(a.data, rows[q])
      <3>1. \A q \in 1 .. m : j + q - 1 \in 0 .. n - 1 /\ j + q - 1 \in j .. n - 1
        OBVIOUS
      <3>2. QED
        BY <1>2, <2>5, <2>6, <3>1
    <2>9. \A k \in j + m .. n - 1 : ~IsSet(t.data, k)
      <3>1. \A k \in j + m .. n - 1 : k \in 0 .. n - 1 /\ k \in j .. n - 1 /\ k \notin S
        BY <2>4
      <3>2. QED
        BY <1>2, <2>5, <3>1
    <2>10. IsValidity(t.validity, a, n, j + m) /\ NullsOfRows(t.validity, o.validity, a, rows, j)
      BY <1>2, <2>3, NullsCleared
    <2>11. QED
      BY <2>3, <2>5, <2>7, <2>8, <2>9, <2>10
  <1>11. QED
    BY <1>9, <1>10

TextWord(a, w, rows, j, pos, o, b, r, e, delta) ==
  WithBytes(o,
    IF allSet(w, r) THEN BlockBytes(o.bytes, a, pos, b, r, delta) ELSE CopyBytes(o.bytes, a, rows, e),
    IF allSet(w, r) THEN BlockOffsets(o.offsets, a, rows, j, delta) ELSE RowOffsets(o.offsets, rows, j, e),
    ClearNulls(o.validity, a, rows, j))

LEMMA FilteredText ==
  ASSUME NEW a, NEW w, NEW rows, NEW cur, NEW wi, cur.wi = wi, NEW j, cur.j = j, NEW pos, cur.pos = pos,
         NEW o, cur.arr = o, NEW b, b = wi * wordSize, NEW r, r = MinOf(a.length - b, wordSize),
         NEW e, e = Ends(a, rows, pos), NEW delta, delta = pos - a.offsets[b]
  PROVE  FilterString(a, cur, w, rows) = TextWord(a, w, rows, j, pos, o, b, r, e, delta)
  <1>1. FilterString(a, cur, w, rows)
          = TextWord(a, w, rows, cur.j, cur.pos, cur.arr, cur.wi * wordSize,
                     MinOf(a.length - cur.wi * wordSize, wordSize), Ends(a, rows, cur.pos),
                     cur.pos - a.offsets[cur.wi * wordSize])
    BY Zenon DEF FilterString, TextWord, WithBytes, BlockBytes, BlockOffsets, RowOffsets
  <1>2. QED
    BY <1>1, Zenon

LEMMA StringAdds ==
  ASSUME NEW s, IsSeries(s), s.dtype = "String", NEW n \in Nat, NEW m,
         NEW mask_, IsBitmapOf(mask_, s.arr.length), NEW wi \in WordIndexes(mask_.len),
         NEW cur, cur.wi = wi, NEW j \in Nat, cur.j = j, NEW pos \in Nat, cur.pos = pos,
         NEW total \in Nat, NEW o, cur.arr = o, PartString(s.arr, o, n, j, pos, total),
         NEW rows, rows = PickedRows(s.arr, mask_.data[wi], wi), RowsOf(rows, m, s.arr),
         j + m <= n, Ends(s.arr, rows, pos)[m] <= total
  PROVE  LET t == FilterString(s.arr, cur, mask_.data[wi], rows)
         IN PartString(s.arr, t, n, j + m, Ends(s.arr, rows, pos)[m], total) /\ Added(s, t, o, rows, j)
  <1>1. PICK t, a, r, b, w, e, delta :
          /\ t = FilterString(s.arr, cur, mask_.data[wi], rows) /\ a = s.arr
          /\ r = Remaining(mask_, wi) /\ b = wi * wordSize /\ w = mask_.data[wi]
          /\ e = Ends(s.arr, rows, pos) /\ delta = pos - s.arr.offsets[b]
    OBVIOUS
  <1>2. IsString(a) /\ a.length \in Nat
    BY <1>1 DEF IsSeries, IsArray
  <1>3. IsBitmap(mask_) /\ mask_.len = a.length
    BY <1>1 DEF IsBitmapOf
  <1>4. m \in Nat /\ DOMAIN rows = 1 .. m /\ RowsOf(rows, m, a)
    BY <1>1 DEF RowsOf
  <1>5. EndsOf(e, a, rows, m, pos)
    BY <1>1, <1>2, <1>4, EndsAre
  <1>6. /\ o = [bytes |-> o.bytes, offsets |-> o.offsets, validity |-> o.validity, length |-> n]
        /\ o.bytes = [p \in 0 .. total - 1 |-> o.bytes[p]]
        /\ o.offsets \in [0 .. n -> Nat]
    BY DEF PartString
  <1>7. DOMAIN o.bytes = 0 .. total - 1 /\ DOMAIN o.offsets = 0 .. n
    BY <1>6
  <1>8. PICK bb, v, u :
          /\ bb = IF allSet(w, r) THEN BlockBytes(o.bytes, a, pos, b, r, delta) ELSE CopyBytes(o.bytes, a, rows, e)
          /\ v = IF allSet(w, r) THEN BlockOffsets(o.offsets, a, rows, j, delta) ELSE RowOffsets(o.offsets, rows, j, e)
          /\ u = ClearNulls(o.validity, a, rows, j)
    OBVIOUS
  <1>9. t = WithBytes(o, bb, v, u)
    <2>1. r = MinOf(a.length - b, wordSize)
      BY <1>1, <1>3 DEF Remaining
    <2>2. FilterString(a, cur, w, rows) = WithBytes(o, bb, v, u)
      BY <1>1, <1>8, <2>1, FilteredText DEF TextWord
    <2>3. QED
      BY <1>1, <2>2
  <1>10. /\ t = [bytes |-> t.bytes, offsets |-> t.offsets, validity |-> t.validity, length |-> n]
         /\ t.bytes = bb /\ t.offsets = v /\ t.validity = u
    BY <1>6, <1>9, TextRecord
  <1>11. /\ r \in 1 .. wordSize /\ b + r <= a.length /\ b \in Nat
         /\ allSet(w, r) => rows = [k \in 1 .. r |-> b + k - 1]
    <2>1. /\ r \in 1 .. wordSize /\ b + r <= a.length
          /\ allSet(w, r) => rows = [k \in 1 .. r |-> b + k - 1]
      BY <1>1, <1>3, Picked
    <2>2. mask_.len \in Nat
      BY <1>2, <1>3
    <2>3. wi \in Nat
      BY <2>2, WordOf
    <2>4. b \in Nat
      BY <1>1, <2>3, Words, ProductGrows
    <2>5. QED
      BY <2>1, <2>4
  <1>12. SUFFICES TextsPut(a, t, o, rows, m, n, j, pos, total, e)
    <2>1. PartString(a, t, n, j + m, e[m], total) /\ Added(s, t, o, rows, j)
      BY <1>1, <1>4, <1>5, <1>12, TextAdds
    <2>2. QED
      BY <1>1, <2>1
  <1>13. CASE allSet(w, r)
    <2>1. rows = [k \in 1 .. r |-> b + k - 1] /\ m = r /\ r \in Nat
      <3>1. rows = [k \in 1 .. r |-> b + k - 1] /\ 1 .. m = 1 .. r /\ r \in Nat
        BY <1>4, <1>11, <1>13, Words
      <3>2. QED
        BY <1>4, <3>1
    <2>2. \A k \in 1 .. m : rows[k] = b + k - 1
      BY <2>1
    <2>3. \A k \in 0 .. m : b + k \in 0 .. a.length /\ e[k] = pos + a.offsets[b + k] - a.offsets[b]
      <3>1. b \in Nat /\ b + m <= a.length
        BY <1>11, <2>1
      <3>2. QED
        <4>1. DenseRows(rows, m, b)
          BY <2>2 DEF DenseRows
        <4>2. DenseEnds(e, a, m, b, pos)
          BY <1>2, <1>4, <1>5, <3>1, <4>1, EndsDense
        <4>3. QED
          BY <4>2 DEF DenseEnds
    <2>4. \A k \in 0 .. a.length : a.offsets[k] \in Nat
      BY <1>2 DEF IsString
    <2>5. b \in 0 .. a.length /\ a.offsets[b] \in Nat
      BY <1>2, <1>11, <2>1, <2>4
    <2>6. t.offsets = [k \in 0 .. n |-> IF k - j \in 1 .. m THEN e[k - j] ELSE o.offsets[k]]
      <3>1. v = [k \in 0 .. n |-> IF k - j \in 1 .. m THEN a.offsets[rows[k - j] + 1] + delta ELSE o.offsets[k]]
        <4>1. v = BlockOffsets(o.offsets, a, rows, j, delta)
          BY <1>8, <1>13
        <4>2. v = [k \in DOMAIN o.offsets |->
                     IF k - (j + 1) + 1 \in DOMAIN rows
                       THEN a.offsets[rows[k - (j + 1) + 1] + 1] + delta ELSE o.offsets[k]]
          BY <4>1, Zenon DEF BlockOffsets, Put
        <4>3. \A k \in 0 .. n : k - (j + 1) + 1 = k - j
          OBVIOUS
        <4>4. PICK f : f = [k \in 0 .. n |-> IF k - j \in 1 .. m THEN a.offsets[rows[k - j] + 1] + delta
                                           ELSE o.offsets[k]]
          OBVIOUS
        <4>5. DOMAIN o.offsets = 0 .. n /\ DOMAIN rows = 1 .. m
          BY <1>4, <1>7
        <4>6. v = [k \in 0 .. n |->
                     IF k - (j + 1) + 1 \in 1 .. m
                       THEN a.offsets[rows[k - (j + 1) + 1] + 1] + delta ELSE o.offsets[k]]
          BY <4>2, <4>5, Zenon
        <4>7. \A k \in 0 .. n : v[k] = f[k]
          BY <4>3, <4>4, <4>6
        <4>8. v = [k \in 0 .. n |-> v[k]] /\ f = [k \in 0 .. n |-> f[k]]
          BY <4>4, <4>6
        <4>9. v = f
          BY <4>7, <4>8
        <4>10. QED
          BY <4>4, <4>9
      <3>2. \A q \in 1 .. m : a.offsets[rows[q] + 1] + delta = e[q]
        <4>1. ASSUME NEW q \in 1 .. m PROVE a.offsets[rows[q] + 1] + delta = e[q]
          <5>1. rows[q] + 1 = b + q /\ q \in 0 .. m
            BY <1>4, <1>11, <2>2
          <5>2. PICK x, y : x = a.offsets[b + q] /\ y = a.offsets[b]
            OBVIOUS
          <5>3. x \in Nat /\ y \in Nat /\ e[q] = pos + x - y
            BY <2>3, <2>4, <2>5, <5>1, <5>2
          <5>4. delta = pos - y
            BY <1>1, <5>2
          <5>5. pos \in Nat
            BY <1>4
          <5>6. x + delta = e[q]
            BY <5>3, <5>4, <5>5
          <5>7. QED
            BY <5>1, <5>2, <5>6
        <4>2. QED
          BY <4>1
      <3>3. QED
        BY <1>10, <3>1, <3>2
    <2>7. t.bytes = [p \in 0 .. total - 1 |-> IF pos <= p /\ p < e[m] THEN a.bytes[p - delta] ELSE o.bytes[p]]
      <3>1. a.offsets[b + r] + delta = e[m]
        <4>1. m \in 0 .. m
          BY <1>4
        <4>2. PICK x, y : x = a.offsets[b + m] /\ y = a.offsets[b]
          OBVIOUS
        <4>3. e[m] = pos + x - y /\ x \in Nat /\ y \in Nat /\ delta = pos - y
          BY <1>1, <2>3, <2>4, <2>5, <4>1, <4>2
        <4>4. x + delta = e[m]
          BY <4>3
        <4>5. QED
          BY <2>1, <4>2, <4>4
      <3>2. QED
        BY <1>7, <1>8, <1>10, <1>13, <3>1, Zenon DEF BlockBytes
    <2>8. e[0] = pos /\ \A k \in 0 .. m : e[k] \in Nat
      BY <1>5 DEF EndsOf
    <2>9. \A p \in 0 .. pos - 1 : t.bytes[p] = o.bytes[p]
      <3>1. \A p \in 0 .. pos - 1 : p \in 0 .. total - 1 /\ ~(pos <= p)
        <4>1. pos <= e[m] /\ e[m] <= total
          <5>1. 0 \in 0 .. m /\ m \in 0 .. m
            BY <1>4
          <5>2. e[0] <= e[m]
            BY <1>2, <1>4, <1>5, <5>1, EndsRise
          <5>3. QED
            BY <1>1, <2>8, <5>2
        <4>2. QED
          <5>1. m \in 0 .. m
            BY <1>4
          <5>2. QED
            BY <2>8, <4>1, <5>1
      <3>2. QED
        BY <2>7, <3>1
    <2>10. ASSUME NEW q \in 1 .. m, NEW i \in 0 .. Width(a, rows[q]) - 1
           PROVE  t.bytes[e[q - 1] + i] = a.bytes[a.offsets[rows[q]] + i]
      <3>1. q - 1 \in 0 .. m /\ q \in 0 .. m /\ m \in 0 .. m /\ 0 \in 0 .. m /\ rows[q] = b + (q - 1)
        BY <1>4, <1>11, <2>2
      <3>2. PICK x, y, z, f : x = e[q - 1] /\ y = e[q] /\ z = e[m] /\ f = a.offsets[rows[q]]
        OBVIOUS
      <3>3. x \in Nat /\ y \in Nat /\ z \in Nat /\ f \in Nat /\ x = f + delta /\ delta \in Int
        <4>1. x = pos + a.offsets[b + (q - 1)] - a.offsets[b] /\ b + (q - 1) \in 0 .. a.length
          BY <2>3, <3>1, <3>2
        <4>2. PICK y_ : y_ = a.offsets[b]
          OBVIOUS
        <4>3. f \in Nat /\ y_ \in Nat /\ x = pos + f - y_ /\ delta = pos - y_
          BY <1>1, <2>4, <2>5, <3>1, <3>2, <4>1, <4>2
        <4>4. x \in Nat /\ z \in Nat /\ y \in Nat
          BY <2>8, <3>1, <3>2
        <4>5. QED
          BY <4>3, <4>4
      <3>4. y = x + Width(a, rows[q]) /\ Width(a, rows[q]) \in Nat
        <4>1. y = x + Width(a, rows[q])
          BY <1>5, <3>2 DEF EndsOf
        <4>2. rows[q] \in 0 .. a.length - 1
          BY <1>4 DEF RowsOf
        <4>3. QED
          BY <1>2, <4>1, <4>2, WidthOf
      <3>5. pos <= x /\ y <= z /\ z <= total
        <4>1. q - 1 \in 0 .. m /\ m \in q .. m
          BY <1>4, <3>1
        <4>2. e[0] <= e[q - 1] /\ e[q] <= e[m]
          BY <1>2, <1>4, <1>5, <3>1, <4>1, EndsRise
        <4>3. QED
          BY <1>1, <2>8, <3>2, <4>2
      <3>6. PICK w_ : w_ = Width(a, rows[q])
        OBVIOUS
      <3>7. w_ \in Nat /\ i \in 0 .. w_ - 1 /\ y = x + w_
        BY <3>4, <3>6
      <3>8. x + i \in 0 .. total - 1 /\ pos <= x + i /\ x + i < z /\ (x + i) - delta = f + i
        BY <3>3, <3>5, <3>7
      <3>9. t.bytes[x + i] = a.bytes[(x + i) - delta]
        BY <2>7, <3>2, <3>8
      <3>10. QED
        BY <3>2, <3>8, <3>9
    <2>11. t.bytes = [p \in 0 .. total - 1 |-> t.bytes[p]]
      BY <2>7
    <2>12. QED
      BY <1>8, <1>10, <2>6, <2>9, <2>10, <2>11 DEF TextsPut
  <1>14. CASE ~allSet(w, r)
    <2>1. bb = CopyBytes(o.bytes, a, rows, e) /\ v = RowOffsets(o.offsets, rows, j, e)
      BY <1>8, <1>14
    <2>2. BytesPut(bb, o.bytes, a, rows, m, e, pos, total)
      BY <1>1, <1>2, <1>4, <1>5, <1>7, <2>1, BytesCopied
    <2>3. v = [k \in 0 .. n |-> IF k - j \in 1 .. m THEN e[k - j] ELSE o.offsets[k]]
      BY <1>4, <1>7, <2>1, Zenon DEF RowOffsets
    <2>4. QED
      <3>1. BytesPut(t.bytes, o.bytes, a, rows, m, e, pos, total)
        BY <1>10, <2>2, Zenon
      <3>2. t.offsets = [k \in 0 .. n |-> IF k - j \in 1 .. m THEN e[k - j] ELSE o.offsets[k]]
        BY <1>10, <2>3, Zenon
      <3>3. QED
        BY <1>8, <1>10, <3>1, <3>2, Zenon DEF BytesPut, TextsPut
  <1>15. QED
    BY <1>13, <1>14

(* The bytes of the rows each word selects, and of all of them             *)
WordBytes(a, m) ==
  [wi \in DOMAIN m.data |-> Ends(a, PickedRows(a, m.data[wi], wi), 0)[Len(PickedRows(a, m.data[wi], wi))]]

AllBytes(a, m) == SumOver(WordBytes(a, m), DOMAIN m.data)

(* The rows of a word, for the kernels                                     *)
LEMMA RowsOfWord ==
  ASSUME NEW a, a.length \in Nat, NEW m, IsBitmapOf(m, a.length), NEW wi \in WordIndexes(m.len),
         NEW rows, rows = PickedRows(a, m.data[wi], wi)
  PROVE  /\ rows = RowList(InWord(m, wi))
         /\ RowsOf(rows, Cardinality(InWord(m, wi)), a)
  <1>1. IsBitmap(m) /\ m.len = a.length
    BY DEF IsBitmapOf
  <1>2. rows = RowList(InWord(m, wi))
    BY <1>1, Picked
  <1>3. wi \in Nat
    BY <1>1, WordOf
  <1>4. IsFiniteSet(InWord(m, wi))
    BY <1>1, <1>3, WordStep
  <1>5. \A i \in InWord(m, wi) : i \in Int /\ i \in 0 .. a.length - 1
    BY <1>1 DEF InWord
  <1>6. PICK S : S = InWord(m, wi)
    OBVIOUS
  <1>7. /\ rows \in Seq(S) /\ Len(rows) = Cardinality(S) /\ DOMAIN rows = 1 .. Cardinality(S)
        /\ Cardinality(S) \in Nat
    BY <1>2, <1>4, <1>5, <1>6, RowListAscends
  <1>8. \A q \in 1 .. Cardinality(S) : rows[q] \in S
    BY <1>7
  <1>9. QED
    BY <1>2, <1>5, <1>6, <1>7, <1>8 DEF RowsOf

LEMMA BytesOfWords ==
  ASSUME NEW a, IsString(a), a.length \in Nat, NEW m, IsBitmapOf(m, a.length)
  PROVE  /\ \A wi \in 0 .. wordsNeeded(m.len) - 1 : WordBytes(a, m)[wi] \in Nat
         /\ AllBytes(a, m) \in Nat
         /\ \A wi \in 0 .. wordsNeeded(m.len) :
              /\ SumOver(WordBytes(a, m), 0 .. wi - 1) \in Nat
              /\ SumOver(WordBytes(a, m), 0 .. wi - 1) <= AllBytes(a, m)
  <1>1. PICK W, v : W = wordsNeeded(m.len) /\ v = WordBytes(a, m)
    OBVIOUS
  <1>2. W \in Nat /\ DOMAIN m.data = 0 .. W - 1 /\ WordIndexes(m.len) = 0 .. W - 1
    BY <1>1, AllWords DEF IsBitmapOf, WordIndexes
  <1>3. \A wi \in 0 .. W - 1 : v[wi] \in Nat
    <2>1. ASSUME NEW wi \in 0 .. W - 1 PROVE v[wi] \in Nat
      <3>1. PICK rows, n : rows = PickedRows(a, m.data[wi], wi) /\ n = Cardinality(InWord(m, wi))
        OBVIOUS
      <3>2. RowsOf(rows, n, a)
        BY <1>2, <3>1, RowsOfWord
      <3>3. EndsOf(Ends(a, rows, 0), a, rows, n, 0)
        BY <3>2, EndsAre
      <3>4. Len(rows) = n /\ n \in 0 .. n
        BY <3>2 DEF RowsOf
      <3>5. Ends(a, rows, 0)[n] \in Nat
        BY <3>3, <3>4 DEF EndsOf
      <3>6. v[wi] = Ends(a, rows, 0)[Len(rows)]
        BY <1>1, <1>2, <3>1 DEF WordBytes
      <3>7. QED
        BY <3>4, <3>5, <3>6
    <2>2. QED
      BY <2>1
  <1>4. \A k \in 0 .. W : SumOver(v, 0 .. k - 1) \in Nat /\ SumOver(v, 0 .. k - 1) <= SumOver(v, 0 .. W - 1)
    BY <1>2, <1>3, SumsRise
  <1>5. AllBytes(a, m) = SumOver(v, 0 .. W - 1)
    BY <1>1, <1>2 DEF AllBytes
  <1>6. W \in 0 .. W
    BY <1>2
  <1>7. AllBytes(a, m) \in Nat
    BY <1>4, <1>5, <1>6
  <1>8. QED
    BY <1>1, <1>3, <1>4, <1>5, <1>7

(* The array of a column whose first wi words are done                     *)
PartArray(s, m, wi, pos, o) ==
  LET j == Cardinality(Before(m, wi))
  IN CASE s.dtype = "Boolean" -> PartBoolean(s.arr, o, PopCount(m), j)
       [] s.dtype = "String" -> /\ pos = SumOver(WordBytes(s.arr, m), 0 .. wi - 1)
                                /\ PartString(s.arr, o, PopCount(m), j, pos, AllBytes(s.arr, m))
       [] OTHER -> PartTyped(s.arr, o, PopCount(m), j)

(* What the goroutine of a column has done                                 *)
Filled(s, m, cur) ==
  IF s.dtype \notin Filterable THEN cur.done /\ cur.arr = s.arr
  ELSE /\ cur.wi \in 0 .. wordsNeeded(m.len)
       /\ cur.done <=> cur.wi = wordsNeeded(m.len)
       /\ cur.j = Cardinality(Before(m, cur.wi))
       /\ PartArray(s, m, cur.wi, cur.pos, cur.arr)
       /\ CellsBefore(s, m, cur.wi, cur.arr)

StartArray(s, m) ==
  CASE s.dtype \notin Filterable -> s.arr
    [] s.dtype = "Boolean" -> BooleanArray(NewEmpty(PopCount(m)), NewValidity(s.arr, PopCount(m)))
    [] s.dtype = "String" -> StringArray(ZeroTo(AllBytes(s.arr, m)), ZeroTo(PopCount(m) + 1),
                                         NewValidity(s.arr, PopCount(m)))
    [] OTHER -> TypedArray(ZeroTo(PopCount(m)), NewValidity(s.arr, PopCount(m)))

LEMMA ColumnStarted ==
  ASSUME NEW s, IsSeries(s), NEW m, IsBitmapOf(m, s.arr.length)
  PROVE  Filled(s, m, StartColumn(s, m))
  <1>1. PICK a, n, v, cur : /\ a = s.arr /\ n = PopCount(m) /\ v = NewValidity(a, n)
                            /\ cur = StartColumn(s, m)
    OBVIOUS
  <1>2. PICK o : o = StartArray(s, m)
    OBVIOUS
  <1>3. cur = [wi |-> 0, j |-> 0, pos |-> 0,
               done |-> s.dtype \notin Filterable \/ DOMAIN m.data = {}, arr |-> o]
    <2>1. StartColumn(s, m) = [wi |-> 0, j |-> 0, pos |-> 0,
                               done |-> s.dtype \notin Filterable \/ DOMAIN m.data = {}, arr |-> StartArray(s, m)]
      BY Zenon DEF StartColumn, StartArray, ZeroTo, AllBytes, WordBytes, SumOver
    <2>2. QED
      BY <1>1, <1>2, <2>1
  <1>4. /\ cur.wi = 0 /\ cur.j = 0 /\ cur.pos = 0 /\ cur.arr = o
        /\ cur.done = (s.dtype \notin Filterable \/ DOMAIN m.data = {})
    BY <1>3
  <1>5. CASE s.dtype \notin Filterable
    <2>1. o = s.arr
      BY <1>2, <1>5 DEF StartArray, Filterable, Takeable
    <2>2. cur.done
      BY <1>4, <1>5
    <2>3. QED
      BY <1>1, <1>4, <1>5, <2>1, <2>2 DEF Filled
  <1>6. CASE s.dtype \in Filterable
    <2>1. IsBitmap(m) /\ m.len = a.length /\ a.length \in Nat /\ IsBitmapOf(m, a.length)
      BY <1>1 DEF IsBitmapOf, IsSeries, IsArray
    <2>2. /\ wordsNeeded(m.len) \in Nat /\ DOMAIN m.data = 0 .. wordsNeeded(m.len) - 1
          /\ Before(m, 0) = {}
      BY <2>1, AllWords
    <2>3. n \in Nat
      BY <1>1, <2>1, CountBits
    <2>4. Cardinality(Before(m, 0)) = 0
      BY <2>2, FS_EmptySet
    <2>5. cur.done <=> cur.wi = wordsNeeded(m.len)
      <3>1. PICK W : W = wordsNeeded(m.len)
        OBVIOUS
      <3>2. W \in Nat /\ DOMAIN m.data = 0 .. W - 1
        BY <2>2, <3>1
      <3>3. CASE W = 0
        <4>1. 0 .. W - 1 = {}
          BY <3>3
        <4>2. QED
          BY <1>4, <3>1, <3>2, <3>3, <4>1
      <3>4. CASE W # 0
        <4>1. 0 \in 0 .. W - 1
          BY <3>2, <3>4
        <4>2. DOMAIN m.data # {}
          BY <3>2, <4>1
        <4>3. ~cur.done
          BY <1>4, <1>6, <4>2
        <4>4. QED
          BY <1>4, <3>1, <3>4, <4>3
      <3>5. QED
        BY <3>3, <3>4
    <2>6. CellsBefore(s, m, 0, o)
      BY <2>4 DEF CellsBefore
    <2>7. IsValidity(v, a, n, 0)
      <3>1. IsBitmapOf(NewBitmap(n), n) /\ \A i \in 0 .. n - 1 : IsSet(NewBitmap(n), i)
        BY <2>3, NewBits
      <3>2. QED
        BY <1>1, <3>1 DEF IsValidity, NewValidity
    <2>8. PartArray(s, m, 0, 0, o)
      <3>1. CASE s.dtype = "Boolean"
        <4>1. IsBitmapOf(NewEmpty(n), n) /\ \A i \in 0 .. n - 1 : ~IsSet(NewEmpty(n), i)
          BY <2>3, EmptyBits
        <4>2. o = BooleanArray(NewEmpty(n), v)
          BY <1>1, <1>2, <1>6, <3>1 DEF StartArray
        <4>3. PICK d : d = NewEmpty(n)
          OBVIOUS
        <4>4. o = [data |-> d, validity |-> v, length |-> n]
          BY <4>1, <4>2, <4>3 DEF BooleanArray, IsBitmapOf
        <4>5. PartBoolean(a, o, n, 0)
          BY <2>7, <4>1, <4>3, <4>4 DEF PartBoolean
        <4>6. QED
          BY <1>1, <2>4, <3>1, <4>5 DEF PartArray
      <3>2. CASE s.dtype = "String"
        <4>1. IsString(a)
          BY <1>1, <3>2 DEF IsSeries, IsArray
        <4>2. PICK total, b, f : total = AllBytes(a, m) /\ b = ZeroTo(total) /\ f = ZeroTo(n + 1)
          OBVIOUS
        <4>3. /\ total \in Nat /\ SumOver(WordBytes(a, m), 0 .. 0 - 1) \in Nat
          <5>1. 0 \in 0 .. wordsNeeded(m.len)
            BY <2>2
          <5>2. QED
            BY <2>1, <4>1, <4>2, <5>1, BytesOfWords
        <4>4. SumOver(WordBytes(a, m), 0 .. 0 - 1) = 0
          <5>1. \A k \in 0 .. 0 - 1 : WordBytes(a, m)[k] \in Int
            OBVIOUS
          <5>2. QED
            BY <5>1, SumGrows
        <4>5. b = [p \in 0 .. total - 1 |-> b[p]] /\ f \in [0 .. n -> Nat] /\ f[0] = 0 /\ DOMAIN f = 0 .. n
          BY <2>3, <4>2 DEF ZeroTo
        <4>6. o = [bytes |-> b, offsets |-> f, validity |-> v, length |-> n]
          <5>1. n + 1 \in Nat /\ (n + 1) - 1 = n
            BY <2>3
          <5>2. Cardinality(DOMAIN f) = n + 1
            BY <4>5, <5>1, RowCount
          <5>3. o = StringArray(b, f, v)
            BY <1>1, <1>2, <1>6, <3>2, <4>2 DEF StartArray
          <5>4. QED
            BY <5>1, <5>2, <5>3 DEF StringArray
        <4>7. PartString(a, o, n, 0, 0, total)
          BY <2>3, <2>7, <4>3, <4>5, <4>6 DEF PartString
        <4>8. QED
          BY <1>1, <2>4, <3>2, <4>2, <4>4, <4>7 DEF PartArray
      <3>3. CASE s.dtype \notin {"Boolean", "String"}
        <4>1. PICK z : z = ZeroTo(n)
          OBVIOUS
        <4>2. z \in [0 .. n - 1 -> Int] /\ Cardinality(DOMAIN z) = n
          <5>1. z \in [0 .. n - 1 -> Int] /\ DOMAIN z = 0 .. n - 1
            BY <4>1 DEF ZeroTo
          <5>2. QED
            BY <2>3, <5>1, RowCount
        <4>3. o = [values |-> z, validity |-> v, length |-> n]
          BY <1>1, <1>2, <1>6, <3>3, <4>1, <4>2 DEF StartArray, TypedArray
        <4>4. PartTyped(a, o, n, 0)
          BY <2>7, <4>2, <4>3 DEF PartTyped
        <4>5. QED
          BY <1>1, <2>4, <3>3, <4>4 DEF PartArray
      <3>4. QED
        BY <3>1, <3>2, <3>3
    <2>9. 0 \in 0 .. wordsNeeded(m.len)
      BY <2>2
    <2>10. QED
      BY <1>1, <1>4, <1>6, <2>4, <2>5, <2>6, <2>8, <2>9 DEF Filled
  <1>7. QED
    BY <1>5, <1>6

(* One more word                                                           *)
NextWord(s, m, cur) ==
  LET a == s.arr
      w == m.data[cur.wi]
      rows == PickedRows(a, w, cur.wi)
  IN [wi |-> cur.wi + 1,
      j |-> cur.j + Len(rows),
      pos |-> IF s.dtype = "String" THEN Ends(a, rows, cur.pos)[Len(rows)] ELSE 0,
      done |-> cur.wi + 1 \notin DOMAIN m.data,
      arr |-> CASE s.dtype = "Boolean" -> FilterBoolean(a, cur, w, rows)
                [] s.dtype = "String" -> FilterString(a, cur, w, rows)
                [] OTHER -> FilterTyped(a, cur, rows)]

LEMMA WordFilled ==
  ASSUME NEW s, IsSeries(s), NEW m, IsBitmapOf(m, s.arr.length), NEW cur, Filled(s, m, cur), ~cur.done
  PROVE  Filled(s, m, NextWord(s, m, cur))
  <1>1. PICK a, wi, j, pos, o, w, W, n : /\ a = s.arr /\ wi = cur.wi /\ j = cur.j /\ pos = cur.pos /\ o = cur.arr
                                         /\ w = m.data[wi] /\ W = wordsNeeded(m.len) /\ n = PopCount(m)
    OBVIOUS
  <1>2. PICK rows, c, next, t :
          /\ rows = PickedRows(a, w, wi) /\ c = Cardinality(InWord(m, wi)) /\ next = NextWord(s, m, cur)
          /\ t = CASE s.dtype = "Boolean" -> FilterBoolean(a, cur, w, rows)
                   [] s.dtype = "String" -> FilterString(a, cur, w, rows)
                   [] OTHER -> FilterTyped(a, cur, rows)
    OBVIOUS
  <1>3. /\ s.dtype \in Filterable /\ wi \in 0 .. W /\ wi # W /\ j = Cardinality(Before(m, wi))
        /\ PartArray(s, m, wi, pos, o) /\ CellsBefore(s, m, wi, o)
    BY <1>1 DEF Filled
  <1>4. IsBitmap(m) /\ m.len = a.length /\ a.length \in Nat /\ IsBitmapOf(m, a.length)
    BY <1>1 DEF IsBitmapOf, IsSeries, IsArray
  <1>5. W \in Nat /\ DOMAIN m.data = 0 .. W - 1 /\ WordIndexes(m.len) = 0 .. W - 1
    BY <1>1, <1>4, AllWords DEF WordIndexes
  <1>6. wi \in WordIndexes(m.len) /\ wi \in Nat /\ wi + 1 \in 0 .. W /\ wi \in 0 .. W - 1
    BY <1>3, <1>5
  <1>7. rows = RowList(InWord(m, wi)) /\ RowsOf(rows, c, a)
    BY <1>1, <1>2, <1>4, <1>6, RowsOfWord
  <1>8. c \in Nat /\ DOMAIN rows = 1 .. c /\ Len(rows) = c
    BY <1>7 DEF RowsOf
  <1>9. PICK S, T : S = Before(m, wi + 1) /\ T = Before(m, wi)
    OBVIOUS
  <1>10. /\ IsFiniteSet(S) /\ (\A x \in S : x \in Int) /\ T \in SUBSET S
         /\ S \ T = InWord(m, wi) /\ \A x \in T : \A y \in S \ T : x < y
    BY <1>4, <1>6, <1>9, WordStep
  <1>11. /\ Cardinality(T) \in Nat /\ Cardinality(S \ T) \in Nat
         /\ Cardinality(S) = Cardinality(T) + Cardinality(S \ T)
         /\ \A k \in 1..Cardinality(T) : RowList(S)[k] = RowList(T)[k]
         /\ \A k \in 1..Cardinality(S \ T) : RowList(S)[Cardinality(T) + k] = RowList(S \ T)[k]
    BY <1>10, RowListJoins
  <1>12. /\ j \in Nat /\ j = Cardinality(T) /\ Cardinality(S) = j + c
         /\ \A k \in 1 .. j : RowList(S)[k] = RowList(T)[k]
         /\ \A k \in 1 .. c : RowList(S)[j + k] = rows[k]
    BY <1>2, <1>3, <1>7, <1>9, <1>10, <1>11
  <1>13. n \in Nat /\ j + c <= n
    BY <1>1, <1>4, <1>6, <1>9, <1>12, CountBits
  <1>14. Remaining(m, wi) = wordSize \/ j + c = n
    <2> SUFFICES ASSUME Remaining(m, wi) # wordSize PROVE j + c = n
      OBVIOUS
    <2>1. wi * wordSize + Remaining(m, wi) = m.len /\ Remaining(m, wi) \in 1 .. wordSize
      BY <1>4, <1>6, Picked
    <2>2. PICK b, e, z, r : /\ b = wi * wordSize /\ e = (wi + 1) * wordSize /\ z = wordSize
                            /\ r = Remaining(m, wi)
      OBVIOUS
    <2>3. b \in Nat /\ e = b + z /\ z \in Nat
      BY <1>6, <2>2, Words, ProductGrows
    <2>4. m.len <= e
      BY <2>1, <2>2, <2>3
    <2>5. \A i \in 0 .. m.len - 1 : i < e
      BY <1>4, <2>3, <2>4
    <2>6. S = {i \in 0 .. m.len - 1 : IsSet(m, i)}
      BY <1>9, <2>2, <2>5 DEF Before
    <2>7. QED
      BY <1>1, <1>4, <1>12, <2>6, CountBits
  <1>15. /\ next.wi = wi + 1 /\ next.j = j + c /\ next.arr = t
         /\ next.done = (wi + 1 \notin DOMAIN m.data)
         /\ next.pos = IF s.dtype = "String" THEN Ends(a, rows, pos)[c] ELSE 0
    <2>1. next = [wi |-> wi + 1, j |-> j + Len(rows),
                  pos |-> IF s.dtype = "String" THEN Ends(a, rows, pos)[Len(rows)] ELSE 0,
                  done |-> wi + 1 \notin DOMAIN m.data, arr |-> t]
      BY <1>1, <1>2, Zenon DEF NextWord
    <2>2. QED
      BY <1>8, <2>1
  <1>16. PartArray(s, m, wi + 1, next.pos, t) /\ Added(s, t, o, rows, j)
    <2>1. CASE s.dtype = "Boolean"
      <3>1. PartBoolean(a, o, n, j)
        BY <1>1, <1>3, <2>1 DEF PartArray
      <3>2. t = FilterBoolean(a, cur, w, rows)
        BY <1>2, <2>1
      <3>3. \A q \in 1 .. c : rows[q] \in 0 .. s.arr.length - 1
        BY <1>1, <1>7 DEF RowsOf
      <3>4. PartBoolean(a, t, n, j + c) /\ Added(s, t, o, rows, j)
        <4>1. PICK f : f = FilterBoolean(s.arr, cur, m.data[wi], rows)
          OBVIOUS
        <4>2. rows = PickedRows(s.arr, m.data[wi], wi) /\ cur.wi = wi /\ cur.j = j /\ cur.arr = o
          BY <1>1, <1>2
        <4>3. PartBoolean(s.arr, o, n, j) /\ IsBitmapOf(m, s.arr.length)
          BY <1>1, <3>1
        <4>4. PartBoolean(s.arr, f, n, j + c) /\ Added(s, f, o, rows, j)
          BY <1>6, <1>8, <1>12, <1>13, <1>14, <2>1, <3>3, <4>1, <4>2, <4>3, BooleanAdds
        <4>5. QED
          BY <1>1, <3>2, <4>1, <4>4
      <3>5. QED
        BY <1>1, <1>9, <1>12, <2>1, <3>4 DEF PartArray
    <2>2. CASE s.dtype = "String"
      <3>1. PICK total, v : total = AllBytes(a, m) /\ v = WordBytes(a, m)
        OBVIOUS
      <3>2. pos = SumOver(v, 0 .. wi - 1) /\ PartString(a, o, n, j, pos, total)
        BY <1>1, <1>3, <2>2, <3>1 DEF PartArray
      <3>3. IsString(a)
        BY <1>1, <2>2 DEF IsSeries, IsArray
      <3>4. /\ \A k \in 0 .. W - 1 : v[k] \in Nat
            /\ total \in Nat
            /\ \A k \in 0 .. W : SumOver(v, 0 .. k - 1) \in Nat /\ SumOver(v, 0 .. k - 1) <= total
        BY <1>1, <1>4, <3>1, <3>3, BytesOfWords
      <3>5. pos \in Nat
        BY <1>3, <3>2, <3>4
      <3>6. SumOver(v, 0 .. wi) = pos + v[wi]
        <4>1. \A k \in 0 .. W - 1 : v[k] \in Int
          BY <3>4
        <4>2. QED
          BY <1>5, <1>6, <3>2, <4>1, SumGrows
      <3>7. PICK e, f : e = Ends(a, rows, pos) /\ f = Ends(a, rows, 0)
        OBVIOUS
      <3>8. EndsOf(e, a, rows, c, pos) /\ EndsOf(f, a, rows, c, 0)
        BY <1>4, <1>7, <3>3, <3>5, <3>7, EndsAre
      <3>9. e[c] = pos + f[c]
        BY <1>4, <1>7, <3>3, <3>5, <3>8, EndsShift
      <3>10. v[wi] = f[c]
        BY <1>1, <1>2, <1>5, <1>6, <1>8, <3>1, <3>7 DEF WordBytes
      <3>11. e[c] = SumOver(v, 0 .. (wi + 1) - 1)
        <4>1. (wi + 1) - 1 = wi
          BY <1>6
        <4>2. QED
          BY <3>6, <3>9, <3>10, <4>1
      <3>12. e[c] <= total
        BY <1>6, <3>4, <3>11
      <3>13. t = FilterString(a, cur, w, rows)
        BY <1>2, <2>2
      <3>14. PartString(a, t, n, j + c, e[c], total) /\ Added(s, t, o, rows, j)
        <4>1. PICK g : g = FilterString(s.arr, cur, m.data[wi], rows)
          OBVIOUS
        <4>2. rows = PickedRows(s.arr, m.data[wi], wi) /\ cur.wi = wi /\ cur.j = j /\ cur.pos = pos /\ cur.arr = o
          BY <1>1, <1>2
        <4>3. PartString(s.arr, o, n, j, pos, total) /\ IsBitmapOf(m, s.arr.length) /\ RowsOf(rows, c, s.arr)
          BY <1>1, <1>7, <3>2
        <4>4. Ends(s.arr, rows, pos)[c] <= total
          BY <1>1, <3>7, <3>12
        <4>5. /\ PartString(s.arr, g, n, j + c, Ends(s.arr, rows, pos)[c], total)
              /\ Added(s, g, o, rows, j)
          BY <1>6, <1>12, <1>13, <2>2, <3>4, <3>5, <4>1, <4>2, <4>3, <4>4, StringAdds
        <4>6. QED
          BY <1>1, <3>7, <3>13, <4>1, <4>5
      <3>15. next.pos = e[c]
        BY <1>15, <2>2, <3>7
      <3>16. QED
        BY <1>1, <1>9, <1>12, <2>2, <3>1, <3>11, <3>14, <3>15 DEF PartArray
    <2>3. CASE s.dtype \notin {"Boolean", "String"}
      <3>1. PartTyped(a, o, n, j)
        BY <1>1, <1>3, <2>3 DEF PartArray
      <3>2. t = FilterTyped(a, cur, rows)
        BY <1>2, <2>3
      <3>3. \A q \in 1 .. c : rows[q] \in 0 .. s.arr.length - 1
        BY <1>1, <1>7 DEF RowsOf
      <3>4. PartTyped(a, t, n, j + c) /\ Added(s, t, o, rows, j)
        BY <1>1, <1>8, <1>12, <1>13, <2>3, <3>1, <3>2, <3>3, TypedAdds
      <3>5. QED
        BY <1>1, <1>9, <1>12, <2>3, <3>4 DEF PartArray
    <2>4. QED
      BY <2>1, <2>2, <2>3
  <1>17. CellsBefore(s, m, wi + 1, t)
    <2>1. ASSUME NEW k \in 1 .. j PROVE Cell(WithArr(s, t), k - 1) = Cell(s, RowList(S)[k])
      <3>1. k - 1 \in 0 .. j - 1
        BY <1>12
      <3>2. Cell(WithArr(s, t), k - 1) = Cell(WithArr(s, o), k - 1)
        BY <1>16, <3>1 DEF Added
      <3>3. Cell(WithArr(s, o), k - 1) = Cell(s, RowList(T)[k])
        BY <1>3, <1>9, <1>12 DEF CellsBefore
      <3>4. QED
        BY <1>12, <3>2, <3>3
    <2>2. ASSUME NEW q \in 1 .. c PROVE Cell(WithArr(s, t), (j + q) - 1) = Cell(s, RowList(S)[j + q])
      <3>1. Cell(WithArr(s, t), j + q - 1) = Cell(s, rows[q])
        BY <1>8, <1>16 DEF Added
      <3>2. QED
        BY <1>12, <3>1
    <2>3. ASSUME NEW k \in 1 .. j + c PROVE Cell(WithArr(s, t), k - 1) = Cell(s, RowList(S)[k])
      <3>1. k \in 1 .. j \/ \E q \in 1 .. c : k = j + q
        <4>1. k \in 1 .. j \/ (k - j \in 1 .. c /\ k = j + (k - j))
          BY <1>8, <1>12
        <4>2. QED
          BY <4>1
      <3>2. QED
        BY <2>1, <2>2, <3>1
    <2>4. QED
      BY <1>9, <1>12, <2>3 DEF CellsBefore
  <1>18. next.done <=> next.wi = W
    <2>1. (wi + 1 \notin DOMAIN m.data) <=> wi + 1 = W
      BY <1>5, <1>6
    <2>2. QED
      BY <1>15, <2>1
  <1>19. QED
    BY <1>1, <1>2, <1>3, <1>6, <1>9, <1>12, <1>15, <1>16, <1>17, <1>18 DEF Filled

-----------------------------------------------------------------------------
(* The bits of a condition, word by word                                   *)

Truth(cols, cond, i) == Compare(cond.op, Left(cols, cond, i), Right(cols, cond, i))

Compared(cols, cond, i) ==
  LET l == Cell(cols[cond.left], i)
      r == IF cond.right = 0 THEN cond.scalar ELSE Cell(cols[cond.right], i)
  IN IF l = Null \/ r = Null THEN Null ELSE Compare(cond.op, l, r)

ColCond(cols, cond, i) ==
  LET holds == Compared(cols, cond, i)
      f == Cell(cols[cond.flag], i)
  IN CASE cond.logic = "none" -> holds
       [] cond.logic = "not" -> IF holds = Null THEN Null ELSE ~holds
       [] cond.logic = "and" -> IF holds = Null \/ f = Null THEN Null ELSE holds /\ f
       [] cond.logic = "or" -> IF holds = Null \/ f = Null THEN Null ELSE holds \/ f

LEMMA ComparedCell ==
  ASSUME NEW cols, IsFrame(cols), NEW cond \in Conditions, EvaluableIn(cols, cond),
         NEW i \in 0 .. Height(cols) - 1
  PROVE  /\ Truth(cols, cond, i) \in BOOLEAN
         /\ Compared(cols, cond, i) = IF OperandNull(cols, cond, i) THEN Null ELSE Truth(cols, cond, i)
  <1>1. PICK l, r, a, b : /\ l = Cell(cols[cond.left], i) /\ a = Left(cols, cond, i) /\ b = Right(cols, cond, i)
                          /\ r = IF cond.right = 0 THEN cond.scalar ELSE Cell(cols[cond.right], i)
    OBVIOUS
  <1>2. /\ cond.left \in Nat \ {0} /\ cond.scalar \in Int
        /\ cond.op \in {"eq", "neq", "lt", "lte", "gt", "gte"}
    BY ConditionsAssumption
  <1>3. \A c \in DOMAIN cols : cols[c].dtype = "Int64" =>
          /\ cols[c].arr.values[i] \in Int
          /\ (Cell(cols[c], i) = Null) <=> IsNull(cols[c].arr, i)
          /\ Cell(cols[c], i) # Null => Cell(cols[c], i) = cols[c].arr.values[i]
    <2>1. ASSUME NEW c \in DOMAIN cols, cols[c].dtype = "Int64"
          PROVE  /\ cols[c].arr.values[i] \in Int
                 /\ (Cell(cols[c], i) = Null) <=> IsNull(cols[c].arr, i)
                 /\ Cell(cols[c], i) # Null => Cell(cols[c], i) = cols[c].arr.values[i]
      <3>1. IsSeries(cols[c]) /\ cols[c].dtype \notin {"Boolean", "String"} /\ i \in 0 .. cols[c].arr.length - 1
        BY <2>1, ColumnOfFrame
      <3>2. QED
        BY <3>1, CellOfTyped
    <2>2. QED
      BY <2>1
  <1>4. cond.left \in DOMAIN cols /\ cols[cond.left].dtype = "Int64"
    BY <1>2 DEF EvaluableIn
  <1>5. a \in Int /\ ((l = Null) <=> IsNull(cols[cond.left].arr, i)) /\ (l # Null => l = a)
    BY <1>1, <1>3, <1>4 DEF Left
  <1>6. b \in Int /\ ((r = Null) <=> (cond.right # 0 /\ IsNull(cols[cond.right].arr, i))) /\ (r # Null => r = b)
    <2>1. CASE cond.right = 0
      BY <1>1, <1>2, <2>1, CellAssumption DEF Right
    <2>2. CASE cond.right # 0
      <3>1. cond.right \in DOMAIN cols /\ cols[cond.right].dtype = "Int64"
        BY <2>2 DEF EvaluableIn
      <3>2. QED
        BY <1>1, <1>3, <2>2, <3>1 DEF Right
    <2>3. QED
      BY <2>1, <2>2
  <1>7. Compare(cond.op, a, b) \in BOOLEAN
    <2>1. CASE cond.op = "eq"
      BY <2>1 DEF Compare
    <2>2. CASE cond.op = "neq"
      BY <2>2 DEF Compare
    <2>3. CASE cond.op = "lt"
      BY <2>3, <1>5, <1>6 DEF Compare
    <2>4. CASE cond.op = "lte"
      BY <2>4, <1>5, <1>6 DEF Compare
    <2>5. CASE cond.op = "gt"
      BY <2>5, <1>5, <1>6 DEF Compare
    <2>6. CASE cond.op = "gte"
      BY <2>6, <1>5, <1>6 DEF Compare
    <2>7. QED
      BY <1>2, <2>1, <2>2, <2>3, <2>4, <2>5, <2>6
  <1>8. OperandNull(cols, cond, i) <=> l = Null \/ r = Null
    <2>1. OperandNull(cols, cond, i)
            <=> (IsNull(cols[cond.left].arr, i) \/ (cond.right # 0 /\ IsNull(cols[cond.right].arr, i)))
      BY Zenon DEF OperandNull
    <2>2. QED
      BY <1>5, <1>6, <2>1, Zenon
  <1>9. Compared(cols, cond, i) = IF l = Null \/ r = Null THEN Null ELSE Compare(cond.op, l, r)
    BY <1>1 DEF Compared
  <1>10. QED
    BY <1>1, <1>5, <1>6, <1>7, <1>8, <1>9 DEF Truth

Comparing(cols, cond, p, left) ==
  /\ IsPredicate(p, Height(cols))
  /\ \A i \in 0 .. Height(cols) - 1 : NullAt(p.validity, i) <=> OperandNull(cols, cond, i)
  /\ left \in SUBSET WordIndexes(Height(cols))
  /\ \A wi \in WordIndexes(Height(cols)) \ left : \A i \in 0 .. Height(cols) - 1 :
       InWordNo(wi, i) => (IsSet(p.data, i) <=> Truth(cols, cond, i))

LEMMA CompareStarts ==
  ASSUME NEW cols, IsFrame(cols), NEW cond \in Conditions, EvaluableIn(cols, cond)
  PROVE  Comparing(cols, cond,
           BooleanArray(NewEmpty(cols[cond.left].arr.length),
                        IF cond.right = 0 THEN cols[cond.left].arr.validity
                        ELSE mergeValidity(cols[cond.left].arr.validity, cols[cond.right].arr.validity)),
           WordIndexes(cols[cond.left].arr.length))
  <1>1. PICK n, d, u, v, w : /\ n = Height(cols) /\ d = NewEmpty(n) /\ u = cols[cond.left].arr.validity
                             /\ v = cols[cond.right].arr.validity
                             /\ w = IF cond.right = 0 THEN u ELSE mergeValidity(u, v)
    OBVIOUS
  <1>2. cond.left \in DOMAIN cols
    BY ConditionsAssumption DEF EvaluableIn
  <1>3. cols[cond.left].arr.length = n /\ n \in Nat /\ (u = nil \/ IsBitmapOf(u, n))
    BY <1>1, <1>2, ColumnOfFrame
  <1>4. IsBitmapOf(d, n)
    BY <1>1, <1>3, EmptyBits
  <1>5. PICK p : p = BooleanArray(d, w)
    OBVIOUS
  <1>6. p = [data |-> d, validity |-> w, length |-> n]
    BY <1>4, <1>5 DEF BooleanArray, IsBitmapOf
  <1>7. /\ w = nil \/ IsBitmapOf(w, n)
        /\ \A i \in 0 .. n - 1 : NullAt(w, i) <=> OperandNull(cols, cond, i)
    <2>1. CASE cond.right = 0
      <3>1. w = u
        BY <1>1, <2>1
      <3>2. \A i \in 0 .. n - 1 : OperandNull(cols, cond, i) <=> IsNull(cols[cond.left].arr, i)
        BY <2>1 DEF OperandNull
      <3>3. \A i \in 0 .. n - 1 : IsNull(cols[cond.left].arr, i) <=> NullAt(cols[cond.left].arr.validity, i)
        BY Zenon DEF NullAt, IsNull
      <3>4. QED
        BY <1>1, <1>3, <3>1, <3>2, <3>3
    <2>2. CASE cond.right # 0
      <3>1. cond.right \in DOMAIN cols
        BY <2>2 DEF EvaluableIn
      <3>2. v = nil \/ IsBitmapOf(v, n)
        BY <1>1, <3>1, ColumnOfFrame
      <3>3. /\ w = nil \/ IsBitmapOf(w, n)
            /\ \A i \in 0 .. n - 1 : NullAt(w, i) <=> NullAt(u, i) \/ NullAt(v, i)
        BY <1>1, <1>3, <2>2, <3>2, NullsMerged
      <3>4. \A i : OperandNull(cols, cond, i) <=> NullAt(u, i) \/ NullAt(v, i)
        <4>1. \A i : /\ IsNull(cols[cond.left].arr, i) <=> NullAt(cols[cond.left].arr.validity, i)
                     /\ IsNull(cols[cond.right].arr, i) <=> NullAt(cols[cond.right].arr.validity, i)
          BY Zenon DEF NullAt, IsNull
        <4>2. \A i : OperandNull(cols, cond, i)
                       <=> IsNull(cols[cond.left].arr, i) \/ IsNull(cols[cond.right].arr, i)
          BY <2>2 DEF OperandNull
        <4>3. QED
          BY <1>1, <4>1, <4>2
      <3>5. QED
        BY <3>3, <3>4
    <2>3. QED
      BY <2>1, <2>2
  <1>8. IsPredicate(p, n)
    BY <1>4, <1>6, <1>7 DEF IsPredicate
  <1>9. \A i \in 0 .. n - 1 : NullAt(p.validity, i) <=> OperandNull(cols, cond, i)
    BY <1>6, <1>7
  <1>10. Comparing(cols, cond, p, WordIndexes(n))
    BY <1>1, <1>8, <1>9 DEF Comparing
  <1>11. QED
    BY <1>1, <1>3, <1>5, <1>10

ComparedWord(cols, cond, wi) ==
  {i - wi * wordSize : i \in {i \in wi * wordSize .. MinOf(wi * wordSize + wordSize, cols[cond.left].arr.length) - 1 :
                                Truth(cols, cond, i)}}

LEMMA WordCompared ==
  ASSUME NEW cols, IsFrame(cols), NEW cond \in Conditions, EvaluableIn(cols, cond),
         NEW p, NEW left, Comparing(cols, cond, p, left), NEW wi \in left
  PROVE  Comparing(cols, cond, [p EXCEPT !.data = SetWord(p.data, wi, ComparedWord(cols, cond, wi))],
                   left \ {wi})
  <1>1. PICK n, b, e, w, word, d, q :
          /\ n = Height(cols) /\ b = wi * wordSize /\ e = (wi + 1) * wordSize /\ w = wordSize
          /\ word = ComparedWord(cols, cond, wi) /\ d = SetWord(p.data, wi, word)
          /\ q = [p EXCEPT !.data = d]
    OBVIOUS
  <1>2. cond.left \in DOMAIN cols
    BY ConditionsAssumption DEF EvaluableIn
  <1>3. cols[cond.left].arr.length = n /\ n \in Nat
    BY <1>1, <1>2, ColumnOfFrame
  <1>4. /\ p = [data |-> p.data, validity |-> p.validity, length |-> n]
        /\ IsBitmapOf(p.data, n) /\ (p.validity = nil \/ IsBitmapOf(p.validity, n))
        /\ \A i \in 0 .. n - 1 : NullAt(p.validity, i) <=> OperandNull(cols, cond, i)
        /\ left \in SUBSET WordIndexes(n)
        /\ \A v \in WordIndexes(n) \ left : \A i \in 0 .. n - 1 :
             InWordNo(v, i) => (IsSet(p.data, i) <=> Truth(cols, cond, i))
    BY <1>1 DEF Comparing, IsPredicate
  <1>5. wi \in WordIndexes(n)
    BY <1>4
  <1>6. wi \in Nat /\ b < n /\ b \in Nat /\ w \in Nat \ {0} /\ e = b + w
    BY <1>1, <1>3, <1>5, WordOf, Words, ProductGrows
  <1>7. word = {i - b : i \in {i \in b .. MinOf(b + w, n) - 1 : Truth(cols, cond, i)}}
    BY <1>1, <1>3 DEF ComparedWord
  <1>8. \A i \in b .. MinOf(b + w, n) - 1 : i \in Int /\ b <= i /\ i < b + w /\ i < n
    BY <1>3, <1>6 DEF MinOf
  <1>9. word \in SUBSET Positions /\ \A x \in word : wi * wordSize + x < n
    <2>1. ASSUME NEW x \in word PROVE x \in Positions /\ b + x < n
      <3>1. PICK i \in b .. MinOf(b + w, n) - 1 : x = i - b
        BY <1>7
      <3>2. i \in Int /\ b <= i /\ i < b + w /\ i < n
        BY <1>8
      <3>3. x \in Nat /\ x < w /\ b + x < n
        BY <1>6, <3>1, <3>2
      <3>4. QED
        BY <1>1, <3>3, Words
    <2>2. QED
      BY <1>1, <2>1
  <1>10. ASSUME NEW i \in 0 .. n - 1, InWordNo(wi, i) PROVE i - wi * wordSize \in word <=> Truth(cols, cond, i)
    <2>1. b <= i /\ i < b + w
      BY <1>1, <1>6, <1>10 DEF InWordNo
    <2>2. i \in b .. MinOf(b + w, n) - 1
      BY <1>3, <1>6, <2>1 DEF MinOf
    <2>3. ASSUME Truth(cols, cond, i) PROVE i - b \in word
      BY <1>7, <2>2, <2>3
    <2>4. ASSUME i - b \in word PROVE Truth(cols, cond, i)
      <3>1. PICK k \in b .. MinOf(b + w, n) - 1 : Truth(cols, cond, k) /\ i - b = k - b
        BY <1>7, <2>4
      <3>2. k = i
        BY <1>6, <1>8, <3>1
      <3>3. QED
        BY <3>1, <3>2
    <2>5. QED
      BY <1>1, <2>3, <2>4
  <1>11. /\ IsBitmapOf(d, n)
         /\ \A i \in 0 .. n - 1 :
              IF wi * wordSize <= i /\ i < (wi + 1) * wordSize
                THEN IsSet(d, i) <=> i - wi * wordSize \in word
                ELSE IsSet(d, i) <=> IsSet(p.data, i)
    BY <1>1, <1>3, <1>4, <1>5, <1>9, WordWritten
  <1>12. q = [data |-> d, validity |-> p.validity, length |-> n]
    <2>1. PICK x, y : x = p.data /\ y = p.validity
      OBVIOUS
    <2>2. p = [data |-> x, validity |-> y, length |-> n]
      BY <1>4, <2>1
    <2>3. q = [data |-> d, validity |-> y, length |-> n]
      BY <1>1, <2>2
    <2>4. QED
      BY <2>1, <2>3
  <1>13. IsPredicate(q, n) /\ q.data = d /\ q.validity = p.validity
    BY <1>4, <1>11, <1>12 DEF IsPredicate
  <1>14. ASSUME NEW v \in WordIndexes(n) \ (left \ {wi}), NEW i \in 0 .. n - 1, InWordNo(v, i)
         PROVE  IsSet(d, i) <=> Truth(cols, cond, i)
    <2>1. CASE InWordNo(wi, i)
      <3>1. IsSet(d, i) <=> i - wi * wordSize \in word
        BY <1>11, <2>1 DEF InWordNo
      <3>2. QED
        BY <1>10, <2>1, <3>1
    <2>2. CASE ~InWordNo(wi, i)
      <3>1. IsSet(d, i) <=> IsSet(p.data, i)
        BY <1>11, <2>2 DEF InWordNo
      <3>2. v # wi /\ v \in WordIndexes(n) \ left
        BY <1>14, <2>2
      <3>3. QED
        BY <1>4, <1>14, <3>1, <3>2
    <2>3. QED
      BY <2>1, <2>2
  <1>15. QED
    BY <1>1, <1>4, <1>13, <1>14 DEF Comparing

(* The predicate p says of every row what the condition does.              *)
MeansCond(cols, cond, p) ==
  /\ IsPredicate(p, Height(cols))
  /\ \A i \in 0 .. Height(cols) - 1 :
       /\ NullAt(p.validity, i) <=> ColCond(cols, cond, i) = Null
       /\ ~NullAt(p.validity, i) => (IsSet(p.data, i) <=> ColCond(cols, cond, i) = TRUE)

(* All words are compared.                                                 *)
LEMMA AllCompared ==
  ASSUME NEW cols, IsFrame(cols), NEW cond, NEW p, Comparing(cols, cond, p, {}),
         NEW i \in 0 .. Height(cols) - 1
  PROVE  IsSet(p.data, i) <=> Truth(cols, cond, i)
  <1>1. PICK n : n = Height(cols)
    OBVIOUS
  <1>2. n \in Nat
    <2>1. \A c \in DOMAIN cols : Height(cols) \in Nat
      BY ColumnOfFrame
    <2>2. DOMAIN cols # {}
      BY DEF IsFrame
    <2>3. QED
      BY <1>1, <2>1, <2>2
  <1>3. Raw(p.data) /\ p.data.len = n
    BY <1>1, RawParts DEF Comparing, IsPredicate, IsBitmapOf
  <1>4. PICK wi \in WordIndexes(n), q \in Positions : i = wi * wordSize + q
    BY <1>1, <1>2, <1>3, WordOfBit
  <1>5. wordSize \in Nat \ {0} /\ wi \in Nat /\ q \in Nat /\ q < wordSize
    BY <1>2, <1>4, Words, WordOf
  <1>6. InWordNo(wi, i)
    BY <1>4, <1>5, ProductGrows DEF InWordNo
  <1>7. wi \in WordIndexes(Height(cols)) \ {}
    BY <1>1, <1>4
  <1>8. QED
    BY <1>6, <1>7 DEF Comparing

LEMMA CondIs ==
  ASSUME NEW cols, NEW cond, NEW i
  PROVE  ColCond(cols, cond, i) = CondOf(cond.logic, Compared(cols, cond, i), Cell(cols[cond.flag], i))
  BY Zenon DEF ColCond, CondOf

LEMMA LogicalMeans ==
  ASSUME NEW cols, IsFrame(cols), NEW cond \in Conditions, EvaluableIn(cols, cond),
         NEW p, Comparing(cols, cond, p, {})
  PROVE  MeansCond(cols, cond, Combined(cols, cond, p))
  <1>1. PICK n, flag, q, u, v, d : /\ n = Height(cols) /\ flag = cols[cond.flag].arr
                                   /\ q = Combined(cols, cond, p)
                                   /\ u = p.validity /\ v = flag.validity /\ d = p.data
    OBVIOUS
  <1>2. n \in Nat
    <2>1. cond.left \in DOMAIN cols
      BY ConditionsAssumption DEF EvaluableIn
    <2>2. QED
      BY <1>1, <2>1, ColumnOfFrame
  <1>3. /\ p = [data |-> d, validity |-> u, length |-> n]
        /\ IsBitmapOf(d, n) /\ (u = nil \/ IsBitmapOf(u, n))
        /\ \A i \in 0 .. n - 1 : NullAt(u, i) <=> OperandNull(cols, cond, i)
    BY <1>1 DEF Comparing, IsPredicate
  <1>4. ASSUME NEW i \in 0 .. n - 1
        PROVE  /\ IsSet(d, i) <=> Truth(cols, cond, i)
               /\ Truth(cols, cond, i) \in BOOLEAN
               /\ Compared(cols, cond, i) = IF NullAt(u, i) THEN Null ELSE Truth(cols, cond, i)
    <2>1. i \in 0 .. Height(cols) - 1
      BY <1>1
    <2>2. IsSet(d, i) <=> Truth(cols, cond, i)
      BY <1>1, <2>1, AllCompared
    <2>3. /\ Truth(cols, cond, i) \in BOOLEAN
          /\ Compared(cols, cond, i) = IF OperandNull(cols, cond, i) THEN Null ELSE Truth(cols, cond, i)
      BY <2>1, ComparedCell
    <2>4. NullAt(u, i) <=> OperandNull(cols, cond, i)
      BY <1>3, <1>4
    <2>5. QED
      BY <2>2, <2>3, <2>4
  <1>5. Null \notin BOOLEAN
    BY CellAssumption
  <1>6. \A x, y : IsBitmapOf(x, n) => BooleanArray(x, y) = [data |-> x, validity |-> y, length |-> n]
    BY DEF BooleanArray, IsBitmapOf
  <1>7. CASE cond.logic = "none"
    <2>1. q = p
      BY <1>1, <1>7 DEF Combined
    <2>2. ASSUME NEW i \in 0 .. n - 1
          PROVE  /\ NullAt(u, i) <=> ColCond(cols, cond, i) = Null
                 /\ ~NullAt(u, i) => (IsSet(d, i) <=> ColCond(cols, cond, i) = TRUE)
      <3>1. ColCond(cols, cond, i) = Compared(cols, cond, i)
        <4>1. \A x, y : CondOf("none", x, y) = x
          BY DEF CondOf
        <4>2. QED
          BY <1>7, <4>1, CondIs
      <3>2. QED
        BY <1>4, <1>5, <3>1
    <2>3. IsPredicate(q, n) /\ q.validity = u /\ q.data = d
      BY <1>1, <1>3, <2>1 DEF IsPredicate
    <2>4. QED
      BY <1>1, <2>2, <2>3 DEF MeansCond
  <1>8. CASE cond.logic = "not"
    <2>1. PICK e : e = Not(d)
      OBVIOUS
    <2>2. IsBitmapOf(e, n) /\ \A i \in 0 .. n - 1 : IsSet(e, i) <=> ~IsSet(d, i)
      BY <1>2, <1>3, <2>1, NotBits
    <2>3. q = [data |-> e, validity |-> u, length |-> n]
      <3>1. q = BooleanArray(Not(p.data), p.validity)
        BY <1>1, <1>8 DEF Combined
      <3>2. QED
        BY <1>1, <1>6, <2>1, <2>2, <3>1
    <2>4. ASSUME NEW i \in 0 .. n - 1
          PROVE  /\ NullAt(u, i) <=> ColCond(cols, cond, i) = Null
                 /\ ~NullAt(u, i) => (IsSet(e, i) <=> ColCond(cols, cond, i) = TRUE)
      <3>1. PICK h, x : h = Compared(cols, cond, i) /\ x = ColCond(cols, cond, i)
        OBVIOUS
      <3>2. /\ h = Null => x = Null
            /\ h # Null => x # Null /\ (x = TRUE <=> h = FALSE)
        <4>1. \A f : CondOf("not", h, f) = CondOf("not", h, Null)
          BY DEF CondOf
        <4>2. x = CondOf("not", h, Null)
          BY <1>8, <3>1, <4>1, CondIs
        <4>3. h \in BOOLEAN \cup {Null} /\ Null \in BOOLEAN \cup {Null}
          BY <1>4, <3>1
        <4>4. /\ h = Null => CondOf("not", h, Null) = Null
              /\ h # Null => CondOf("not", h, Null) # Null /\ (CondOf("not", h, Null) = TRUE <=> h = FALSE)
          BY <4>3, CondOfTruths
        <4>5. QED
          BY <4>2, <4>4
      <3>3. CASE NullAt(u, i)
        BY <1>4, <3>1, <3>2, <3>3
      <3>4. CASE ~NullAt(u, i)
        <4>1. h \in BOOLEAN /\ h # Null /\ (IsSet(d, i) <=> h = TRUE)
          BY <1>4, <1>5, <3>1, <3>4
        <4>2. QED
          BY <2>2, <3>1, <3>2, <3>4, <4>1
      <3>5. QED
        BY <3>3, <3>4
    <2>5. IsPredicate(q, n) /\ q.validity = u /\ q.data = e
      BY <1>3, <2>2, <2>3 DEF IsPredicate
    <2>6. QED
      BY <1>1, <2>4, <2>5 DEF MeansCond
  <1>9. CASE cond.logic \in {"and", "or"}
    <2>1. cond.flag \in DOMAIN cols /\ cols[cond.flag].dtype = "Boolean"
      BY <1>9 DEF EvaluableIn
    <2>2. v = nil \/ IsBitmapOf(v, n)
      BY <1>1, <2>1, ColumnOfFrame
    <2>3. IsBitmapOf(flag.data, n)
      BY <1>1, <2>1 DEF IsFrame, IsSeries, IsArray, IsBoolean, IsBitmapOf
    <2>4. PICK t : t = mergeValidity(u, v)
      OBVIOUS
    <2>5. /\ t = nil \/ IsBitmapOf(t, n)
          /\ \A i \in 0 .. n - 1 : NullAt(t, i) <=> NullAt(u, i) \/ NullAt(v, i)
      BY <1>2, <1>3, <2>2, <2>4, NullsMerged
    <2>6. PICK e : e = IF cond.logic = "and" THEN And(d, flag.data) ELSE Or(d, flag.data)
      OBVIOUS
    <2>7. /\ IsBitmapOf(e, n)
          /\ \A i \in 0 .. n - 1 : IF cond.logic = "and" THEN IsSet(e, i) <=> IsSet(d, i) /\ IsSet(flag.data, i)
                                  ELSE IsSet(e, i) <=> IsSet(d, i) \/ IsSet(flag.data, i)
      <3>1. CASE cond.logic = "and"
        BY <1>2, <1>3, <2>3, <2>6, <3>1, AndBits
      <3>2. CASE cond.logic = "or"
        BY <1>2, <1>3, <2>3, <2>6, <3>2, OrBits
      <3>3. QED
        BY <1>9, <3>1, <3>2
    <2>8. q = [data |-> e, validity |-> t, length |-> n]
      <3>1. q = BooleanArray(e, t)
        <4>1. CASE cond.logic = "and"
          BY <1>1, <2>4, <2>6, <4>1 DEF Combined
        <4>2. CASE cond.logic = "or"
          BY <1>1, <2>4, <2>6, <4>2 DEF Combined
        <4>3. QED
          BY <1>9, <4>1, <4>2
      <3>2. QED
        BY <1>6, <2>7, <3>1
    <2>9. ASSUME NEW i \in 0 .. n - 1
          PROVE  /\ NullAt(t, i) <=> ColCond(cols, cond, i) = Null
                 /\ ~NullAt(t, i) => (IsSet(e, i) <=> ColCond(cols, cond, i) = TRUE)
      <3>1. PICK h, f, g, x : /\ h = Compared(cols, cond, i) /\ f = Cell(cols[cond.flag], i)
                              /\ g = IsSet(flag.data, i) /\ x = ColCond(cols, cond, i)
        OBVIOUS
      <3>2. f = (IF NullAt(v, i) THEN Null ELSE g) /\ g \in BOOLEAN
        BY <1>1, <2>1, <3>1, FlagCell
      <3>3. x = CondOf(cond.logic, h, f)
        BY <3>1, CondIs
      <3>4. h \in BOOLEAN \cup {Null} /\ f \in BOOLEAN \cup {Null}
        BY <1>4, <3>1, <3>2
      <3>5. CASE NullAt(t, i)
        <4>1. h = Null \/ f = Null
          BY <1>4, <2>5, <3>1, <3>2, <3>5
        <4>2. CondOf("and", h, f) = Null /\ CondOf("or", h, f) = Null
          BY <3>4, <4>1, CondOfTruths
        <4>3. x = Null
          BY <1>9, <3>3, <4>2
        <4>4. QED
          BY <3>1, <3>5, <4>3
      <3>6. CASE ~NullAt(t, i)
        <4>1. ~NullAt(u, i) /\ ~NullAt(v, i)
          BY <2>5, <3>6
        <4>2. h \in BOOLEAN /\ f \in BOOLEAN /\ (IsSet(d, i) <=> h = TRUE) /\ (IsSet(flag.data, i) <=> f = TRUE)
          BY <1>4, <3>1, <3>2, <4>1
        <4>3. h # Null /\ f # Null
          BY <1>5, <4>2
        <4>4. CASE cond.logic = "and"
          <5>1. x # Null /\ (x = TRUE <=> h = TRUE /\ f = TRUE)
            <6>1. CondOf("and", h, f) # Null /\ (CondOf("and", h, f) = TRUE <=> h = TRUE /\ f = TRUE)
              BY <3>4, <4>3, CondOfTruths
            <6>2. x = CondOf("and", h, f)
              BY <3>3, <4>4
            <6>3. QED
              BY <6>1, <6>2
          <5>2. IsSet(e, i) <=> IsSet(d, i) /\ IsSet(flag.data, i)
            BY <2>7, <4>4
          <5>3. QED
            BY <3>1, <3>6, <4>2, <5>1, <5>2
        <4>5. CASE cond.logic = "or"
          <5>1. x # Null /\ (x = TRUE <=> h = TRUE \/ f = TRUE)
            <6>1. CondOf("or", h, f) # Null /\ (CondOf("or", h, f) = TRUE <=> h = TRUE \/ f = TRUE)
              BY <3>4, <4>3, CondOfTruths
            <6>2. x = CondOf("or", h, f)
              BY <3>3, <4>5
            <6>3. QED
              BY <6>1, <6>2
          <5>2. IsSet(e, i) <=> IsSet(d, i) \/ IsSet(flag.data, i)
            <6>1. ~(cond.logic = "and")
              BY <4>5
            <6>2. QED
              BY <2>7, <6>1
          <5>3. QED
            BY <3>1, <3>6, <4>2, <5>1, <5>2
        <4>6. QED
          BY <1>9, <4>4, <4>5
      <3>7. QED
        BY <3>5, <3>6
    <2>10. IsPredicate(q, n) /\ q.validity = t /\ q.data = e
      BY <2>5, <2>7, <2>8 DEF IsPredicate
    <2>11. QED
      BY <1>1, <2>9, <2>10 DEF MeansCond
  <1>10. QED
    BY <1>7, <1>8, <1>9, ConditionsAssumption

-----------------------------------------------------------------------------
(* The mask a filter selects with                                          *)

(* The rows that are filtered in                                           *)
IsMaskOf(cols, cond, m) ==
  /\ IsBitmapOf(m, Height(cols))
  /\ \A i \in 0 .. Height(cols) - 1 : IsSet(m, i) <=> ColCond(cols, cond, i) = TRUE

LEMMA MaskMeans ==
  ASSUME NEW cols, IsFrame(cols), NEW cond, NEW p, MeansCond(cols, cond, p)
  PROVE  IsMaskOf(cols, cond, MaskOf(p))
  <1>1. PICK n, d, u : n = Height(cols) /\ d = p.data /\ u = p.validity
    OBVIOUS
  <1>2. n \in Nat
    <2>1. \A c \in DOMAIN cols : Height(cols) \in Nat
      BY ColumnOfFrame
    <2>2. DOMAIN cols # {}
      BY DEF IsFrame
    <2>3. QED
      BY <1>1, <2>1, <2>2
  <1>3. /\ p = [data |-> d, validity |-> u, length |-> n]
        /\ IsBitmapOf(d, n) /\ (u = nil \/ IsBitmapOf(u, n))
    BY <1>1 DEF MeansCond, IsPredicate
  <1>4. ASSUME NEW i \in 0 .. n - 1
        PROVE  /\ NullAt(u, i) <=> ColCond(cols, cond, i) = Null
               /\ ~NullAt(u, i) => (IsSet(d, i) <=> ColCond(cols, cond, i) = TRUE)
    BY <1>1, <1>4 DEF MeansCond
  <1>5. Null # TRUE
    BY CellAssumption
  <1>6. \A i : IsNull(p, i) <=> NullAt(u, i)
    BY <1>1 DEF IsNull, NullAt
  <1>7. p.length = n
    BY <1>3
  <1>8. HasNulls(p) <=> (u # nil /\ \E i \in 0 .. n - 1 : NullAt(u, i))
    BY <1>1, <1>6, <1>7 DEF HasNulls
  <1>9. CASE HasNulls(p)
    <2>1. MaskOf(p) = And(d, u)
      BY <1>1, <1>9 DEF MaskOf
    <2>2. u # nil /\ IsBitmapOf(u, n)
      BY <1>3, <1>8, <1>9
    <2>3. IsBitmapOf(And(d, u), n) /\ \A i \in 0 .. n - 1 : IsSet(And(d, u), i) <=> IsSet(d, i) /\ IsSet(u, i)
      BY <1>2, <1>3, <2>2, AndBits
    <2>4. \A i : NullAt(u, i) <=> ~IsSet(u, i)
      BY <2>2 DEF NullAt
    <2>5. \A i \in 0 .. n - 1 : IsSet(And(d, u), i) <=> ColCond(cols, cond, i) = TRUE
      BY <1>4, <1>5, <2>3, <2>4
    <2>6. QED
      BY <1>1, <2>1, <2>3, <2>5 DEF IsMaskOf
  <1>10. CASE ~HasNulls(p)
    <2>1. MaskOf(p) = d
      BY <1>1, <1>10 DEF MaskOf
    <2>2. \A i \in 0 .. n - 1 : ~NullAt(u, i)
      BY <1>8, <1>10 DEF NullAt
    <2>3. QED
      BY <1>1, <1>3, <1>4, <2>1, <2>2 DEF IsMaskOf
  <1>11. QED
    BY <1>9, <1>10

-----------------------------------------------------------------------------
(* What a filter and a take have done, and of which request                *)

(* Series.Filter and Series.Take have a case for every column there is.    *)
FramesFit ==
  /\ \A cols \in FilterFrames : \A c \in DOMAIN cols : cols[c].dtype \in Filterable
  /\ \A cols \in TakeFrames : \A c \in DOMAIN cols : cols[c].dtype \in Takeable

Fits(cols, kinds) == FramesFit => \A c \in DOMAIN cols : cols[c].dtype \in kinds

FilterAsked(cols, req) ==
  req.op = "filter" /\ req.cond \in Conditions /\ EvaluableIn(cols, req.cond) /\ Fits(cols, Filterable)

Filtering(cols, req, m, cur) ==
  /\ FilterAsked(cols, req) /\ IsMaskOf(cols, req.cond, m)
  /\ cur = [c \in DOMAIN cols |-> cur[c]]
  /\ \A c \in DOMAIN cols : Filled(cols[c], m, cur[c])

Taking(cols, req, cur) ==
  /\ req.op = "take" /\ IsRowChoice(req.indices, Height(cols)) /\ Fits(cols, Takeable)
  /\ cur = [c \in DOMAIN cols |-> cur[c]]
  /\ \A c \in DOMAIN cols : cur[c].done => cur[c].arr = TakeSeries(cols[c], req.indices).arr

FilterInv ==
  /\ phase \in {"slice", "start"} => /\ request.on = "filter" => Fits(df, Filterable)
                                     /\ request.on = "take" => Fits(df, Takeable)
  /\ phase = "compare" => FilterAsked(df, request) /\ Comparing(df, request.cond, pred, todo)
  /\ phase = "mask" => FilterAsked(df, request) /\ MeansCond(df, request.cond, pred)
  /\ phase = "columns" => Filtering(df, request, mask, cursor) \/ Taking(df, request, cursor)
  /\ phase = "done" /\ request.op \in {"filter", "take"} =>
       /\ Filtering(df, request, mask, cursor) \/ Taking(df, request, cursor)
       /\ \A c \in DOMAIN df : cursor[c].done
       /\ result = Assembled(df, cursor, request)

LEMMA InitFilter == Init => FilterInv
  <1> SUFFICES ASSUME Init PROVE FilterInv
    OBVIOUS
  <1>1. phase = "slice" /\ df \in Frames
    BY DEF Init
  <1>2. request.on = CASE df \in FilterFrames -> "filter"
                       [] df \in TakeFrames -> "take"
                       [] df \in ShapeFrames -> "shape"
    BY DEF Init
  <1>3. request.on = "filter" => df \in FilterFrames
    BY <1>1, <1>2 DEF Frames
  <1>4. request.on = "take" => df \in TakeFrames
    BY <1>1, <1>2 DEF Frames
  <1>5. QED
    BY <1>1, <1>3, <1>4 DEF FilterInv, Fits, FramesFit

LEMMA SliceFits ==
  ASSUME NEW cols, IsFrame(cols), NEW b, NEW e, NEW kinds, Fits(cols, kinds)
  PROVE  Fits([c \in DOMAIN cols |-> SliceSeries(cols[c], b, e)], kinds)
  <1>1. ASSUME NEW c \in DOMAIN cols PROVE SliceSeries(cols[c], b, e).dtype = cols[c].dtype
    <2>1. IsSeries(cols[c])
      BY ColumnOfFrame
    <2>2. SliceSeries(cols[c], b, e) = WithArr(cols[c], SliceArray(cols[c].dtype, cols[c].arr, b, e))
      BY Zenon DEF SliceSeries, WithArr
    <2>3. QED
      BY <2>1, <2>2, ArrOf
  <1>2. QED
    BY <1>1 DEF Fits

LEMMA CompareStep ==
  ASSUME QueryInv, FilterInv, NEW wi \in todo, CompareWord(wi)
  PROVE  FilterInv'
  <1>1. /\ phase = "compare" /\ phase' = phase /\ df' = df /\ request' = request
        /\ todo' = todo \ {wi}
    BY DEF CompareWord
  <1>2. /\ FilterAsked(df, request) /\ Comparing(df, request.cond, pred, todo) /\ IsFrame(df)
        /\ request.cond \in Conditions /\ EvaluableIn(df, request.cond)
    BY <1>1 DEF FilterInv, FilterAsked, QueryInv
  <1>3. pred' = [pred EXCEPT !.data = SetWord(pred.data, wi, ComparedWord(df, request.cond, wi))]
    BY Zenon DEF CompareWord, ComparedWord, Truth, Left, Right
  <1>4. Comparing(df, request.cond, pred', todo')
    BY <1>1, <1>2, <1>3, WordCompared
  <1>5. QED
    BY <1>1, <1>2, <1>4 DEF FilterInv

LEMMA StartCompareStep ==
  ASSUME QueryInv, FilterInv, NEW cond \in Conditions, StartCompare(cond)
  PROVE  FilterInv'
  <1>1. /\ phase = "start" /\ phase' = "compare" /\ df' = df /\ request.on = "filter"
        /\ request' = [op |-> "filter", cond |-> cond] /\ IsFrame(df) /\ Evaluable(cond)
    BY DEF StartCompare, QueryInv
  <1>2. request'.op = "filter" /\ request'.cond = cond
    BY <1>1
  <1>3. EvaluableIn(df, cond)
    BY <1>1 DEF Evaluable, EvaluableIn
  <1>4. Fits(df, Filterable)
    BY <1>1 DEF FilterInv
  <1>5. /\ todo' = WordIndexes(df[cond.left].arr.length)
        /\ pred' = BooleanArray(NewEmpty(df[cond.left].arr.length),
                                IF cond.right = 0 THEN df[cond.left].arr.validity
                                ELSE mergeValidity(df[cond.left].arr.validity, df[cond.right].arr.validity))
    BY DEF StartCompare
  <1>6. Comparing(df, cond, pred', todo')
    BY <1>1, <1>3, <1>5, CompareStarts
  <1>7. FilterAsked(df, request')
    BY <1>2, <1>3, <1>4 DEF FilterAsked
  <1>8. QED
    BY <1>1, <1>2, <1>6, <1>7 DEF FilterInv

LEMMA MaskStep ==
  ASSUME QueryInv, FilterInv, Logical \/ StartFilter
  PROVE  FilterInv'
  <1>1. IsFrame(df)
    BY DEF QueryInv
  <1>2. CASE Logical
    <2>1. phase = "compare" /\ todo = {} /\ phase' = "mask" /\ df' = df /\ request' = request
      BY <1>2 DEF Logical
    <2>2. /\ FilterAsked(df, request) /\ Comparing(df, request.cond, pred, {})
          /\ request.cond \in Conditions /\ EvaluableIn(df, request.cond)
      BY <2>1 DEF FilterInv, FilterAsked
    <2>3. pred' = Combined(df, request.cond, pred)
      BY <1>2 DEF Logical, Combined
    <2>4. MeansCond(df, request.cond, pred')
      BY <1>1, <2>2, <2>3, LogicalMeans
    <2>5. QED
      BY <2>1, <2>2, <2>4 DEF FilterInv
  <1>3. CASE StartFilter
    <2>1. /\ phase = "mask" /\ phase' = "columns" /\ df' = df /\ request' = request
          /\ mask' = MaskOf(pred) /\ cursor' = [c \in DOMAIN df |-> StartColumn(df[c], mask')]
      BY <1>3 DEF StartFilter
    <2>2. FilterAsked(df, request) /\ MeansCond(df, request.cond, pred)
      BY <2>1 DEF FilterInv
    <2>3. IsMaskOf(df, request.cond, mask')
      BY <1>1, <2>1, <2>2, MaskMeans
    <2>4. ASSUME NEW c \in DOMAIN df PROVE Filled(df[c], mask', cursor'[c])
      <3>1. IsSeries(df[c]) /\ df[c].arr.length = Height(df)
        BY <1>1, ColumnOfFrame
      <3>2. IsBitmapOf(mask', df[c].arr.length)
        BY <2>3, <3>1 DEF IsMaskOf
      <3>3. cursor'[c] = StartColumn(df[c], mask')
        BY <2>1
      <3>4. QED
        BY <3>1, <3>2, <3>3, ColumnStarted
    <2>5. cursor' = [c \in DOMAIN df |-> cursor'[c]]
      BY <2>1
    <2>6. Filtering(df, request, mask', cursor')
      BY <2>2, <2>3, <2>4, <2>5 DEF Filtering
    <2>7. QED
      BY <2>1, <2>6 DEF FilterInv
  <1>4. QED
    BY <1>2, <1>3

LEMMA FilterWordStep ==
  ASSUME QueryInv, FilterInv, NEW c \in DOMAIN df, FilterWord(c)
  PROVE  FilterInv'
  <1>1. /\ phase = "columns" /\ phase' = phase /\ df' = df /\ request' = request /\ mask' = mask
        /\ request.op = "filter" /\ ~cursor[c].done /\ IsFrame(df)
    BY DEF FilterWord, QueryInv
  <1>2. Filtering(df, request, mask, cursor)
    BY <1>1 DEF FilterInv, Taking
  <1>3. cursor' = [cursor EXCEPT ![c] = NextWord(df[c], mask, cursor[c])]
    BY Zenon DEF FilterWord, NextWord
  <1>4. /\ Filled(df[c], mask, cursor[c]) /\ cursor = [k \in DOMAIN df |-> cursor[k]]
        /\ \A k \in DOMAIN df : Filled(df[k], mask, cursor[k])
    BY <1>2 DEF Filtering
  <1>5. IsSeries(df[c]) /\ IsBitmapOf(mask, df[c].arr.length)
    BY <1>1, <1>2, ColumnOfFrame DEF Filtering, IsMaskOf
  <1>6. Filled(df[c], mask, NextWord(df[c], mask, cursor[c]))
    BY <1>1, <1>4, <1>5, WordFilled
  <1>7. \A k \in DOMAIN df : Filled(df[k], mask, cursor'[k])
    BY <1>3, <1>4, <1>6
  <1>8. cursor' = [k \in DOMAIN df |-> cursor'[k]]
    BY <1>3, <1>4
  <1>9. Filtering(df, request, mask, cursor')
    BY <1>2, <1>7, <1>8 DEF Filtering
  <1>10. QED
    BY <1>1, <1>9 DEF FilterInv

LEMMA ChoiceOfRows ==
  ASSUME IsFrame(df), NEW s \in IndexLists
  PROVE  IsRowChoice(s, Height(df))
  <1>1. PICK t \in SUBSET Rows : s \in [1 .. Cardinality(t) -> t]
    BY DEF IndexLists, SetToAllKPermutations, SetToSeqs
  <1>2. IsFiniteSet(t)
    <2>1. IsFiniteSet(Rows)
      <3>1. 0 \in Int /\ Height(df) - 1 \in Int
        BY HeightIs
      <3>2. QED
        BY <3>1, FS_Interval DEF Rows
    <2>2. QED
      BY <2>1, FS_Subset
  <1>3. Cardinality(t) \in Nat
    BY <1>2, FS_CardinalityType
  <1>4. s \in [1 .. Cardinality(t) -> 0 .. Height(df) - 1]
    BY <1>1 DEF Rows
  <1>5. QED
    BY <1>3, <1>4 DEF IsRowChoice

LEMMA TakeStep ==
  ASSUME QueryInv, FilterInv,
         (TakesRows /\ \E indices \in IndexLists : StartTake(indices)) \/ (\E c \in DOMAIN df : TakeColumn(c))
  PROVE  FilterInv'
  <1>1. ASSUME NEW indices \in IndexLists, StartTake(indices) PROVE FilterInv'
    <2>1. /\ phase = "start" /\ request.on = "take" /\ phase' = "columns" /\ df' = df
          /\ request' = [op |-> "take", indices |-> indices]
          /\ cursor' = [c \in DOMAIN df |-> [done |-> FALSE, arr |-> nil]]
      BY <1>1 DEF StartTake, TakesRows
    <2>2. request'.op = "take" /\ request'.indices = indices
      BY <2>1
    <2>3. IsRowChoice(indices, Height(df))
      BY ChoiceOfRows DEF QueryInv
    <2>4. Fits(df, Takeable)
      BY <2>1 DEF FilterInv
    <2>5. cursor' = [c \in DOMAIN df |-> cursor'[c]] /\ \A c \in DOMAIN df : ~cursor'[c].done
      BY <2>1
    <2>6. Taking(df, request', cursor')
      BY <2>2, <2>3, <2>4, <2>5 DEF Taking
    <2>7. QED
      BY <2>1, <2>6 DEF FilterInv
  <1>2. ASSUME NEW c \in DOMAIN df, TakeColumn(c) PROVE FilterInv'
    <2>1. /\ phase = "columns" /\ phase' = phase /\ df' = df /\ request' = request /\ request.op = "take"
          /\ cursor' = [cursor EXCEPT ![c] = [done |-> TRUE, arr |-> TakeSeries(df[c], request.indices).arr]]
      BY <1>2 DEF TakeColumn
    <2>2. Taking(df, request, cursor)
      BY <2>1 DEF FilterInv, Filtering, FilterAsked
    <2>3. /\ cursor = [k \in DOMAIN df |-> cursor[k]]
          /\ \A k \in DOMAIN df : cursor[k].done => cursor[k].arr = TakeSeries(df[k], request.indices).arr
      BY <2>2 DEF Taking
    <2>4. /\ cursor' = [k \in DOMAIN df |-> cursor'[k]]
          /\ \A k \in DOMAIN df : cursor'[k].done => cursor'[k].arr = TakeSeries(df[k], request.indices).arr
      BY <2>1, <2>3
    <2>5. Taking(df, request, cursor')
      BY <2>2, <2>4 DEF Taking
    <2>6. QED
      BY <2>1, <2>5 DEF FilterInv
  <1>3. QED
    BY <1>1, <1>2

LEMMA AssembleStep ==
  ASSUME FilterInv, Assemble
  PROVE  FilterInv'
  <1>1. /\ phase = "columns" /\ phase' = "done" /\ df' = df /\ request' = request /\ mask' = mask
        /\ cursor' = cursor /\ \A c \in DOMAIN df : cursor[c].done
    BY DEF Assemble
  <1>2. result' = Assembled(df, cursor, request)
    BY Zenon DEF Assemble, Assembled, Gathered
  <1>3. Filtering(df, request, mask, cursor) \/ Taking(df, request, cursor)
    BY <1>1 DEF FilterInv
  <1>4. QED
    BY <1>1, <1>2, <1>3 DEF FilterInv

(* Requests other than a filter and a take                                 *)
LEMMA OtherStep ==
  ASSUME QueryInv,
         \/ \E c \in DOMAIN df : \E cuts \in SUBSET (1 .. Height(df) - 1) : Aggregate(c, cuts)
         \/ \E a \in 0 .. Height(df), b \in 0 .. Height(df), read \in BOOLEAN : ConcatParts(a, b, read)
         \/ \E last \in DOMAIN df, first \in DOMAIN df : ConcatColumns(last, first)
         \/ \E c \in DOMAIN df, fn \in {"sum", "mean", "std", "min", "max"}, window \in Windows :
              RollColumn(c, fn, window)
         \/ \E melt \in Melts : UnpivotFrame(melt[1], melt[2])
         \/ PivotBack
         \/ TransposeFrame
         \/ \E c \in DOMAIN df : ExplodeColumn(c)
  PROVE  FilterInv'
  <1>1. ASSUME request'.op \notin {"filter", "take"}, phase' \in {"done", "long"} PROVE FilterInv'
    BY <1>1 DEF FilterInv
  <1>2. ASSUME NEW req, NEW res, Shaped(req, res), req.op \notin {"filter", "take"} PROVE FilterInv'
    <2>1. request' = req /\ phase' \in {"done", "long"}
      BY <1>2 DEF Shaped
    <2>2. QED
      BY <1>1, <1>2, <2>1
  <1>3. ASSUME NEW c \in DOMAIN df, NEW cuts \in SUBSET (1 .. Height(df) - 1), Aggregate(c, cuts)
        PROVE  FilterInv'
    <2>1. request' = [op |-> "aggregate", column |-> c] /\ phase' = "done"
      BY <1>3 DEF Aggregate
    <2>2. request'.op = "aggregate"
      BY <2>1
    <2>3. QED
      BY <1>1, <2>1, <2>2
  <1>4. ASSUME NEW a \in 0 .. Height(df), NEW b \in 0 .. Height(df), NEW read \in BOOLEAN,
               ConcatParts(a, b, read)
        PROVE  FilterInv'
    <2>1. PICK req, res : Shaped(req, res) /\ req = [op |-> "concat"]
      BY <1>4 DEF ConcatParts
    <2>2. QED
      BY <1>2, <2>1
  <1>5. ASSUME NEW last \in DOMAIN df, NEW first \in DOMAIN df, ConcatColumns(last, first) PROVE FilterInv'
    <2>1. PICK req, res : Shaped(req, res) /\ req = [op |-> "beside", last |-> last, first |-> first]
      BY <1>5 DEF ConcatColumns
    <2>2. QED
      BY <1>2, <2>1
  <1>6. ASSUME NEW c \in DOMAIN df, NEW fn \in {"sum", "mean", "std", "min", "max"},
               NEW window \in Windows, RollColumn(c, fn, window)
        PROVE  FilterInv'
    <2>1. PICK req, res : /\ Shaped(req, res)
                          /\ req = [op |-> "rolling", column |-> c, fn |-> fn, window |-> window]
      BY <1>6 DEF RollColumn
    <2>2. QED
      BY <1>2, <2>1
  <1>7. ASSUME NEW melt \in Melts, UnpivotFrame(melt[1], melt[2]) PROVE FilterInv'
    <2>1. PICK req, res : Shaped(req, res) /\ req = [op |-> "unpivot", ids |-> melt[1], vals |-> melt[2]]
      BY <1>7 DEF UnpivotFrame
    <2>2. QED
      BY <1>2, <2>1
  <1>8. CASE PivotBack
    <2>1. request' = [request EXCEPT !.op = "pivot"] /\ phase = "long" /\ phase' = "done"
      BY <1>8 DEF PivotBack
    <2>2. request = [op |-> "unpivot", ids |-> request.ids, vals |-> request.vals]
      BY <2>1 DEF QueryInv, MeltPending
    <2>3. request'.op = "pivot"
      BY <2>1, <2>2
    <2>4. QED
      BY <1>1, <2>1, <2>3
  <1>9. CASE TransposeFrame
    <2>1. PICK req, res : Shaped(req, res) /\ req = [op |-> "transpose"]
      BY <1>9 DEF TransposeFrame
    <2>2. QED
      BY <1>2, <2>1
  <1>10. ASSUME NEW c \in DOMAIN df, ExplodeColumn(c) PROVE FilterInv'
    <2>1. PICK req, res : Shaped(req, res) /\ req = [op |-> "explode", column |-> c]
      BY <1>10 DEF ExplodeColumn
    <2>2. QED
      BY <1>2, <2>1
  <1>11. QED
    BY <1>3, <1>4, <1>5, <1>6, <1>7, <1>8, <1>9, <1>10

LEMMA NextFilter == QueryInv /\ FilterInv /\ [Next]_vars => FilterInv'
  <1> SUFFICES ASSUME QueryInv, FilterInv, [Next]_vars PROVE FilterInv'
    OBVIOUS
  <1>1. ASSUME NEW sl \in Slices, SliceFrame(sl[1], sl[2]) PROVE FilterInv'
    <2>1. PICK b, e : /\ df' = [c \in DOMAIN df |-> SliceSeries(df[c], b, e)] /\ request' = request
                      /\ phase = "slice" /\ phase' = "start"
      BY <1>1 DEF SliceFrame
    <2>2. IsFrame(df)
      BY DEF QueryInv
    <2>3. \A kinds : Fits(df, kinds) => Fits(df', kinds)
      BY <2>1, <2>2, SliceFits
    <2>4. QED
      BY <2>1, <2>3 DEF FilterInv
  <1>2. CASE NoSlice
    BY <1>2 DEF NoSlice, FilterInv
  <1>3. CASE Finished \/ UNCHANGED vars
    BY <1>3 DEF Finished, vars, FilterInv
  <1>4. QED
    BY <1>1, <1>2, <1>3, StartCompareStep, CompareStep, MaskStep, FilterWordStep, TakeStep, AssembleStep,
       OtherStep DEF Next

(* What has been written while the columns are filtered                    *)
LEMMA QueryFilters == QueryInv /\ FilterInv => FilteredSoFar
  <1> SUFFICES ASSUME QueryInv, FilterInv, phase = "columns", request.op = "filter",
                      NEW c \in DOMAIN df, df[c].dtype \in Filterable
               PROVE  LET cur == cursor[c]
                          out == [df[c] EXCEPT !.arr = cur.arr]
                          rows == RowList({i \in Rows : i < cur.wi * wordSize /\ IsSet(mask, i)})
                      IN /\ cur.j = Len(rows)
                         /\ \A k \in DOMAIN rows : Cell(out, k - 1) = Cell(df[c], rows[k])
    BY DEF FilteredSoFar
  <1>1. PICK cur, out, S, rows : /\ cur = cursor[c] /\ out = [df[c] EXCEPT !.arr = cur.arr]
                                 /\ S = {i \in Rows : i < cur.wi * wordSize /\ IsSet(mask, i)}
                                 /\ rows = RowList(S)
    OBVIOUS
  <1>2. Filtering(df, request, mask, cursor)
    BY DEF FilterInv, Taking
  <1>3. Filled(df[c], mask, cur) /\ IsBitmapOf(mask, Height(df))
    BY <1>1, <1>2 DEF Filtering, IsMaskOf
  <1>4. /\ cur.wi \in 0 .. wordsNeeded(mask.len) /\ cur.j = Cardinality(Before(mask, cur.wi))
        /\ CellsBefore(df[c], mask, cur.wi, cur.arr)
    BY <1>3 DEF Filled
  <1>5. S = Before(mask, cur.wi)
    BY <1>1, <1>3 DEF Before, Rows, IsBitmapOf
  <1>6. IsBitmap(mask) /\ wordsNeeded(mask.len) \in Nat
    BY <1>3, AllWords DEF IsBitmapOf
  <1>7. IsFiniteSet(S) /\ \A i \in S : i \in Int
    <2>1. cur.wi \in Nat
      BY <1>4, <1>6
    <2>2. IsFiniteSet(Before(mask, cur.wi))
      BY <1>6, <2>1, WordStep
    <2>3. \A i \in Rows : i \in Int
      BY DEF Rows
    <2>4. QED
      BY <1>1, <1>5, <2>2, <2>3
  <1>8. DOMAIN rows = 1 .. Cardinality(S) /\ Len(rows) = Cardinality(S)
    BY <1>1, <1>7, RowListAscends
  <1>9. out = WithArr(df[c], cur.arr)
    BY <1>1 DEF WithArr
  <1>10. \A k \in DOMAIN rows : Cell(out, k - 1) = Cell(df[c], rows[k])
    BY <1>1, <1>4, <1>5, <1>8, <1>9 DEF CellsBefore
  <1>11. cur.j = Len(rows)
    BY <1>4, <1>5, <1>8
  <1>12. QED
    BY <1>1, <1>10, <1>11

(* Wherever the goroutine of each column is, it has written the cells of   *)
(* the rows the words it has done select, in order: dense or sparse words, *)
(* aligned or not, of any word size.                                       *)
THEOREM FilterWritesSelected == Spec => []FilteredSoFar
  <1>1. Init => QueryInv /\ FilterInv
    BY InitQuery, InitFilter
  <1>2. QueryInv /\ FilterInv /\ [Next]_vars => (QueryInv /\ FilterInv)'
    BY NextQuery, NextFilter
  <1>3. QED
    BY <1>1, <1>2, QueryFilters, PTL DEF Spec

(* A column all of whose words are done                                    *)
LEMMA ColumnFiltered ==
  ASSUME NEW s, IsSeries(s), s.dtype \in Filterable, NEW m, IsBitmapOf(m, s.arr.length), NEW cur,
         Filled(s, m, cur), cur.done,
         NEW S, S = {i \in 0 .. s.arr.length - 1 : IsSet(m, i)}
  PROVE  TakesCells(s, cur.arr, RowList(S), Cardinality(S))
  <1>1. PICK W, n, o : W = wordsNeeded(m.len) /\ n = PopCount(m) /\ o = cur.arr
    OBVIOUS
  <1>2. IsBitmap(m) /\ m.len = s.arr.length
    BY DEF IsBitmapOf
  <1>3. /\ cur.wi = W /\ PartArray(s, m, cur.wi, cur.pos, o) /\ CellsBefore(s, m, W, o)
    BY <1>1 DEF Filled
  <1>4. Before(m, W) = S
    BY <1>1, <1>2, AllWords
  <1>5. n = Cardinality(S)
    BY <1>1, <1>2, CountBits
  <1>6. o.length = n
    <2>1. CASE s.dtype = "Boolean"
      <3>1. PartBoolean(s.arr, o, n, Cardinality(Before(m, cur.wi)))
        BY <1>1, <1>3, <2>1 DEF PartArray
      <3>2. o = [data |-> o.data, validity |-> o.validity, length |-> n]
        BY <3>1 DEF PartBoolean
      <3>3. QED
        BY <3>2
    <2>2. CASE s.dtype = "String"
      <3>1. PartString(s.arr, o, n, Cardinality(Before(m, cur.wi)), cur.pos, AllBytes(s.arr, m))
        BY <1>1, <1>3, <2>2 DEF PartArray
      <3>2. o = [bytes |-> o.bytes, offsets |-> o.offsets, validity |-> o.validity, length |-> n]
        BY <3>1 DEF PartString
      <3>3. QED
        BY <3>2
    <2>3. CASE s.dtype \notin {"Boolean", "String"}
      <3>1. PartTyped(s.arr, o, n, Cardinality(Before(m, cur.wi)))
        BY <1>1, <1>3, <2>3 DEF PartArray
      <3>2. o = [values |-> o.values, validity |-> o.validity, length |-> n]
        BY <3>1 DEF PartTyped
      <3>3. QED
        BY <3>2
    <2>4. QED
      BY <2>1, <2>2, <2>3
  <1>7. \A k \in 1 .. Cardinality(S) : Cell(WithArr(s, o), k - 1) = Cell(s, RowList(S)[k])
    BY <1>3, <1>4 DEF CellsBefore
  <1>8. QED
    BY <1>1, <1>5, <1>6, <1>7 DEF TakesCells

LEMMA FilterIsWhole ==
  ASSUME FramesFit, NEW cols, IsFrame(cols), NEW req, NEW m, NEW cur, Filtering(cols, req, m, cur),
         \A c \in DOMAIN cols : cur[c].done,
         NEW S, S = {i \in 0 .. Height(cols) - 1 : ColCond(cols, req.cond, i) = TRUE}
  PROVE  HasRows(cols, cur, RowList(S), Cardinality(S))
  <1>1. ASSUME NEW c \in DOMAIN cols PROVE TakesCells(cols[c], cur[c].arr, RowList(S), Cardinality(S))
    <2>1. IsSeries(cols[c]) /\ cols[c].arr.length = Height(cols)
      BY ColumnOfFrame
    <2>2. cols[c].dtype \in Filterable
      BY DEF Filtering, FilterAsked, Fits
    <2>3. IsBitmapOf(m, cols[c].arr.length) /\ Filled(cols[c], m, cur[c])
      BY <2>1 DEF Filtering, IsMaskOf
    <2>4. \A i \in 0 .. Height(cols) - 1 : IsSet(m, i) <=> ColCond(cols, req.cond, i) = TRUE
      BY DEF Filtering, IsMaskOf
    <2>5. S = {i \in 0 .. cols[c].arr.length - 1 : IsSet(m, i)}
      BY <2>1, <2>4
    <2>6. QED
      BY <2>1, <2>2, <2>3, <2>5, ColumnFiltered
  <1>2. QED
    BY <1>1 DEF HasRows

LEMMA TakeIsWhole ==
  ASSUME FramesFit, NEW cols, IsFrame(cols), NEW req, NEW cur, Taking(cols, req, cur),
         \A c \in DOMAIN cols : cur[c].done
  PROVE  Len(req.indices) \in Nat /\ HasRows(cols, cur, req.indices, Len(req.indices))
  <1>1. PICK rows : rows = req.indices
    OBVIOUS
  <1>2. PICK n \in Nat : rows \in [1 .. n -> 0 .. Height(cols) - 1]
    BY <1>1 DEF Taking, IsRowChoice
  <1>3. Len(rows) = n /\ DOMAIN rows = 1 .. n
    BY <1>2
  <1>4. ASSUME NEW c \in DOMAIN cols PROVE TakesCells(cols[c], cur[c].arr, rows, n)
    <2>1. IsSeries(cols[c]) /\ cols[c].arr.length = Height(cols)
      BY ColumnOfFrame
    <2>2. cols[c].dtype \in Takeable
      BY DEF Taking, Fits
    <2>3. cur[c].arr = TakeSeries(cols[c], rows).arr
      BY <1>1 DEF Taking
    <2>4. RowsOf(rows, n, cols[c].arr)
      BY <1>2, <1>3, <2>1 DEF RowsOf
    <2>5. QED
      BY <2>1, <2>2, <2>3, <2>4, ColumnTaken
  <1>5. QED
    BY <1>1, <1>2, <1>3, <1>4 DEF HasRows

LEMMA QueryKeepsRows ==
  ASSUME FramesFit
  PROVE  QueryInv /\ FilterInv => RowsStayTogether
  <1> SUFFICES ASSUME QueryInv, FilterInv, phase = "done", request.op \in {"filter", "take"}
               PROVE  /\ result # nil
                      /\ DOMAIN result.cols = DOMAIN df
                      /\ result.height = Len(ChosenRows)
                      /\ \A c \in DOMAIN df : \A k \in 1 .. result.height :
                           Cell(result.cols[c], k - 1) = Cell(df[c], ChosenRows[k])
    BY DEF RowsStayTogether
  <1>1. PICK rows : rows = ChosenRows
    OBVIOUS
  <1>2. /\ Filtering(df, request, mask, cursor) \/ Taking(df, request, cursor)
        /\ \A c \in DOMAIN df : cursor[c].done
        /\ result = Assembled(df, cursor, request) /\ IsFrame(df)
    BY DEF FilterInv, QueryInv
  <1>3. HasRows(df, cursor, rows, Len(rows))
    <2>1. CASE Taking(df, request, cursor)
      <3>1. rows = request.indices
        BY <1>1, <2>1 DEF ChosenRows, Taking
      <3>2. QED
        BY <1>2, <2>1, <3>1, TakeIsWhole
    <2>2. CASE Filtering(df, request, mask, cursor)
      <3>1. PICK S : S = {i \in Rows : CondCell(request.cond, i) = TRUE}
        OBVIOUS
      <3>2. request.op = "filter"
        BY <2>2 DEF Filtering, FilterAsked
      <3>3. rows = RowList(S)
        BY <1>1, <3>1, <3>2 DEF ChosenRows
      <3>4. \A i : CondCell(request.cond, i) = ColCond(df, request.cond, i)
        BY Zenon DEF CondCell, ColCond, Compared
      <3>5. S = {i \in 0 .. Height(df) - 1 : ColCond(df, request.cond, i) = TRUE}
        BY <3>1, <3>4 DEF Rows
      <3>6. IsFiniteSet(S) /\ \A x \in S : x \in Int
        <4>1. Height(df) \in Nat
          BY <1>2, HeightIs
        <4>2. IsFiniteSet(0 .. Height(df) - 1) /\ S \in SUBSET (0 .. Height(df) - 1)
          BY <3>5, <4>1, RowCount
        <4>3. \A x \in S : x \in Int
          BY <3>5
        <4>4. IsFiniteSet(S)
          BY <4>2, FS_Subset
        <4>5. QED
          BY <4>3, <4>4
      <3>7. Len(rows) = Cardinality(S)
        BY <3>3, <3>6, RowListAscends
      <3>8. HasRows(df, cursor, RowList(S), Cardinality(S))
        BY <1>2, <2>2, <3>5, FilterIsWhole
      <3>9. QED
        BY <3>3, <3>7, <3>8
    <2>3. QED
      BY <1>2, <2>1, <2>2
  <1>4. /\ result # nil /\ DOMAIN result.cols = DOMAIN df /\ result.height = Len(rows)
        /\ \A c \in DOMAIN df : \A k \in 1 .. Len(rows) : Cell(result.cols[c], k - 1) = Cell(df[c], rows[k])
    BY <1>2, <1>3, GatheredRows
  <1>5. QED
    BY <1>1, <1>4

(* A filter returns the rows its condition is true of and Sort, Unique and *)
(* Sample, which take rows, those asked for, the same ones in every column *)
(* and in order, of columns that Series.Filter and Series.Take have a case *)
(* for.                                                                    *)
THEOREM RowsTogether ==
  ASSUME FramesFit
  PROVE  Spec => []RowsStayTogether
  <1>1. Init => QueryInv /\ FilterInv
    BY InitQuery, InitFilter
  <1>2. QueryInv /\ FilterInv /\ [Next]_vars => (QueryInv /\ FilterInv)'
    BY NextQuery, NextFilter
  <1>3. QueryInv /\ FilterInv => RowsStayTogether
    BY QueryKeepsRows
  <1>4. QED
    BY <1>1, <1>2, <1>3, PTL DEF Spec

-----------------------------------------------------------------------------
(* What Concat and ConcatHorizontal returned                               *)

ConcatDone ==
  /\ request.op = "concat" =>
       /\ phase = "done"
       /\ \E a \in 0 .. Height(df), b \in 0 .. Height(df), read \in BOOLEAN :
            a <= b /\ result = ConcatFrames(ThreeParts(df, a, b, read))
  /\ request.op = "beside" =>
       /\ phase = "done" /\ request.last \in DOMAIN df /\ request.first \in DOMAIN df
       /\ result = Beside(df, request.last, request.first)

LEMMA InitConcat == Init => ConcatDone
  BY DEF Init, ConcatDone

LEMMA PartsAre ==
  ASSUME NEW a, NEW b, NEW read, ConcatParts(a, b, read)
  PROVE  /\ a <= b /\ request' = [op |-> "concat"] /\ phase' = "done" /\ df' = df
         /\ result' = ConcatFrames(ThreeParts(df, a, b, read))
  BY Zenon DEF ConcatParts, Shaped, ThreeParts, PartFrame, ReadSeries

LEMMA NextConcat == QueryInv /\ ConcatDone /\ [Next]_vars => ConcatDone'
  <1> SUFFICES ASSUME QueryInv, ConcatDone, [Next]_vars PROVE ConcatDone'
    OBVIOUS
  <1>1. ASSUME phase # "done", UNCHANGED request PROVE ConcatDone'
    BY <1>1 DEF ConcatDone
  <1>2. ASSUME request'.op \notin {"concat", "beside"} PROVE ConcatDone'
    BY <1>2 DEF ConcatDone
  <1>3. ASSUME NEW sl \in Slices, SliceFrame(sl[1], sl[2]) PROVE ConcatDone'
    BY <1>1, <1>3 DEF SliceFrame
  <1>4. CASE NoSlice
    BY <1>1, <1>4 DEF NoSlice
  <1>5. ASSUME NEW cond \in Conditions, StartCompare(cond) PROVE ConcatDone'
    BY <1>2, <1>5 DEF StartCompare
  <1>6. ASSUME NEW wi \in todo, CompareWord(wi) PROVE ConcatDone'
    BY <1>1, <1>6 DEF CompareWord
  <1>7. CASE Logical
    BY <1>1, <1>7 DEF Logical
  <1>8. CASE StartFilter
    BY <1>1, <1>8 DEF StartFilter
  <1>9. ASSUME NEW c \in DOMAIN df, FilterWord(c) PROVE ConcatDone'
    BY <1>1, <1>9 DEF FilterWord
  <1>10. ASSUME NEW indices, StartTake(indices) PROVE ConcatDone'
    BY <1>2, <1>10 DEF StartTake
  <1>11. ASSUME NEW c \in DOMAIN df, TakeColumn(c) PROVE ConcatDone'
    BY <1>1, <1>11 DEF TakeColumn
  <1>12. CASE Assemble
    BY <1>1, <1>12 DEF Assemble
  <1>13. ASSUME NEW c \in DOMAIN df, NEW cuts \in SUBSET (1 .. Height(df) - 1), Aggregate(c, cuts)
         PROVE  ConcatDone'
    BY <1>2, <1>13 DEF Aggregate
  <1>14. ASSUME NEW req, NEW res, Shaped(req, res), req.op \notin {"concat", "beside"} PROVE ConcatDone'
    BY <1>2, <1>14 DEF Shaped
  <1>15. ASSUME NEW a \in 0 .. Height(df), NEW b \in 0 .. Height(df), NEW read \in BOOLEAN,
                ConcatParts(a, b, read)
         PROVE  ConcatDone'
    <2>1. /\ a <= b /\ request' = [op |-> "concat"] /\ phase' = "done" /\ df' = df
          /\ result' = ConcatFrames(ThreeParts(df, a, b, read))
      BY <1>15, PartsAre
    <2>2. request'.op = "concat"
      BY <2>1
    <2>3. QED
      BY <2>1, <2>2 DEF ConcatDone
  <1>16. ASSUME NEW last \in DOMAIN df, NEW first \in DOMAIN df, ConcatColumns(last, first) PROVE ConcatDone'
    <2>1. PICK req, res : /\ Shaped(req, res) /\ req = [op |-> "beside", last |-> last, first |-> first]
                          /\ res = Beside(df, last, first)
      BY <1>16 DEF ConcatColumns, Beside
    <2>2. req.op = "beside" /\ req.last = last /\ req.first = first
      BY <2>1
    <2>3. request' = req /\ result' = res /\ phase' = "done" /\ df' = df
      BY <2>1, <2>2 DEF Shaped
    <2>4. QED
      BY <2>1, <2>2, <2>3 DEF ConcatDone
  <1>17. ASSUME NEW c \in DOMAIN df, NEW fn, NEW window, RollColumn(c, fn, window) PROVE ConcatDone'
    <2>1. PICK req, res : Shaped(req, res) /\ req = [op |-> "rolling", column |-> c, fn |-> fn, window |-> window]
      BY <1>17 DEF RollColumn
    <2>2. QED
      BY <1>14, <2>1
  <1>18. ASSUME NEW melt \in Melts, UnpivotFrame(melt[1], melt[2]) PROVE ConcatDone'
    <2>1. PICK req, res : Shaped(req, res) /\ req = [op |-> "unpivot", ids |-> melt[1], vals |-> melt[2]]
      BY <1>18 DEF UnpivotFrame
    <2>2. QED
      BY <1>14, <2>1
  <1>19. CASE PivotBack
    <2>1. request' = [request EXCEPT !.op = "pivot"]
      BY <1>19 DEF PivotBack
    <2>2. request = [op |-> "unpivot", ids |-> request.ids, vals |-> request.vals]
      BY <1>19 DEF PivotBack, QueryInv, MeltPending
    <2>3. request'.op = "pivot"
      BY <2>1, <2>2
    <2>4. QED
      BY <1>2, <2>3
  <1>20. CASE TransposeFrame
    BY <1>14, <1>20 DEF TransposeFrame
  <1>21. ASSUME NEW c \in DOMAIN df, ExplodeColumn(c) PROVE ConcatDone'
    <2>1. PICK req, res : Shaped(req, res) /\ req = [op |-> "explode", column |-> c]
      BY <1>21 DEF ExplodeColumn
    <2>2. QED
      BY <1>14, <2>1
  <1>22. CASE Finished \/ UNCHANGED vars
    BY <1>22 DEF Finished, vars, ConcatDone
  <1>23. QED
    BY <1>3, <1>4, <1>5, <1>6, <1>7, <1>8, <1>9, <1>10, <1>11, <1>12, <1>13, <1>15, <1>16, <1>17,
       <1>18, <1>19, <1>20, <1>21, <1>22 DEF Next

LEMMA QueryConcats == QueryInv /\ ConcatDone => ConcatKeepsRows
  <1> SUFFICES ASSUME QueryInv, ConcatDone PROVE ConcatKeepsRows
    OBVIOUS
  <1>1. IsFrame(df) /\ Height(df) \in Nat
    BY HeightIs DEF QueryInv
  <1>2. ASSUME request.op = "concat"
        PROVE  /\ result # nil /\ result.height = Height(df) /\ Schema(result.cols) = Schema(df)
               /\ \A c \in DOMAIN df : \A i \in Rows : Cell(result.cols[c], i) = Cell(df[c], i)
    <2>1. PICK a \in 0 .. Height(df), b \in 0 .. Height(df), read \in BOOLEAN :
            a <= b /\ result = ConcatFrames(ThreeParts(df, a, b, read))
      BY <1>2 DEF ConcatDone
    <2>2. a \in Nat /\ b \in Nat /\ a <= b /\ b <= Height(df)
      BY <1>1, <2>1
    <2>3. SameFrame(result, df)
      BY <1>1, <2>1, <2>2, FrameConcat
    <2>4. ASSUME NEW c \in DOMAIN df, NEW i \in Rows PROVE Cell(result.cols[c], i) = Cell(df[c], i)
      <3>1. i \in 0 .. Height(df) - 1 /\ 0 + i = i
        BY <1>1 DEF Rows
      <3>2. SameSeries(result.cols[c], df[c], 0, Height(df))
        BY <2>3 DEF SameFrame
      <3>3. Cell(result.cols[c], i) = Cell(df[c], 0 + i)
        BY <3>1, <3>2 DEF SameSeries, CellsFrom
      <3>4. QED
        BY <3>1, <3>3
    <2>5. QED
      BY <2>3, <2>4 DEF SameFrame
  <1>3. ASSUME request.op = "beside"
        PROVE  IF request.first <= request.last THEN result = nil
               ELSE result.cols = SubSeq(df, 1, request.last) \o SubSeq(df, request.first, Len(df))
    <2>1. request.last \in DOMAIN df /\ request.first \in DOMAIN df /\ result = Beside(df, request.last, request.first)
      BY <1>3 DEF ConcatDone
    <2>2. BesideIs(result, df, request.last, request.first)
      BY <1>1, <2>1, FrameBeside
    <2>3. QED
      BY <2>2 DEF BesideIs, Joint
  <1>4. QED
    BY <1>2, <1>3 DEF ConcatKeepsRows

\* Concat copies every row of the parts of a frame to its place, whichever bits of a
\* word a part starts at and whichever of them has a validity, and ConcatHorizontal
\* keeps the columns or refuses one that is there twice.
THEOREM ConcatKeepsAllRows == Spec => []ConcatKeepsRows
  <1>1. Init => QueryInv /\ ConcatDone
    BY InitQuery, InitConcat
  <1>2. QueryInv /\ ConcatDone /\ [Next]_vars => QueryInv' /\ ConcatDone'
    BY NextQuery, NextConcat
  <1>3. QueryInv /\ ConcatDone => ConcatKeepsRows
    BY QueryConcats
  <1>4. QED
    BY <1>1, <1>2, <1>3, PTL DEF Spec

-----------------------------------------------------------------------------
(* No bitmap has a bit set past its length                                 *)

ColumnsFit(f) == f = nil \/ \A c \in DOMAIN f.cols : BitmapsFit(f.cols[c])

PredFits == pred = nil \/ \E n \in Nat : IsPredicate(pred, n)
MaskFits == mask = nil \/ IsBitmap(mask)
CursorFits ==
  /\ phase = "slice" => cursor = <<>>
  /\ \A c \in DOMAIN cursor :
       c \in DOMAIN df /\ (cursor[c].arr = nil \/ BitmapsFit(WithArr(df[c], cursor[c].arr)))
ResultFits == request.op = "aggregate" \/ ColumnsFit(result)
LongFits ==
  phase = "long" =>
    /\ IsList(request.ids)
    /\ result # nil /\ AllFit(result.cols) /\ Len(result.cols) = Len(request.ids) + 2

FitInv == PredFits /\ MaskFits /\ CursorFits /\ ResultFits /\ LongFits

LEMMA FrameColumnsFit ==
  ASSUME NEW f, FrameFits(f)
  PROVE  ColumnsFit(f)
  <1>1. CASE f = nil
    BY <1>1 DEF ColumnsFit
  <1>2. CASE f # nil
    <2>1. AllFit(f.cols)
      BY <1>2 DEF FrameFits
    <2>2. DOMAIN f.cols = 1 .. Len(f.cols)
      BY <2>1 DEF AllFit, IsList
    <2>3. QED
      BY <2>1, <2>2 DEF AllFit, ColumnsFit
  <1>3. QED
    BY <1>1, <1>2

LEMMA FitIsClear ==
  ASSUME NEW s, BitmapsFit(s), NEW b \in BitmapsOf(s), b # nil
  PROVE  SlackClear(b)
  <1>1. b = s.arr.validity \/ (s.dtype = "Boolean" /\ b = s.arr.data)
    BY DEF BitmapsOf
  <1>2. IsBitmapOf(b, s.arr.length)
    BY <1>1 DEF BitmapsFit
  <1>3. QED
    BY <1>2 DEF IsBitmapOf, IsBitmap

LEMMA InitFit == Init => FitInv
  <1> SUFFICES ASSUME Init PROVE FitInv
    OBVIOUS
  <1>1. phase = "slice" /\ pred = nil /\ mask = nil /\ cursor = <<>> /\ result = nil
    BY DEF Init
  <1>2. DOMAIN cursor = {}
    BY <1>1
  <1>3. QED
    BY <1>1, <1>2 DEF FitInv, PredFits, MaskFits, CursorFits, ResultFits, LongFits, ColumnsFit

(* A column of rows taken                                                  *)
LEMMA TakenFits ==
  ASSUME NEW s, IsSeries(s), NEW rows, NEW n, RowsOf(rows, n, s.arr)
  PROVE  BitmapsFit(WithArr(s, TakeSeries(s, rows).arr))
  <1>1. PICK a, v, u : a = s.arr /\ v = NewValidity(a, n) /\ u = ClearNulls(v, a, rows, 0)
    OBVIOUS
  <1>2. n \in Nat /\ DOMAIN rows = 1 .. n /\ Len(rows) = n
    BY DEF RowsOf
  <1>3. u = nil \/ IsBitmapOf(u, n)
    <2>1. IsValidity(v, a, n, 0)
      BY <1>1, <1>2, FreshValidity
    <2>2. 0 \in Nat /\ 0 + n <= n
      BY <1>2
    <2>3. IsValidity(ClearNulls(v, a, rows, 0), a, n, 0 + n)
      BY <1>2, <2>1, <2>2, NullsCleared
    <2>4. QED
      BY <1>1, <2>3 DEF IsValidity
  <1>4. PICK t : t = WithArr(s, TakeSeries(s, rows).arr)
    OBVIOUS
  <1>5. t.arr = TakeSeries(s, rows).arr /\ t.dtype = s.dtype
    BY <1>4, ArrOf
  <1>6. CASE s.dtype \notin Takeable
    <2>1. t.arr = s.arr
      BY <1>5, <1>6 DEF TakeSeries
    <2>2. BitmapsFit(s)
      BY SeriesFits
    <2>3. QED
      BY <1>4, <1>5, <2>1, <2>2 DEF BitmapsFit
  <1>7. CASE s.dtype \in Takeable
    <2>1. t.arr.length = n
      BY <1>5, <1>7, ColumnTaken DEF TakesCells
    <2>2. s.dtype # "Boolean"
      BY <1>7 DEF Takeable
    <2>3. t.arr.validity = u
      <3>1. CASE s.dtype = "String"
        <4>1. TakeSeries(s, rows) = WithArr(s, TakeString(s.arr, rows))
          BY <1>7, <3>1 DEF TakeSeries, WithArr
        <4>2. t.arr = TakeString(a, rows)
          BY <1>1, <1>5, <4>1, ArrOf
        <4>3. QED
          BY <1>1, <1>2, <4>2 DEF TakeString, StringArray
      <3>2. CASE s.dtype # "String"
        <4>1. TakeSeries(s, rows) = WithArr(s, TakeTyped(s.arr, rows))
          BY <1>7, <3>2 DEF TakeSeries, WithArr
        <4>2. t.arr = TakeTyped(a, rows)
          BY <1>1, <1>5, <4>1, ArrOf
        <4>3. QED
          BY <1>1, <1>2, <4>2 DEF TakeTyped, TypedArray
      <3>3. QED
        BY <3>1, <3>2
    <2>4. QED
      BY <1>2, <1>3, <1>4, <1>5, <2>1, <2>2, <2>3 DEF BitmapsFit
  <1>8. QED
    BY <1>6, <1>7

(* A column in the middle of a filter                                      *)
LEMMA FilledFits ==
  ASSUME NEW s, IsSeries(s), NEW m, IsBitmapOf(m, s.arr.length), NEW cur, Filled(s, m, cur)
  PROVE  BitmapsFit(WithArr(s, cur.arr))
  <1>1. PICK n, o, t : n = PopCount(m) /\ o = cur.arr /\ t = WithArr(s, o)
    OBVIOUS
  <1>2. t.arr = o /\ t.dtype = s.dtype
    BY <1>1, ArrOf
  <1>3. CASE s.dtype \notin Filterable
    <2>1. o = s.arr
      BY <1>1, <1>3 DEF Filled
    <2>2. BitmapsFit(s)
      BY SeriesFits
    <2>3. QED
      BY <1>1, <1>2, <2>1, <2>2 DEF BitmapsFit
  <1>4. CASE s.dtype \in Filterable
    <2>1. PartArray(s, m, cur.wi, cur.pos, o)
      BY <1>1, <1>4 DEF Filled
    <2>2. n \in Nat
      BY <1>1, CountBits DEF IsBitmapOf
    <2>3. PICK j : j = Cardinality(Before(m, cur.wi))
      OBVIOUS
    <2>4. /\ o.length = n /\ IsValidity(o.validity, s.arr, n, j)
          /\ s.dtype = "Boolean" => IsBitmapOf(o.data, n)
      <3>1. CASE s.dtype = "Boolean"
        <4>1. PartBoolean(s.arr, o, n, j)
          BY <1>1, <2>1, <2>3, <3>1 DEF PartArray
        <4>2. PICK x, y : o = [data |-> x, validity |-> y, length |-> n]
          BY <4>1 DEF PartBoolean
        <4>3. QED
          BY <4>1, <4>2 DEF PartBoolean
      <3>2. CASE s.dtype = "String"
        <4>1. PartString(s.arr, o, n, j, cur.pos, AllBytes(s.arr, m))
          BY <1>1, <2>1, <2>3, <3>2 DEF PartArray
        <4>2. PICK x, y, z : o = [bytes |-> x, offsets |-> y, validity |-> z, length |-> n]
          BY <4>1 DEF PartString
        <4>3. QED
          BY <3>2, <4>1, <4>2 DEF PartString
      <3>3. CASE s.dtype \notin {"Boolean", "String"}
        <4>1. PartTyped(s.arr, o, n, j)
          BY <1>1, <2>1, <2>3, <3>3 DEF PartArray
        <4>2. PICK x, y : o = [values |-> x, validity |-> y, length |-> n]
          BY <4>1 DEF PartTyped
        <4>3. QED
          BY <3>3, <4>1, <4>2 DEF PartTyped
      <3>4. QED
        BY <3>1, <3>2, <3>3
    <2>5. o.validity = nil \/ IsBitmapOf(o.validity, n)
      BY <2>4 DEF IsValidity
    <2>6. QED
      BY <1>1, <1>2, <2>2, <2>4, <2>5 DEF BitmapsFit
  <1>5. QED
    BY <1>3, <1>4

LEMMA CursorOfFilter ==
  ASSUME NEW cols, IsFrame(cols), NEW req, NEW m, NEW cur, Filtering(cols, req, m, cur)
  PROVE  \A c \in DOMAIN cur : c \in DOMAIN cols /\ BitmapsFit(WithArr(cols[c], cur[c].arr))
  <1> SUFFICES ASSUME NEW c \in DOMAIN cur
               PROVE  c \in DOMAIN cols /\ BitmapsFit(WithArr(cols[c], cur[c].arr))
    OBVIOUS
  <1>1. c \in DOMAIN cols
    BY DEF Filtering
  <1>2. IsSeries(cols[c]) /\ cols[c].arr.length = Height(cols)
    BY <1>1, ColumnOfFrame
  <1>3. IsBitmapOf(m, cols[c].arr.length) /\ Filled(cols[c], m, cur[c])
    BY <1>1, <1>2 DEF Filtering, IsMaskOf
  <1>4. QED
    BY <1>1, <1>2, <1>3, FilledFits

LEMMA CursorKept ==
  ASSUME CursorFits, df' = df, cursor' = cursor, phase' # "slice"
  PROVE  CursorFits'
  <1>1. \A c \in DOMAIN cursor' :
          c \in DOMAIN df' /\ (cursor'[c].arr = nil \/ BitmapsFit(WithArr(df'[c], cursor'[c].arr)))
    BY Zenon DEF CursorFits
  <1>2. QED
    BY <1>1 DEF CursorFits

LEMMA NotYetDone ==
  ASSUME QueryInv, ResultFits, phase # "done"
  PROVE  ColumnsFit(result) /\ request.op # "aggregate"
  BY DEF QueryInv, AggregateDone, ResultFits

LEMMA FitCompare ==
  ASSUME QueryInv, FitInv, QueryInv', FilterInv',
         \/ \E cond \in Conditions : StartCompare(cond)
         \/ \E wi \in todo : CompareWord(wi)
         \/ Logical
  PROVE  FitInv'
  <1>1. /\ phase \in {"start", "compare"} /\ phase' \in {"compare", "mask"} /\ df' = df
        /\ mask' = mask /\ cursor' = cursor /\ result' = result
    BY DEF StartCompare, CompareWord, Logical
  <1>2. PredFits'
    <2>1. IsPredicate(pred', Height(df'))
      BY <1>1 DEF FilterInv, Comparing, MeansCond
    <2>2. Height(df') \in Nat
      BY HeightIs DEF QueryInv
    <2>3. QED
      BY <2>1, <2>2 DEF PredFits
  <1>3. MaskFits'
    BY <1>1 DEF FitInv, MaskFits
  <1>4. CursorFits'
    BY <1>1, CursorKept DEF FitInv
  <1>5. ResultFits'
    <2>1. ColumnsFit(result)
      BY <1>1, NotYetDone DEF FitInv
    <2>2. QED
      BY <1>1, <2>1 DEF ResultFits
  <1>6. LongFits'
    BY <1>1 DEF LongFits
  <1>7. QED
    BY <1>2, <1>3, <1>4, <1>5, <1>6 DEF FitInv

LEMMA FitFilter ==
  ASSUME QueryInv, FilterInv, FitInv, QueryInv', FilterInv',
         StartFilter \/ \E c \in DOMAIN df : FilterWord(c)
  PROVE  FitInv'
  <1>1. /\ phase \in {"mask", "columns"} /\ phase' = "columns" /\ df' = df
        /\ pred' = pred /\ result' = result /\ request' = request
    BY DEF StartFilter, FilterWord
  <1>2. Filtering(df', request', mask', cursor')
    <2>1. Filtering(df', request', mask', cursor') \/ Taking(df', request', cursor')
      BY <1>1 DEF FilterInv
    <2>2. request.op = "filter"
      <3>1. CASE StartFilter
        BY <3>1 DEF StartFilter, FilterInv, FilterAsked
      <3>2. CASE \E c \in DOMAIN df : FilterWord(c)
        BY <3>2 DEF FilterWord
      <3>3. QED
        BY <3>1, <3>2
    <2>3. QED
      BY <1>1, <2>1, <2>2 DEF Taking
  <1>3. IsFrame(df')
    BY DEF QueryInv
  <1>4. PredFits'
    BY <1>1 DEF FitInv, PredFits
  <1>5. MaskFits'
    BY <1>2 DEF Filtering, IsMaskOf, IsBitmapOf, MaskFits
  <1>6. CursorFits'
    <2>1. \A c \in DOMAIN cursor' : c \in DOMAIN df' /\ BitmapsFit(WithArr(df'[c], cursor'[c].arr))
      BY <1>2, <1>3, CursorOfFilter
    <2>2. QED
      BY <1>1, <2>1 DEF CursorFits
  <1>7. ResultFits'
    BY <1>1 DEF FitInv, ResultFits
  <1>8. LongFits'
    BY <1>1 DEF LongFits
  <1>9. QED
    BY <1>4, <1>5, <1>6, <1>7, <1>8 DEF FitInv

LEMMA RowsChosen ==
  ASSUME NEW s, NEW n, IsRowChoice(s, n), NEW a, a.length = n
  PROVE  RowsOf(s, Len(s), a)
  <1>1. PICK k \in Nat : s \in [1 .. k -> 0 .. n - 1]
    BY DEF IsRowChoice
  <1>2. Len(s) = k /\ DOMAIN s = 1 .. k /\ \A q \in 1 .. k : s[q] \in 0 .. n - 1
    BY <1>1
  <1>3. QED
    BY <1>1, <1>2 DEF RowsOf

LEMMA FitTake ==
  ASSUME QueryInv, FilterInv, FitInv, QueryInv', FilterInv',
         \/ TakesRows /\ \E indices \in IndexLists : StartTake(indices)
         \/ \E c \in DOMAIN df : TakeColumn(c)
  PROVE  FitInv'
  <1>1. /\ phase \in {"start", "columns"} /\ phase' = "columns" /\ df' = df
        /\ pred' = pred /\ mask' = mask /\ result' = result /\ IsFrame(df)
    BY DEF StartTake, TakeColumn, TakesRows, QueryInv
  <1>2. PredFits' /\ MaskFits'
    BY <1>1 DEF FitInv, PredFits, MaskFits
  <1>3. ResultFits'
    <2>1. ColumnsFit(result)
      BY <1>1, NotYetDone DEF FitInv
    <2>2. QED
      BY <1>1, <2>1 DEF ResultFits
  <1>4. LongFits'
    BY <1>1 DEF LongFits
  <1>5. CursorFits'
    <2>1. ASSUME NEW indices \in IndexLists, StartTake(indices) PROVE CursorFits'
      <3>1. cursor' = [c \in DOMAIN df |-> [done |-> FALSE, arr |-> nil]]
        BY <2>1 DEF StartTake
      <3>2. DOMAIN cursor' = DOMAIN df /\ \A c \in DOMAIN df : cursor'[c].arr = nil
        BY <3>1
      <3>3. QED
        BY <1>1, <3>2 DEF CursorFits
    <2>2. ASSUME NEW c \in DOMAIN df, TakeColumn(c) PROVE CursorFits'
      <3>1. /\ phase = "columns" /\ request.op = "take"
            /\ cursor' = [cursor EXCEPT ![c] = [done |-> TRUE, arr |-> TakeSeries(df[c], request.indices).arr]]
        BY <2>2 DEF TakeColumn
      <3>2. Taking(df, request, cursor)
        BY <3>1 DEF FilterInv, Filtering, FilterAsked
      <3>3. PICK s, rows : s = df[c] /\ rows = request.indices
        OBVIOUS
      <3>4. IsSeries(s) /\ s.arr.length = Height(df)
        BY <1>1, <3>3, ColumnOfFrame
      <3>5. RowsOf(rows, Len(rows), s.arr)
        BY <3>2, <3>3, <3>4, RowsChosen DEF Taking
      <3>6. BitmapsFit(WithArr(s, TakeSeries(s, rows).arr))
        BY <3>4, <3>5, TakenFits
      <3>7. DOMAIN cursor' = DOMAIN cursor
        BY <3>1
      <3>8. ASSUME NEW k \in DOMAIN cursor
            PROVE  k \in DOMAIN df /\ (cursor'[k].arr = nil \/ BitmapsFit(WithArr(df[k], cursor'[k].arr)))
        <4>1. k \in DOMAIN df /\ (cursor[k].arr = nil \/ BitmapsFit(WithArr(df[k], cursor[k].arr)))
          BY DEF FitInv, CursorFits
        <4>2. CASE k = c
          <5>1. cursor'[k].arr = TakeSeries(s, rows).arr
            BY <3>1, <3>3, <4>2
          <5>2. QED
            BY <3>3, <3>6, <4>1, <4>2, <5>1
        <4>3. CASE k # c
          <5>1. cursor'[k] = cursor[k]
            BY <3>1, <4>3
          <5>2. QED
            BY <4>1, <5>1
        <4>4. QED
          BY <4>2, <4>3
      <3>9. QED
        BY <1>1, <3>7, <3>8 DEF CursorFits
    <2>3. QED
      BY <2>1, <2>2
  <1>6. QED
    BY <1>2, <1>3, <1>4, <1>5 DEF FitInv

LEMMA AssembledFits ==
  ASSUME NEW cols, IsFrame(cols), NEW cur, NEW req,
         \A c \in DOMAIN cols : BitmapsFit(WithArr(cols[c], cur[c].arr))
  PROVE  ColumnsFit(Assembled(cols, cur, req))
  <1>1. PICK g, r : g = Gathered(cols, cur) /\ r = Assembled(cols, cur, req)
    OBVIOUS
  <1>2. \A c \in DOMAIN g : BitmapsFit(g[c])
    BY <1>1 DEF Gathered, WithArr
  <1>3. r = nil \/ r.cols = g \/ r.cols = <<>>
    BY <1>1 DEF Assembled
  <1>4. QED
    BY <1>1, <1>2, <1>3 DEF ColumnsFit

(* All columns are done, and none is without an array.                     *)
LEMMA DoneColumnsFit ==
  ASSUME QueryInv, FilterInv, FitInv, Assemble
  PROVE  \A c \in DOMAIN df : BitmapsFit(WithArr(df[c], cursor[c].arr))
  <1>1. phase = "columns" /\ (\A c \in DOMAIN df : cursor[c].done) /\ IsFrame(df)
    BY DEF Assemble, QueryInv
  <1>2. Filtering(df, request, mask, cursor) \/ Taking(df, request, cursor)
    BY <1>1 DEF FilterInv
  <1>3. CASE Filtering(df, request, mask, cursor)
    <2>1. DOMAIN cursor = DOMAIN df
      BY <1>3 DEF Filtering
    <2>2. QED
      BY <1>1, <1>3, <2>1, CursorOfFilter
  <1>4. CASE Taking(df, request, cursor)
    <2>1. ASSUME NEW c \in DOMAIN df PROVE BitmapsFit(WithArr(df[c], cursor[c].arr))
      <3>1. PICK s, rows : s = df[c] /\ rows = request.indices
        OBVIOUS
      <3>2. IsSeries(s) /\ s.arr.length = Height(df)
        BY <1>1, <3>1, ColumnOfFrame
      <3>3. RowsOf(rows, Len(rows), s.arr)
        BY <1>4, <3>1, <3>2, RowsChosen DEF Taking
      <3>4. BitmapsFit(WithArr(s, TakeSeries(s, rows).arr))
        BY <3>2, <3>3, TakenFits
      <3>5. cursor[c].arr = TakeSeries(s, rows).arr
        BY <1>1, <1>4, <3>1 DEF Taking
      <3>6. QED
        BY <3>1, <3>4, <3>5
    <2>2. QED
      BY <2>1
  <1>5. QED
    BY <1>2, <1>3, <1>4

LEMMA FitAssemble ==
  ASSUME QueryInv, FilterInv, FitInv, Assemble
  PROVE  FitInv'
  <1>1. /\ phase' = "done" /\ df' = df /\ pred' = pred /\ mask' = mask /\ cursor' = cursor
        /\ request' = request
    BY DEF Assemble
  <1>2. result' = Assembled(df, cursor, request)
    BY Zenon DEF Assemble, Assembled, Gathered
  <1>3. PredFits' /\ MaskFits'
    BY <1>1 DEF FitInv, PredFits, MaskFits
  <1>4. CursorFits'
    BY <1>1, CursorKept DEF FitInv
  <1>5. ResultFits'
    <2>1. \A c \in DOMAIN df : BitmapsFit(WithArr(df[c], cursor[c].arr))
      BY DoneColumnsFit
    <2>2. ColumnsFit(Assembled(df, cursor, request))
      BY <2>1, AssembledFits DEF QueryInv
    <2>3. QED
      BY <1>2, <2>2 DEF ResultFits
  <1>6. LongFits'
    BY <1>1 DEF LongFits
  <1>7. QED
    BY <1>3, <1>4, <1>5, <1>6 DEF FitInv

(* An operation that only has a result                                     *)
LEMMA FitResult ==
  ASSUME FitInv, df' = df, pred' = pred, mask' = mask, cursor' = cursor, phase' # "slice",
         request'.op = "aggregate" \/ ColumnsFit(result'), LongFits'
  PROVE  FitInv'
  <1>1. PredFits' /\ MaskFits'
    BY DEF FitInv, PredFits, MaskFits
  <1>2. CursorFits'
    BY CursorKept DEF FitInv
  <1>3. ResultFits'
    BY DEF ResultFits
  <1>4. QED
    BY <1>1, <1>2, <1>3 DEF FitInv

LEMMA FitShaped ==
  ASSUME FitInv, NEW req, NEW res, Shaped(req, res), ColumnsFit(res), req.op # "unpivot"
  PROVE  FitInv'
  <1>1. /\ df' = df /\ pred' = pred /\ mask' = mask /\ cursor' = cursor /\ phase' = "done"
        /\ request' = req /\ result' = res
    BY DEF Shaped
  <1>2. LongFits'
    BY <1>1 DEF LongFits
  <1>3. QED
    BY <1>1, <1>2, FitResult

LEMMA FitUnpivot ==
  ASSUME QueryInv, FitInv, NEW melt \in Melts, UnpivotFrame(melt[1], melt[2])
  PROVE  FitInv'
  <1>1. PICK ids, vals : ids = melt[1] /\ vals = melt[2]
    OBVIOUS
  <1>2. ids \in Seq(Nat) /\ vals \in Seq(Nat)
    BY <1>1, MeltsAssumption
  <1>3. IsList(ids) /\ IsList(vals) /\ Height(df) \in Nat
    BY <1>2, SeqIsList, HeightIs DEF QueryInv
  <1>4. PICK res, req : res = Unpivot(df, ids, vals) /\ req = [op |-> "unpivot", ids |-> ids, vals |-> vals]
    OBVIOUS
  <1>5. Shaped(req, res)
    BY <1>1, <1>4 DEF UnpivotFrame
  <1>6. /\ df' = df /\ pred' = pred /\ mask' = mask /\ cursor' = cursor /\ phase' # "slice"
        /\ request' = req /\ result' = res
    BY <1>5 DEF Shaped
  <1>7. FrameFits(res) /\ (res = nil \/ Len(res.cols) = Len(ids) + 2)
    BY <1>3, <1>4, UnpivotFits
  <1>8. ColumnsFit(res)
    BY <1>7, FrameColumnsFit
  <1>9. request'.ids = ids
    BY <1>4, <1>6
  <1>10. LongFits'
    <2>1. phase' = "long" => res # nil
      BY <1>5 DEF Shaped
    <2>2. QED
      BY <1>3, <1>6, <1>7, <1>9, <2>1 DEF LongFits, FrameFits
  <1>11. QED
    BY <1>6, <1>8, <1>10, FitResult

LEMMA FitPivot ==
  ASSUME FitInv, PivotBack
  PROVE  FitInv'
  <1>1. /\ df' = df /\ pred' = pred /\ mask' = mask /\ cursor' = cursor /\ phase' = "done" /\ phase = "long"
        /\ result' = Pivot(result.cols, 1, Len(request.ids) + 1, Len(request.ids) + 2)
    BY DEF PivotBack
  <1>2. PICK n : n = Len(request.ids)
    OBVIOUS
  <1>3. n \in Nat /\ AllFit(result.cols) /\ Len(result.cols) = n + 2
    BY <1>1, <1>2 DEF FitInv, LongFits, IsList
  <1>4. PICK cols : cols = result.cols
    OBVIOUS
  <1>5. 1 \in 1 .. n + 2 /\ n + 1 \in 1 .. n + 2
    BY <1>3
  <1>6. cols[1].arr.length \in Nat /\ cols[n + 1].arr.length \in Nat
    BY <1>3, <1>4, <1>5 DEF AllFit, BitmapsFit
  <1>7. FrameFits(Pivot(cols, 1, n + 1, n + 2))
    BY <1>6, PivotFits
  <1>8. ColumnsFit(result')
    BY <1>1, <1>2, <1>4, <1>7, FrameColumnsFit
  <1>9. LongFits'
    BY <1>1 DEF LongFits
  <1>10. QED
    BY <1>1, <1>8, <1>9, FitResult

LEMMA ConcatColumnsFit ==
  ASSUME QueryInv, NEW a \in 0 .. Height(df), NEW b \in 0 .. Height(df), a <= b, NEW read
  PROVE  ColumnsFit(ConcatFrames(ThreeParts(df, a, b, read)))
  <1>1. IsFrame(df) /\ Height(df) \in Nat
    BY HeightIs DEF QueryInv
  <1>2. a \in Nat /\ b \in Nat /\ b <= Height(df)
    BY <1>1
  <1>3. PICK f : f = ConcatFrames(ThreeParts(df, a, b, read))
    OBVIOUS
  <1>4. SameFrame(f, df)
    BY <1>1, <1>2, <1>3, FrameConcat
  <1>5. \A c \in DOMAIN f.cols : IsSeries(f.cols[c])
    BY <1>4 DEF SameFrame, SameSeries
  <1>6. QED
    BY <1>3, <1>5, SeriesFits DEF ColumnsFit

LEMMA BesideFits ==
  ASSUME QueryInv, NEW last \in DOMAIN df, NEW first \in DOMAIN df
  PROVE  ColumnsFit(Beside(df, last, first))
  <1>1. PICK f : f = Beside(df, last, first)
    OBVIOUS
  <1>2. BesideIs(f, df, last, first)
    BY <1>1, FrameBeside DEF QueryInv
  <1>3. ASSUME f # nil, NEW c \in DOMAIN f.cols PROVE BitmapsFit(f.cols[c])
    <2>1. PICK d \in DOMAIN df : f.cols[c] = df[d]
      BY <1>2, <1>3 DEF BesideIs
    <2>2. IsSeries(df[d])
      BY ColumnOfFrame DEF QueryInv
    <2>3. QED
      BY <2>1, <2>2, SeriesFits
  <1>4. QED
    BY <1>1, <1>3 DEF ColumnsFit

LEMMA NextFit ==
  QueryInv /\ FilterInv /\ FitInv /\ [Next]_vars /\ QueryInv' /\ FilterInv' => FitInv'
  <1> SUFFICES ASSUME QueryInv, FilterInv, FitInv, [Next]_vars, QueryInv', FilterInv' PROVE FitInv'
    OBVIOUS
  <1>1. IsFrame(df) /\ IsList(df) /\ Height(df) \in Nat
    BY HeightIs, FrameIsFit DEF QueryInv, AllFit
  <1>2. ASSUME phase = "slice", phase' = "start", pred' = pred, mask' = mask, cursor' = cursor,
               result' = result, request' = request
        PROVE  FitInv'
    <2>1. cursor = <<>>
      BY <1>2 DEF FitInv, CursorFits
    <2>2. DOMAIN cursor' = {}
      BY <1>2, <2>1
    <2>3. CursorFits'
      BY <1>2, <2>2 DEF CursorFits
    <2>4. PredFits' /\ MaskFits' /\ ResultFits' /\ LongFits'
      BY <1>2 DEF FitInv, PredFits, MaskFits, ResultFits, LongFits
    <2>5. QED
      BY <2>3, <2>4 DEF FitInv
  <1>3. ASSUME NEW sl \in Slices, SliceFrame(sl[1], sl[2]) PROVE FitInv'
    BY <1>2, <1>3 DEF SliceFrame
  <1>4. CASE NoSlice
    BY <1>2, <1>4 DEF NoSlice
  <1>5. CASE (\E cond \in Conditions : StartCompare(cond)) \/ (\E wi \in todo : CompareWord(wi)) \/ Logical
    BY <1>5, FitCompare
  <1>6. CASE StartFilter \/ \E c \in DOMAIN df : FilterWord(c)
    BY <1>6, FitFilter
  <1>7. CASE (TakesRows /\ \E indices \in IndexLists : StartTake(indices)) \/ (\E c \in DOMAIN df : TakeColumn(c))
    BY <1>7, FitTake
  <1>8. CASE Assemble
    BY <1>8, FitAssemble
  <1>9. ASSUME NEW c \in DOMAIN df, NEW cuts \in SUBSET (1 .. Height(df) - 1), Aggregate(c, cuts)
        PROVE  FitInv'
    <2>1. /\ df' = df /\ pred' = pred /\ mask' = mask /\ cursor' = cursor /\ phase' = "done"
          /\ request' = [op |-> "aggregate", column |-> c]
      BY <1>9 DEF Aggregate
    <2>2. request'.op = "aggregate" /\ LongFits'
      BY <2>1 DEF LongFits
    <2>3. QED
      BY <2>1, <2>2, FitResult
  <1>10. ASSUME NEW a \in 0 .. Height(df), NEW b \in 0 .. Height(df), NEW read \in BOOLEAN,
                ConcatParts(a, b, read)
         PROVE  FitInv'
    <2>1. a <= b
      BY <1>10 DEF ConcatParts
    <2>2. PICK res : res = ConcatFrames(ThreeParts(df, a, b, read))
      OBVIOUS
    <2>3. Shaped([op |-> "concat"], res)
      BY <1>10, <2>2, Zenon DEF ConcatParts, ThreeParts, PartFrame, ReadSeries
    <2>4. ColumnsFit(res)
      BY <2>1, <2>2, ConcatColumnsFit
    <2>5. QED
      BY <2>3, <2>4, FitShaped
  <1>11. ASSUME NEW last \in DOMAIN df, NEW first \in DOMAIN df, ConcatColumns(last, first) PROVE FitInv'
    <2>1. Shaped([op |-> "beside", last |-> last, first |-> first], Beside(df, last, first))
      BY <1>11 DEF ConcatColumns, Beside
    <2>2. ColumnsFit(Beside(df, last, first))
      BY BesideFits
    <2>3. QED
      BY <2>1, <2>2, FitShaped
  <1>12. ASSUME NEW c \in DOMAIN df, NEW fn, NEW window, RollColumn(c, fn, window) PROVE FitInv'
    <2>1. PICK res : res = Rolled(df[c], fn, window)
      OBVIOUS
    <2>2. Shaped([op |-> "rolling", column |-> c, fn |-> fn, window |-> window], res)
      BY <1>12, <2>1 DEF RollColumn, Rolled
    <2>3. df[c].arr.length \in Nat
      BY <1>1, ColumnOfFrame
    <2>4. ColumnsFit(res)
      BY <2>1, <2>3, RolledFits, FrameColumnsFit
    <2>5. QED
      BY <2>2, <2>4, FitShaped
  <1>13. ASSUME NEW melt \in Melts, UnpivotFrame(melt[1], melt[2]) PROVE FitInv'
    BY <1>13, FitUnpivot
  <1>14. CASE PivotBack
    BY <1>14, FitPivot
  <1>15. CASE TransposeFrame
    <2>1. Shaped([op |-> "transpose"], Transpose(df))
      BY <1>15 DEF TransposeFrame
    <2>2. ColumnsFit(Transpose(df))
      BY <1>1, TransposeFits, FrameColumnsFit
    <2>3. QED
      BY <2>1, <2>2, FitShaped
  <1>16. ASSUME NEW c \in DOMAIN df, ExplodeColumn(c) PROVE FitInv'
    <2>1. Shaped([op |-> "explode", column |-> c], Explode(df, c))
      BY <1>16 DEF ExplodeColumn
    <2>2. ColumnsFit(Explode(df, c))
      BY <1>1, ExplodeFits, FrameColumnsFit
    <2>3. QED
      BY <2>1, <2>2, FitShaped
  <1>17. CASE Finished \/ UNCHANGED vars
    <2>1. UNCHANGED vars
      BY <1>17 DEF Finished
    <2>2. /\ df' = df /\ pred' = pred /\ mask' = mask /\ cursor' = cursor /\ phase' = phase
          /\ request' = request /\ result' = result
      BY <2>1 DEF vars
    <2>3. QED
      BY <2>2 DEF FitInv, PredFits, MaskFits, CursorFits, ResultFits, LongFits
  <1>18. QED
    BY <1>3, <1>4, <1>5, <1>6, <1>7, <1>8, <1>9, <1>10, <1>11, <1>12, <1>13, <1>14, <1>15, <1>16, <1>17
       DEF Next

LEMMA FitClears == QueryInv /\ FitInv => SlackBitsClear
  <1> SUFFICES ASSUME QueryInv, FitInv PROVE SlackBitsClear
    OBVIOUS
  <1>1. ASSUME NEW c \in DOMAIN df, NEW b \in BitmapsOf(df[c]), b # nil PROVE SlackClear(b)
    <2>1. IsSeries(df[c])
      BY ColumnOfFrame DEF QueryInv
    <2>2. QED
      BY <1>1, <2>1, SeriesFits, FitIsClear
  <1>2. ASSUME pred # nil, NEW b \in BitmapsOf(Series("", "Boolean", pred)), b # nil PROVE SlackClear(b)
    <2>1. PICK n \in Nat : IsPredicate(pred, n)
      BY <1>2 DEF FitInv, PredFits
    <2>2. pred.length = n
      <3>1. PICK x, y : pred = [data |-> x, validity |-> y, length |-> n]
        BY <2>1 DEF IsPredicate
      <3>2. QED
        BY <3>1
    <2>3. BitmapsFit(Series("", "Boolean", pred))
      BY <2>1, <2>2 DEF Series, BitmapsFit, IsPredicate
    <2>4. QED
      BY <1>2, <2>3, FitIsClear
  <1>3. mask # nil => SlackClear(mask)
    BY DEF FitInv, MaskFits, IsBitmap
  <1>4. ASSUME request.op # "aggregate", result # nil, NEW c \in DOMAIN result.cols,
               NEW b \in BitmapsOf(result.cols[c]), b # nil
        PROVE  SlackClear(b)
    <2>1. BitmapsFit(result.cols[c])
      BY <1>4 DEF FitInv, ResultFits, ColumnsFit
    <2>2. QED
      BY <1>4, <2>1, FitIsClear
  <1>5. ASSUME NEW c \in DOMAIN cursor, cursor[c].arr # nil,
               NEW b \in BitmapsOf([df[c] EXCEPT !.arr = cursor[c].arr]), b # nil
        PROVE  SlackClear(b)
    <2>1. BitmapsFit(WithArr(df[c], cursor[c].arr))
      BY <1>5 DEF FitInv, CursorFits
    <2>2. QED
      BY <1>5, <2>1, FitIsClear DEF WithArr
  <1> DEFINE A == UNION {BitmapsOf(df[c]) : c \in DOMAIN df}
             B == IF pred = nil THEN {} ELSE BitmapsOf(Series("", "Boolean", pred))
             C == {mask}
             D == IF result = nil \/ request.op = "aggregate" THEN {}
                  ELSE UNION {BitmapsOf(result.cols[c]) : c \in DOMAIN result.cols}
             E == UNION {BitmapsOf([df[c] EXCEPT !.arr = cursor[c].arr]) :
                           c \in {d \in DOMAIN cursor : cursor[d].arr # nil}}
  <1>7. ASSUME NEW b \in A \cup B \cup C \cup D \cup E, b # nil PROVE SlackClear(b)
    <2>1. CASE b \in A
      BY <1>1, <1>7, <2>1
    <2>2. CASE b \in B
      BY <1>2, <1>7, <2>2
    <2>3. CASE b \in C
      BY <1>3, <1>7, <2>3
    <2>4. CASE b \in D
      BY <1>4, <1>7, <2>4
    <2>5. CASE b \in E
      BY <1>5, <1>7, <2>5
    <2> HIDE DEF A, B, C, D, E
    <2>6. QED
      BY <1>7, <2>1, <2>2, <2>3, <2>4, <2>5
  <1>8. \A b \in A \cup B \cup C \cup D \cup E : b # nil => SlackClear(b)
    <2> HIDE DEF A, B, C, D, E
    <2>1. QED
      BY <1>7
  <1>9. QED
    BY <1>8 DEF SlackBitsClear

\* Every bitmap of a query, in its columns, in the condition, in the mask, in a column
\* half filtered and in every result, has all bits past its length clear, so that
\* PopCount and the copying of whole words count and copy rows only.
THEOREM BitsPastLengthClear == Spec => []SlackBitsClear
  <1>1. Init => QueryInv /\ FilterInv /\ FitInv
    BY InitQuery, InitFilter, InitFit
  <1>2. QueryInv /\ FilterInv /\ FitInv /\ [Next]_vars => (QueryInv /\ FilterInv /\ FitInv)'
    BY NextQuery, NextFilter, NextFit
  <1>3. QueryInv /\ FilterInv /\ FitInv => SlackBitsClear
    BY FitClears
  <1>4. QED
    BY <1>1, <1>2, <1>3, PTL DEF Spec

-----------------------------------------------------------------------------
(* What Transpose, Unpivot, Pivot and Explode returned                     *)

(* Columns whose names are texts                                           *)
ShapeCols(cols) == \A c \in DOMAIN cols : cols[c].name \in Seq(STRING)

Melting(cols, ids, vals) ==
  /\ ids \in Seq(Nat) \ {<<>>} /\ vals \in Seq(Nat) \ {<<>>}
  /\ ToSet(ids) \cup ToSet(vals) \subseteq DOMAIN cols

Reshaping == {"transpose", "unpivot", "pivot", "explode"}

ReshapeInv ==
  /\ phase \in {"slice", "start"} /\ request.on = "shape" => ShapeCols(df)
  /\ request.op \in Reshaping => ShapeCols(df) /\ phase \in {"long", "done"}
  /\ request.op = "transpose" => result = Transpose(df)
  /\ request.op = "explode" => request.column \in DOMAIN df /\ result = Explode(df, request.column)
  /\ request.op = "unpivot" => /\ Melting(df, request.ids, request.vals)
                               /\ result = Unpivot(df, request.ids, request.vals)
  /\ request.op = "pivot" =>
       /\ Melting(df, request.ids, request.vals)
       /\ result = Pivot(Unpivot(df, request.ids, request.vals).cols, 1,
                         Len(request.ids) + 1, Len(request.ids) + 2)
       /\ Unpivot(df, request.ids, request.vals) # nil

LEMMA InitReshape == Init => ReshapeInv
  <1> SUFFICES ASSUME Init PROVE ReshapeInv
    OBVIOUS
  <1>1. phase = "slice" /\ df \in Frames
    BY DEF Init
  <1>2. request = [op |-> "none", on |-> CASE df \in FilterFrames -> "filter"
                                            [] df \in TakeFrames -> "take"
                                            [] df \in ShapeFrames -> "shape"]
    BY DEF Init
  <1>3. request.on = "shape" => df \in ShapeFrames
    BY <1>1, <1>2 DEF Frames
  <1>4. request.op = "none"
    BY <1>2
  <1>5. request.on = "shape" => ShapeCols(df)
    BY <1>3, NamesAssumption DEF ShapeCols
  <1>6. QED
    BY <1>1, <1>4, <1>5 DEF ReshapeInv, Reshaping

LEMMA SliceKeepsShape ==
  ASSUME NEW cols, IsFrame(cols), NEW b, NEW e, ShapeCols(cols)
  PROVE  ShapeCols([c \in DOMAIN cols |-> SliceSeries(cols[c], b, e)])
  <1>1. ASSUME NEW c \in DOMAIN cols
        PROVE  SliceSeries(cols[c], b, e).dtype = cols[c].dtype /\ SliceSeries(cols[c], b, e).name = cols[c].name
    <2>1. IsSeries(cols[c])
      BY ColumnOfFrame
    <2>2. SliceSeries(cols[c], b, e) = WithArr(cols[c], SliceArray(cols[c].dtype, cols[c].arr, b, e))
      BY Zenon DEF SliceSeries, WithArr
    <2>3. QED
      BY <2>1, <2>2, ArrOf
  <1>2. PICK d : d = [c \in DOMAIN cols |-> SliceSeries(cols[c], b, e)]
    OBVIOUS
  <1>3. DOMAIN d = DOMAIN cols /\ \A c \in DOMAIN cols : d[c].dtype = cols[c].dtype /\ d[c].name = cols[c].name
    BY <1>1, <1>2
  <1>4. ShapeCols(d)
    BY <1>3 DEF ShapeCols
  <1>5. QED
    BY <1>2, <1>4

(* Operations of other frames, and between the steps of one                *)
LEMMA NotReshaped ==
  ASSUME request'.op \notin Reshaping, phase' \notin {"slice", "start"}
  PROVE  ReshapeInv'
  BY DEF ReshapeInv, Reshaping

LEMMA ReshapeStep ==
  ASSUME QueryInv, ReshapeInv, NEW req, NEW res, Shaped(req, res), req.op \in Reshaping,
         req.op = "transpose" => res = Transpose(df),
         req.op = "explode" => req.column \in DOMAIN df /\ res = Explode(df, req.column),
         req.op = "unpivot" => Melting(df, req.ids, req.vals) /\ res = Unpivot(df, req.ids, req.vals),
         req.op # "pivot"
  PROVE  ReshapeInv'
  <1>1. /\ phase = "start" /\ request.on = "shape" /\ request' = req /\ result' = res /\ df' = df
        /\ phase' \in {"long", "done"}
    BY DEF Shaped
  <1>2. ShapeCols(df)
    BY <1>1 DEF ReshapeInv
  <1>3. QED
    BY <1>1, <1>2 DEF ReshapeInv

LEMMA PivotStep ==
  ASSUME QueryInv, FitInv, ReshapeInv, PivotBack
  PROVE  ReshapeInv'
  <1>1. /\ phase = "long" /\ phase' = "done" /\ df' = df /\ request' = [request EXCEPT !.op = "pivot"]
        /\ result' = Pivot(result.cols, 1, Len(request.ids) + 1, Len(request.ids) + 2)
    BY DEF PivotBack
  <1>2. request = [op |-> "unpivot", ids |-> request.ids, vals |-> request.vals]
    BY <1>1 DEF QueryInv, MeltPending
  <1>3. request.op = "unpivot"
    BY <1>2
  <1>4. request'.op = "pivot" /\ request'.ids = request.ids /\ request'.vals = request.vals
    BY <1>1, <1>2
  <1>5. /\ ShapeCols(df) /\ Melting(df, request.ids, request.vals)
        /\ result = Unpivot(df, request.ids, request.vals)
    BY <1>3 DEF ReshapeInv, Reshaping
  <1>6. result # nil
    BY <1>1 DEF FitInv, LongFits
  <1>7. QED
    BY <1>1, <1>4, <1>5, <1>6 DEF ReshapeInv

LEMMA NextReshape == QueryInv /\ FitInv /\ ReshapeInv /\ [Next]_vars => ReshapeInv'
  <1> SUFFICES ASSUME QueryInv, FitInv, ReshapeInv, [Next]_vars PROVE ReshapeInv'
    OBVIOUS
  <1>1. ASSUME phase = "slice", phase' = "start", request' = request,
               df' = df \/ \E b, e : df' = [c \in DOMAIN df |-> SliceSeries(df[c], b, e)]
        PROVE  ReshapeInv'
    <2>1. request.op \notin Reshaping
      BY <1>1 DEF ReshapeInv
    <2>2. request.on = "shape" => ShapeCols(df')
      BY <1>1, SliceKeepsShape DEF ReshapeInv, QueryInv
    <2>3. QED
      BY <1>1, <2>1, <2>2 DEF ReshapeInv, Reshaping
  <1>2. ASSUME phase \notin {"long", "done"}, phase' \notin {"slice", "start"}, request' = request
        PROVE  ReshapeInv'
    <2>1. request'.op \notin Reshaping
      BY <1>2 DEF ReshapeInv
    <2>2. QED
      BY <1>2, <2>1, NotReshaped
  <1>3. ASSUME NEW sl \in Slices, SliceFrame(sl[1], sl[2]) PROVE ReshapeInv'
    <2>1. phase = "slice" /\ phase' = "start" /\ request' = request
      BY <1>3 DEF SliceFrame
    <2>2. \E b, e : df' = [c \in DOMAIN df |-> SliceSeries(df[c], b, e)]
      BY <1>3, Zenon DEF SliceFrame
    <2>3. QED
      BY <1>1, <2>1, <2>2
  <1>4. CASE NoSlice
    BY <1>1, <1>4 DEF NoSlice
  <1>5. ASSUME NEW cond \in Conditions, StartCompare(cond) PROVE ReshapeInv'
    <2>1. request' = [op |-> "filter", cond |-> cond] /\ phase' = "compare"
      BY <1>5 DEF StartCompare
    <2>2. QED
      BY <2>1, NotReshaped DEF Reshaping
  <1>6. ASSUME NEW wi \in todo, CompareWord(wi) PROVE ReshapeInv'
    BY <1>2, <1>6 DEF CompareWord
  <1>7. CASE Logical
    BY <1>2, <1>7 DEF Logical
  <1>8. CASE StartFilter
    BY <1>2, <1>8 DEF StartFilter
  <1>9. ASSUME NEW c \in DOMAIN df, FilterWord(c) PROVE ReshapeInv'
    BY <1>2, <1>9 DEF FilterWord
  <1>10. ASSUME NEW indices, StartTake(indices) PROVE ReshapeInv'
    <2>1. request' = [op |-> "take", indices |-> indices] /\ phase' = "columns"
      BY <1>10 DEF StartTake
    <2>2. QED
      BY <2>1, NotReshaped DEF Reshaping
  <1>11. ASSUME NEW c \in DOMAIN df, TakeColumn(c) PROVE ReshapeInv'
    BY <1>2, <1>11 DEF TakeColumn
  <1>12. CASE Assemble
    BY <1>2, <1>12 DEF Assemble
  <1>13. ASSUME NEW c \in DOMAIN df, NEW cuts \in SUBSET (1 .. Height(df) - 1), Aggregate(c, cuts)
         PROVE  ReshapeInv'
    <2>1. request' = [op |-> "aggregate", column |-> c] /\ phase' = "done"
      BY <1>13 DEF Aggregate
    <2>2. QED
      BY <2>1, NotReshaped DEF Reshaping
  <1>14. ASSUME NEW req, NEW res, Shaped(req, res), req.op \notin Reshaping PROVE ReshapeInv'
    <2>1. request' = req /\ phase' \in {"long", "done"}
      BY <1>14 DEF Shaped
    <2>2. QED
      BY <1>14, <2>1, NotReshaped
  <1>15. ASSUME NEW a, NEW b, NEW read, ConcatParts(a, b, read) PROVE ReshapeInv'
    <2>1. request' = [op |-> "concat"] /\ phase' = "done"
      BY <1>15, PartsAre
    <2>2. QED
      BY <2>1, NotReshaped DEF Reshaping
  <1>16. ASSUME NEW last \in DOMAIN df, NEW first \in DOMAIN df, ConcatColumns(last, first) PROVE ReshapeInv'
    <2>1. PICK req, res : Shaped(req, res) /\ req = [op |-> "beside", last |-> last, first |-> first]
      BY <1>16 DEF ConcatColumns
    <2>2. QED
      BY <1>14, <2>1 DEF Reshaping
  <1>17. ASSUME NEW c \in DOMAIN df, NEW fn, NEW window, RollColumn(c, fn, window) PROVE ReshapeInv'
    <2>1. PICK req, res : Shaped(req, res) /\ req = [op |-> "rolling", column |-> c, fn |-> fn, window |-> window]
      BY <1>17 DEF RollColumn
    <2>2. QED
      BY <1>14, <2>1 DEF Reshaping
  <1>18. ASSUME NEW melt \in Melts, UnpivotFrame(melt[1], melt[2]) PROVE ReshapeInv'
    <2>1. PICK ids, vals : ids = melt[1] /\ vals = melt[2]
      OBVIOUS
    <2>2. Melting(df, ids, vals)
      BY <1>18, <2>1, MeltsAssumption DEF UnpivotFrame, Melting
    <2>3. PICK req, res : /\ Shaped(req, res) /\ req = [op |-> "unpivot", ids |-> ids, vals |-> vals]
                          /\ res = Unpivot(df, ids, vals)
      BY <1>18, <2>1 DEF UnpivotFrame
    <2>4. req.op = "unpivot" /\ req.ids = ids /\ req.vals = vals
      BY <2>3
    <2>5. QED
      BY <2>2, <2>3, <2>4, ReshapeStep DEF Reshaping
  <1>19. CASE PivotBack
    BY <1>19, PivotStep
  <1>20. CASE TransposeFrame
    <2>1. PICK req, res : Shaped(req, res) /\ req = [op |-> "transpose"] /\ res = Transpose(df)
      BY <1>20 DEF TransposeFrame
    <2>2. req.op = "transpose"
      BY <2>1
    <2>3. QED
      BY <2>1, <2>2, ReshapeStep DEF Reshaping
  <1>21. ASSUME NEW c \in DOMAIN df, ExplodeColumn(c) PROVE ReshapeInv'
    <2>1. PICK req, res : Shaped(req, res) /\ req = [op |-> "explode", column |-> c] /\ res = Explode(df, c)
      BY <1>21 DEF ExplodeColumn
    <2>2. req.op = "explode" /\ req.column = c
      BY <2>1
    <2>3. QED
      BY <2>1, <2>2, ReshapeStep DEF Reshaping
  <1>22. CASE Finished \/ UNCHANGED vars
    BY <1>22 DEF Finished, vars, ReshapeInv
  <1>23. QED
    BY <1>3, <1>4, <1>5, <1>6, <1>7, <1>8, <1>9, <1>10, <1>11, <1>12, <1>13, <1>15, <1>16, <1>17,
       <1>18, <1>19, <1>20, <1>21, <1>22 DEF Next

LEMMA QueryTransposes == QueryInv /\ ReshapeInv => TransposeTurnsRows
  <1> SUFFICES ASSUME QueryInv, ReshapeInv PROVE TransposeTurnsRows
    OBVIOUS
  <1>1. ASSUME request.op = "transpose", result # nil, AllBuildable
        PROVE  /\ Len(result.cols) = Height(df) + 1
               /\ \A i \in Rows : \A c \in DOMAIN df : Cell(result.cols[i + 2], c - 1) = Cell(df[c], i)
    <2>1. result = Transpose(df) /\ \A c \in DOMAIN df : df[c].dtype \in Buildable
      BY <1>1 DEF ReshapeInv, AllBuildable
    <2>2. QED
      BY <1>1, <2>1, TransposeTurns DEF QueryInv, Rows
  <1>2. QED
    BY <1>1 DEF TransposeTurnsRows

\* Transpose loses no cell of columns of integers, floats, booleans and texts, integers
\* and floats together included: the cells of each row are one column, in order.
THEOREM TransposeKeepsCells == Spec => []TransposeTurnsRows
  <1>1. Init => QueryInv /\ FilterInv /\ FitInv /\ ReshapeInv
    BY InitQuery, InitFilter, InitFit, InitReshape
  <1>2. QueryInv /\ FilterInv /\ FitInv /\ ReshapeInv /\ [Next]_vars
        => (QueryInv /\ FilterInv /\ FitInv /\ ReshapeInv)'
    BY NextQuery, NextFilter, NextFit, NextReshape
  <1>3. QueryInv /\ ReshapeInv => TransposeTurnsRows
    BY QueryTransposes
  <1>4. QED
    BY <1>1, <1>2, <1>3, PTL DEF Spec

-----------------------------------------------------------------------------
(* Pivot undoes Unpivot                                                    *)

(* What New says of the grid: it is a frame unless a name is there twice.  *)
LEMMA RestoredFrame ==
  ASSUME NEW cols, NEW id, NEW vals, NEW h, NEW m, Meltable(cols, id, vals, h, m), IsInjective(vals),
         NEW z, Restored(z, cols, id, vals, h, m), NEW f, f = New(z)
  PROVE  IF id \in ToSet(vals) THEN f = nil
         ELSE f.cols = z /\ f.height = Cardinality(FirstRows(cols[id], h))
  <1>1. PICK n : n = Cardinality(FirstRows(cols[id], h))
    OBVIOUS
  <1>2. /\ m \in Nat \ {0} /\ DOMAIN vals = 1 .. m /\ IsFrame(cols) /\ id \in DOMAIN cols
        /\ \A v \in 1 .. m : vals[v] \in DOMAIN cols
    BY DEF Meltable, IsList
  <1>3. /\ DOMAIN z = 1 .. m + 1 /\ (\A c \in 1 .. m + 1 : z[c].arr.length = n) /\ z[1].name = cols[id].name
        /\ \A v \in 1 .. m : z[v + 1].name = cols[vals[v]].name
    BY <1>1 DEF Restored
  <1>4. CASE id \in ToSet(vals)
    <2>1. PICK v \in 1 .. m : id = vals[v]
      BY <1>2, <1>4 DEF ToSet
    <2>2. 1 \in DOMAIN z /\ v + 1 \in DOMAIN z /\ 1 # v + 1
      BY <1>2, <1>3
    <2>3. z[1].name = z[v + 1].name
      BY <1>3, <2>1
    <2>4. QED
      BY <1>4, <2>2, <2>3 DEF New
  <1>5. CASE id \notin ToSet(vals)
    <2>1. ASSUME NEW v \in 1 .. m PROVE cols[vals[v]].name # cols[id].name
      <3>1. vals[v] # id /\ vals[v] \in DOMAIN cols
        BY <1>2, <1>5 DEF ToSet
      <3>2. QED
        BY <1>2, <3>1 DEF IsFrame
    <2>2. ASSUME NEW v \in 1 .. m, NEW w \in 1 .. m, cols[vals[v]].name = cols[vals[w]].name PROVE v = w
      <3>1. vals[v] = vals[w]
        BY <1>2, <2>2 DEF IsFrame
      <3>2. QED
        BY <1>2, <3>1 DEF IsInjective
    <2>3. ASSUME NEW c \in 1 .. m + 1, NEW d \in 1 .. m + 1, z[c].name = z[d].name PROVE c = d
      <3>1. ASSUME NEW e \in 1 .. m + 1, e # 1
            PROVE  e - 1 \in 1 .. m /\ z[e].name = cols[vals[e - 1]].name
        <4>1. e - 1 \in 1 .. m /\ (e - 1) + 1 = e
          BY <1>2, <3>1
        <4>2. z[(e - 1) + 1].name = cols[vals[e - 1]].name
          BY <1>3, <4>1
        <4>3. QED
          BY <4>1, <4>2
      <3>2. CASE c = 1 /\ d = 1
        BY <3>2
      <3>3. CASE c = 1 /\ d # 1
        <4>1. d - 1 \in 1 .. m /\ z[d].name = cols[vals[d - 1]].name
          BY <3>1, <3>3
        <4>2. QED
          BY <1>3, <2>1, <2>3, <3>3, <4>1
      <3>4. CASE c # 1 /\ d = 1
        <4>1. c - 1 \in 1 .. m /\ z[c].name = cols[vals[c - 1]].name
          BY <3>1, <3>4
        <4>2. QED
          BY <1>3, <2>1, <2>3, <3>4, <4>1
      <3>5. CASE c # 1 /\ d # 1
        <4>1. /\ c - 1 \in 1 .. m /\ z[c].name = cols[vals[c - 1]].name
              /\ d - 1 \in 1 .. m /\ z[d].name = cols[vals[d - 1]].name
          BY <3>1, <3>5
        <4>2. c - 1 = d - 1
          BY <2>2, <2>3, <4>1
        <4>3. QED
          BY <1>2, <4>2
      <3>6. QED
        BY <3>2, <3>3, <3>4, <3>5
    <2>4. f = [cols |-> z, height |-> Height(z)]
      BY <1>3, <2>3 DEF New
    <2>5. Height(z) = n
      BY <1>2, <1>3 DEF Height
    <2>6. QED
      BY <1>1, <1>5, <2>4, <2>5
  <1>6. QED
    BY <1>4, <1>5

(* Pivot of what Unpivot returned                                          *)
LEMMA PivotRestores ==
  ASSUME NEW cols, NEW ids, IsList(ids), NEW p \in Nat \ {0}, Len(ids) = p, NEW vals, NEW h, NEW m,
         Meltable(cols, ids[1], vals, h, m), IsInjective(vals), Unpivot(cols, ids, vals) # nil,
         NEW f, f = Pivot(Unpivot(cols, ids, vals).cols, 1, p + 1, p + 2)
  PROVE  IF ids[1] \in ToSet(vals) THEN f = nil
         ELSE /\ f.height = Cardinality(FirstRows(cols[ids[1]], h))
              /\ Restored(f.cols, cols, ids[1], vals, h, m)
  <1>1. PICK long, id, z : /\ long = Unpivot(cols, ids, vals).cols /\ id = ids[1]
                           /\ z = Grid(long, 1, p + 1, p + 2)
    OBVIOUS
  <1>2. Molten(long[1], long[p + 1], long[p + 2], cols, id, vals, h, m)
    BY <1>1, UnpivotMelts
  <1>3. NamesApart(cols, vals, m)
    <2>1. /\ m \in Nat \ {0} /\ DOMAIN vals = 1 .. m /\ IsFrame(cols)
          /\ \A v \in 1 .. m : vals[v] \in DOMAIN cols
      BY DEF Meltable, IsList
    <2>2. ASSUME NEW a \in 0 .. m - 1, NEW b \in 0 .. m - 1, cols[vals[a + 1]].name = cols[vals[b + 1]].name
          PROVE  a = b
      <3>1. a + 1 \in 1 .. m /\ b + 1 \in 1 .. m
        BY <2>1
      <3>2. vals[a + 1] = vals[b + 1]
        BY <2>1, <2>2, <3>1 DEF IsFrame
      <3>3. a + 1 = b + 1
        BY <2>1, <3>1, <3>2 DEF IsInjective
      <3>4. QED
        BY <2>1, <3>3
    <2>3. QED
      BY <2>2 DEF NamesApart
  <1>4. Meltable(cols, id, vals, h, m)
    BY <1>1
  <1>5. Restored(z, cols, id, vals, h, m)
    BY <1>1, <1>2, <1>3, <1>4, GridRestores DEF Grided
  <1>6. f = New(z)
    BY <1>1, PivotUnfolds
  <1>7. IF id \in ToSet(vals) THEN f = nil
        ELSE f.cols = z /\ f.height = Cardinality(FirstRows(cols[id], h))
    BY <1>4, <1>5, <1>6, RestoredFrame
  <1>8. QED
    BY <1>1, <1>5, <1>7

-----------------------------------------------------------------------------
(* What the melted frames of a query are                                   *)

LEMMA NamesAreLists ==
  ASSUME NEW name \in Seq(STRING)
  PROVE  IsList(name) /\ name # Null
  BY SeqIsList, CellAssumption

LEMMA QueryMelts ==
  ASSUME QueryInv, ReshapeInv, request.op = "pivot", NEW ids, ids = request.ids,
         NEW vals, vals = request.vals, OneType(<<ids[1]>>), OneType(vals), Height(df) # 0
  PROVE  /\ Meltable(df, ids[1], vals, Height(df), Len(vals))
         /\ IsList(ids) /\ Len(ids) \in Nat \ {0}
         /\ Unpivot(df, ids, vals) # nil
         /\ result = Pivot(Unpivot(df, ids, vals).cols, 1, Len(ids) + 1, Len(ids) + 2)
  <1>1. /\ Melting(df, ids, vals) /\ ShapeCols(df) /\ Unpivot(df, ids, vals) # nil
        /\ result = Pivot(Unpivot(df, ids, vals).cols, 1, Len(ids) + 1, Len(ids) + 2)
    BY DEF ReshapeInv, Reshaping
  <1>2. /\ ids \in Seq(Nat) /\ ids # <<>> /\ vals \in Seq(Nat) /\ vals # <<>>
        /\ ToSet(ids) \cup ToSet(vals) \subseteq DOMAIN df
    BY <1>1 DEF Melting
  <1>3. /\ IsList(ids) /\ Len(ids) \in Nat \ {0} /\ IsList(vals) /\ Len(vals) \in Nat \ {0}
        /\ DOMAIN ids = 1 .. Len(ids) /\ DOMAIN vals = 1 .. Len(vals)
    <2>1. Len(ids) \in Nat \ {0} /\ Len(vals) \in Nat \ {0}
      BY <1>2
    <2>2. IsList(ids) /\ IsList(vals)
      BY <1>2, SeqIsList
    <2>3. QED
      BY <2>1, <2>2 DEF IsList
  <1>4. PICK h, m : h = Height(df) /\ m = Len(vals)
    OBVIOUS
  <1>5. IsFrame(df)
    BY DEF QueryInv
  <1>6. h \in Nat \ {0}
    <2>1. 1 \in DOMAIN df
      BY <1>5 DEF IsFrame
    <2>2. IsSeries(df[1])
      BY <1>5, <2>1 DEF IsFrame
    <2>3. df[1].arr.length \in Nat
      BY <2>2 DEF IsSeries, IsArray
    <2>4. QED
      BY <1>4, <2>3 DEF Height
  <1>7. ids[1] \in DOMAIN df /\ df[ids[1]].dtype \in Buildable
    <2>1. 1 \in DOMAIN ids
      BY <1>3
    <2>2. ids[1] \in DOMAIN df
      BY <1>2, <2>1 DEF ToSet
    <2>3. 1 \in DOMAIN <<ids[1]>> /\ <<ids[1]>>[1] = ids[1]
      OBVIOUS
    <2>4. QED
      BY <2>2, <2>3 DEF OneType
  <1>8. ASSUME NEW v \in 1 .. m
        PROVE  /\ vals[v] \in DOMAIN df /\ df[vals[v]].dtype \in Buildable
               /\ IsList(df[vals[v]].name) /\ df[vals[v]].name # Null
    <2>1. v \in DOMAIN vals
      BY <1>3, <1>4
    <2>2. vals[v] \in DOMAIN df /\ df[vals[v]].dtype \in Buildable
      BY <1>2, <2>1 DEF ToSet, OneType
    <2>3. df[vals[v]].name \in Seq(STRING)
      BY <1>1, <2>2 DEF ShapeCols
    <2>4. QED
      BY <2>2, <2>3, NamesAreLists
  <1>9. OfOneKind([v \in DOMAIN vals |-> df[vals[v]]])
    BY DEF OneType, OfOneKind
  <1>10. Meltable(df, ids[1], vals, h, m)
    BY <1>3, <1>4, <1>5, <1>6, <1>7, <1>8, <1>9 DEF Meltable
  <1>11. QED
    BY <1>1, <1>3, <1>4, <1>10

LEMMA QueryPivots == QueryInv /\ ReshapeInv => PivotUndoesUnpivot
  <1> SUFFICES ASSUME QueryInv, ReshapeInv, request.op = "pivot", OneType(<<request.ids[1]>>),
                      OneType(request.vals), IsInjective(request.vals)
               PROVE  LET id == request.ids[1]
                          firsts == RowList({i \in Rows : \A j \in 0 .. i - 1 : TextOf(df[id], j) # TextOf(df[id], i)})
                      IN IF id \in ToSet(request.vals) /\ Rows # {} THEN result = nil
                         ELSE \A r \in DOMAIN firsts :
                                /\ result.height = Len(firsts)
                                /\ Cell(result.cols[1], r - 1) = TextOf(df[id], firsts[r])
                                /\ \A k \in DOMAIN request.vals :
                                     /\ result.cols[k + 1].name = df[request.vals[k]].name
                                     /\ Cell(result.cols[k + 1], r - 1) = Cell(df[request.vals[k]], firsts[r])
    BY DEF PivotUndoesUnpivot
  <1>1. PICK ids, vals, id, h, m, F, firsts :
          /\ ids = request.ids /\ vals = request.vals /\ id = ids[1] /\ h = Height(df) /\ m = Len(vals)
          /\ F = {i \in Rows : \A j \in 0 .. i - 1 : TextOf(df[id], j) # TextOf(df[id], i)}
          /\ firsts = RowList(F)
    OBVIOUS
  <1>2. h \in Nat
    <2>1. IsFrame(df)
      BY DEF QueryInv
    <2>2. 1 \in DOMAIN df
      BY <2>1 DEF IsFrame
    <2>3. IsSeries(df[1])
      BY <2>1, <2>2 DEF IsFrame
    <2>4. df[1].arr.length \in Nat
      BY <2>3 DEF IsSeries, IsArray
    <2>5. QED
      BY <1>1, <2>4 DEF Height
  <1>3. F = FirstRows(df[id], h)
    BY <1>1 DEF FirstRows, Rows
  <1>4. Len(firsts) = Cardinality(F) /\ DOMAIN firsts = 1 .. Cardinality(F)
    <2>1. IsFiniteSet(F) /\ \A x \in F : x \in Int
      BY <1>2, <1>3, FirstRowsFinite
    <2>2. QED
      BY <1>1, <2>1, RowListAscends
  <1>5. CASE h = 0
    <2>1. Rows = {}
      BY <1>1, <1>5 DEF Rows
    <2>2. F = {}
      BY <1>1, <2>1
    <2>3. Cardinality(F) = 0
      BY <2>2, FS_EmptySet
    <2>4. DOMAIN firsts = {}
      BY <1>4, <2>3
    <2>5. QED
      BY <1>1, <2>1, <2>4
  <1>6. CASE h # 0
    <2>1. /\ Meltable(df, id, vals, h, m) /\ IsList(ids) /\ Len(ids) \in Nat \ {0}
          /\ Unpivot(df, ids, vals) # nil
          /\ result = Pivot(Unpivot(df, ids, vals).cols, 1, Len(ids) + 1, Len(ids) + 2)
      BY <1>1, <1>6, QueryMelts
    <2>2. IF id \in ToSet(vals) THEN result = nil
          ELSE result.height = Cardinality(F) /\ Restored(result.cols, df, id, vals, h, m)
      <3>1. PICK p : p = Len(ids)
        OBVIOUS
      <3>2. IsInjective(vals)
        BY <1>1
      <3>3. Meltable(df, ids[1], vals, h, m) /\ p \in Nat \ {0} /\ result = Pivot(Unpivot(df, ids, vals).cols, 1, p + 1, p + 2)
        BY <1>1, <2>1, <3>1
      <3>4. IF ids[1] \in ToSet(vals) THEN result = nil
            ELSE /\ result.height = Cardinality(FirstRows(df[ids[1]], h))
                 /\ Restored(result.cols, df, ids[1], vals, h, m)
        BY <2>1, <3>1, <3>2, <3>3, PivotRestores
      <3>5. QED
        BY <1>1, <1>3, <3>4
    <2>3. Rows # {}
      BY <1>1, <1>2, <1>6 DEF Rows
    <2>4. CASE id \in ToSet(vals)
      BY <1>1, <2>2, <2>3, <2>4
    <2>5. CASE id \notin ToSet(vals)
      <3>1. result.height = Len(firsts)
        BY <1>4, <2>2, <2>5
      <3>2. Restored(result.cols, df, id, vals, h, m)
        BY <2>2, <2>5
      <3>3. DOMAIN vals = 1 .. m
        BY <1>1, <2>1 DEF Meltable, IsList
      <3>4. ASSUME NEW r \in DOMAIN firsts
            PROVE  Cell(result.cols[1], r - 1) = TextOf(df[id], firsts[r])
        <4>1. r \in 1 .. Cardinality(FirstRows(df[id], h))
          BY <1>3, <1>4
        <4>2. Cell(result.cols[1], r - 1) = TextOf(df[id], RowList(FirstRows(df[id], h))[r])
          BY <3>2, <4>1 DEF Restored
        <4>3. firsts = RowList(FirstRows(df[id], h))
          BY <1>1, <1>3
        <4>4. QED
          BY <4>2, <4>3
      <3>5. ASSUME NEW r \in DOMAIN firsts, NEW k \in DOMAIN vals
            PROVE  /\ result.cols[k + 1].name = df[vals[k]].name
                   /\ Cell(result.cols[k + 1], r - 1) = Cell(df[vals[k]], firsts[r])
        <4>1. r \in 1 .. Cardinality(FirstRows(df[id], h)) /\ k \in 1 .. m
          BY <1>3, <1>4, <3>3
        <4>2. result.cols[k + 1].name = df[vals[k]].name
          BY <3>2, <4>1 DEF Restored
        <4>3. Cell(result.cols[k + 1], r - 1) = Cell(df[vals[k]], RowList(FirstRows(df[id], h))[r])
          BY <3>2, <4>1 DEF Restored
        <4>4. firsts = RowList(FirstRows(df[id], h))
          BY <1>1, <1>3
        <4>5. QED
          BY <4>2, <4>3, <4>4
      <3>6. QED
        BY <1>1, <2>5, <3>1, <3>4, <3>5
    <2>6. QED
      BY <2>4, <2>5
  <1>7. QED
    BY <1>5, <1>6

\* Pivot undoes Unpivot, for melted columns of any one type or of integers and
\* floats: every cell is back in the row of its identifier's first text and in the
\* column of its name, and a frame that had the identifier twice is refused.
THEOREM PivotRestoresCells == Spec => []PivotUndoesUnpivot
  <1>1. Init => QueryInv /\ FilterInv /\ FitInv /\ ReshapeInv
    BY InitQuery, InitFilter, InitFit, InitReshape
  <1>2. QueryInv /\ FilterInv /\ FitInv /\ ReshapeInv /\ [Next]_vars
        => (QueryInv /\ FilterInv /\ FitInv /\ ReshapeInv)'
    BY NextQuery, NextFilter, NextFit, NextReshape
  <1>3. QueryInv /\ ReshapeInv => PivotUndoesUnpivot
    BY QueryPivots
  <1>4. QED
    BY <1>1, <1>2, <1>3, PTL DEF Spec

-----------------------------------------------------------------------------
(* The letters of the pieces of a text are those of the text               *)

LetterPlaces(text) == {k \in DOMAIN text : text[k] \notin {Comma, Space}}
Letters(text) == [n \in DOMAIN RowList(LetterPlaces(text)) |-> text[RowList(LetterPlaces(text))[n]]]

(* Places of a part of a text, in order, with all its letters              *)
PlacesIn(p, text, a, b, part) ==
  /\ p \in Seq(Int) /\ Ascending(p) /\ ToSet(p) \subseteq a + 1 .. b - 1
  /\ \A k \in a + 1 .. b - 1 : text[k] # Space => k \in ToSet(p)
  /\ part = Image(text, p)

LEMMA PartOf ==
  ASSUME NEW text, IsList(text), NEW a \in Nat, NEW b \in Nat, b <= Len(text) + 1
  PROVE  LET piece == SubSeq(text, a + 1, b - 1)
         IN /\ IsList(piece) /\ DOMAIN piece = 1 .. b - a - 1
            /\ \A k \in 1 .. b - a - 1 : piece[k] = text[a + k]
  <1>1. PICK T, piece : T = ElementsOf(text) /\ piece = SubSeq(text, a + 1, b - 1)
    OBVIOUS
  <1>2. text \in Seq(T)
    BY <1>1, ListIsSeq
  <1>3. piece \in Seq(T)
    BY <1>1, <1>2
  <1>4. Len(text) \in Nat
    BY DEF IsList
  <1>5. DOMAIN piece = 1 .. b - a - 1 /\ \A k \in 1 .. b - a - 1 : piece[k] = text[a + k]
    BY <1>1, <1>2, <1>4
  <1>6. IsList(piece)
    BY <1>3, SeqIsList
  <1>7. QED
    BY <1>1, <1>5, <1>6

LEMMA TrimmedPlaces ==
  ASSUME NEW text, IsList(text), NEW a \in Nat, NEW b \in Nat, b <= Len(text) + 1,
         NEW part, part = trimSpaces(SubSeq(text, a + 1, b - 1))
  PROVE  \E p : PlacesIn(p, text, a, b, part)
  <1>1. PICK piece, n, S : /\ piece = SubSeq(text, a + 1, b - 1) /\ n = b - a - 1
                           /\ S = {k \in DOMAIN piece : piece[k] # Space}
    OBVIOUS
  <1>2. /\ IsList(piece) /\ DOMAIN piece = 1 .. n
        /\ \A k \in 1 .. n : piece[k] = text[a + k]
    BY <1>1, PartOf
  <1>3. part = IF S = {} THEN <<>> ELSE SubSeq(piece, Min(S), Max(S))
    BY <1>1 DEF trimSpaces
  <1>4. n \in Int /\ S \subseteq 1 .. n
    BY <1>1, <1>2
  <1>5. ASSUME NEW k \in a + 1 .. b - 1 PROVE k - a \in 1 .. n /\ text[k] = piece[k - a]
    <2>1. k - a \in 1 .. n /\ a + (k - a) = k
      BY <1>1
    <2>2. QED
      BY <1>2, <2>1
  <1>6. CASE S = {}
    <2>1. PICK p : p = <<>>
      OBVIOUS
    <2>2. p \in Seq(Int) /\ DOMAIN p = {}
      BY <2>1
    <2>3. ToSet(p) = {} /\ Ascending(p)
      BY <2>2 DEF ToSet, Ascending
    <2>4. part = Image(text, p)
      <3>1. part = <<>>
        BY <1>3, <1>6
      <3>2. Image(text, p) = [k \in {} |-> text[p[k]]]
        BY <2>2 DEF Image
      <3>3. QED
        BY <3>1, <3>2
    <2>5. \A k \in a + 1 .. b - 1 : text[k] = Space
      BY <1>1, <1>2, <1>5, <1>6
    <2>6. QED
      BY <2>2, <2>3, <2>4, <2>5 DEF PlacesIn
  <1>7. CASE S # {}
    <2>1. PICK lo, hi : lo = Min(S) /\ hi = Max(S)
      OBVIOUS
    <2>2. IsLeast(lo, S) /\ IsGreatest(hi, S)
      <3>1. IsFiniteSet(S)
        <4>1. n \in Nat \/ 1 .. n = {}
          BY <1>4
        <4>2. IsFiniteSet(1 .. n)
          BY <1>4, FS_Interval
        <4>3. QED
          BY <1>4, <4>2, FS_Subset
      <3>2. S \in SUBSET Int
        BY <1>4
      <3>3. QED
        BY <1>7, <2>1, <3>1, <3>2, Extremes
    <2>3. lo \in 1 .. n /\ hi \in 1 .. n /\ lo <= hi /\ S \subseteq lo .. hi
      BY <1>4, <2>2 DEF IsLeast, IsGreatest
    <2>4. PICK m, p : m = hi - lo + 1 /\ p = [k \in 1 .. m |-> a + lo + k - 1]
      OBVIOUS
    <2>5. m \in Nat
      BY <1>4, <2>3, <2>4
    <2>6. DOMAIN p = 1 .. m /\ \A k \in 1 .. m : p[k] = a + lo + k - 1 /\ p[k] \in a + 1 .. b - 1
      BY <1>1, <1>4, <2>3, <2>4
    <2>7. p \in Seq(Int)
      <3>1. p = [k \in 1 .. m |-> p[k]] /\ \A k \in 1 .. m : p[k] \in Int
        BY <2>4, <2>6
      <3>2. QED
        BY <2>5, <2>6, <3>1, SequenceOf
    <2>8. Ascending(p)
      BY <1>4, <2>3, <2>6 DEF Ascending
    <2>9. ToSet(p) \subseteq a + 1 .. b - 1
      BY <2>6 DEF ToSet
    <2>10. ASSUME NEW k \in a + 1 .. b - 1, text[k] # Space PROVE k \in ToSet(p)
      <3>1. k - a \in S
        BY <1>1, <1>2, <1>5, <2>10
      <3>2. k - a \in lo .. hi
        BY <2>3, <3>1
      <3>3. PICK j : j = k - a - lo + 1
        OBVIOUS
      <3>4. j \in 1 .. m /\ a + lo + j - 1 = k
        BY <1>4, <2>3, <2>4, <3>2, <3>3
      <3>5. p[j] = k
        BY <2>6, <3>4
      <3>6. QED
        BY <2>6, <3>4, <3>5 DEF ToSet
    <2>11. part = Image(text, p)
      <3>1. PICK T : T = ElementsOf(piece)
        OBVIOUS
      <3>2. piece \in Seq(T) /\ part = SubSeq(piece, lo, hi)
        BY <1>2, <1>3, <1>7, <2>1, <3>1, ListIsSeq
      <3>3. Len(piece) = n
        BY <1>2, <1>4, <2>3 DEF IsList
      <3>4. DOMAIN part = 1 .. m /\ part = [k \in 1 .. m |-> part[k]]
        <4>1. lo \in Nat /\ hi \in Nat /\ 1 <= lo /\ lo <= hi /\ hi <= Len(piece)
          BY <1>4, <2>3, <3>3
        <4>2. SubSeq(piece, lo, hi) \in Seq(T)
          BY <3>2, <4>1
        <4>3. DOMAIN SubSeq(piece, lo, hi) = 1 .. hi - lo + 1
          BY <3>2, <4>1
        <4>4. DOMAIN part = 1 .. m
          BY <2>4, <3>2, <4>3
        <4>5. part = [k \in DOMAIN part |-> part[k]]
          BY <3>2, <4>2
        <4>6. QED
          BY <4>4, <4>5
      <3>5. ASSUME NEW k \in 1 .. m PROVE part[k] = text[p[k]]
        <4>1. part[k] = piece[lo + k - 1] /\ lo + k - 1 \in 1 .. n
          BY <1>4, <2>3, <2>4, <3>2, <3>3
        <4>2. a + (lo + k - 1) = p[k]
          BY <1>4, <2>3, <2>6
        <4>3. QED
          BY <1>2, <4>1, <4>2
      <3>7. part = [k \in 1 .. m |-> text[p[k]]]
        BY <3>4, <3>5
      <3>8. QED
        BY <2>6, <3>7 DEF Image
    <2>12. QED
      BY <2>7, <2>8, <2>9, <2>10, <2>11 DEF PlacesIn
  <1>8. QED
    BY <1>6, <1>7

(* The places of the letters in what was taken out of a text               *)
LEMMA ImageLetters ==
  ASSUME NEW text, NEW p, p \in Seq(Int), Ascending(p), ToSet(p) \subseteq DOMAIN text,
         LetterPlaces(text) \subseteq ToSet(p), NEW flat, flat = Image(text, p)
  PROVE  Letters(flat) = Letters(text)
  <1>1. PICK S, T, q, l : /\ S = LetterPlaces(flat) /\ T = LetterPlaces(text) /\ q = RowList(S) /\ l = RowList(T)
    OBVIOUS
  <1>2. Len(p) \in Nat /\ DOMAIN p = 1 .. Len(p) /\ \A k \in DOMAIN p : p[k] \in Int
    OBVIOUS
  <1>3. DOMAIN flat = DOMAIN p /\ \A k \in DOMAIN p : flat[k] = text[p[k]]
    BY DEF Image
  <1>4. S = {k \in DOMAIN p : p[k] \in T}
    <2>1. ASSUME NEW k \in DOMAIN p PROVE p[k] \in T <=> flat[k] \notin {Comma, Space}
      <3>1. p[k] \in DOMAIN text
        BY DEF ToSet
      <3>2. QED
        BY <1>1, <1>3, <3>1 DEF LetterPlaces
    <2>2. QED
      BY <1>1, <1>3, <2>1 DEF LetterPlaces
  <1>5. IsFiniteSet(S) /\ \A x \in S : x \in Int
    <2>1. S \subseteq 1 .. Len(p)
      BY <1>2, <1>4
    <2>2. IsFiniteSet(1 .. Len(p))
      BY <1>2, FS_Interval
    <2>3. \A x \in S : x \in Int
      BY <2>1
    <2>4. QED
      BY <2>1, <2>2, <2>3, FS_Subset
  <1>6. /\ DOMAIN q = 1 .. Cardinality(S) /\ Cardinality(S) \in Nat /\ ToSet(q) = S
        /\ \A k, j \in DOMAIN q : k < j => q[k] < q[j]
    BY <1>1, <1>5, RowListAscends
  <1>7. \A k \in DOMAIN q : q[k] \in S
    BY <1>6 DEF ToSet
  <1>8. PICK n, c : n = Cardinality(S) /\ c = [k \in 1 .. n |-> p[q[k]]]
    OBVIOUS
  <1>9. n \in Nat /\ DOMAIN c = 1 .. n /\ c = [k \in 1 .. n |-> c[k]]
        /\ \A k \in 1 .. n : c[k] = p[q[k]] /\ q[k] \in DOMAIN p /\ c[k] \in T
    BY <1>4, <1>6, <1>7, <1>8
  <1>10. c \in Seq(Int)
    <2>1. \A k \in 1 .. n : c[k] \in Int
      BY <1>2, <1>9
    <2>2. QED
      BY <1>9, <2>1, SequenceOf
  <1>11. Ascending(c)
    <2>1. ASSUME NEW k \in 1 .. n, NEW j \in 1 .. n, k < j PROVE c[k] < c[j]
      <3>1. q[k] < q[j]
        BY <1>6, <1>8, <2>1
      <3>2. p[q[k]] < p[q[j]]
        BY <1>9, <3>1 DEF Ascending
      <3>3. QED
        BY <1>9, <3>2
    <2>2. QED
      BY <1>9, <2>1 DEF Ascending
  <1>12. ToSet(c) = T
    <2>1. ASSUME NEW x \in T PROVE x \in ToSet(c)
      <3>1. PICK k \in DOMAIN p : p[k] = x
        BY <1>1 DEF ToSet
      <3>2. k \in S
        BY <1>4, <3>1
      <3>3. PICK j \in 1 .. n : q[j] = k
        BY <1>6, <1>8, <3>2 DEF ToSet
      <3>4. c[j] = x
        BY <1>9, <3>1, <3>3
      <3>5. QED
        BY <1>9, <3>4 DEF ToSet
    <2>2. QED
      BY <1>9, <2>1 DEF ToSet
  <1>13. c = l
    BY <1>1, <1>10, <1>11, <1>12, AscendingIsRowList
  <1>14. PICK u, v : u = Letters(flat) /\ v = Letters(text)
    OBVIOUS
  <1>15. u = [k \in 1 .. n |-> flat[q[k]]]
    BY <1>1, <1>6, <1>8, <1>14 DEF Letters
  <1>16. v = [k \in 1 .. n |-> text[c[k]]]
    BY <1>1, <1>9, <1>13, <1>14 DEF Letters
  <1>17. \A k \in 1 .. n : flat[q[k]] = text[c[k]]
    BY <1>3, <1>9
  <1>18. QED
    BY <1>14, <1>15, <1>16, <1>17

(* The cuts are 0, the commas and one past the end, in order.              *)
CutsOf(cuts, text, n) ==
  /\ DOMAIN cuts = 1 .. n + 2 /\ n \in Nat /\ cuts[1] = 0 /\ cuts[n + 2] = Len(text) + 1
  /\ \A k \in 1 .. n + 2 : cuts[k] \in 0 .. Len(text) + 1
  /\ \A k \in 2 .. n + 1 : cuts[k] \in Commas(text)
  /\ \A k, l \in 1 .. n + 2 : k < l => cuts[k] < cuts[l]

LEMMA CutsAscend ==
  ASSUME NEW text, IsList(text)
  PROVE  CutsOf(Cuts(text), text, Cardinality(Commas(text)))
  <1>1. PICK S, l, n, x, y, m, cuts :
          /\ S = Commas(text) /\ l = RowList(S) /\ n = Cardinality(S) /\ x = <<0>> /\ m = Len(text)
          /\ y = <<m + 1>> /\ cuts = Cuts(text)
    OBVIOUS
  <1>2. m \in Nat /\ DOMAIN text = 1 .. m
    BY <1>1 DEF IsList
  <1>3. S \subseteq 1 .. m /\ \A k \in S : k \in Int
    BY <1>1, <1>2 DEF Commas
  <1>4. IsFiniteSet(S)
    <2>1. IsFiniteSet(1 .. m)
      BY <1>2, FS_Interval
    <2>2. QED
      BY <1>3, <2>1, FS_Subset
  <1>5. /\ l \in Seq(S) /\ Len(l) = n /\ DOMAIN l = 1 .. n /\ n \in Nat /\ ToSet(l) = S
        /\ \A k, j \in DOMAIN l : k < j => l[k] < l[j]
    BY <1>1, <1>3, <1>4, RowListAscends
  <1>6. IsList(x) /\ Len(x) = 1 /\ x[1] = 0 /\ IsList(y) /\ Len(y) = 1 /\ y[1] = m + 1 /\ IsList(l)
    <2>1. x \in Seq(Int) /\ y \in Seq(Int) /\ Len(x) = 1 /\ Len(y) = 1 /\ x[1] = 0 /\ y[1] = m + 1
      BY <1>1, <1>2
    <2>2. QED
      BY <1>5, <2>1, SeqIsList
  <1>7. PICK z : z = x \o l
    OBVIOUS
  <1>8. IsList(z) /\ Len(z) = n + 1 /\ z[1] = 0 /\ \A k \in 1 .. n : z[1 + k] = l[k]
    <2>1. IsList(x) /\ IsList(l)
      BY <1>6
    <2>2. /\ IsList(x \o l) /\ Len(x \o l) = Len(x) + Len(l)
          /\ \A k \in 1 .. Len(x) : (x \o l)[k] = x[k]
          /\ \A k \in 1 .. Len(l) : (x \o l)[Len(x) + k] = l[k]
      BY <2>1, ListsConcat
    <2>3. Len(z) = n + 1
      BY <1>5, <1>6, <1>7, <2>2
    <2>4. z[1] = 0
      <3>1. 1 \in 1 .. Len(x)
        BY <1>6
      <3>2. QED
        BY <1>6, <1>7, <2>2, <3>1
    <2>5. QED
      BY <1>5, <1>6, <1>7, <2>2, <2>3, <2>4
  <1>9. cuts = z \o y
    BY <1>1, <1>7 DEF Cuts
  <1>10. /\ DOMAIN cuts = 1 .. n + 2 /\ cuts[1] = 0 /\ cuts[n + 2] = m + 1
         /\ \A k \in 2 .. n + 1 : cuts[k] = l[k - 1] /\ k - 1 \in 1 .. n
    <2>1. IsList(z) /\ IsList(y)
      BY <1>6, <1>8
    <2>2. /\ IsList(z \o y) /\ Len(z \o y) = Len(z) + Len(y)
          /\ \A k \in 1 .. Len(z) : (z \o y)[k] = z[k]
          /\ \A k \in 1 .. Len(y) : (z \o y)[Len(z) + k] = y[k]
      BY <2>1, ListsConcat
    <2>3. IsList(cuts) /\ Len(cuts) = n + 2
      BY <1>5, <1>6, <1>8, <1>9, <2>2
    <2>4. \A k \in 1 .. n + 1 : cuts[k] = z[k]
      BY <1>8, <1>9, <2>2
    <2>5. cuts[n + 2] = m + 1
      <3>1. 1 \in 1 .. Len(y) /\ Len(z) + 1 = n + 2
        BY <1>5, <1>6, <1>8
      <3>2. cuts[Len(z) + 1] = y[1]
        BY <1>9, <2>2, <3>1
      <3>3. QED
        BY <1>6, <3>1, <3>2
    <2>6. 1 \in 1 .. n + 1
      BY <1>5
    <2>7. ASSUME NEW k \in 2 .. n + 1 PROVE cuts[k] = l[k - 1] /\ k - 1 \in 1 .. n
      <3>1. k - 1 \in 1 .. n /\ 1 + (k - 1) = k /\ k \in 1 .. n + 1
        BY <1>5
      <3>2. z[1 + (k - 1)] = l[k - 1]
        BY <1>8, <3>1
      <3>3. QED
        BY <2>4, <3>1, <3>2
    <2>8. QED
      BY <1>8, <2>3, <2>4, <2>5, <2>6, <2>7 DEF IsList
  <1>11. ASSUME NEW k \in 2 .. n + 1 PROVE cuts[k] \in S /\ cuts[k] \in 1 .. m
    <2>1. l[k - 1] \in S
      BY <1>5, <1>10 DEF ToSet
    <2>2. QED
      BY <1>3, <1>10, <2>1
  <1>12. ASSUME NEW k \in 1 .. n + 2 PROVE k = 1 \/ k \in 2 .. n + 1 \/ k = n + 2
    BY <1>5
  <1>13. ASSUME NEW k \in 1 .. n + 2 PROVE cuts[k] \in 0 .. m + 1
    BY <1>2, <1>10, <1>11, <1>12
  <1>14. ASSUME NEW k \in 1 .. n + 2, NEW j \in 1 .. n + 2, k < j PROVE cuts[k] < cuts[j]
    <2>1. CASE k = 1 /\ j = n + 2
      BY <1>2, <1>10, <2>1
    <2>2. CASE k = 1 /\ j \in 2 .. n + 1
      BY <1>2, <1>10, <1>11, <2>2
    <2>3. CASE k \in 2 .. n + 1 /\ j = n + 2
      BY <1>2, <1>10, <1>11, <2>3
    <2>4. CASE k \in 2 .. n + 1 /\ j \in 2 .. n + 1
      <3>1. k - 1 < j - 1 /\ k - 1 \in 1 .. n /\ j - 1 \in 1 .. n
        BY <1>5, <1>14, <2>4
      <3>2. l[k - 1] < l[j - 1]
        BY <1>5, <3>1
      <3>3. QED
        BY <1>10, <2>4, <3>2
    <2>5. QED
      BY <1>5, <1>12, <1>14, <2>1, <2>2, <2>3, <2>4
  <1>15. CutsOf(cuts, text, n)
    BY <1>1, <1>5, <1>10, <1>11, <1>13, <1>14 DEF CutsOf
  <1>16. QED
    BY <1>1, <1>15

(* Every letter is in one of the pieces.                                   *)
LEMMA LetterBetween ==
  ASSUME NEW text, IsList(text), NEW cuts, NEW n, CutsOf(cuts, text, n), NEW x \in LetterPlaces(text)
  PROVE  \E k \in 1 .. n + 1 : cuts[k] < x /\ x < cuts[k + 1]
  <1>1. PICK m : m = Len(text)
    OBVIOUS
  <1>2. m \in Nat /\ x \in 1 .. m /\ x \notin Commas(text)
    BY <1>1 DEF IsList, LetterPlaces, Commas
  <1>3. /\ n \in Nat /\ cuts[1] = 0 /\ cuts[n + 2] = m + 1
        /\ \A k \in 1 .. n + 2 : cuts[k] \in 0 .. m + 1
        /\ \A k \in 2 .. n + 1 : cuts[k] \in Commas(text)
    BY <1>1 DEF CutsOf
  <1>4. PICK S : S = {k \in 1 .. n + 2 : x <= cuts[k]}
    OBVIOUS
  <1>5. n + 2 \in S /\ n + 2 \in Int /\ n + 2 \in 0 .. n + 2 /\ 1 \notin S
    BY <1>2, <1>3, <1>4
  <1>6. PICK p \in 0 .. n + 2 : p \in S /\ \A q \in 0 .. p - 1 : q \notin S
    BY <1>5, FirstIn
  <1>7. p \in 2 .. n + 2 /\ p - 1 \in 0 .. p - 1 /\ p - 1 \in 1 .. n + 1 /\ (p - 1) + 1 = p /\ p - 1 \in 1 .. n + 2
    BY <1>3, <1>4, <1>5, <1>6
  <1>8. ~(x <= cuts[p - 1])
    BY <1>4, <1>6, <1>7
  <1>9. cuts[p - 1] < x
    BY <1>2, <1>3, <1>7, <1>8
  <1>10. x # cuts[p]
    <2>1. CASE p = n + 2
      BY <1>2, <1>3, <2>1
    <2>2. CASE p # n + 2
      <3>1. p \in 2 .. n + 1
        BY <1>3, <1>7, <2>2
      <3>2. QED
        BY <1>2, <1>3, <3>1
    <2>3. QED
      BY <2>1, <2>2
  <1>11. x <= cuts[p] /\ cuts[p] \in Int
    BY <1>3, <1>4, <1>6
  <1>12. x < cuts[p]
    BY <1>2, <1>10, <1>11
  <1>13. QED
    BY <1>7, <1>9, <1>12

Lower == {z \in Int \X Int : z[1] < z[2]}

LEMMA AscendingOrdered ==
  ASSUME NEW s, s \in Seq(Int)
  PROVE  OrderedBy(Lower, s) <=> Ascending(s)
  <1>1. ASSUME NEW x \in Int, NEW y \in Int PROVE <<x, y>> \in Lower <=> x < y
    BY DEF Lower
  <1>2. \A k \in DOMAIN s : s[k] \in Int
    OBVIOUS
  <1>3. QED
    BY <1>1, <1>2 DEF OrderedBy, Ascending

PlacesOf(text, a, b, part) == CHOOSE p : PlacesIn(p, text, a, b, part)

LEMMA PieceLetters ==
  ASSUME NEW text, IsList(text), NEW split, split = Split(text),
         NEW parts, parts = [k \in DOMAIN split |-> trimSpaces(split[k])]
  PROVE  /\ DOMAIN parts = 1 .. Cardinality(Commas(text)) + 1 /\ Cardinality(Commas(text)) \in Nat
         /\ \A k \in DOMAIN parts : IsList(parts[k])
         /\ Letters(FlattenSeq(parts)) = Letters(text)
  <1>1. PICK c, n, cuts, D, V : /\ n = Cardinality(Commas(text)) /\ c = n + 1 /\ cuts = Cuts(text)
                                /\ D = DOMAIN text /\ V = ElementsOf(text)
    OBVIOUS
  <1>2. CutsOf(cuts, text, n)
    BY <1>1, CutsAscend
  <1>3. /\ n \in Nat /\ c \in Nat /\ \A k \in 1 .. n + 2 : cuts[k] \in 0 .. Len(text) + 1
        /\ \A k, l \in 1 .. n + 2 : k < l => cuts[k] < cuts[l]
    BY <1>1, <1>2 DEF CutsOf
  <1>4. Len(text) \in Nat /\ D = 1 .. Len(text) /\ text = [k \in D |-> text[k]] /\ \A x \in D : text[x] \in V
    BY <1>1 DEF IsList, ElementsOf
  <1>5. Len(cuts) - 1 = c
    <2>1. Len(Cuts(text)) = Cardinality(Commas(text)) + 2
      BY CutsList
    <2>2. QED
      BY <1>1, <1>3, <2>1
  <1>6. DOMAIN split = 1 .. c /\ \A k \in 1 .. c : split[k] = SubSeq(text, cuts[k] + 1, cuts[k + 1] - 1)
    <2>1. split = [k \in 1 .. Len(cuts) - 1 |-> SubSeq(text, cuts[k] + 1, cuts[k + 1] - 1)]
      BY <1>1, SplitUnfolds
    <2>2. QED
      BY <1>5, <2>1
  <1>7. DOMAIN parts = 1 .. c /\ parts = [k \in 1 .. c |-> parts[k]]
        /\ \A k \in 1 .. c : parts[k] = trimSpaces(split[k])
    BY <1>6
  <1>8. PICK ss : ss = [k \in 1 .. c |-> PlacesOf(text, cuts[k], cuts[k + 1], parts[k])]
    OBVIOUS
  <1>9. ASSUME NEW k \in 1 .. c
        PROVE  /\ PlacesIn(ss[k], text, cuts[k], cuts[k + 1], parts[k]) /\ cuts[k] \in Nat
               /\ cuts[k + 1] \in Nat /\ cuts[k + 1] <= Len(text) + 1
               /\ k \in 1 .. n + 2 /\ k + 1 \in 1 .. n + 2 /\ k \in Int
    <2>1. k \in 1 .. n + 2 /\ k + 1 \in 1 .. n + 2 /\ k \in Int
      BY <1>1, <1>3
    <2>2. cuts[k] \in Nat /\ cuts[k + 1] \in Nat /\ cuts[k + 1] <= Len(text) + 1
      BY <1>3, <1>4, <2>1
    <2>3. parts[k] = trimSpaces(SubSeq(text, cuts[k] + 1, cuts[k + 1] - 1))
      BY <1>6, <1>7
    <2>4. PICK a, b, part : a = cuts[k] /\ b = cuts[k + 1] /\ part = parts[k]
      OBVIOUS
    <2>5. \E p : PlacesIn(p, text, a, b, part)
      BY <2>2, <2>3, <2>4, TrimmedPlaces
    <2>6. PlacesIn(PlacesOf(text, a, b, part), text, a, b, part)
      BY <2>5 DEF PlacesOf
    <2>7. ss[k] = PlacesOf(text, a, b, part)
      BY <1>8, <2>4
    <2>8. QED
      BY <2>1, <2>2, <2>4, <2>6, <2>7
  <1>10. ASSUME NEW k \in 1 .. c
         PROVE  /\ ss[k] \in Seq(Int) /\ ss[k] \in Seq(D) /\ OrderedBy(Lower, ss[k])
                /\ ToSet(ss[k]) \subseteq cuts[k] + 1 .. cuts[k + 1] - 1
                /\ parts[k] = Image(text, ss[k])
    <2>1. PICK p, a, b : p = ss[k] /\ a = cuts[k] /\ b = cuts[k + 1]
      OBVIOUS
    <2>2. /\ p \in Seq(Int) /\ Ascending(p) /\ ToSet(p) \subseteq a + 1 .. b - 1
          /\ parts[k] = Image(text, p) /\ a \in Nat /\ b \in Nat /\ b <= Len(text) + 1
      BY <1>9, <2>1 DEF PlacesIn
    <2>3. ToSet(p) \subseteq D
      BY <1>4, <2>2
    <2>4. p \in Seq(D)
      <3>1. DOMAIN p = 1 .. Len(p) /\ Len(p) \in Nat /\ p = [j \in 1 .. Len(p) |-> p[j]]
        BY <2>2
      <3>2. \A j \in 1 .. Len(p) : p[j] \in D
        BY <2>3, <3>1 DEF ToSet
      <3>3. QED
        BY <3>1, <3>2, SequenceOf
    <2>5. OrderedBy(Lower, p)
      BY <2>2, AscendingOrdered
    <2>6. QED
      BY <2>1, <2>2, <2>4, <2>5
  <1>11. DOMAIN ss = 1 .. c /\ ss = [k \in 1 .. c |-> ss[k]]
    BY <1>8
  <1>12. ss \in [1 .. c -> Seq(D)] /\ ss \in Seq(Seq(D))
    <2>1. \A k \in 1 .. c : ss[k] \in Seq(D)
      BY <1>10
    <2>2. ss \in Seq(Seq(D))
      BY <1>3, <1>11, <2>1, SequenceOf
    <2>3. QED
      BY <1>11, <2>1, <2>2
  <1>13. ASSUME NEW k \in 1 .. c, NEW j \in 1 .. c, k < j, NEW x \in ToSet(ss[k]), NEW y \in ToSet(ss[j])
         PROVE  <<x, y>> \in Lower
    <2>1. cuts[k + 1] <= cuts[j]
      <3>1. k + 1 = j \/ k + 1 < j
        BY <1>9, <1>13
      <3>2. cuts[k + 1] \in Nat /\ cuts[j] \in Nat
        BY <1>9
      <3>3. CASE k + 1 < j
        <4>1. cuts[k + 1] < cuts[j]
          BY <1>3, <1>9, <3>3
        <4>2. QED
          BY <3>2, <4>1
      <3>4. CASE k + 1 = j
        BY <3>2, <3>4
      <3>5. QED
        BY <3>1, <3>3, <3>4
    <2>2. PICK a, b : a = cuts[k + 1] /\ b = cuts[j] /\ a \in Nat /\ b \in Nat /\ a <= b
      BY <1>9, <2>1
    <2>3. x \in Int /\ x < a
      <3>1. PICK lo : lo = cuts[k]
        OBVIOUS
      <3>2. x \in lo + 1 .. a - 1 /\ lo \in Nat
        BY <1>9, <1>10, <2>2, <3>1
      <3>3. QED
        BY <2>2, <3>2
    <2>4. y \in Int /\ b < y
      <3>1. PICK hi : hi = cuts[j + 1]
        OBVIOUS
      <3>2. y \in b + 1 .. hi - 1 /\ hi \in Nat
        BY <1>9, <1>10, <2>2, <3>1
      <3>3. QED
        BY <2>2, <3>2
    <2>5. QED
      BY <2>2, <2>3, <2>4 DEF Lower
  <1>14. PICK p : p = FlattenSeq(ss)
    OBVIOUS
  <1>15. p \in Seq(D) /\ ToSet(p) = UNION {ToSet(ss[k]) : k \in 1 .. c} /\ OrderedBy(Lower, p)
    <2>1. OrderedParts(D, Lower, c, ss)
      BY <1>3, <1>10, <1>12, <1>13 DEF OrderedParts
    <2>2. QED
      BY <1>14, <2>1, FlattenOrdered
  <1>16. p \in Seq(Int) /\ Ascending(p) /\ ToSet(p) \subseteq D
    <2>1. Len(p) \in Nat /\ DOMAIN p = 1 .. Len(p) /\ p = [j \in 1 .. Len(p) |-> p[j]]
          /\ \A j \in 1 .. Len(p) : p[j] \in D
      BY <1>15
    <2>2. \A j \in 1 .. Len(p) : p[j] \in Int
      BY <1>4, <2>1
    <2>3. p \in Seq(Int)
      BY <2>1, <2>2, SequenceOf
    <2>4. ToSet(p) \subseteq D
      BY <2>1 DEF ToSet
    <2>5. QED
      BY <1>15, <2>3, <2>4, AscendingOrdered
  <1>17. ASSUME NEW k \in 1 .. c PROVE parts[k] \in Seq(V) /\ IsList(parts[k])
    <2>1. PICK q, part : q = ss[k] /\ part = parts[k]
      OBVIOUS
    <2>2. q \in Seq(D) /\ part = Image(text, q)
      BY <1>10, <2>1
    <2>3. Len(q) \in Nat /\ DOMAIN q = 1 .. Len(q) /\ \A j \in 1 .. Len(q) : q[j] \in D
      BY <2>2
    <2>4. DOMAIN part = 1 .. Len(q) /\ part = [j \in 1 .. Len(q) |-> part[j]]
          /\ \A j \in 1 .. Len(q) : part[j] \in V
      BY <1>4, <2>2, <2>3 DEF Image
    <2>5. part \in Seq(V)
      BY <2>3, <2>4, SequenceOf
    <2>6. QED
      BY <2>1, <2>5, SeqIsList
  <1>18. parts \in Seq(Seq(V))
    BY <1>3, <1>7, <1>17, SequenceOf
  <1>19. FlattenSeq(parts) = Image(text, p)
    <2>1. Into(text, D, V)
      BY <1>4 DEF Into
    <2>2. IsMapped(text, D, ss, parts, c)
      BY <1>3, <1>7, <1>10, <1>11 DEF IsMapped
    <2>3. QED
      BY <1>12, <1>14, <1>18, <2>1, <2>2, FlattenMapped
  <1>20. LetterPlaces(text) \subseteq ToSet(p)
    <2>1. ASSUME NEW x \in LetterPlaces(text) PROVE x \in ToSet(p)
      <3>1. PICK k \in 1 .. n + 1 : cuts[k] < x /\ x < cuts[k + 1]
        BY <1>2, LetterBetween
      <3>2. k \in 1 .. c
        BY <1>1
      <3>3. PICK a, b : a = cuts[k] /\ b = cuts[k + 1]
        OBVIOUS
      <3>4. PlacesIn(ss[k], text, a, b, parts[k]) /\ a \in Nat /\ b \in Nat
        BY <1>9, <3>2, <3>3
      <3>5. x \in D /\ text[x] # Space
        BY <1>1 DEF LetterPlaces
      <3>6. x \in a + 1 .. b - 1
        BY <1>4, <3>1, <3>3, <3>4, <3>5
      <3>7. x \in ToSet(ss[k])
        BY <3>4, <3>5, <3>6 DEF PlacesIn
      <3>8. QED
        BY <1>15, <3>2, <3>7
    <2>2. QED
      BY <2>1
  <1>21. Letters(FlattenSeq(parts)) = Letters(text)
    BY <1>1, <1>16, <1>19, <1>20, ImageLetters
  <1>22. QED
    BY <1>1, <1>3, <1>7, <1>17, <1>21

-----------------------------------------------------------------------------
(* What Explode makes of the pieces                                        *)

PieceCounts(s, h) == [i \in 0 .. h - 1 |-> IF Cell(s, i) = Null THEN 1 ELSE Cardinality(Commas(Cell(s, i))) + 1]
PiecesBefore(s, h, i) == SumOver(PieceCounts(s, h), 0 .. i - 1)

LEMMA PiecesAt ==
  ASSUME NEW s, IsSeries(s), s.dtype = "String", NEW h, h = s.arr.length, NEW i \in 0 .. h - 1
  PROVE  /\ IsList(Pieces(s, i)) /\ Len(Pieces(s, i)) = PieceCounts(s, h)[i] /\ PieceCounts(s, h)[i] \in Nat
         /\ \A k \in 1 .. Len(Pieces(s, i)) : CellFits("String", Pieces(s, i)[k])
         /\ Cell(s, i) = Null => Pieces(s, i) = <<Null>>
         /\ Cell(s, i) # Null => Letters(FlattenSeq(Pieces(s, i))) = Letters(Cell(s, i))
  <1>1. PICK text, parts, n : text = Cell(s, i) /\ parts = Pieces(s, i) /\ n = PieceCounts(s, h)[i]
    OBVIOUS
  <1>2. n = IF text = Null THEN 1 ELSE Cardinality(Commas(text)) + 1
    BY <1>1 DEF PieceCounts
  <1>3. CASE text = Null
    <2>1. parts = <<Null>>
      BY <1>1, <1>3 DEF Pieces
    <2>2. parts \in Seq({Null}) /\ Len(parts) = 1 /\ parts[1] = Null
      BY <2>1
    <2>3. IsList(parts)
      BY <2>2, SeqIsList
    <2>4. \A k \in 1 .. Len(parts) : CellFits("String", parts[k])
      <3>1. \A k \in 1 .. Len(parts) : parts[k] = Null
        BY <2>2
      <3>2. QED
        BY <3>1 DEF CellFits
    <2>5. QED
      BY <1>1, <1>2, <1>3, <2>1, <2>2, <2>3, <2>4
  <1>4. CASE text # Null
    <2>1. IsList(text)
      BY <1>1, <1>4, TextCellList
    <2>2. PICK split : split = Split(text)
      OBVIOUS
    <2>3. parts = [k \in DOMAIN split |-> trimSpaces(split[k])]
      BY <1>1, <1>4, <2>2 DEF Pieces
    <2>4. /\ DOMAIN parts = 1 .. Cardinality(Commas(text)) + 1 /\ Cardinality(Commas(text)) \in Nat
          /\ \A k \in DOMAIN parts : IsList(parts[k])
          /\ Letters(FlattenSeq(parts)) = Letters(text)
      BY <2>1, <2>2, <2>3, PieceLetters
    <2>5. n \in Nat /\ DOMAIN parts = 1 .. n
      BY <1>2, <1>4, <2>4
    <2>6. parts = [k \in 1 .. n |-> parts[k]]
      BY <2>3, <2>5
    <2>7. IsList(parts) /\ Len(parts) = n
      BY <2>5, <2>6, ListOf
    <2>8. \A k \in 1 .. Len(parts) : CellFits("String", parts[k])
      BY <2>4, <2>5, <2>7 DEF CellFits
    <2>9. QED
      BY <1>1, <1>4, <2>4, <2>5, <2>7, <2>8
  <1>5. QED
    BY <1>3, <1>4

(* Where the lists of the rows begin                                       *)
LEMMA PiecesAdd ==
  ASSUME NEW s, IsSeries(s), s.dtype = "String", NEW h, h = s.arr.length,
         NEW ss, DOMAIN ss = 1 .. h, ss = [r \in 1 .. h |-> ss[r]],
         \A r \in 1 .. h : IsList(ss[r]) /\ Len(ss[r]) = PieceCounts(s, h)[r - 1]
  PROVE  ListsAt(ss, h, [i \in 0 .. h |-> PiecesBefore(s, h, i)])
  <1>1. PICK count, off : count = PieceCounts(s, h) /\ off = [i \in 0 .. h |-> PiecesBefore(s, h, i)]
    OBVIOUS
  <1>2. h \in Nat
    BY DEF IsSeries, IsArray
  <1>3. ASSUME NEW i \in 0 .. h - 1 PROVE count[i] \in Nat
    BY <1>1, PiecesAt
  <1>4. ASSUME NEW i \in 0 .. h PROVE off[i] = SumOver(count, 0 .. i - 1)
    BY <1>1 DEF PiecesBefore
  <1>5. off[0] = 0
    <2>1. 0 \in 0 .. h /\ 0 .. 0 - 1 = {}
      BY <1>2
    <2>2. SumOver(count, {}) = 0
      <3>1. IsFiniteSet({}) /\ \A y \in {} : count[y] \in Int
        BY FS_EmptySet
      <3>2. QED
        BY <3>1, SumOne
    <2>3. QED
      BY <1>4, <2>1, <2>2
  <1>6. ASSUME NEW r \in 1 .. h PROVE off[r] = off[r - 1] + count[r - 1]
    <2>1. PICK S, j : S = 0 .. r - 1 /\ j = r - 1
      OBVIOUS
    <2>2. j \in S /\ S \ {j} = 0 .. j - 1 /\ r \in 0 .. h /\ j \in 0 .. h /\ j \in Int
      BY <1>2, <2>1
    <2>3. IsFiniteSet(S)
      BY <2>1, FS_Interval
    <2>4. \A y \in S : count[y] \in Int
      <3>1. S \subseteq 0 .. h - 1
        BY <1>2, <2>1
      <3>2. QED
        BY <1>3, <3>1
    <2>5. SumOver(count, S) = SumOver(count, S \ {j}) + count[j]
      BY <2>2, <2>3, <2>4, SumOne
    <2>6. off[r] = SumOver(count, S) /\ off[j] = SumOver(count, S \ {j})
      BY <1>4, <2>1, <2>2
    <2>7. QED
      BY <2>1, <2>5, <2>6
  <1>7. \A r \in 1 .. h : IsList(ss[r]) /\ off[r] = off[r - 1] + Len(ss[r])
    BY <1>1, <1>6
  <1>8. ListsAt(ss, h, off)
    BY <1>2, <1>5, <1>7 DEF ListsAt
  <1>9. QED
    BY <1>1, <1>8

Exploded(z, cols, col, h) ==
  /\ DOMAIN z = DOMAIN cols
  /\ \A c \in DOMAIN cols :
       /\ z[c].arr.length = PiecesBefore(cols[col], h, h)
       /\ \A i \in 0 .. h - 1 : \A k \in 1 .. PieceCounts(cols[col], h)[i] :
            Cell(z[c], PiecesBefore(cols[col], h, i) + k - 1)
              = IF c = col THEN Pieces(cols[col], i)[k] ELSE Cell(cols[c], i)

(* A list with the elements of each row one after the other                *)
InPlace(list, s, h, of) ==
  /\ IsList(list) /\ Len(list) = PiecesBefore(s, h, h)
  /\ \A i \in 0 .. h - 1 : /\ PiecesBefore(s, h, i) \in Nat
                           /\ \A k \in 1 .. PieceCounts(s, h)[i] :
                                /\ list[PiecesBefore(s, h, i) + k] = of[i + 1][k]
                                /\ PiecesBefore(s, h, i) + k \in 1 .. Len(list)

LEMMA FlattenInPlace ==
  ASSUME NEW s, IsSeries(s), s.dtype = "String", NEW h, h = s.arr.length,
         NEW ss, DOMAIN ss = 1 .. h, ss = [r \in 1 .. h |-> ss[r]],
         \A r \in 1 .. h : IsList(ss[r]) /\ Len(ss[r]) = PieceCounts(s, h)[r - 1]
  PROVE  InPlace(FlattenSeq(ss), s, h, ss)
  <1>1. PICK off, list : off = [i \in 0 .. h |-> PiecesBefore(s, h, i)] /\ list = FlattenSeq(ss)
    OBVIOUS
  <1>2. ListsAt(ss, h, off) /\ h \in Nat
    BY <1>1, PiecesAdd DEF IsSeries, IsArray
  <1>3. Flattened(list, ss, off, h)
    BY <1>1, <1>2, FlattenPlaces
  <1>4. \A i \in 0 .. h : off[i] = PiecesBefore(s, h, i)
    BY <1>1
  <1>5. IsList(list) /\ Len(list) = off[h] /\ h \in 0 .. h
    BY <1>2, <1>3 DEF Flattened
  <1>6. ASSUME NEW i \in 0 .. h - 1
        PROVE  /\ off[i] \in Nat
               /\ \A k \in 1 .. PieceCounts(s, h)[i] : list[off[i] + k] = ss[i + 1][k] /\ off[i] + k \in 1 .. Len(list)
    <2>1. PICK r : r = i + 1
      OBVIOUS
    <2>2. r \in 1 .. h /\ r - 1 = i /\ i \in 0 .. h /\ r \in 0 .. h
      BY <1>2, <2>1
    <2>3. off[i] \in Nat /\ off[r] \in Nat /\ off[r] <= off[h] /\ off[h] \in Nat
      BY <1>3, <1>5, <2>2 DEF Flattened
    <2>4. Len(ss[r]) = PieceCounts(s, h)[i] /\ off[r] = off[i] + Len(ss[r]) /\ Len(ss[r]) \in Nat
      BY <1>2, <2>2 DEF ListsAt, IsList
    <2>5. ASSUME NEW k \in 1 .. Len(ss[r]) PROVE list[off[i] + k] = ss[r][k] /\ off[i] + k \in 1 .. Len(list)
      <3>1. list[off[r - 1] + k] = ss[r][k]
        BY <1>3, <2>2 DEF Flattened
      <3>2. QED
        BY <1>5, <2>2, <2>3, <2>4, <3>1
    <2>6. QED
      BY <2>1, <2>3, <2>4, <2>5
  <1>7. InPlace(list, s, h, ss)
    <2>1. Len(list) = PiecesBefore(s, h, h)
      BY <1>4, <1>5
    <2>2. ASSUME NEW i \in 0 .. h - 1
          PROVE  /\ PiecesBefore(s, h, i) \in Nat
                 /\ \A k \in 1 .. PieceCounts(s, h)[i] :
                      /\ list[PiecesBefore(s, h, i) + k] = ss[i + 1][k]
                      /\ PiecesBefore(s, h, i) + k \in 1 .. Len(list)
      <3>1. i \in 0 .. h
        BY <1>2
      <3>2. PiecesBefore(s, h, i) = off[i]
        BY <1>4, <3>1
      <3>3. QED
        BY <1>6, <3>2
    <2>3. QED
      BY <1>5, <2>1, <2>2 DEF InPlace
  <1>8. QED
    BY <1>1, <1>7

(* What is true of every element of the lists is true of the whole.        *)
LEMMA FlattenWithin ==
  ASSUME NEW n \in Nat, NEW ss, DOMAIN ss = 1 .. n, ss = [k \in 1 .. n |-> ss[k]], NEW T,
         \A k \in 1 .. n : IsList(ss[k]) /\ \A j \in 1 .. Len(ss[k]) : ss[k][j] \in T
  PROVE  FlattenSeq(ss) \in Seq(T)
  <1>1. ASSUME NEW k \in 1 .. n PROVE ss[k] \in Seq(T)
    <2>1. ElementsOf(ss[k]) \subseteq T
      BY DEF ElementsOf
    <2>2. QED
      BY <2>1, ListIsSeq
  <1>2. ASSUME NEW k \in 1 .. n PROVE ToSet(ss[k]) \subseteq T
    BY <1>1 DEF ToSet
  <1>3. OrderedParts(T, T \X T, n, ss)
    <2>1. \A k \in 1 .. n : OrderedBy(T \X T, ss[k])
      BY <1>1 DEF OrderedBy
    <2>2. ss \in [1 .. n -> Seq(T)]
      BY <1>1
    <2>3. QED
      BY <1>2, <2>1, <2>2 DEF OrderedParts
  <1>4. QED
    BY <1>3, FlattenOrdered

LEMMA PiecesInPlace ==
  ASSUME NEW cols, IsFrame(cols), NEW col \in DOMAIN cols, cols[col].dtype = "String",
         NEW h, h = Height(cols)
  PROVE  /\ InPlace(AllPieces(cols, col), cols[col], h, [r \in 1 .. h |-> Pieces(cols[col], r - 1)])
         /\ \A k \in 1 .. Len(AllPieces(cols, col)) : CellFits("String", AllPieces(cols, col)[k])
  <1>1. PICK s, ss, all : /\ s = cols[col] /\ ss = [r \in 1 .. h |-> Pieces(s, r - 1)]
                          /\ all = AllPieces(cols, col)
    OBVIOUS
  <1>2. IsSeries(s) /\ s.dtype = "String" /\ h = s.arr.length /\ h \in Nat
    BY <1>1, HeightIs DEF IsFrame
  <1>3. all = FlattenSeq(ss)
    BY <1>1 DEF AllPieces
  <1>4. DOMAIN ss = 1 .. h /\ ss = [r \in 1 .. h |-> ss[r]]
    BY <1>1
  <1>5. ASSUME NEW r \in 1 .. h
        PROVE  /\ IsList(ss[r]) /\ Len(ss[r]) = PieceCounts(s, h)[r - 1]
               /\ \A j \in 1 .. Len(ss[r]) : CellFits("String", ss[r][j])
    <2>1. r - 1 \in 0 .. h - 1
      BY <1>2
    <2>2. ss[r] = Pieces(s, r - 1)
      BY <1>1
    <2>3. QED
      BY <1>2, <2>1, <2>2, PiecesAt
  <1>6. InPlace(FlattenSeq(ss), s, h, ss)
    BY <1>2, <1>4, <1>5, FlattenInPlace
  <1>7. PICK T : T = {x \in UNION {ToSet(ss[r]) : r \in 1 .. h} : CellFits("String", x)}
    OBVIOUS
  <1>8. ASSUME NEW r \in 1 .. h, NEW j \in 1 .. Len(ss[r]) PROVE ss[r][j] \in T
    <2>1. j \in Nat /\ j \in DOMAIN ss[r]
      BY <1>5 DEF IsList
    <2>2. ss[r][j] \in ToSet(ss[r])
      BY <2>1 DEF ToSet
    <2>3. CellFits("String", ss[r][j])
      BY <1>5
    <2>4. QED
      BY <1>7, <2>1, <2>2, <2>3
  <1>9. FlattenSeq(ss) \in Seq(T)
    BY <1>2, <1>4, <1>5, <1>8, FlattenWithin
  <1>10. \A k \in 1 .. Len(all) : all[k] \in T
    BY <1>3, <1>9
  <1>11. \A k \in 1 .. Len(all) : CellFits("String", all[k])
    BY <1>7, <1>10
  <1>12. QED
    BY <1>1, <1>3, <1>6, <1>11

LEMMA RowsInPlace ==
  ASSUME NEW cols, IsFrame(cols), NEW col \in DOMAIN cols, cols[col].dtype = "String",
         NEW h, h = Height(cols)
  PROVE  /\ InPlace(ExplodedRows(cols, col), cols[col], h,
                    [r \in 1 .. h |-> [k \in DOMAIN Pieces(cols[col], r - 1) |-> r - 1]])
         /\ \A k \in 1 .. Len(ExplodedRows(cols, col)) : ExplodedRows(cols, col)[k] \in 0 .. h - 1
  <1>1. PICK s, ss, all : /\ s = cols[col] /\ ss = [r \in 1 .. h |-> [k \in DOMAIN Pieces(s, r - 1) |-> r - 1]]
                          /\ all = ExplodedRows(cols, col)
    OBVIOUS
  <1>2. IsSeries(s) /\ s.dtype = "String" /\ h = s.arr.length /\ h \in Nat
    BY <1>1, HeightIs DEF IsFrame
  <1>3. all = FlattenSeq(ss)
    BY <1>1 DEF ExplodedRows
  <1>4. DOMAIN ss = 1 .. h /\ ss = [r \in 1 .. h |-> ss[r]]
    BY <1>1
  <1>5. ASSUME NEW r \in 1 .. h
        PROVE  /\ IsList(ss[r]) /\ Len(ss[r]) = PieceCounts(s, h)[r - 1]
               /\ \A j \in 1 .. Len(ss[r]) : ss[r][j] \in 0 .. h - 1
    <2>1. r - 1 \in 0 .. h - 1
      BY <1>2
    <2>2. PICK p, n, q : p = Pieces(s, r - 1) /\ n = PieceCounts(s, h)[r - 1] /\ q = [k \in DOMAIN p |-> r - 1]
      OBVIOUS
    <2>3. IsList(p) /\ Len(p) = n /\ n \in Nat
      BY <1>2, <2>1, <2>2, PiecesAt
    <2>4. DOMAIN q = 1 .. n /\ q = [k \in 1 .. n |-> q[k]] /\ \A k \in 1 .. n : q[k] = r - 1
      BY <2>2, <2>3 DEF IsList
    <2>5. IsList(q) /\ Len(q) = n
      BY <2>3, <2>4, ListOf
    <2>6. ss[r] = q
      BY <1>1, <2>2
    <2>7. QED
      BY <2>1, <2>2, <2>4, <2>5, <2>6
  <1>6. InPlace(FlattenSeq(ss), s, h, ss)
    BY <1>2, <1>4, <1>5, FlattenInPlace
  <1>7. PICK T : T = 0 .. h - 1
    OBVIOUS
  <1>8. all \in Seq(T)
    <2>1. \A r \in 1 .. h : IsList(ss[r]) /\ \A j \in 1 .. Len(ss[r]) : ss[r][j] \in T
      BY <1>5, <1>7
    <2>2. QED
      BY <1>2, <1>3, <1>4, <2>1, FlattenWithin
  <1>9. \A k \in 1 .. Len(all) : all[k] \in T
    BY <1>8
  <1>10. QED
    BY <1>1, <1>3, <1>6, <1>7, <1>9

LEMMA ExplodedPieces ==
  ASSUME NEW cols, IsFrame(cols), NEW col \in DOMAIN cols, cols[col].dtype = "String",
         NEW h, h = Height(cols), NEW z, z = Build(cols[col].name, "String", AllPieces(cols, col))
  PROVE  /\ z.arr.length = PiecesBefore(cols[col], h, h)
         /\ \A i \in 0 .. h - 1 : \A k \in 1 .. PieceCounts(cols[col], h)[i] :
              Cell(z, PiecesBefore(cols[col], h, i) + k - 1) = Pieces(cols[col], i)[k]
  <1>1. PICK s, all, n, ss : /\ s = cols[col] /\ all = AllPieces(cols, col) /\ n = Len(all)
                             /\ ss = [r \in 1 .. h |-> Pieces(cols[col], r - 1)]
    OBVIOUS
  <1>2. InPlace(all, s, h, ss) /\ \A k \in 1 .. n : CellFits("String", all[k])
    BY <1>1, PiecesInPlace
  <1>3. n \in Nat /\ n = PiecesBefore(s, h, h) /\ h \in Nat
    <2>1. IsList(all) /\ Len(all) = PiecesBefore(s, h, h)
      BY <1>2 DEF InPlace
    <2>2. Len(all) \in Nat
      BY <2>1 DEF IsList
    <2>3. h \in Nat
      BY HeightIs
    <2>4. QED
      BY <1>1, <2>1, <2>2, <2>3
  <1>4. z.arr.length = n
    <2>1. Len(all) = n /\ z = Build(cols[col].name, "String", all)
      BY <1>1
    <2>2. QED
      BY <1>3, <2>1, BuiltFits
  <1>5. \A k \in 1 .. n : Cell(Build(cols[col].name, "String", all), k - 1) = all[k]
    <2>1. Len(all) = n
      BY <1>1
    <2>2. QED
      BY <1>2, <1>3, <2>1, BuiltCells
  <1>6. ASSUME NEW i \in 0 .. h - 1, NEW k \in 1 .. PieceCounts(s, h)[i]
        PROVE  Cell(z, PiecesBefore(s, h, i) + k - 1) = Pieces(s, i)[k]
    <2>1. PICK b, j : b = PiecesBefore(s, h, i) /\ j = b + k
      OBVIOUS
    <2>2. b \in Nat /\ all[j] = ss[i + 1][k] /\ j \in 1 .. n
      BY <1>1, <1>2, <2>1 DEF InPlace
    <2>3. Cell(z, j - 1) = all[j]
      BY <1>1, <1>5, <2>2
    <2>4. ss[i + 1] = Pieces(s, i)
      <3>1. i + 1 \in 1 .. h /\ (i + 1) - 1 = i
        BY <1>3
      <3>2. ss[i + 1] = Pieces(s, (i + 1) - 1)
        BY <1>1, <3>1
      <3>3. QED
        BY <3>1, <3>2
    <2>5. b + k - 1 = j - 1
      BY <2>1, <2>2
    <2>6. QED
      BY <2>1, <2>2, <2>3, <2>4, <2>5
  <1>7. QED
    BY <1>1, <1>3, <1>4, <1>6

LEMMA ExplodedOther ==
  ASSUME NEW cols, IsFrame(cols), NEW col \in DOMAIN cols, cols[col].dtype = "String",
         NEW h, h = Height(cols), NEW c \in DOMAIN cols, cols[c].dtype \in Buildable,
         NEW z, z = Copied(cols[c], ExplodedRows(cols, col))
  PROVE  /\ z.arr.length = PiecesBefore(cols[col], h, h)
         /\ \A i \in 0 .. h - 1 : \A k \in 1 .. PieceCounts(cols[col], h)[i] :
              Cell(z, PiecesBefore(cols[col], h, i) + k - 1) = Cell(cols[c], i)
  <1>1. PICK s, all, n, ss, t : /\ s = cols[col] /\ all = ExplodedRows(cols, col) /\ n = Len(all) /\ t = cols[c]
                                /\ ss = [r \in 1 .. h |-> [k \in DOMAIN Pieces(cols[col], r - 1) |-> r - 1]]
    OBVIOUS
  <1>2. InPlace(all, s, h, ss) /\ \A k \in 1 .. n : all[k] \in 0 .. h - 1
    BY <1>1, RowsInPlace
  <1>3. n \in Nat /\ n = PiecesBefore(s, h, h) /\ h \in Nat /\ IsList(all)
    BY <1>1, <1>2, HeightIs DEF InPlace, IsList
  <1>4. IsSeries(t) /\ t.arr.length = h /\ IsSeries(s) /\ s.arr.length = h /\ s.dtype = "String"
    BY <1>1 DEF IsFrame
  <1>5. z.arr.length = n /\ \A k \in 1 .. n : Cell(z, k - 1) = Cell(t, all[k])
    <2>1. \A k \in 1 .. n : all[k] \in 0 .. t.arr.length - 1
      BY <1>2, <1>4
    <2>2. t.dtype \in Buildable /\ Len(all) = n
      BY <1>1
    <2>3. /\ Copied(t, all).arr.length = n
          /\ \A k \in 1 .. n : Cell(Copied(t, all), k - 1) = Cell(t, all[k])
      BY <1>3, <1>4, <2>1, <2>2, CopiedCells
    <2>4. QED
      BY <1>1, <2>3
  <1>6. ASSUME NEW i \in 0 .. h - 1, NEW k \in 1 .. PieceCounts(s, h)[i]
        PROVE  Cell(z, PiecesBefore(s, h, i) + k - 1) = Cell(t, i)
    <2>1. PICK b, j : b = PiecesBefore(s, h, i) /\ j = b + k
      OBVIOUS
    <2>2. b \in Nat /\ all[j] = ss[i + 1][k] /\ j \in 1 .. n
      BY <1>1, <1>2, <2>1 DEF InPlace
    <2>3. Cell(z, j - 1) = Cell(t, all[j])
      BY <1>5, <2>2
    <2>4. ss[i + 1][k] = i
      <3>1. i + 1 \in 1 .. h /\ (i + 1) - 1 = i
        BY <1>3
      <3>2. ss[i + 1] = [m \in DOMAIN Pieces(s, (i + 1) - 1) |-> (i + 1) - 1]
        BY <1>1, <3>1
      <3>3. IsList(Pieces(s, i)) /\ Len(Pieces(s, i)) = PieceCounts(s, h)[i]
        BY <1>4, PiecesAt
      <3>4. k \in DOMAIN Pieces(s, i)
        BY <3>3 DEF IsList
      <3>5. QED
        BY <3>1, <3>2, <3>4
    <2>5. b + k - 1 = j - 1
      BY <2>1, <2>2
    <2>6. QED
      BY <2>1, <2>2, <2>3, <2>4, <2>5
  <1>7. QED
    BY <1>1, <1>3, <1>4, <1>5, <1>6

LEMMA ExplodeKeeps ==
  ASSUME NEW cols, IsFrame(cols), NEW col \in DOMAIN cols, NEW h, h = Height(cols),
         \A c \in DOMAIN cols : cols[c].dtype \in Buildable, NEW f, f = Explode(cols, col), f # nil
  PROVE  /\ cols[col].dtype = "String" /\ f.height = PiecesBefore(cols[col], h, h)
         /\ Exploded(f.cols, cols, col, h)
  <1>1. PICK z : z = [c \in DOMAIN cols |-> IF c = col THEN Build(cols[c].name, "String", AllPieces(cols, col))
                                            ELSE Copied(cols[c], ExplodedRows(cols, col))]
    OBVIOUS
  <1>2. cols[col].dtype = "String" /\ f = New(z)
    BY <1>1, ExplodeUnfolds
  <1>3. f.cols = z /\ f.height = Height(z)
    BY <1>2 DEF New
  <1>4. ASSUME NEW c \in DOMAIN cols
        PROVE  /\ z[c].arr.length = PiecesBefore(cols[col], h, h)
               /\ \A i \in 0 .. h - 1 : \A k \in 1 .. PieceCounts(cols[col], h)[i] :
                    Cell(z[c], PiecesBefore(cols[col], h, i) + k - 1)
                      = IF c = col THEN Pieces(cols[col], i)[k] ELSE Cell(cols[c], i)
    <2>1. CASE c = col
      <3>1. z[c] = Build(cols[col].name, "String", AllPieces(cols, col))
        BY <1>1, <2>1
      <3>2. QED
        BY <1>2, <2>1, <3>1, ExplodedPieces
    <2>2. CASE c # col
      <3>1. z[c] = Copied(cols[c], ExplodedRows(cols, col))
        BY <1>1, <2>2
      <3>2. QED
        BY <1>2, <2>2, <3>1, ExplodedOther
    <2>3. QED
      BY <2>1, <2>2
  <1>5. DOMAIN z = DOMAIN cols
    BY <1>1
  <1>6. Exploded(z, cols, col, h)
    BY <1>4, <1>5 DEF Exploded
  <1>7. Height(z) = PiecesBefore(cols[col], h, h)
    <2>1. 1 \in DOMAIN cols
      BY DEF IsFrame
    <2>2. QED
      BY <1>4, <2>1 DEF Height
  <1>8. QED
    BY <1>2, <1>3, <1>6, <1>7

(* What the pieces of a row are in the result                              *)
RowCells(z, s, h, i) == [k \in 1 .. PieceCounts(s, h)[i] |-> Cell(z, PiecesBefore(s, h, i) + k - 1)]

LEMMA RowExploded ==
  ASSUME NEW z, NEW cols, IsFrame(cols), NEW col \in DOMAIN cols, cols[col].dtype = "String",
         NEW h, h = Height(cols), Exploded(z, cols, col, h), NEW i \in 0 .. h - 1, NEW c \in DOMAIN cols
  PROVE  IF c # col THEN \A k \in 1 .. PieceCounts(cols[col], h)[i] : RowCells(z[c], cols[col], h, i)[k] = Cell(cols[c], i)
         ELSE IF Cell(cols[col], i) = Null THEN RowCells(z[c], cols[col], h, i) = <<Null>>
         ELSE Letters(FlattenSeq(RowCells(z[c], cols[col], h, i))) = Letters(Cell(cols[col], i))
  <1>1. PICK s, n, part, b : /\ s = cols[col] /\ n = PieceCounts(s, h)[i] /\ part = RowCells(z[c], s, h, i)
                             /\ b = PiecesBefore(s, h, i)
    OBVIOUS
  <1>2. IsSeries(s) /\ s.dtype = "String" /\ h = s.arr.length
    BY <1>1 DEF IsFrame
  <1>3. part = [k \in 1 .. n |-> Cell(z[c], b + k - 1)]
    BY <1>1 DEF RowCells
  <1>4. \A k \in 1 .. n : Cell(z[c], b + k - 1) = IF c = col THEN Pieces(s, i)[k] ELSE Cell(cols[c], i)
    BY <1>1 DEF Exploded
  <1>5. CASE c # col
    BY <1>1, <1>3, <1>4, <1>5
  <1>6. CASE c = col
    <2>1. /\ IsList(Pieces(s, i)) /\ Len(Pieces(s, i)) = n
          /\ Cell(s, i) = Null => Pieces(s, i) = <<Null>>
          /\ Cell(s, i) # Null => Letters(FlattenSeq(Pieces(s, i))) = Letters(Cell(s, i))
      BY <1>1, <1>2, PiecesAt
    <2>2. Pieces(s, i) = [k \in 1 .. n |-> Pieces(s, i)[k]]
      BY <2>1 DEF IsList
    <2>3. part = [k \in 1 .. n |-> Pieces(s, i)[k]]
      BY <1>3, <1>4, <1>6
    <2>4. part = Pieces(s, i)
      BY <2>2, <2>3
    <2>5. QED
      BY <1>1, <1>6, <2>1, <2>4
  <1>7. QED
    BY <1>5, <1>6

(* The property, of any frame and result                                   *)
PiecesKept(cols, col, res, rows) ==
  LET s == cols[col]
      h == Height(cols)
  IN /\ res.height = PiecesBefore(s, h, h)
     /\ \A i \in rows : \A c \in DOMAIN cols :
          IF c # col THEN \A k \in 1 .. PieceCounts(s, h)[i] : RowCells(res.cols[c], s, h, i)[k] = Cell(cols[c], i)
          ELSE IF Cell(s, i) = Null THEN RowCells(res.cols[c], s, h, i) = <<Null>>
          ELSE Letters(FlattenSeq(RowCells(res.cols[c], s, h, i))) = Letters(Cell(s, i))

LEMMA KeepsPieces ==
  (phase = "done" /\ request.op = "explode" /\ result # nil /\ AllBuildable
   => PiecesKept(df, request.column, result, Rows)) => ExplodeKeepsPieces
  BY Zenon DEF ExplodeKeepsPieces, PiecesKept, PiecesBefore, PieceCounts, SumOver, RowCells, Letters, LetterPlaces,
               Commas, Rows

LEMMA QueryExplodes == QueryInv /\ ReshapeInv => ExplodeKeepsPieces
  <1> SUFFICES ASSUME QueryInv, ReshapeInv PROVE ExplodeKeepsPieces
    OBVIOUS
  <1>1. ASSUME request.op = "explode", result # nil, AllBuildable
        PROVE  PiecesKept(df, request.column, result, Rows)
    <2>1. PICK col, h, s : col = request.column /\ h = Height(df) /\ s = df[col]
      OBVIOUS
    <2>2. col \in DOMAIN df /\ result = Explode(df, col) /\ IsFrame(df) /\ \A c \in DOMAIN df : df[c].dtype \in Buildable
      BY <1>1, <2>1 DEF ReshapeInv, QueryInv, AllBuildable
    <2>3. s.dtype = "String" /\ result.height = PiecesBefore(s, h, h) /\ Exploded(result.cols, df, col, h)
      BY <1>1, <2>1, <2>2, ExplodeKeeps
    <2>4. ASSUME NEW i \in 0 .. h - 1, NEW c \in DOMAIN df
          PROVE  IF c # col THEN \A k \in 1 .. PieceCounts(s, h)[i] : RowCells(result.cols[c], s, h, i)[k] = Cell(df[c], i)
                 ELSE IF Cell(s, i) = Null THEN RowCells(result.cols[c], s, h, i) = <<Null>>
                 ELSE Letters(FlattenSeq(RowCells(result.cols[c], s, h, i))) = Letters(Cell(s, i))
      BY <2>1, <2>2, <2>3, RowExploded
    <2>5. Rows = 0 .. h - 1
      BY <2>1 DEF Rows
    <2>6. QED
      BY <2>1, <2>3, <2>4, <2>5 DEF PiecesKept
  <1>2. QED
    BY <1>1, KeepsPieces

\* Explode, for every frame of columns it has a case for: the rows of the result are
\* those of the frame, each as often as its text has pieces, in order; every letter of
\* a text is in one of its pieces, and the other cells of the row are next to each.
THEOREM ExplodeKeepsLetters == Spec => []ExplodeKeepsPieces
  <1>1. Init => QueryInv /\ FilterInv /\ FitInv /\ ReshapeInv
    BY InitQuery, InitFilter, InitFit, InitReshape
  <1>2. QueryInv /\ FilterInv /\ FitInv /\ ReshapeInv /\ [Next]_vars
        => (QueryInv /\ FilterInv /\ FitInv /\ ReshapeInv)'
    BY NextQuery, NextFilter, NextFit, NextReshape
  <1>3. QueryInv /\ ReshapeInv => ExplodeKeepsPieces
    BY QueryExplodes
  <1>4. QED
    BY <1>1, <1>2, <1>3, PTL DEF Spec

-----------------------------------------------------------------------------
\* However a query reshapes its frame, every cell is still with those it belongs to:
\* the three parts of the property the runs check, for all frames.
THEOREM ReshapingMovesCells == Spec => []ReshapeMovesCells
  <1>1. Spec => []PivotUndoesUnpivot /\ []TransposeTurnsRows /\ []ExplodeKeepsPieces
    BY PivotRestoresCells, TransposeKeepsCells, ExplodeKeepsLetters
  <1>2. PivotUndoesUnpivot /\ TransposeTurnsRows /\ ExplodeKeepsPieces => ReshapeMovesCells
    BY DEF ReshapeMovesCells
  <1>3. QED
    BY <1>1, <1>2, PTL
=============================================================================
