---------------------------- MODULE ColumnLemmas ----------------------------
(***************************************************************************)
(* What the operators of Bitmap, Columns, Concat, Reshape and Rolling      *)
(* return, for every word size and all columns.                            *)
(***************************************************************************)
EXTENDS Reshape, Rolling, DataLemmas

-----------------------------------------------------------------------------
(* The words of a bitmap                                                   *)

LEMMA Words ==
  /\ wordSize \in Nat \ {0}
  /\ \A p : p \in Positions <=> p \in Nat /\ p < wordSize
  BY WordSizeAssumption DEF Positions

(* Bit i is bit i % wordSize of word i \div wordSize.                      *)
LEMMA BitPlace ==
  ASSUME NEW i \in Nat
  PROVE  /\ i \div wordSize \in Nat /\ i % wordSize \in Positions
         /\ i = (i \div wordSize) * wordSize + (i % wordSize)
  <1>1. PICK w : w = wordSize
    OBVIOUS
  <1>2. w \in Nat \ {0}
    BY <1>1, Words
  <1>3. PICK a \in Nat, r \in 0..w-1 : i = w * a + r /\ i \div w = a /\ i % w = r
    BY <1>2, DivMod
  <1>4. i = (i \div w) * w + (i % w)
    BY <1>2, <1>3
  <1>5. i \div w \in Nat /\ i % w \in 0..w-1
    BY <1>3
  <1>6. QED
    BY <1>1, <1>4, <1>5 DEF Positions

LEMMA PlaceOfBit ==
  ASSUME NEW wi \in Nat, NEW p \in Positions
  PROVE  /\ wi * wordSize + p \in Nat
         /\ (wi * wordSize + p) \div wordSize = wi
         /\ (wi * wordSize + p) % wordSize = p
  <1>1. PICK w : w = wordSize
    OBVIOUS
  <1>2. w \in Nat \ {0} /\ p \in 0..w-1
    BY <1>1, Words
  <1>3. wi * w + p \in Nat /\ (wi * w + p) \div w = wi /\ (wi * w + p) % w = p
    BY <1>2
  <1>4. QED
    BY <1>1, <1>3

(* The words of n bits are those that begin before bit n.                  *)
LEMMA WordOf ==
  ASSUME NEW n \in Nat
  PROVE  \A wi : wi \in WordIndexes(n) <=> wi \in Nat /\ wi * wordSize < n
  <1>1. PICK w : w = wordSize
    OBVIOUS
  <1>2. w \in Nat \ {0}
    BY <1>1, Words
  <1>3. CASE n = 0
    <2>1. \A wi \in Nat : ~(wi * w < 0)
      BY <1>2
    <2>2. QED
      BY <1>1, <1>3, <2>1 DEF WordIndexes, wordsNeeded
  <1>4. CASE n > 0
    <2>1. PICK q \in Nat, r \in 0..w-1 : n + w - 1 = w * q + r /\ (n + w - 1) \div w = q
      BY <1>2, <1>4, DivMod
    <2>2. WordIndexes(n) = 0..q-1
      BY <1>1, <1>4, <2>1 DEF WordIndexes, wordsNeeded
    <2>3. ASSUME NEW wi \in 0..q-1 PROVE wi * w < n
      <3>1. wi \in Nat /\ wi * w \in Nat /\ wi * w + w <= q * w /\ q * w = w * q
        BY <1>2, <2>3, ProductGrows
      <3>2. QED
        BY <1>2, <2>1, <3>1
    <2>4. ASSUME NEW wi \in Nat, wi * w < n PROVE wi \in 0..q-1
      <3> SUFFICES ASSUME q <= wi PROVE FALSE
        BY <2>1
      <3>1. wi * w \in Nat /\ q * w <= wi * w /\ q * w = w * q
        BY <1>2, ProductGrows
      <3>2. QED
        BY <1>2, <2>1, <2>4, <3>1
    <2>5. QED
      BY <1>1, <2>2, <2>3, <2>4
  <1>5. QED
    BY <1>3, <1>4

-----------------------------------------------------------------------------
(* What the operations of a bitmap do to its bits                          *)

(* A bitmap whose bits past the length may be set.                         *)
Raw(b) ==
  /\ b = [data |-> b.data, len |-> b.len]
  /\ b.len \in Nat
  /\ b.data \in [WordIndexes(b.len) -> SUBSET Positions]

LEMMA RawParts ==
  ASSUME NEW b
  PROVE  IsBitmap(b) <=> Raw(b) /\ SlackClear(b)
  BY DEF IsBitmap, Raw

LEMMA BitOfWord ==
  ASSUME NEW b, Raw(b), NEW wi \in Nat, NEW p \in Positions, wi * wordSize + p < b.len
  PROVE  /\ wi \in WordIndexes(b.len)
         /\ IsSet(b, wi * wordSize + p) <=> p \in b.data[wi]
  <1>1. b.len \in Nat /\ p \in Nat /\ wi * wordSize \in Nat
    BY Words, ProductGrows DEF Raw
  <1>2. wi \in WordIndexes(b.len)
    BY <1>1, WordOf
  <1>3. PICK i : i = wi * wordSize + p
    OBVIOUS
  <1>4. i \in Nat /\ i < b.len /\ i \div wordSize = wi /\ i % wordSize = p
    BY <1>3, PlaceOfBit
  <1>5. IsSet(b, i) <=> p \in b.data[wi]
    <2>1. InRange(b, i)
      BY <1>1, <1>4 DEF InRange
    <2>2. IsSet(b, i) <=> (i % wordSize) \in b.data[i \div wordSize]
      BY <2>1 DEF IsSet
    <2>3. QED
      BY <1>4, <2>2
  <1>6. QED
    BY <1>2, <1>3, <1>5

(* Every bit of a bitmap is one of a word.                                 *)
LEMMA WordOfBit ==
  ASSUME NEW b, Raw(b), NEW i \in 0 .. b.len - 1
  PROVE  \E wi \in WordIndexes(b.len) : \E p \in Positions :
           i = wi * wordSize + p /\ (IsSet(b, i) <=> p \in b.data[wi])
  <1>1. b.len \in Nat /\ i \in Nat /\ i < b.len
    BY DEF Raw
  <1>2. PICK wi, p : wi = i \div wordSize /\ p = i % wordSize
    OBVIOUS
  <1>3. wi \in Nat /\ p \in Positions /\ i = wi * wordSize + p
    BY <1>1, <1>2, BitPlace
  <1>4. wi \in WordIndexes(b.len) /\ (IsSet(b, i) <=> p \in b.data[wi])
    BY <1>1, <1>3, BitOfWord
  <1>5. QED
    BY <1>3, <1>4

LEMMA SlackCleared ==
  ASSUME NEW b, Raw(b)
  PROVE  /\ IsBitmap(clearTrailingBits(b)) /\ clearTrailingBits(b).len = b.len
         /\ \A i \in 0 .. b.len - 1 : IsSet(clearTrailingBits(b), i) <=> IsSet(b, i)
  <1>1. PICK n, q, rem, c : /\ n = b.len /\ q = n \div wordSize /\ rem = n % wordSize
                            /\ c = clearTrailingBits(b)
    OBVIOUS
  <1>2. n \in Nat /\ q \in Nat /\ rem \in Positions /\ n = q * wordSize + rem /\ rem \in Nat
    BY <1>1, BitPlace, Words DEF Raw
  <1>2a. q * wordSize \in Nat /\ wordSize \in Nat \ {0}
    BY <1>2, Words, ProductGrows
  <1>3. ASSUME NEW wi \in WordIndexes(n)
        PROVE  wi \in Nat /\ wi * wordSize \in Nat /\ wi <= q /\ (wi < q => wi * wordSize + wordSize <= n)
    <2>1. wi \in Nat /\ wi * wordSize < n
      BY <1>2, WordOf
    <2>2. wi * wordSize \in Nat /\ (wi < q => wi * wordSize + wordSize <= q * wordSize)
          /\ (q < wi => q * wordSize + wordSize <= wi * wordSize)
      BY <1>2, <2>1, Words, ProductGrows
    <2>3. rem < wordSize
      BY <1>2, Words
    <2>4. QED
      BY <1>2, <1>2a, <2>1, <2>2, <2>3
  <1>4. CASE n = 0 \/ rem = 0
    <2>1. c = b
      BY <1>1, <1>4 DEF clearTrailingBits
    <2>2. ASSUME NEW wi \in WordIndexes(n), NEW p \in b.data[wi] PROVE wi * wordSize + p < n
      <3>1. p \in Nat /\ p < wordSize
        BY <1>1, <2>2, Words DEF Raw
      <3>2. wi < q
        <4>1. wi * wordSize < n /\ wi \in Nat
          BY <1>2, <2>2, WordOf
        <4>2. n = q * wordSize
          BY <1>2, <1>2a, <1>4, <4>1, <1>3
        <4>3. wi # q
          BY <4>1, <4>2, <1>2
        <4>4. QED
          BY <1>2, <1>3, <2>2, <4>1, <4>3
      <3>3. QED
        BY <1>2, <1>2a, <1>3, <2>2, <3>1, <3>2
    <2>3. SlackClear(b)
      BY <1>1, <2>2 DEF SlackClear, Raw
    <2>4. QED
      BY <1>1, <2>1, <2>3, RawParts
  <1>5. CASE n # 0 /\ rem # 0
    <2>1. wordsNeeded(n) - 1 = q
      <3>1. PICK w : w = wordSize
        OBVIOUS
      <3>2. w \in Nat \ {0} /\ rem - 1 \in 0..w-1 /\ n = q * w + rem
        BY <1>2, <1>5, <3>1, Words
      <3>3. n + w - 1 = (q + 1) * w + (rem - 1)
        <4>1. (q + 1) * w = q * w + w /\ q * w \in Nat
          BY <1>2, <3>2, ProductGrows
        <4>2. QED
          BY <1>2, <3>2, <4>1
      <3>4. (n + w - 1) \div w = q + 1
        <4>1. q + 1 \in Nat /\ rem - 1 \in Positions
          BY <1>2, <3>1, <3>2 DEF Positions
        <4>2. ((q + 1) * wordSize + (rem - 1)) \div wordSize = q + 1
          BY <4>1, PlaceOfBit
        <4>3. QED
          BY <3>1, <3>3, <4>2
      <3>5. QED
        BY <1>2, <1>5, <3>1, <3>4 DEF wordsNeeded
    <2>2. c = [b EXCEPT !.data[q] = @ \cap LowBits(rem)]
      BY <1>1, <1>5, <2>1 DEF clearTrailingBits
    <2>3. /\ c = [data |-> c.data, len |-> n] /\ c.len = n
          /\ c.data = [wi \in WordIndexes(n) |-> IF wi = q THEN b.data[q] \cap LowBits(rem) ELSE b.data[wi]]
      BY <1>1, <2>2 DEF Raw
    <2>4. Raw(c)
      BY <1>1, <1>2, <2>3 DEF Raw
    <2>5. SlackClear(c)
      <3>1. ASSUME NEW wi \in WordIndexes(n), NEW p \in c.data[wi] PROVE wi * wordSize + p < n
        <4>1. p \in Nat /\ p < wordSize
          BY <2>3, <2>4, <3>1, Words DEF Raw
        <4>2. wi = q => p < rem
          BY <1>2, <2>3, <3>1 DEF LowBits
        <4>3. wi < q \/ wi = q
          BY <1>2, <1>3, <3>1
        <4>4. QED
          BY <1>2, <1>2a, <1>3, <3>1, <4>1, <4>2, <4>3
      <3>2. QED
        BY <2>3, <3>1 DEF SlackClear
    <2>6. ASSUME NEW i \in 0 .. n - 1 PROVE IsSet(c, i) <=> IsSet(b, i)
      <3>1. PICK wi \in WordIndexes(n), p \in Positions :
               i = wi * wordSize + p /\ (IsSet(b, i) <=> p \in b.data[wi])
        BY <1>1, <2>6, WordOfBit
      <3>2. IsSet(c, i) <=> p \in c.data[wi]
        BY <1>2, <1>3, <2>3, <2>4, <2>6, <3>1, BitOfWord
      <3>3. wi = q => p \in LowBits(rem)
        <4>1. p \in Nat
          BY Words
        <4>2. QED
          BY <1>2, <1>2a, <2>6, <3>1, <4>1 DEF LowBits
      <3>4. QED
        BY <2>3, <3>1, <3>2, <3>3
    <2>7. QED
      BY <1>1, <2>3, <2>4, <2>5, <2>6, RawParts
  <1>6. QED
    BY <1>4, <1>5

LEMMA NewBits ==
  ASSUME NEW n \in Nat
  PROVE  IsBitmapOf(NewBitmap(n), n) /\ \A i \in 0 .. n - 1 : IsSet(NewBitmap(n), i)
  <1>1. PICK b : b = [data |-> [wi \in WordIndexes(n) |-> AllOnes], len |-> n]
    OBVIOUS
  <1>2. Raw(b) /\ b.len = n /\ \A wi \in WordIndexes(n) : b.data[wi] = Positions
    BY <1>1 DEF Raw, AllOnes
  <1>3. \A i \in 0 .. n - 1 : IsSet(b, i)
    BY <1>2, WordOfBit
  <1>4. NewBitmap(n) = clearTrailingBits(b)
    BY <1>1 DEF NewBitmap
  <1>5. QED
    BY <1>2, <1>3, <1>4, SlackCleared DEF IsBitmapOf

LEMMA EmptyBits ==
  ASSUME NEW n \in Nat
  PROVE  IsBitmapOf(NewEmpty(n), n) /\ \A i \in 0 .. n - 1 : ~IsSet(NewEmpty(n), i)
  <1>1. PICK b : b = NewEmpty(n)
    OBVIOUS
  <1>2. Raw(b) /\ b.len = n /\ \A wi \in WordIndexes(n) : b.data[wi] = {}
    BY <1>1 DEF Raw, NewEmpty
  <1>3. \A i \in 0 .. n - 1 : ~IsSet(b, i)
    BY <1>2, WordOfBit
  <1>4. SlackClear(b)
    BY <1>2 DEF SlackClear, Raw
  <1>5. QED
    BY <1>1, <1>2, <1>3, <1>4, RawParts DEF IsBitmapOf

LEMMA BitsSet ==
  ASSUME NEW b, IsBitmap(b), NEW S, S \subseteq 0 .. b.len - 1
  PROVE  /\ IsBitmapOf(SetAll(b, S), b.len)
         /\ \A i \in 0 .. b.len - 1 : IsSet(SetAll(b, S), i) <=> IsSet(b, i) \/ i \in S
  <1>1. PICK c : c = SetAll(b, S)
    OBVIOUS
  <1>2. Raw(b) /\ SlackClear(b) /\ b.len \in Nat
    BY RawParts DEF Raw
  <1>3. /\ Raw(c) /\ c.len = b.len /\ DOMAIN b.data = WordIndexes(b.len)
        /\ \A wi \in WordIndexes(b.len) : c.data[wi] = b.data[wi] \cup BitsIn(S, wi)
    <2>1. \A i \in S : InRange(b, i)
      BY <1>2 DEF InRange
    <2>2. c = [b EXCEPT !.data = [wi \in DOMAIN b.data |-> @[wi] \cup BitsIn(S, wi)]]
      BY <1>1, <2>1 DEF SetAll
    <2>3. \A wi : BitsIn(S, wi) \subseteq Positions
      BY DEF BitsIn
    <2>4. QED
      BY <1>2, <2>2, <2>3 DEF Raw
  <1>4. SlackClear(c)
    BY <1>2, <1>3 DEF SlackClear, BitsIn, Raw
  <1>5. ASSUME NEW i \in 0 .. b.len - 1 PROVE IsSet(c, i) <=> IsSet(b, i) \/ i \in S
    <2>1. PICK wi \in WordIndexes(b.len), p \in Positions :
             i = wi * wordSize + p /\ (IsSet(b, i) <=> p \in b.data[wi])
      BY <1>2, WordOfBit
    <2>2. IsSet(c, i) <=> p \in c.data[wi]
      <3>1. wi \in Nat /\ i < c.len
        BY <1>2, <1>3, WordOf
      <3>2. QED
        BY <1>3, <2>1, <3>1, BitOfWord
    <2>3. p \in BitsIn(S, wi) <=> i \in S
      BY <2>1 DEF BitsIn
    <2>4. QED
      BY <1>3, <2>1, <2>2, <2>3
  <1>6. QED
    BY <1>1, <1>3, <1>4, <1>5, RawParts DEF IsBitmapOf

LEMMA BitsCleared ==
  ASSUME NEW b, IsBitmap(b), NEW S, S \subseteq 0 .. b.len - 1
  PROVE  /\ IsBitmapOf(ClearAll(b, S), b.len)
         /\ \A i \in 0 .. b.len - 1 : IsSet(ClearAll(b, S), i) <=> IsSet(b, i) /\ i \notin S
  <1>1. PICK c : c = ClearAll(b, S)
    OBVIOUS
  <1>2. Raw(b) /\ SlackClear(b) /\ b.len \in Nat
    BY RawParts DEF Raw
  <1>3. /\ Raw(c) /\ c.len = b.len /\ DOMAIN b.data = WordIndexes(b.len)
        /\ \A wi \in WordIndexes(b.len) : c.data[wi] = b.data[wi] \ BitsIn(S, wi)
    <2>1. \A i \in S : InRange(b, i)
      BY <1>2 DEF InRange
    <2>2. c = [b EXCEPT !.data = [wi \in DOMAIN b.data |-> @[wi] \ BitsIn(S, wi)]]
      BY <1>1, <2>1 DEF ClearAll
    <2>3. QED
      BY <1>2, <2>2 DEF Raw
  <1>4. SlackClear(c)
    BY <1>2, <1>3 DEF SlackClear, Raw
  <1>5. ASSUME NEW i \in 0 .. b.len - 1 PROVE IsSet(c, i) <=> IsSet(b, i) /\ i \notin S
    <2>1. PICK wi \in WordIndexes(b.len), p \in Positions :
             i = wi * wordSize + p /\ (IsSet(b, i) <=> p \in b.data[wi])
      BY <1>2, WordOfBit
    <2>2. IsSet(c, i) <=> p \in c.data[wi]
      <3>1. wi \in Nat /\ i < c.len
        BY <1>2, <1>3, WordOf
      <3>2. QED
        BY <1>3, <2>1, <3>1, BitOfWord
    <2>3. p \in BitsIn(S, wi) <=> i \in S
      BY <2>1 DEF BitsIn
    <2>4. QED
      BY <1>3, <2>1, <2>2, <2>3
  <1>6. QED
    BY <1>1, <1>3, <1>4, <1>5, RawParts DEF IsBitmapOf

(* Bit i of the slice is bit start + i: words that begin at a word         *)
LEMMA AlignedBits ==
  ASSUME NEW b, IsBitmap(b), NEW start \in Nat, NEW n \in Nat, n > 0, start + n <= b.len,
         start % wordSize = 0
  PROVE  /\ IsBitmapOf(AlignedSlice(b, start, n), n)
         /\ \A i \in 0 .. n - 1 : IsSet(AlignedSlice(b, start, n), i) <=> IsSet(b, start + i)
  <1>1. PICK c, from, q, rem : /\ c = AlignedSlice(b, start, n) /\ from = start \div wordSize
                               /\ q = n \div wordSize /\ rem = n % wordSize
    OBVIOUS
  <1>2. Raw(b) /\ b.len \in Nat
    BY RawParts DEF Raw
  <1>3. /\ q \in Nat /\ rem \in Nat /\ rem < wordSize /\ n = q * wordSize + rem
        /\ from \in Nat /\ start = from * wordSize /\ wordSize \in Nat \ {0}
    <2>1. from \in Nat /\ from * wordSize \in Nat /\ start = from * wordSize + (start % wordSize)
      BY <1>1, BitPlace, Words, ProductGrows
    <2>2. QED
      BY <1>1, <2>1, BitPlace, Words
  <1>4. /\ c = [data |-> c.data, len |-> n]
        /\ c.data = [wi \in WordIndexes(n) |-> IF wi < q THEN b.data[from + wi]
                                              ELSE b.data[from + wi] \cap LowBits(rem)]
    BY <1>1 DEF AlignedSlice
  <1>5. ASSUME NEW wi \in WordIndexes(n)
        PROVE  /\ wi \in Nat /\ wi * wordSize \in Nat /\ from + wi \in WordIndexes(b.len)
               /\ (from + wi) * wordSize = start + wi * wordSize
               /\ wi < q => wi * wordSize + wordSize <= n
               /\ ~(wi < q) => wi = q
    <2>1. wi \in Nat /\ wi * wordSize < n
      BY WordOf
    <2>2. wi * wordSize \in Nat /\ (wi < q => wi * wordSize + wordSize <= q * wordSize)
          /\ (q < wi => q * wordSize + wordSize <= wi * wordSize) /\ q * wordSize \in Nat
      BY <1>3, <2>1, ProductGrows
    <2>3. (from + wi) * wordSize = from * wordSize + wi * wordSize
      BY <1>3, <2>1
    <2>4. (from + wi) * wordSize < b.len
      BY <1>2, <1>3, <2>1, <2>2, <2>3
    <2>5. from + wi \in WordIndexes(b.len)
      BY <1>2, <1>3, <2>1, <2>4, WordOf
    <2>6. QED
      BY <1>3, <2>1, <2>2, <2>3, <2>5
  <1>6. Raw(c)
    <2>1. \A wi \in WordIndexes(n) : c.data[wi] \in SUBSET Positions
      BY <1>2, <1>4, <1>5 DEF Raw
    <2>2. QED
      BY <1>4, <2>1 DEF Raw
  <1>7. SlackClear(c)
    <2>1. ASSUME NEW wi \in WordIndexes(n), NEW p \in c.data[wi] PROVE wi * wordSize + p < n
      <3>1. p \in Nat /\ p < wordSize
        BY <1>4, <1>6, <2>1, Words DEF Raw
      <3>2. CASE wi < q
        BY <1>3, <1>5, <2>1, <3>1, <3>2
      <3>3. CASE ~(wi < q)
        <4>1. wi = q /\ p < rem
          BY <1>3, <1>4, <1>5, <2>1, <3>3 DEF LowBits
        <4>2. wi * wordSize = q * wordSize /\ wi * wordSize \in Nat
          BY <1>5, <2>1, <4>1
        <4>3. QED
          BY <1>3, <3>1, <4>1, <4>2
      <3>4. QED
        BY <3>2, <3>3
    <2>2. QED
      BY <1>4, <2>1 DEF SlackClear
  <1>8. ASSUME NEW i \in 0 .. n - 1 PROVE IsSet(c, i) <=> IsSet(b, start + i)
    <2>1. PICK wi \in WordIndexes(n), p \in Positions :
             i = wi * wordSize + p /\ (IsSet(c, i) <=> p \in c.data[wi])
      BY <1>4, <1>6, <1>8, WordOfBit
    <2>2. p \in Nat
      BY Words
    <2>3. start + i = (from + wi) * wordSize + p
      BY <1>5, <2>1, <2>2
    <2>4. IsSet(b, start + i) <=> p \in b.data[from + wi]
      <3>1. (from + wi) * wordSize + p < b.len /\ from + wi \in Nat
        BY <1>2, <1>3, <1>5, <1>8, <2>1, <2>3
      <3>2. QED
        BY <1>2, <2>3, <3>1, BitOfWord
    <2>5. ~(wi < q) => p \in LowBits(rem)
      <3>1. SUFFICES ASSUME ~(wi < q) PROVE p \in LowBits(rem)
        OBVIOUS
      <3>2. wi = q /\ wi * wordSize \in Nat
        BY <1>5, <2>1, <3>1
      <3>3. q * wordSize + p < q * wordSize + rem /\ q * wordSize \in Nat
        BY <1>3, <1>8, <2>1, <3>2
      <3>4. QED
        BY <1>3, <2>2, <3>3 DEF LowBits
    <2>6. QED
      BY <1>4, <2>1, <2>4, <2>5
  <1>9. QED
    BY <1>1, <1>4, <1>6, <1>7, <1>8, RawParts DEF IsBitmapOf

(* and words that are made of two                                          *)
LEMMA ShiftedBits ==
  ASSUME NEW b, IsBitmap(b), NEW start \in Nat, NEW n \in Nat, n > 0, start + n <= b.len,
         start % wordSize # 0
  PROVE  /\ IsBitmapOf(ShiftedSlice(b, start, n), n)
         /\ \A i \in 0 .. n - 1 : IsSet(ShiftedSlice(b, start, n), i) <=> IsSet(b, start + i)
  <1>1. PICK from, r : from = start \div wordSize /\ r = start % wordSize
    OBVIOUS
  <1>2. Raw(b) /\ b.len \in Nat /\ DOMAIN b.data = WordIndexes(b.len)
    BY RawParts DEF Raw
  <1>3. /\ from \in Nat /\ r \in Nat \ {0} /\ r < wordSize /\ wordSize \in Nat \ {0}
        /\ from * wordSize \in Nat /\ start = from * wordSize + r
    BY <1>1, BitPlace, Words, ProductGrows
  <1>4. DEFINE lo(wi) == ShiftRight(b.data[from + wi], r)
               hi(wi) == IF from + wi + 1 \in DOMAIN b.data
                           THEN ShiftLeft(b.data[from + wi + 1], wordSize - r) ELSE {}
  <1>5. PICK c : c = [data |-> [wi \in WordIndexes(n) |-> lo(wi) \cup hi(wi)], len |-> n]
    OBVIOUS
  <1>6. ShiftedSlice(b, start, n) = clearTrailingBits(c)
    BY <1>1, <1>5 DEF ShiftedSlice
  <1>7. ASSUME NEW wi \in WordIndexes(n)
        PROVE  /\ wi \in Nat /\ wi * wordSize \in Nat /\ from + wi \in WordIndexes(b.len)
               /\ (from + wi) * wordSize = from * wordSize + wi * wordSize
               /\ (from + wi + 1) * wordSize = from * wordSize + wi * wordSize + wordSize
    <2>1. wi \in Nat /\ wi * wordSize < n
      BY WordOf
    <2>2. wi * wordSize \in Nat
      BY <1>3, <2>1, ProductGrows
    <2>3. (from + wi) * wordSize = from * wordSize + wi * wordSize
      BY <1>3, <2>1
    <2>4. (from + wi + 1) * wordSize = (from + wi) * wordSize + wordSize
      BY <1>3, <2>1, ProductGrows
    <2>5. (from + wi) * wordSize < b.len
      BY <1>2, <1>3, <2>1, <2>2, <2>3
    <2>6. from + wi \in WordIndexes(b.len)
      BY <1>2, <1>3, <2>1, <2>5, WordOf
    <2>7. QED
      BY <1>3, <2>1, <2>2, <2>3, <2>4, <2>6
  <1>8. \A wi \in WordIndexes(n) : \A p \in Positions :
          /\ p \in lo(wi) <=> p + r \in b.data[from + wi]
          /\ p \in hi(wi) <=> /\ from + wi + 1 \in WordIndexes(b.len)
                              /\ p + r - wordSize \in b.data[from + wi + 1]
    <2> SUFFICES ASSUME NEW wi \in WordIndexes(n), NEW p \in Positions
                 PROVE  /\ p \in lo(wi) <=> p + r \in b.data[from + wi]
                        /\ p \in hi(wi) <=> /\ from + wi + 1 \in WordIndexes(b.len)
                                            /\ p + r - wordSize \in b.data[from + wi + 1]
      OBVIOUS
    <2>1. p \in Nat /\ p < wordSize
      BY Words
    <2>2. b.data[from + wi] \subseteq Positions /\ \A x \in b.data[from + wi] : x \in Nat
      BY <1>2, <1>7, Words DEF Raw
    <2>3. p \in lo(wi) <=> p + r \in b.data[from + wi]
      <3>1. ASSUME NEW q \in b.data[from + wi], q >= r, p = q - r PROVE q = p + r
        BY <1>3, <2>2, <3>1
      <3>2. p = (p + r) - r /\ p + r >= r
        BY <1>3, <2>1
      <3>3. QED
        BY <3>1, <3>2 DEF ShiftRight
    <2>4. ASSUME from + wi + 1 \in WordIndexes(b.len)
          PROVE  p \in ShiftLeft(b.data[from + wi + 1], wordSize - r) <=> p + r - wordSize \in b.data[from + wi + 1]
      <3>0. b.data[from + wi + 1] \subseteq Positions /\ \A x \in b.data[from + wi + 1] : x \in Nat
        BY <1>2, <2>4, Words DEF Raw
      <3>1. ASSUME NEW q \in b.data[from + wi + 1], p = q + (wordSize - r) PROVE q = p + r - wordSize
        BY <1>3, <3>0, <3>1
      <3>2. p = (p + r - wordSize) + (wordSize - r) /\ (p + r - wordSize) + (wordSize - r) < wordSize
        BY <1>3, <2>1
      <3>3. QED
        BY <3>1, <3>2 DEF ShiftLeft
    <2>5. QED
      BY <1>2, <2>3, <2>4
  <1>9. Raw(c) /\ c.len = n /\ \A wi \in WordIndexes(n) : c.data[wi] = lo(wi) \cup hi(wi)
    <2>1. ASSUME NEW wi \in WordIndexes(n) PROVE lo(wi) \cup hi(wi) \subseteq Positions
      <3>1. \A x \in b.data[from + wi] : x \in Nat /\ x < wordSize
        BY <1>2, <1>7, <2>1, Words DEF Raw
      <3>2. lo(wi) \subseteq Positions
        BY <1>3, <3>1, Words DEF ShiftRight
      <3>3. ASSUME from + wi + 1 \in WordIndexes(b.len)
            PROVE  \A x \in b.data[from + wi + 1] : x \in Nat
        BY <1>2, <3>3, Words DEF Raw
      <3>4. hi(wi) \subseteq Positions
        BY <1>2, <1>3, <3>3, Words DEF ShiftLeft
      <3>5. QED
        BY <3>2, <3>4
    <2>2. QED
      BY <1>5, <2>1 DEF Raw
  <1> HIDE DEF lo, hi
  <1>10. ASSUME NEW i \in 0 .. n - 1 PROVE IsSet(c, i) <=> IsSet(b, start + i)
    <2>1. PICK wi \in WordIndexes(n), p \in Positions :
             i = wi * wordSize + p /\ (IsSet(c, i) <=> p \in c.data[wi])
      BY <1>9, <1>10, WordOfBit
    <2>2. p \in Nat /\ p < wordSize
      BY Words
    <2>3. wi \in Nat /\ wi * wordSize \in Nat /\ from + wi \in Nat /\ from + wi + 1 \in Nat
      BY <1>3, <1>7
    <2>4. start + i < b.len
      BY <1>2, <1>10
    <2>5. CASE p + r < wordSize
      <3>1. start + i = (from + wi) * wordSize + (p + r) /\ p + r \in Positions
        BY <1>3, <1>7, <2>1, <2>2, <2>3, <2>5, Words
      <3>2. IsSet(b, start + i) <=> p + r \in b.data[from + wi]
        BY <1>2, <2>3, <2>4, <3>1, BitOfWord
      <3>3. p \notin hi(wi)
        <4>1. ~(p + r - wordSize >= 0)
          BY <1>3, <2>2, <2>5
        <4>2. ASSUME from + wi + 1 \in WordIndexes(b.len), NEW x \in b.data[from + wi + 1] PROVE x >= 0
          BY <1>2, <4>2, Words DEF Raw
        <4>3. QED
          BY <1>8, <4>1, <4>2
      <3>4. QED
        BY <1>8, <1>9, <2>1, <3>2, <3>3
    <2>6. CASE ~(p + r < wordSize)
      <3>1. start + i = (from + wi + 1) * wordSize + (p + r - wordSize) /\ p + r - wordSize \in Positions
        BY <1>3, <1>7, <2>1, <2>2, <2>3, <2>6, Words
      <3>2. /\ from + wi + 1 \in WordIndexes(b.len)
            /\ IsSet(b, start + i) <=> p + r - wordSize \in b.data[from + wi + 1]
        BY <1>2, <2>3, <2>4, <3>1, BitOfWord
      <3>3. p \notin lo(wi)
        <4>1. ASSUME NEW x \in b.data[from + wi] PROVE x < wordSize
          BY <1>2, <1>7, Words DEF Raw
        <4>2. QED
          BY <1>8, <2>6, <4>1
      <3>4. QED
        BY <1>8, <1>9, <2>1, <3>2, <3>3
    <2>7. QED
      BY <2>5, <2>6
  <1>11. QED
    BY <1>6, <1>9, <1>10, SlackCleared DEF IsBitmapOf

(* Slice of a bitmap.                                                      *)
LEMMA SliceBits ==
  ASSUME NEW b, IsBitmap(b), NEW start \in Nat, NEW end \in Nat, start <= end, end <= b.len
  PROVE  /\ IsBitmapOf(SliceBitmap(b, start, end), end - start)
         /\ \A i \in 0 .. end - start - 1 :
              IsSet(SliceBitmap(b, start, end), i) <=> IsSet(b, start + i)
  <1>1. b.len \in Nat
    BY DEF IsBitmap
  <1>2. SliceBitmap(b, start, end) =
          IF start = end THEN NewEmpty(0)
          ELSE IF start % wordSize = 0 THEN AlignedSlice(b, start, end - start)
          ELSE ShiftedSlice(b, start, end - start)
    BY DEF SliceBitmap
  <1>3. PICK n : n = end - start
    OBVIOUS
  <1>4. n \in Nat /\ start + n <= b.len /\ (start # end <=> n > 0) /\ (start = end => n = 0)
    BY <1>1, <1>3
  <1>5. CASE start = end
    BY <1>2, <1>3, <1>4, <1>5, EmptyBits
  <1>6. CASE start # end
    BY <1>2, <1>3, <1>4, <1>6, AlignedBits, ShiftedBits
  <1>7. QED
    BY <1>5, <1>6

-----------------------------------------------------------------------------
(* Slices of arrays                                                        *)

LEMMA RowCount ==
  ASSUME NEW n \in Nat
  PROVE  IsFiniteSet(0 .. n - 1) /\ Cardinality(0 .. n - 1) = n
  <1>1. 0 \in Int /\ n - 1 \in Int
    OBVIOUS
  <1>2. /\ IsFiniteSet(0 .. n - 1)
        /\ Cardinality(0 .. n - 1) = IF 0 > n - 1 THEN 0 ELSE (n - 1) - 0 + 1
    BY <1>1, FS_Interval
  <1>3. QED
    BY <1>2

(* The texts of a string array are one after the other.                    *)
LEMMA OffsetsRise ==
  ASSUME NEW a, IsString(a), a.length \in Nat, NEW i \in 0 .. a.length, NEW j \in i .. a.length
  PROVE  a.offsets[i] <= a.offsets[j] /\ a.offsets[i] \in Nat /\ a.offsets[j] \in Nat
  <1> DEFINE S == {k \in i .. a.length : a.offsets[i] <= a.offsets[k]}
  <1>1. \A k \in 0 .. a.length : a.offsets[k] \in Nat
    BY DEF IsString
  <1>2. i \in S
    BY <1>1
  <1>3. ASSUME NEW k \in i .. j - 1, k \in S PROVE k + 1 \in S
    <2>1. k \in 0 .. a.length - 1 /\ k + 1 \in 0 .. a.length
      OBVIOUS
    <2>2. a.offsets[k] <= a.offsets[k + 1] /\ a.offsets[i] <= a.offsets[k]
      BY <1>3, <2>1 DEF IsString
    <2>3. a.offsets[i] <= a.offsets[k + 1]
      BY <1>1, <2>1, <2>2
    <2>4. QED
      BY <2>1, <2>3
  <1>4. i .. j \subseteq S
    <2> HIDE DEF S
    <2>1. QED
      BY <1>2, <1>3, IntervalInduction
  <1>5. QED
    BY <1>1, <1>4

(* Two series have the same n cells, those of t from row start on.         *)
CellsFrom(s, t, start, n) == \A i \in 0 .. n - 1 : Cell(s, i) = Cell(t, start + i)

LEMMA CellsOfParts ==
  ASSUME NEW s, NEW t, NEW i, NEW j,
         IsNull(s.arr, i) <=> IsNull(t.arr, j), Value(s, i) = Value(t, j)
  PROVE  Cell(s, i) = Cell(t, j)
  BY DEF Cell

LEMMA SameBit ==
  ASSUME NEW b, IsBitmap(b), NEW c, IsBitmap(c), NEW i \in 0 .. b.len - 1, NEW j \in 0 .. c.len - 1,
         IsSet(b, i) <=> IsSet(c, j)
  PROVE  IsSet(b, i) = IsSet(c, j)
  <1>1. InRange(b, i) /\ InRange(c, j)
    BY DEF IsBitmap, InRange
  <1>2. IsSet(b, i) \in BOOLEAN /\ IsSet(c, j) \in BOOLEAN
    BY <1>1 DEF IsSet
  <1>3. QED
    BY <1>2

LEMMA NilIsNoBitmap == \A b : IsBitmap(b) => b # nil
  <1> SUFFICES ASSUME NEW b, IsBitmap(b) PROVE b # nil
    OBVIOUS
  <1>1. b = [data |-> b.data, len |-> b.len]
    BY DEF IsBitmap
  <1>2. DOMAIN b = {"data", "len"} /\ DOMAIN nil = {}
    BY <1>1 DEF nil
  <1>3. QED
    BY <1>2

LEMMA SliceOfSeries ==
  ASSUME NEW s, IsSeries(s), NEW start \in Nat, NEW end \in Nat, start <= end, end <= s.arr.length
  PROVE  LET t == SliceSeries(s, start, end)
         IN /\ IsSeries(t) /\ t.name = s.name /\ t.dtype = s.dtype
            /\ t.arr.length = end - start
            /\ CellsFrom(t, s, start, end - start)
  <1>1. PICK a, t, v, n : /\ a = s.arr /\ t = SliceSeries(s, start, end)
                          /\ v = SliceValidity(a.validity, start, end) /\ n = end - start
    OBVIOUS
  <1>2. /\ a.length \in Nat /\ n \in Nat /\ start + n = end
        /\ a.validity = nil \/ IsBitmapOf(a.validity, a.length)
        /\ IsArray(s.dtype, a)
    BY <1>1 DEF IsSeries, IsArray
  <1>3. /\ t = [name |-> s.name, dtype |-> s.dtype, arr |-> t.arr]
        /\ t.arr = SliceArray(s.dtype, a, start, end) /\ t.name = s.name /\ t.dtype = s.dtype
    BY <1>1 DEF IsSeries, Series, SliceSeries
  <1>4. v = nil \/ IsBitmapOf(v, n)
    BY <1>1, <1>2, SliceBits DEF SliceValidity, IsBitmapOf
  <1>5. \A i \in 0 .. n - 1 : \A b : b.validity = v => (IsNull(b, i) <=> IsNull(a, start + i))
    <2>1. CASE a.validity = nil
      BY <1>1, <2>1 DEF SliceValidity, IsNull
    <2>2. CASE a.validity # nil
      <3>1. v = SliceBitmap(a.validity, start, end) /\ IsBitmapOf(a.validity, a.length)
        BY <1>1, <1>2, <2>2 DEF SliceValidity
      <3>2. v # nil /\ \A i \in 0 .. n - 1 : IsSet(v, i) <=> IsSet(a.validity, start + i)
        BY <1>1, <1>2, <3>1, SliceBits, NilIsNoBitmap DEF IsBitmapOf
      <3>3. QED
        BY <2>2, <3>2 DEF IsNull
    <2>3. QED
      BY <2>1, <2>2
  <1>6. CASE s.dtype = "Boolean"
    <2>1. t.arr = BooleanArray(SliceBitmap(a.data, start, end), v)
      BY <1>1, <1>3, <1>6 DEF SliceArray
    <2>2. IsBitmapOf(a.data, a.length)
      BY <1>2, <1>6 DEF IsArray, IsBoolean
    <2>3. /\ IsBitmapOf(SliceBitmap(a.data, start, end), n)
          /\ \A i \in 0 .. n - 1 : IsSet(SliceBitmap(a.data, start, end), i) <=> IsSet(a.data, start + i)
      BY <1>1, <2>2, SliceBits DEF IsBitmapOf
    <2>4. t.arr = [data |-> SliceBitmap(a.data, start, end), validity |-> v, length |-> n]
      BY <2>1, <2>3 DEF BooleanArray, IsBitmapOf
    <2>5. IsArray("Boolean", t.arr)
      BY <1>2, <1>4, <2>3, <2>4 DEF IsArray, IsBoolean
    <2>6. \A i \in 0 .. n - 1 : Value(t, i) = Value(s, start + i)
      <3>1. ASSUME NEW i \in 0 .. n - 1 PROVE IsSet(t.arr.data, i) = IsSet(a.data, start + i)
        <4>1. start + i \in 0 .. a.length - 1
          BY <1>1, <1>2
        <4>2. QED
          BY <2>2, <2>3, <2>4, <4>1, SameBit DEF IsBitmapOf
      <3>2. QED
        BY <1>1, <1>3, <1>6, <3>1 DEF Value
    <2>7. \A i \in 0 .. n - 1 : Cell(t, i) = Cell(s, start + i)
      BY <1>1, <1>5, <2>4, <2>6, CellsOfParts
    <2>8. QED
      BY <1>1, <1>3, <1>6, <2>4, <2>5, <2>7 DEF IsSeries, Series, CellsFrom
  <1>7. CASE s.dtype = "String"
    <2>1. PICK o, byteStart : o = a.offsets /\ byteStart = o[start]
      OBVIOUS
    <2>2. IsString(a)
      BY <1>2, <1>7 DEF IsArray
    <2>3. \A i \in start .. end : o[i] \in Nat /\ byteStart \in Nat /\ byteStart <= o[i] /\ o[i] <= o[end]
                                  /\ o[end] <= o[a.length] /\ o[end] \in Nat /\ o[a.length] \in Nat
      <3>1. ASSUME NEW i \in start .. end PROVE o[i] <= o[end] /\ o[start] <= o[i] /\ o[i] \in Nat
        <4>1. start \in 0 .. a.length /\ i \in start .. a.length /\ i \in 0 .. a.length /\ end \in i .. a.length
          BY <1>1, <1>2
        <4>2. QED
          BY <1>2, <2>1, <2>2, <4>1, OffsetsRise
      <3>2. end \in start .. end /\ start \in start .. end /\ end \in 0 .. a.length /\ a.length \in end .. a.length
        BY <1>1, <1>2
      <3>3. QED
        BY <1>2, <2>1, <2>2, <3>1, <3>2, OffsetsRise
    <2>4. PICK bytes, offsets :
             /\ bytes = [p \in 0 .. o[end] - byteStart - 1 |-> a.bytes[byteStart + p]]
             /\ offsets = [k \in 0 .. end - start |-> o[start + k] - byteStart]
      OBVIOUS
    <2>5. t.arr = StringArray(bytes, offsets, v)
      BY <1>1, <1>3, <1>7, <2>1, <2>4 DEF SliceArray
    <2>6. t.arr = [bytes |-> bytes, offsets |-> offsets, validity |-> v, length |-> n]
      <3>1. DOMAIN offsets = 0 .. (n + 1) - 1
        BY <1>1, <1>2, <2>4
      <3>2. Cardinality(DOMAIN offsets) - 1 = n
        <4>1. n + 1 \in Nat
          BY <1>2
        <4>2. Cardinality(0 .. (n + 1) - 1) = n + 1
          BY <4>1, RowCount
        <4>3. QED
          BY <1>2, <3>1, <4>2
      <3>3. QED
        BY <2>5, <3>2 DEF StringArray
    <2>7. IsString(t.arr)
      <3>1. offsets \in [0 .. n -> Nat] /\ offsets[0] = 0
        BY <1>1, <1>2, <2>1, <2>3, <2>4
      <3>2. ASSUME NEW i \in 0 .. n - 1 PROVE offsets[i] <= offsets[i + 1]
        <4>1. start + i \in 0 .. a.length - 1 /\ start + i \in start .. end /\ start + i + 1 \in start .. end
          BY <1>1, <1>2
        <4>2. o[start + i] <= o[start + i + 1]
          BY <2>1, <2>2, <4>1 DEF IsString
        <4>3. i \in 0 .. end - start /\ i + 1 \in 0 .. end - start
          BY <1>1, <1>2
        <4>4. offsets[i] = o[start + i] - byteStart
          BY <2>4, <4>3
        <4>5. offsets[i + 1] = o[start + (i + 1)] - byteStart
          BY <2>4, <4>3
        <4>6. start + (i + 1) = start + i + 1
          BY <1>1, <1>2, <4>3
        <4>7. QED
          BY <2>3, <4>1, <4>2, <4>4, <4>5, <4>6
      <3>3. offsets[n] = o[end] - byteStart
        BY <1>1, <1>2, <2>4
      <3>4. DOMAIN bytes = 0 .. offsets[n] - 1 /\ bytes = [p \in DOMAIN bytes |-> bytes[p]]
        BY <2>4, <3>3
      <3>5. QED
        BY <2>6, <3>1, <3>2, <3>4 DEF IsString
    <2>8. IsArray("String", t.arr)
      BY <1>2, <1>4, <2>6, <2>7 DEF IsArray
    <2>9. ASSUME NEW i \in 0 .. n - 1 PROVE BytesOf(t.arr, i) = BytesOf(a, start + i)
      <3>1. start + i \in start .. end /\ start + i + 1 \in start .. end
        BY <1>1, <1>2
      <3>2. offsets[i] = o[start + i] - byteStart /\ offsets[i + 1] = o[start + i + 1] - byteStart
        <4>1. i \in 0 .. end - start /\ i + 1 \in 0 .. end - start
          BY <1>1, <1>2
        <4>2. offsets[i] = o[start + i] - byteStart
          BY <2>4, <4>1
        <4>3. offsets[i + 1] = o[start + (i + 1)] - byteStart
          BY <2>4, <4>1
        <4>4. start + (i + 1) = start + i + 1
          BY <4>1
        <4>5. QED
          BY <4>2, <4>3, <4>4
      <3>3. PICK x, y : x = o[start + i] /\ y = o[start + i + 1]
        OBVIOUS
      <3>4. x \in Nat /\ y \in Nat /\ byteStart \in Nat /\ byteStart <= x /\ y <= o[end] /\ o[end] \in Nat
        BY <2>3, <3>1, <3>3
      <3>5. offsets[i + 1] - offsets[i] = y - x
        BY <3>2, <3>3, <3>4
      <3>6. ASSUME NEW k \in 1 .. y - x PROVE bytes[offsets[i] + k - 1] = a.bytes[x + k - 1]
        <4>1. PICK p : p = offsets[i] + k - 1
          OBVIOUS
        <4>2. p \in 0 .. o[end] - byteStart - 1 /\ byteStart + p = x + k - 1
          BY <3>2, <3>3, <3>4, <4>1
        <4>3. QED
          BY <2>4, <4>1, <4>2
      <3>7. BytesOf(t.arr, i) = [k \in 1 .. y - x |-> bytes[offsets[i] + k - 1]]
        BY <2>6, <3>5 DEF BytesOf
      <3>8. BytesOf(a, start + i) = [k \in 1 .. y - x |-> a.bytes[x + k - 1]]
        BY <2>1, <3>3 DEF BytesOf
      <3>9. QED
        BY <3>6, <3>7, <3>8
    <2>10. \A i \in 0 .. n - 1 : Value(t, i) = Value(s, start + i)
      BY <1>1, <1>3, <1>7, <2>9 DEF Value
    <2>11. \A i \in 0 .. n - 1 : Cell(t, i) = Cell(s, start + i)
      BY <1>1, <1>5, <2>6, <2>10, CellsOfParts
    <2>12. QED
      BY <1>1, <1>3, <1>7, <2>6, <2>8, <2>11 DEF IsSeries, Series, CellsFrom
  <1>8. CASE s.dtype \notin {"Boolean", "String"}
    <2>1. PICK values : values = [k \in 0 .. end - start - 1 |-> a.values[start + k]]
      OBVIOUS
    <2>2. t.arr = TypedArray(values, v)
      BY <1>1, <1>3, <1>8, <2>1 DEF SliceArray
    <2>3. IsTyped(a)
      BY <1>2, <1>8 DEF IsArray
    <2>4. values \in [0 .. n - 1 -> Int] /\ DOMAIN values = 0 .. n - 1
      <3>1. \A k \in 0 .. n - 1 : start + k \in 0 .. a.length - 1
        BY <1>1, <1>2
      <3>2. QED
        BY <1>1, <2>1, <2>3, <3>1 DEF IsTyped
    <2>5. t.arr = [values |-> values, validity |-> v, length |-> n]
      BY <1>2, <2>2, <2>4, RowCount DEF TypedArray
    <2>6. IsArray(s.dtype, t.arr)
      BY <1>2, <1>4, <1>8, <2>4, <2>5 DEF IsArray, IsTyped
    <2>7. \A i \in 0 .. n - 1 : Value(t, i) = Value(s, start + i)
      BY <1>1, <1>3, <1>8, <2>1, <2>5 DEF Value
    <2>8. \A i \in 0 .. n - 1 : Cell(t, i) = Cell(s, start + i)
      BY <1>1, <1>5, <2>5, <2>7, CellsOfParts
    <2>9. QED
      BY <1>1, <1>3, <2>5, <2>6, <2>8 DEF IsSeries, Series, CellsFrom
  <1>9. QED
    BY <1>6, <1>7, <1>8

-----------------------------------------------------------------------------
(* Sums over sets of rows                                                  *)

(* A sum depends on the cells of its rows only.                            *)
LEMMA SameSum ==
  ASSUME NEW c, NEW d, NEW S, IsFiniteSet(S), \A x \in S : c[x] = d[x]
  PROVE  SumOver(c, S) = SumOver(d, S)
  <1>1. \E f : IsSum(f, c, SUBSET S)
    BY SumExists
  <1>2. PICK f : IsSum(f, c, SUBSET S) /\ SumOver(c, S) = f[S]
    BY <1>1, SumUnfolds
  <1>3. \E g : IsSum(g, d, SUBSET S)
    BY SumExists
  <1>4. PICK g : IsSum(g, d, SUBSET S) /\ SumOver(d, S) = g[S]
    BY <1>3, SumUnfolds
  <1>5. IsSum(f, d, SUBSET S)
    <2>1. \A s \in SUBSET S : s # {} => Some(s) \in s /\ Some(s) \in S
      BY DEF Some
    <2>2. \A s \in SUBSET S : s # {} => c[Some(s)] = d[Some(s)]
      BY <2>1
    <2>3. QED
      BY <1>2, <2>2 DEF IsSum
  <1>6. AgreeOn(f, g, S)
    BY <1>4, <1>5, SumsAgree
  <1>7. QED
    BY <1>2, <1>4, <1>6 DEF AgreeOn

LEMMA SumOfUnion ==
  ASSUME NEW c, NEW S, IsFiniteSet(S), NEW T, IsFiniteSet(T), S \cap T = {},
         \A x \in S \cup T : c[x] \in Int
  PROVE  /\ SumOver(c, S) \in Int /\ SumOver(c, T) \in Int
         /\ SumOver(c, S \cup T) = SumOver(c, S) + SumOver(c, T)
  <1> DEFINE Adds(U) == SumOver(c, S \cup U) = SumOver(c, S) + SumOver(c, U)
             N == {n \in Nat : \A U \in SUBSET T : Cardinality(U) = n => Adds(U)}
  <1>0. \A U \in SUBSET (S \cup T) : IsFiniteSet(U) /\ SumOver(c, U) \in Int
                                     /\ \A x \in U : SumOver(c, U) = SumOver(c, U \ {x}) + c[x]
    <2>1. IsFiniteSet(S \cup T)
      BY FS_Union
    <2>2. QED
      BY <2>1, FS_Subset, SumOne
  <1>1. 0 \in N
    <2>1. ASSUME NEW U \in SUBSET T, Cardinality(U) = 0 PROVE Adds(U)
      <3>1. U = {}
        BY <2>1, FS_Subset, FS_EmptySet
      <3>2. S \cup U = S /\ SumOver(c, U) = 0 /\ SumOver(c, S) \in Int
        BY <1>0, <3>1, SumOne
      <3>3. QED
        BY <3>2
    <2> HIDE DEF Adds
    <2>2. QED
      BY <2>1
  <1>2. ASSUME NEW n \in 0 .. Cardinality(T) - 1, n \in N PROVE n + 1 \in N
    <2>1. ASSUME NEW U \in SUBSET T, Cardinality(U) = n + 1 PROVE Adds(U)
      <3>1. IsFiniteSet(U) /\ U # {} /\ n \in Nat
        BY <2>1, FS_Subset, FS_EmptySet
      <3>2. PICK x : x \in U
        BY <3>1
      <3>3. PICK V : V = U \ {x}
        OBVIOUS
      <3>4. V \in SUBSET T /\ Cardinality(V) = n
        <4>1. Cardinality(U \ {x}) = Cardinality(U) - 1
          BY <3>1, <3>2, FS_RemoveElement
        <4>2. QED
          BY <2>1, <3>1, <3>3, <4>1
      <3>5. Adds(V)
        BY <1>2, <3>4
      <3>6. (S \cup U) \ {x} = S \cup V /\ x \in S \cup U
        BY <3>2, <3>3
      <3>7. SumOver(c, S \cup U) = SumOver(c, S \cup V) + c[x] /\ SumOver(c, U) = SumOver(c, V) + c[x]
        <4>1. S \cup U \in SUBSET (S \cup T) /\ U \in SUBSET (S \cup T)
          OBVIOUS
        <4>2. QED
          BY <1>0, <3>2, <3>3, <3>6, <4>1
      <3>8. SumOver(c, S) \in Int /\ SumOver(c, V) \in Int /\ c[x] \in Int /\ SumOver(c, S \cup V) \in Int
        BY <1>0, <3>2, <3>4
      <3>9. QED
        BY <3>5, <3>7, <3>8
    <2>2. n + 1 \in Nat
      OBVIOUS
    <2> HIDE DEF Adds
    <2>3. QED
      BY <2>1, <2>2
  <1>3. Cardinality(T) \in Nat
    BY FS_CardinalityType
  <1>4. 0 .. Cardinality(T) \subseteq N
    <2> HIDE DEF N
    <2>1. 0 \in Int /\ Cardinality(T) \in Int
      BY <1>3
    <2>2. QED
      BY <1>1, <1>2, <2>1, IntervalInduction
  <1>5. Adds(T)
    BY <1>3, <1>4
  <1>6. QED
    BY <1>0, <1>5

-----------------------------------------------------------------------------
(* Aggregates                                                              *)

(* The reduction of any set of rows                                        *)
ValuesAt(a, R) == {a.values[i] : i \in R}

Rolled(s, fn, window) ==
  IF rollingAgg(s, fn, window) = nil THEN nil ELSE New(<<rollingAgg(s, fn, window)>>)

(* Columns sliced alike are columns of one length.                         *)
LEMMA SliceIsFrame ==
  ASSUME NEW cols, IsFrame(cols), NEW b \in Nat, NEW e \in Nat, b <= e, e <= Height(cols)
  PROVE  IsFrame([c \in DOMAIN cols |-> SliceSeries(cols[c], b, e)])
  <1>1. PICK n, d : n = Len(cols) /\ d = [c \in DOMAIN cols |-> SliceSeries(cols[c], b, e)]
    OBVIOUS
  <1>2. n \in Nat \ {0} /\ DOMAIN cols = 1 .. n
    BY <1>1 DEF IsFrame
  <1>3. ASSUME NEW c \in 1 .. n
        PROVE  IsSeries(d[c]) /\ d[c].name = cols[c].name /\ d[c].arr.length = e - b
    <2>1. IsSeries(cols[c]) /\ e <= cols[c].arr.length
      BY <1>2, <1>3 DEF IsFrame
    <2>2. d[c] = SliceSeries(cols[c], b, e)
      BY <1>1, <1>2, <1>3
    <2>3. QED
      BY <2>1, <2>2, SliceOfSeries
  <1>4. DOMAIN d = 1 .. n /\ d = [c \in 1 .. n |-> d[c]] /\ Len(d) = n
    BY <1>1, <1>2
  <1>5. Height(d) = e - b
    BY <1>2, <1>3 DEF Height
  <1>6. \A c, k \in DOMAIN d : d[c].name = d[k].name => c = k
    BY <1>2, <1>3, <1>4 DEF IsFrame
  <1>7. \A c \in DOMAIN d : IsSeries(d[c]) /\ d[c].arr.length = Height(d)
    BY <1>3, <1>4, <1>5
  <1>8. Len(d) \in Nat \ {0} /\ d = [c \in 1 .. Len(d) |-> d[c]]
    BY <1>2, <1>4
  <1>9. QED
    BY <1>1, <1>6, <1>7, <1>8 DEF IsFrame

(* Every cell of a typed column is a number or null.                       *)
LEMMA CellOfTyped ==
  ASSUME NEW s, IsSeries(s), s.dtype \notin {"Boolean", "String"}, NEW i \in 0 .. s.arr.length - 1
  PROVE  /\ s.arr.values[i] \in Int
         /\ (Cell(s, i) = Null) <=> IsNull(s.arr, i)
         /\ Cell(s, i) # Null => Cell(s, i) = s.arr.values[i]
  <1>1. IsTyped(s.arr)
    BY DEF IsSeries, IsArray
  <1>2. s.arr.values[i] \in Int
    BY <1>1 DEF IsTyped
  <1>3. Value(s, i) = s.arr.values[i]
    BY DEF Value
  <1>4. QED
    BY <1>2, <1>3, CellAssumption DEF Cell

-----------------------------------------------------------------------------
(* Sums over the rows of a window                                          *)

(* A sum of numbers that are 0 or more is 0 only if all of them are.       *)
LEMMA ZeroSum ==
  ASSUME NEW c, NEW S, IsFiniteSet(S), \A x \in S : c[x] \in Nat
  PROVE  /\ SumOver(c, S) \in Nat
         /\ (SumOver(c, S) = 0) <=> (\A x \in S : c[x] = 0)
  <1> DEFINE Good(U) == /\ SumOver(c, U) \in Nat
                        /\ (SumOver(c, U) = 0) <=> (\A x \in U : c[x] = 0)
             N == {n \in Nat : \A U \in SUBSET S : Cardinality(U) = n => Good(U)}
  <1>0. \A U \in SUBSET S : IsFiniteSet(U) /\ SumOver(c, U) \in Int
                            /\ \A x \in U : SumOver(c, U) = SumOver(c, U \ {x}) + c[x]
    BY FS_Subset, SumOne
  <1>1. 0 \in N
    <2>1. ASSUME NEW U \in SUBSET S, Cardinality(U) = 0 PROVE Good(U)
      <3>1. U = {}
        BY <2>1, FS_Subset, FS_EmptySet
      <3>2. SumOver(c, {}) = 0
        BY SumOne, FS_EmptySet
      <3>3. QED
        BY <3>1, <3>2
    <2> HIDE DEF Good
    <2>2. QED
      BY <2>1
  <1>2. ASSUME NEW n \in 0 .. Cardinality(S) - 1, n \in N PROVE n + 1 \in N
    <2>1. ASSUME NEW U \in SUBSET S, Cardinality(U) = n + 1 PROVE Good(U)
      <3>1. IsFiniteSet(U) /\ U # {} /\ n \in Nat
        BY <2>1, FS_Subset, FS_EmptySet
      <3>2. PICK x : x \in U
        BY <3>1
      <3>3. PICK V : V = U \ {x}
        OBVIOUS
      <3>4. V \in SUBSET S /\ Cardinality(V) = n
        <4>1. Cardinality(U \ {x}) = Cardinality(U) - 1
          BY <3>1, <3>2, FS_RemoveElement
        <4>2. QED
          BY <2>1, <3>1, <3>3, <4>1
      <3>5. Good(V)
        BY <1>2, <3>4
      <3>6. SumOver(c, U) = SumOver(c, V) + c[x] /\ c[x] \in Nat
        BY <1>0, <3>2, <3>3
      <3>7. (\A y \in U : c[y] = 0) <=> c[x] = 0 /\ \A y \in V : c[y] = 0
        BY <3>2, <3>3
      <3>8. QED
        BY <3>5, <3>6, <3>7
    <2>2. n + 1 \in Nat
      OBVIOUS
    <2> HIDE DEF Good
    <2>3. QED
      BY <2>1, <2>2
  <1>3. Cardinality(S) \in Nat
    BY FS_CardinalityType
  <1>4. 0 .. Cardinality(S) \subseteq N
    <2> HIDE DEF N
    <2>1. 0 \in Int /\ Cardinality(S) \in Int
      BY <1>3
    <2>2. QED
      BY <1>1, <1>2, <2>1, IntervalInduction
  <1>5. QED
    BY <1>3, <1>4

IsPrefixSum(f, v, n) == f = [k \in 0 .. n |-> IF k = 0 THEN 0 ELSE f[k - 1] + v[k - 1]]

LEMMA PrefixIsSum ==
  ASSUME NEW n \in Nat, NEW v \in [0 .. n - 1 -> Int], NEW k \in 0 .. n
  PROVE  PrefixSum(v)[k] = SumOver(v, 0 .. k - 1)
  <1>1. PrefixSum(v) = CHOOSE f : IsPrefixSum(f, v, n)
    <2>1. Cardinality(DOMAIN v) = n
      BY RowCount
    <2>2. QED
      BY <2>1 DEF PrefixSum, IsPrefixSum
  <1> DEFINE Upto(m) == SumOver(v, 0 .. m - 1)
  <1>2. Upto(0) = 0
    <2>1. 0 .. 0 - 1 = {}
      OBVIOUS
    <2>2. SumOver(v, {}) = 0
      BY SumOne, FS_EmptySet
    <2>3. QED
      BY <2>1, <2>2
  <1>3. \A m \in 1 .. n : Upto(m) = Upto(m - 1) + v[m - 1]
    <2>1. ASSUME NEW m \in 1 .. n PROVE Upto(m) = Upto(m - 1) + v[m - 1]
      <3>1. PICK S : S = 0 .. m - 1
        OBVIOUS
      <3>2. IsFiniteSet(S)
        <4>1. m \in Nat
          OBVIOUS
        <4>2. QED
          BY <3>1, <4>1, RowCount
      <3>2a. m - 1 \in S /\ \A x \in S : v[x] \in Int
        BY <3>1
      <3>3. S \ {m - 1} = 0 .. (m - 1) - 1
        BY <3>1
      <3>4. SumOver(v, S) = SumOver(v, S \ {m - 1}) + v[m - 1]
        BY <3>2, <3>2a, SumOne
      <3>5. QED
        BY <3>1, <3>3, <3>4
    <2>2. QED
      BY <2>1
  <1> HIDE DEF Upto
  <1>4. PICK g : g = [m \in 0 .. n |-> Upto(m)]
    OBVIOUS
  <1>5. IsPrefixSum(g, v, n)
    <2>1. \A m \in 0 .. n : g[m] = IF m = 0 THEN 0 ELSE g[m - 1] + v[m - 1]
      <3>1. ASSUME NEW m \in 0 .. n, m # 0 PROVE g[m] = g[m - 1] + v[m - 1]
        <4>1. m \in 1 .. n /\ m - 1 \in 0 .. n
          BY <3>1
        <4>2. QED
          BY <1>3, <1>4, <4>1
      <3>2. QED
        BY <1>2, <1>4, <3>1
    <2>2. g = [m \in 0 .. n |-> g[m]]
      BY <1>4
    <2>3. g = [m \in 0 .. n |-> IF m = 0 THEN 0 ELSE g[m - 1] + v[m - 1]]
      BY <2>1, <2>2, Zenon
    <2>4. QED
      BY <2>3 DEF IsPrefixSum
  <1>6. PICK f : f = PrefixSum(v)
    OBVIOUS
  <1>7. IsPrefixSum(f, v, n)
    BY <1>1, <1>5, <1>6
  <1>8. \A m \in 0 .. n : f[m] = IF m = 0 THEN 0 ELSE f[m - 1] + v[m - 1]
    BY <1>7 DEF IsPrefixSum
  <1> DEFINE F == {m \in 0 .. n : f[m] = Upto(m)}
  <1>9. 0 \in F
    BY <1>2, <1>8
  <1>10. ASSUME NEW m \in 0 .. n - 1, m \in F PROVE m + 1 \in F
    <2>1. m + 1 \in 1 .. n /\ m + 1 \in 0 .. n /\ (m + 1) - 1 = m /\ m + 1 # 0
      BY <1>10
    <2>2. f[m + 1] = f[(m + 1) - 1] + v[(m + 1) - 1]
      BY <1>8, <2>1
    <2>3. Upto(m + 1) = Upto((m + 1) - 1) + v[(m + 1) - 1]
      BY <1>3, <2>1
    <2>4. f[(m + 1) - 1] = Upto((m + 1) - 1)
      BY <1>10, <2>1
    <2>5. QED
      BY <2>1, <2>2, <2>3, <2>4
  <1>11. k \in F
    <2> HIDE DEF F
    <2>1. 0 \in Int /\ n \in Int
      OBVIOUS
    <2>2. 0 .. n \subseteq F
      BY <1>9, <1>10, <2>1, IntervalInduction
    <2>3. QED
      BY <2>2
  <1>12. QED
    BY <1>6, <1>11 DEF Upto

(* The difference of two prefix sums is the sum of the window.             *)
LEMMA WindowIsSum ==
  ASSUME NEW n \in Nat, NEW v \in [0 .. n - 1 -> Int], NEW window \in Nat \ {0}, NEW i \in window - 1 .. n - 1
  PROVE  /\ IsFiniteSet(i - window + 1 .. i)
         /\ SumOver(v, i - window + 1 .. i) \in Int
         /\ WindowSum(PrefixSum(v), window, i) = SumOver(v, i - window + 1 .. i)
  <1>1. PICK m, S, T : m = i - window + 1 /\ S = 0 .. m - 1 /\ T = m .. i
    OBVIOUS
  <1>2. m \in 0 .. n /\ i + 1 \in 0 .. n /\ m \in Nat /\ i + 1 \in Nat /\ m <= i
    BY <1>1
  <1>3. S \cap T = {} /\ S \cup T = 0 .. (i + 1) - 1
    BY <1>1, <1>2
  <1>4. IsFiniteSet(S) /\ IsFiniteSet(S \cup T)
    BY <1>1, <1>2, <1>3, RowCount
  <1>5. IsFiniteSet(T)
    BY <1>4, FS_Subset
  <1>6. \A x \in S \cup T : v[x] \in Int
    BY <1>2, <1>3
  <1>7. /\ SumOver(v, S) \in Int /\ SumOver(v, T) \in Int
        /\ SumOver(v, S \cup T) = SumOver(v, S) + SumOver(v, T)
    BY <1>3, <1>4, <1>5, <1>6, SumOfUnion
  <1>8. PrefixSum(v)[m] = SumOver(v, S) /\ PrefixSum(v)[i + 1] = SumOver(v, S \cup T)
    <2>1. PrefixSum(v)[m] = SumOver(v, 0 .. m - 1)
      BY <1>2, PrefixIsSum
    <2>2. PrefixSum(v)[i + 1] = SumOver(v, 0 .. (i + 1) - 1)
      BY <1>2, PrefixIsSum
    <2>3. QED
      BY <1>1, <1>3, <2>1, <2>2
  <1>9. WindowSum(PrefixSum(v), window, i) = PrefixSum(v)[i + 1] - PrefixSum(v)[m]
    BY <1>1 DEF WindowSum
  <1>10. QED
    BY <1>1, <1>5, <1>7, <1>8, <1>9

(* The squares of the differences from w times a value, added up: one term *)
LEMMA OneDeviation ==
  ASSUME NEW w \in Int, NEW s \in Int, NEW q \in Int, NEW t \in Int, NEW m \in Int, NEW x \in Int
  PROVE  (w * w * q - 2 * w * s * t + m * s * s) + (w * x - s) * (w * x - s)
         = w * w * (q + x * x) - 2 * w * s * (t + x) + (m + 1) * s * s
  OBVIOUS

(* u are the squares of v and d those of the differences of w times v and  *)
(* s, which are squared deviations from the mean, times w squared, when s  *)
(* is the sum of w numbers.                                                *)
Squares(S, v, u, d, w, s) ==
  \A x \in S : v[x] \in Int /\ u[x] = v[x] * v[x] /\ d[x] = (w * v[x] - s) * (w * v[x] - s)

SquaresAddUp(S, v, u, d, w, s) ==
  SumOver(d, S) = w * w * SumOver(u, S) - 2 * w * s * SumOver(v, S) + Cardinality(S) * s * s

LEMMA Deviations ==
  ASSUME NEW S, IsFiniteSet(S), NEW v, NEW u, NEW d, NEW w \in Int, NEW s \in Int,
         Squares(S, v, u, d, w, s)
  PROVE  SquaresAddUp(S, v, u, d, w, s)
  <1> DEFINE Good(U) == SumOver(d, U) = w * w * SumOver(u, U) - 2 * w * s * SumOver(v, U)
                                        + Cardinality(U) * s * s
             N == {n \in Nat : \A U \in SUBSET S : Cardinality(U) = n => Good(U)}
  <1>a. \A x \in S : v[x] \in Int /\ u[x] \in Int /\ d[x] \in Int
    <2>1. ASSUME NEW x \in S PROVE v[x] \in Int /\ u[x] \in Int /\ d[x] \in Int
      <3>1. PICK y : y = v[x]
        OBVIOUS
      <3>2. y \in Int /\ u[x] = y * y /\ d[x] = (w * y - s) * (w * y - s)
        BY <3>1 DEF Squares
      <3>3. QED
        BY <3>1, <3>2
    <2>2. QED
      BY <2>1
  <1>b. ASSUME NEW U \in SUBSET S
        PROVE  /\ IsFiniteSet(U) /\ SumOver(u, U) \in Int /\ SumOver(v, U) \in Int /\ SumOver(d, U) \in Int
               /\ \A x \in U : /\ SumOver(u, U) = SumOver(u, U \ {x}) + u[x]
                               /\ SumOver(v, U) = SumOver(v, U \ {x}) + v[x]
                               /\ SumOver(d, U) = SumOver(d, U \ {x}) + d[x]
    <2>1. IsFiniteSet(U) /\ \A x \in U : v[x] \in Int /\ u[x] \in Int /\ d[x] \in Int
      BY <1>a, FS_Subset
    <2>2. SumOver(u, U) \in Int /\ \A x \in U : SumOver(u, U) = SumOver(u, U \ {x}) + u[x]
      BY <2>1, SumOne
    <2>3. SumOver(v, U) \in Int /\ \A x \in U : SumOver(v, U) = SumOver(v, U \ {x}) + v[x]
      BY <2>1, SumOne
    <2>4. SumOver(d, U) \in Int /\ \A x \in U : SumOver(d, U) = SumOver(d, U \ {x}) + d[x]
      BY <2>1, SumOne
    <2>5. QED
      BY <2>1, <2>2, <2>3, <2>4
  <1>1. 0 \in N
    <2>1. ASSUME NEW U \in SUBSET S, Cardinality(U) = 0 PROVE Good(U)
      <3>1. U = {}
        BY <2>1, FS_Subset, FS_EmptySet
      <3>2. SumOver(u, U) = 0 /\ SumOver(v, U) = 0 /\ SumOver(d, U) = 0
        BY <3>1, SumOne, FS_EmptySet
      <3>3. 0 = w * w * 0 - 2 * w * s * 0 + 0 * s * s
        OBVIOUS
      <3>4. QED
        BY <2>1, <3>2, <3>3
    <2> HIDE DEF Good
    <2>2. QED
      BY <2>1
  <1>2. ASSUME NEW n \in 0 .. Cardinality(S) - 1, n \in N PROVE n + 1 \in N
    <2>1. ASSUME NEW U \in SUBSET S, Cardinality(U) = n + 1 PROVE Good(U)
      <3>1. IsFiniteSet(U) /\ U # {} /\ n \in Nat
        BY <2>1, FS_Subset, FS_EmptySet
      <3>2. PICK x : x \in U
        BY <3>1
      <3>3. PICK V : V = U \ {x}
        OBVIOUS
      <3>4. V \in SUBSET S /\ Cardinality(V) = n
        <4>1. Cardinality(U \ {x}) = Cardinality(U) - 1
          BY <3>1, <3>2, FS_RemoveElement
        <4>2. QED
          BY <2>1, <3>1, <3>3, <4>1
      <3>5. Good(V)
        BY <1>2, <3>4
      <3>6. PICK q, t, e, y : q = SumOver(u, V) /\ t = SumOver(v, V) /\ e = SumOver(d, V) /\ y = v[x]
        OBVIOUS
      <3>7. q \in Int /\ t \in Int /\ e \in Int /\ y \in Int /\ n \in Int
        BY <1>a, <1>b, <3>1, <3>2, <3>4, <3>6
      <3>8. e = w * w * q - 2 * w * s * t + n * s * s
        BY <3>4, <3>5, <3>6
      <3>9. /\ SumOver(u, U) = q + y * y /\ SumOver(v, U) = t + y
            /\ SumOver(d, U) = e + (w * y - s) * (w * y - s)
        <4>1. /\ SumOver(u, U) = SumOver(u, U \ {x}) + u[x]
              /\ SumOver(v, U) = SumOver(v, U \ {x}) + v[x]
              /\ SumOver(d, U) = SumOver(d, U \ {x}) + d[x]
          BY <1>b, <3>2
        <4>2. u[x] = y * y /\ d[x] = (w * y - s) * (w * y - s)
          BY <3>2, <3>6 DEF Squares
        <4>3. QED
          BY <3>3, <3>6, <4>1, <4>2
      <3>10. (w * w * q - 2 * w * s * t + n * s * s) + (w * y - s) * (w * y - s)
             = w * w * (q + y * y) - 2 * w * s * (t + y) + (n + 1) * s * s
        BY <3>7, OneDeviation
      <3>11. QED
        BY <2>1, <3>8, <3>9, <3>10
    <2>2. n + 1 \in Nat
      OBVIOUS
    <2> HIDE DEF Good
    <2>3. QED
      BY <2>1, <2>2
  <1>3. Cardinality(S) \in Nat
    BY FS_CardinalityType
  <1>4. 0 .. Cardinality(S) \subseteq N
    <2> HIDE DEF N
    <2>1. 0 \in Int /\ Cardinality(S) \in Int
      BY <1>3
    <2>2. QED
      BY <1>1, <1>2, <2>1, IntervalInduction
  <1>5. QED
    BY <1>b, <1>3, <1>4 DEF SquaresAddUp

WithoutMean(w, s, q) == w * w * q - 2 * w * s * s + w * s * s = w * (w * q - s * s)

LEMMA MeanDeviation ==
  ASSUME NEW w \in Int, NEW s \in Int, NEW q \in Int
  PROVE  WithoutMean(w, s, q)
  BY DEF WithoutMean

-----------------------------------------------------------------------------
(* The queue of rows that may become the least or the greatest one         *)

(* a is at least as good as b: not larger for min, not smaller for max.    *)
AsGood(fn, a, b) == ~(IF fn = "min" THEN b < a ELSE b > a)

LEMMA GoodOrder ==
  ASSUME NEW fn, NEW a \in Int, NEW b \in Int, NEW c \in Int
  PROVE  /\ AsGood(fn, a, a)
         /\ AsGood(fn, a, b) /\ AsGood(fn, b, c) => AsGood(fn, a, c)
         /\ AsGood(fn, a, b) \/ AsGood(fn, b, a)
  BY DEF AsGood

\* How much of the queue stays when row k comes, and the queue then
StillGood(fn, v, q, k) == Max({0} \cup {p \in DOMAIN q : AsGood(fn, v[q[p]], v[k])})

Pushed(fn, v, q, k) == Append(SubSeq(q, 1, StillGood(fn, v, q, k)), k)

Stepped(fn, v, window, q, k) ==
  IF Leaves(Pushed(fn, v, q, k)[1], k, window) THEN Tail(Pushed(fn, v, q, k)) ELSE Pushed(fn, v, q, k)

\* After k rows: the queue has rows of the window that ends in row k - 1, in row
\* order and from the best one on, the newest at the back, and for every row of
\* the window one as new and as good.
QueueOK(fn, v, window, q, k) ==
  /\ q \in Seq(Int)
  /\ k > 0 => Len(q) > 0 /\ q[Len(q)] = k - 1
  /\ \A p \in 1 .. Len(q) : q[p] \in 0 .. k - 1 /\ q[p] >= k - window
  /\ \A p, r \in 1 .. Len(q) : p < r => q[p] < q[r] /\ AsGood(fn, v[q[p]], v[q[r]])
  /\ \A j \in 0 .. k - 1 : j >= k - window =>
       \E p \in 1 .. Len(q) : q[p] >= j /\ AsGood(fn, v[q[p]], v[j])

LEMMA GoodPrefix ==
  ASSUME NEW fn, NEW v, NEW q \in Seq(Int), NEW k
  PROVE  LET m == StillGood(fn, v, q, k)
         IN /\ m \in 0 .. Len(q)
            /\ m > 0 => AsGood(fn, v[q[m]], v[k])
            /\ \A p \in 1 .. Len(q) : p > m => ~AsGood(fn, v[q[p]], v[k])
  <1>1. PICK S, m : S = {0} \cup {p \in DOMAIN q : AsGood(fn, v[q[p]], v[k])} /\ m = Max(S)
    OBVIOUS
  <1>2. S \in SUBSET (0 .. Len(q)) /\ S \in SUBSET Int /\ S # {} /\ Len(q) \in Nat /\ DOMAIN q = 1 .. Len(q)
    BY <1>1
  <1>3. IsFiniteSet(S)
    <2>1. Len(q) + 1 \in Nat /\ 0 .. (Len(q) + 1) - 1 = 0 .. Len(q)
      BY <1>2
    <2>2. IsFiniteSet(0 .. (Len(q) + 1) - 1)
      BY <2>1, RowCount
    <2>3. QED
      BY <1>2, <2>1, <2>2, FS_Subset
  <1>4. IsGreatest(m, S)
    BY <1>1, <1>2, <1>3, Extremes
  <1>5. m \in S /\ \A x \in S : m >= x
    BY <1>4 DEF IsGreatest
  <1>6. m \in 0 .. Len(q)
    BY <1>2, <1>5
  <1>7. m > 0 => AsGood(fn, v[q[m]], v[k])
    BY <1>1, <1>5
  <1>8. \A p \in 1 .. Len(q) : p > m => ~AsGood(fn, v[q[p]], v[k])
    BY <1>1, <1>2, <1>5, <1>6
  <1>9. QED
    BY <1>1, <1>6, <1>7, <1>8 DEF StillGood

LEMMA PushedList ==
  ASSUME NEW fn, NEW v, NEW q \in Seq(Int), NEW k \in Int
  PROVE  LET m == StillGood(fn, v, q, k)
             t == Pushed(fn, v, q, k)
         IN /\ m \in 0 .. Len(q)
            /\ t \in Seq(Int) /\ Len(t) = m + 1 /\ t[m + 1] = k
            /\ \A p \in 1 .. m : t[p] = q[p]
  <1>1. PICK m, s, t : m = StillGood(fn, v, q, k) /\ s = SubSeq(q, 1, m) /\ t = Append(s, k)
    OBVIOUS
  <1>2. m \in 0 .. Len(q) /\ Len(q) \in Nat
    BY <1>1, GoodPrefix
  <1>3. s \in Seq(Int) /\ Len(s) = m /\ \A p \in 1 .. m : s[p] = q[p]
    BY <1>1, <1>2
  <1>4. t \in Seq(Int) /\ Len(t) = m + 1 /\ t[m + 1] = k /\ \A p \in 1 .. m : t[p] = s[p]
    BY <1>1, <1>2, <1>3
  <1>5. t = Pushed(fn, v, q, k)
    BY <1>1 DEF Pushed
  <1>6. QED
    BY <1>1, <1>2, <1>3, <1>4, <1>5

LEMMA QueueStep ==
  ASSUME NEW fn, NEW n \in Nat, NEW v \in [0 .. n - 1 -> Int], NEW window \in Nat \ {0},
         NEW k \in 0 .. n - 1, NEW q, QueueOK(fn, v, window, q, k)
  PROVE  QueueOK(fn, v, window, Stepped(fn, v, window, q, k), k + 1)
  <1>1. PICK m, t : m = StillGood(fn, v, q, k) /\ t = Pushed(fn, v, q, k)
    OBVIOUS
  <1>2. q \in Seq(Int) /\ Len(q) \in Nat /\ k \in Nat
    BY DEF QueueOK
  <1>3. /\ m \in 0 .. Len(q)
        /\ m > 0 => AsGood(fn, v[q[m]], v[k])
        /\ \A p \in 1 .. Len(q) : p > m => ~AsGood(fn, v[q[p]], v[k])
    BY <1>1, <1>2, GoodPrefix
  <1>4. /\ t \in Seq(Int) /\ Len(t) = m + 1 /\ t[m + 1] = k
        /\ \A p \in 1 .. m : t[p] = q[p]
    BY <1>1, <1>2, PushedList
  <1>5. /\ \A p \in 1 .. Len(q) : q[p] \in 0 .. k - 1 /\ q[p] >= k - window
        /\ \A p, r \in 1 .. Len(q) : p < r => q[p] < q[r] /\ AsGood(fn, v[q[p]], v[q[r]])
        /\ \A j \in 0 .. k - 1 : j >= k - window =>
             \E p \in 1 .. Len(q) : q[p] >= j /\ AsGood(fn, v[q[p]], v[j])
    BY DEF QueueOK
  <1>6. \A p \in 1 .. m + 1 : p \in 1 .. m \/ p = m + 1
    BY <1>3
  <1>7. \A p \in 1 .. m : p \in 1 .. Len(q)
    BY <1>2, <1>3
  <1>8. \A j \in 0 .. n - 1 : v[j] \in Int
    OBVIOUS
  <1>9. ASSUME NEW p \in 1 .. m + 1
        PROVE  t[p] \in 0 .. k /\ t[p] \in 0 .. n - 1 /\ t[p] >= k - window
    <2>1. CASE p = m + 1
      <3>1. t[p] = k /\ k - window <= k
        BY <1>2, <1>4, <2>1
      <3>2. QED
        BY <1>2, <3>1
    <2>2. CASE p \in 1 .. m
      <3>1. t[p] = q[p] /\ q[p] \in 0 .. k - 1 /\ q[p] >= k - window
        BY <1>4, <1>5, <1>7, <2>2
      <3>2. QED
        BY <1>2, <3>1
    <2>3. QED
      BY <1>6, <2>1, <2>2
  <1>10. \A p \in 1 .. m : t[p] < k /\ AsGood(fn, v[t[p]], v[k])
    <2>1. ASSUME NEW p \in 1 .. m PROVE t[p] < k /\ AsGood(fn, v[t[p]], v[k])
      <3>0. p \in 1 .. Len(q) /\ m \in 1 .. Len(q) /\ m > 0
        BY <1>3, <1>7
      <3>1. t[p] = q[p] /\ q[p] \in 0 .. k - 1 /\ q[m] \in 0 .. k - 1
        BY <1>4, <1>5, <3>0
      <3>2. q[p] \in 0 .. n - 1 /\ q[m] \in 0 .. n - 1
        BY <3>1
      <3>3. v[q[p]] \in Int /\ v[q[m]] \in Int /\ v[k] \in Int
        BY <1>8, <3>2
      <3>4. AsGood(fn, v[q[m]], v[k])
        BY <1>3, <3>0
      <3>5. p = m \/ (p < m /\ AsGood(fn, v[q[p]], v[q[m]]))
        BY <1>5, <3>0
      <3>6. AsGood(fn, v[q[p]], v[k])
        BY <3>3, <3>4, <3>5, GoodOrder
      <3>7. QED
        BY <3>1, <3>6
    <2>2. QED
      BY <2>1
  <1>11. \A p, r \in 1 .. m + 1 : p < r => t[p] < t[r] /\ AsGood(fn, v[t[p]], v[t[r]])
    <2>1. ASSUME NEW p \in 1 .. m + 1, NEW r \in 1 .. m + 1, p < r
          PROVE  t[p] < t[r] /\ AsGood(fn, v[t[p]], v[t[r]])
      <3>1. p \in 1 .. m
        BY <1>3, <2>1
      <3>2. CASE r = m + 1
        BY <1>4, <1>10, <3>1, <3>2
      <3>3. CASE r \in 1 .. m
        BY <1>4, <1>5, <1>7, <2>1, <3>1, <3>3
      <3>4. QED
        BY <1>6, <3>2, <3>3
    <2>2. QED
      BY <2>1
  <1>12. ASSUME NEW j \in 0 .. k, j >= k - window
         PROVE  \E p \in 1 .. m + 1 : t[p] >= j /\ AsGood(fn, v[t[p]], v[j])
    <2>1. m + 1 \in 1 .. m + 1 /\ t[m + 1] >= j
      BY <1>3, <1>4
    <2>2. v[j] \in Int /\ v[k] \in Int
      BY <1>8
    <2>3. CASE j = k
      <3>1. AsGood(fn, v[k], v[k])
        BY <2>2, GoodOrder
      <3>2. QED
        BY <1>4, <2>1, <2>3, <3>1
    <2>4. CASE j \in 0 .. k - 1
      <3>1. PICK p \in 1 .. Len(q) : q[p] >= j /\ AsGood(fn, v[q[p]], v[j])
        BY <1>5, <1>12, <2>4
      <3>2. CASE p <= m
        <4>1. p \in 1 .. m /\ p \in 1 .. m + 1
          BY <1>3, <3>2
        <4>2. QED
          BY <1>4, <3>1, <4>1
      <3>3. CASE p > m
        <4>1. ~AsGood(fn, v[q[p]], v[k])
          BY <1>3, <3>3
        <4>2. q[p] \in 0 .. n - 1
          BY <1>5
        <4>3. v[q[p]] \in Int
          BY <1>8, <4>2
        <4>4. AsGood(fn, v[k], v[j])
          BY <2>2, <3>1, <4>1, <4>3, GoodOrder
        <4>5. QED
          BY <1>4, <2>1, <4>4
      <3>4. QED
        BY <1>2, <1>3, <3>2, <3>3
    <2>5. QED
      BY <1>2, <2>3, <2>4
  <1>13. (k + 1) - 1 = k /\ (k + 1) - window = k - window + 1
    BY <1>2
  <1>14. CASE ~Leaves(t[1], k, window)
    <2>1. Stepped(fn, v, window, q, k) = t
      BY <1>1, <1>14 DEF Stepped
    <2>2. 1 \in 1 .. m + 1 /\ ~(t[1] <= k - window)
      BY <1>3, <1>14 DEF Leaves
    <2>3. \A p \in 1 .. m + 1 : t[p] >= k - window + 1
      <3>1. ASSUME NEW p \in 1 .. m + 1 PROVE t[p] >= t[1] /\ t[p] \in Int /\ t[1] \in Int
        <4>1. p = 1 \/ 1 < p
          OBVIOUS
        <4>2. QED
          BY <1>9, <1>11, <2>2, <4>1
      <3>2. QED
        BY <1>2, <2>2, <3>1
    <2>4. \A j \in 0 .. k : j >= k - window + 1 =>
            \E p \in 1 .. m + 1 : t[p] >= j /\ AsGood(fn, v[t[p]], v[j])
      <3>1. \A j \in 0 .. k : j >= k - window + 1 => j >= k - window
        BY <1>2
      <3>2. QED
        BY <1>12, <3>1
    <2>5. Len(t) > 0 /\ t[Len(t)] = k
      BY <1>3, <1>4
    <2>6. \A p \in 1 .. Len(t) : t[p] \in 0 .. k /\ t[p] >= k - window + 1
      BY <1>4, <1>9, <2>3
    <2>7. QED
      BY <1>4, <1>11, <1>13, <2>1, <2>4, <2>5, <2>6 DEF QueueOK
  <1>15. CASE Leaves(t[1], k, window)
    <2>1. PICK u : u = Tail(t)
      OBVIOUS
    <2>2. Stepped(fn, v, window, q, k) = u
      BY <1>1, <1>15, <2>1 DEF Stepped
    <2>3. t[1] <= k - window
      BY <1>15 DEF Leaves
    <2>4. m > 0
      <3>1. m = 0 => t[1] = k
        BY <1>4
      <3>2. ~(k <= k - window)
        BY <1>2
      <3>3. QED
        BY <1>3, <2>3, <3>1, <3>2
    <2>5. u \in Seq(Int) /\ Len(u) = m /\ \A p \in 1 .. m : u[p] = t[p + 1]
      BY <1>3, <1>4, <2>1, <2>4
    <2>6. \A p \in 1 .. m : p + 1 \in 1 .. m + 1 /\ 1 \in 1 .. m + 1 /\ 1 < p + 1
      BY <1>3
    <2>7. \A p \in 1 .. m : u[p] \in 0 .. k /\ u[p] >= k - window + 1
      <3>1. ASSUME NEW p \in 1 .. m PROVE u[p] \in 0 .. k /\ u[p] >= k - window + 1
        <4>1. t[1] < t[p + 1] /\ t[1] >= k - window /\ t[1] \in 0 .. k /\ t[p + 1] \in 0 .. k
          BY <1>9, <1>11, <2>6
        <4>2. u[p] = t[p + 1]
          BY <2>5
        <4>3. QED
          BY <1>2, <4>1, <4>2
      <3>2. QED
        BY <3>1
    <2>8. \A p, r \in 1 .. m : p < r => u[p] < u[r] /\ AsGood(fn, v[u[p]], v[u[r]])
      <3>1. ASSUME NEW p \in 1 .. m, NEW r \in 1 .. m, p < r
            PROVE  u[p] < u[r] /\ AsGood(fn, v[u[p]], v[u[r]])
        <4>1. p + 1 \in 1 .. m + 1 /\ r + 1 \in 1 .. m + 1 /\ p + 1 < r + 1
          BY <2>6, <3>1
        <4>2. QED
          BY <1>11, <2>5, <4>1
      <3>2. QED
        BY <3>1
    <2>9. ASSUME NEW j \in 0 .. k, j >= k - window + 1
          PROVE  \E p \in 1 .. m : u[p] >= j /\ AsGood(fn, v[u[p]], v[j])
      <3>1. j >= k - window
        BY <1>2, <2>9
      <3>2. PICK p \in 1 .. m + 1 : t[p] >= j /\ AsGood(fn, v[t[p]], v[j])
        BY <1>12, <3>1
      <3>3. p # 1
        <4>1. ~(t[1] >= j)
          <5>1. t[1] \in 0 .. k
            BY <1>9, <2>4, <1>3
          <5>2. QED
            BY <1>2, <2>3, <2>9, <5>1
        <4>2. QED
          BY <3>2, <4>1
      <3>4. p - 1 \in 1 .. m /\ (p - 1) + 1 = p
        BY <1>3, <3>3
      <3>5. u[p - 1] = t[p]
        BY <2>5, <3>4
      <3>6. QED
        BY <3>2, <3>4, <3>5
    <2>10. u[m] = k /\ Len(u) > 0
      <3>1. m \in 1 .. m
        BY <1>3, <2>4
      <3>2. QED
        BY <1>4, <2>4, <2>5, <3>1
    <2>11. QED
      BY <1>2, <1>3, <1>13, <2>2, <2>5, <2>7, <2>8, <2>9, <2>10 DEF QueueOK
  <1>16. QED
    BY <1>14, <1>15

IsQueue(f, fn, v, window, n) ==
  f = [k \in 0 .. n |-> IF k = 0 THEN <<>> ELSE Stepped(fn, v, window, f[k - 1], k - 1)]

LEMMA QueueExists ==
  ASSUME NEW fn, NEW v, NEW window, NEW n \in Nat
  PROVE  \E f : IsQueue(f, fn, v, window, n)
  <1> DEFINE After(q, k) == Stepped(fn, v, window, q, k)
  <1>1. PICK step : step = [k \in 1 .. n |-> [q \in Seq(Int) |-> After(q, k - 1)]]
    OBVIOUS
  <1>2. <<>> \in Seq(Int)
    OBVIOUS
  <1>3. \A k \in 1 .. n : \A q \in Seq(Int) : After(q, k - 1) \in Seq(Int)
    <2>1. ASSUME NEW k \in 1 .. n, NEW q \in Seq(Int) PROVE After(q, k - 1) \in Seq(Int)
      <3>1. PICK t, m : t = Pushed(fn, v, q, k - 1) /\ m = StillGood(fn, v, q, k - 1)
        OBVIOUS
      <3>2. t \in Seq(Int) /\ Len(t) = m + 1 /\ m \in 0 .. Len(q) /\ Len(q) \in Nat
        BY <3>1, PushedList
      <3>3. Len(t) > 0
        BY <3>2
      <3>4. Tail(t) \in Seq(Int)
        BY <3>2, <3>3
      <3>5. After(q, k - 1) = t \/ After(q, k - 1) = Tail(t)
        BY <3>1 DEF Stepped
      <3>6. QED
        BY <3>2, <3>4, <3>5
    <2>2. QED
      BY <2>1
  <1> HIDE DEF After
  <1>4. \A k \in 1 .. n : \A q \in Seq(Int) : step[k][q] = After(q, k - 1) /\ step[k][q] \in Seq(Int)
    BY <1>1, <1>3
  <1>5. PICK f : IsLoop(f, Seq(Int), <<>>, step, n)
    BY <1>2, <1>4, LoopExists
  <1>6. \A k \in 0 .. n : f[k] = IF k = 0 THEN <<>> ELSE After(f[k - 1], k - 1)
    <2> SUFFICES ASSUME NEW k \in 0 .. n PROVE f[k] = IF k = 0 THEN <<>> ELSE After(f[k - 1], k - 1)
      OBVIOUS
    <2>1. f[k] = IF k = 0 THEN <<>> ELSE step[k][f[k - 1]]
      BY <1>5 DEF IsLoop
    <2>2. k = 0 \/ (k \in 1 .. n /\ k - 1 \in 0 .. n)
      OBVIOUS
    <2>3. k # 0 => f[k - 1] \in Seq(Int)
      BY <1>5, <2>2 DEF IsLoop
    <2>4. QED
      BY <1>4, <2>1, <2>2, <2>3
  <1>7. f = [k \in 0 .. n |-> f[k]]
    BY <1>5 DEF IsLoop
  <1>8. f = [k \in 0 .. n |-> IF k = 0 THEN <<>> ELSE After(f[k - 1], k - 1)]
    BY <1>6, <1>7, Zenon
  <1>9. IsQueue(f, fn, v, window, n)
    BY <1>8 DEF IsQueue, After
  <1>10. QED
    BY <1>9

(* The front of the queue is the best row of the window.                   *)
LEMMA FrontIsBest ==
  ASSUME NEW fn, NEW n \in Nat, NEW v \in [0 .. n - 1 -> Int], NEW window \in Nat \ {0},
         NEW i \in window - 1 .. n - 1
  PROVE  \E x \in i - window + 1 .. i :
           /\ rollingMinMax(fn, v, window, i) = v[x]
           /\ \A j \in i - window + 1 .. i : AsGood(fn, v[x], v[j])
  <1>1. i + 1 \in Nat /\ i + 1 <= n /\ i \in Nat
    OBVIOUS
  <1>2. PICK f : f = CHOOSE g : IsQueue(g, fn, v, window, i + 1)
    OBVIOUS
  <1>3. Deque(fn, v, window, i) = f[i + 1]
    BY <1>2 DEF Deque, IsQueue, Stepped, Pushed, StillGood, AsGood
  <1>4. IsQueue(f, fn, v, window, i + 1)
    <2>1. \E g : IsQueue(g, fn, v, window, i + 1)
      BY <1>1, QueueExists
    <2>2. QED
      BY <1>2, <2>1
  <1>5. \A k \in 0 .. i + 1 : f[k] = IF k = 0 THEN <<>> ELSE Stepped(fn, v, window, f[k - 1], k - 1)
    BY <1>4 DEF IsQueue
  <1> DEFINE F == {k \in 0 .. i + 1 : QueueOK(fn, v, window, f[k], k)}
  <1>6. 0 \in F
    <2>1. f[0] = <<>> /\ <<>> \in Seq(Int) /\ Len(<<>>) = 0
      BY <1>1, <1>5
    <2>2. QueueOK(fn, v, window, <<>>, 0)
      BY <2>1 DEF QueueOK
    <2>3. QED
      BY <1>1, <2>1, <2>2
  <1>7. ASSUME NEW k \in 0 .. (i + 1) - 1, k \in F PROVE k + 1 \in F
    <2>1. k + 1 \in 0 .. i + 1 /\ (k + 1) - 1 = k /\ k + 1 # 0 /\ k \in 0 .. n - 1
      BY <1>1
    <2>2. f[k + 1] = Stepped(fn, v, window, f[(k + 1) - 1], (k + 1) - 1)
      BY <1>5, <2>1
    <2>3. QueueOK(fn, v, window, f[k], k)
      BY <1>7
    <2>4. QueueOK(fn, v, window, Stepped(fn, v, window, f[k], k), k + 1)
      BY <2>1, <2>3, QueueStep
    <2>5. QED
      BY <2>1, <2>2, <2>4
  <1>8. i + 1 \in F
    <2> HIDE DEF F
    <2>1. 0 \in Int /\ i + 1 \in Int
      OBVIOUS
    <2>2. 0 .. i + 1 \subseteq F
      BY <1>6, <1>7, <2>1, IntervalInduction
    <2>3. QED
      BY <1>1, <2>2
  <1>9. PICK q : q = f[i + 1] /\ QueueOK(fn, v, window, q, i + 1)
    BY <1>8
  <1>10. (i + 1) - 1 = i /\ (i + 1) - window = i - window + 1 /\ i + 1 > 0
    BY <1>1
  <1>11. /\ q \in Seq(Int) /\ Len(q) \in Nat /\ Len(q) > 0
         /\ \A p \in 1 .. Len(q) : q[p] \in 0 .. i /\ q[p] >= i - window + 1
         /\ \A p, r \in 1 .. Len(q) : p < r => q[p] < q[r] /\ AsGood(fn, v[q[p]], v[q[r]])
         /\ \A j \in 0 .. i : j >= i - window + 1 =>
              \E p \in 1 .. Len(q) : q[p] >= j /\ AsGood(fn, v[q[p]], v[j])
    BY <1>9, <1>10 DEF QueueOK
  <1>12. 1 \in 1 .. Len(q)
    BY <1>11
  <1>13. q[1] \in i - window + 1 .. i /\ q[1] \in 0 .. i
    BY <1>1, <1>11, <1>12
  <1>14. \A j \in 0 .. i : v[j] \in Int
    BY <1>1
  <1>15. ASSUME NEW j \in i - window + 1 .. i PROVE AsGood(fn, v[q[1]], v[j])
    <2>1. j \in 0 .. i /\ j >= i - window + 1
      BY <1>1, <1>15
    <2>2. PICK p \in 1 .. Len(q) : q[p] >= j /\ AsGood(fn, v[q[p]], v[j])
      BY <1>11, <2>1
    <2>3. v[q[p]] \in Int /\ v[q[1]] \in Int /\ v[j] \in Int
      BY <1>11, <1>13, <1>14, <2>1
    <2>4. p = 1 \/ AsGood(fn, v[q[1]], v[q[p]])
      <3>1. p = 1 \/ 1 < p
        OBVIOUS
      <3>2. QED
        BY <1>11, <1>12, <3>1
    <2>5. QED
      BY <2>2, <2>3, <2>4, GoodOrder
  <1>16. rollingMinMax(fn, v, window, i) = v[q[1]]
    BY <1>3, <1>9 DEF rollingMinMax
  <1>17. QED
    BY <1>13, <1>15, <1>16

-----------------------------------------------------------------------------
(* Rolling columns                                                         *)

Windowed(window, i) == i - window + 1 .. i

\* What rollingAgg computes for a valid row
Rolling1(fn, v, window, i) ==
  IF fn \in {"min", "max"} THEN rollingMinMax(fn, v, window, i) ELSE rollingSum(fn, v, window, i)

NullsOf(a) == [i \in 0 .. a.length - 1 |-> IF IsNull(a, i) THEN 1 ELSE 0]

InvalidRows(a, window) ==
  {i \in 0 .. a.length - 1 :
     ~(i >= window - 1 /\ WindowSum(PrefixSum(NullsOf(a)), window, i) = 0)}

RolledValues(s, fn, window) ==
  [i \in 0 .. s.arr.length - 1 |->
     IF i >= window - 1 /\ WindowSum(PrefixSum(NullsOf(s.arr)), window, i) = 0
       THEN Rolling1(fn, FloatValues(s.arr), window, i) ELSE 0]

LEMMA RolledCell ==
  ASSUME NEW s, NEW fn, NEW window, window \in Nat \ {0}, s.arr.length \in Nat,
         NEW i \in 0 .. s.arr.length - 1,
         Rolled(s, fn, window) # nil
  PROVE  Cell(Rolled(s, fn, window).cols[1], i)
         = IF i \in InvalidRows(s.arr, window) THEN Null ELSE Rolling1(fn, FloatValues(s.arr), window, i)
  <1>1. PICK a, n, bad, t, b, w :
          /\ a = s.arr /\ n = a.length /\ bad = InvalidRows(a, window)
          /\ b = ClearAll(NewBitmap(n), bad)
          /\ w = RolledValues(s, fn, window)
          /\ t = Series(s.name, "Float64", TypedArray(w, b))
    OBVIOUS
  <1>2. n \in Nat /\ i \in 0 .. n - 1 /\ n # 0
    BY <1>1
  <1>3. rollingAgg(s, fn, window) = IF s.dtype \notin {"Int64", "Float64"} THEN nil ELSE t
    <2>1. ~(window <= 0 \/ s.arr.length = 0)
      BY <1>1, <1>2
    <2>2. rollingAgg(s, fn, window)
          = IF s.dtype \notin {"Int64", "Float64"} THEN nil
            ELSE Series(s.name, "Float64",
                        TypedArray(RolledValues(s, fn, window),
                                   ClearAll(NewBitmap(s.arr.length), InvalidRows(s.arr, window))))
      BY <2>1 DEF rollingAgg, RolledValues, InvalidRows, NullsOf, Rolling1
    <2>3. QED
      BY <1>1, <2>2
  <1>4. Rolled(s, fn, window).cols[1] = t
    <2>1. rollingAgg(s, fn, window) = t /\ Rolled(s, fn, window) = New(<<t>>) /\ New(<<t>>) # nil
      BY <1>3 DEF Rolled
    <2>2. New(<<t>>) = [cols |-> <<t>>, height |-> Height(<<t>>)]
      BY <2>1 DEF New
    <2>3. QED
      BY <2>1, <2>2
  <1>5. t.dtype = "Float64" /\ t.arr.validity = b /\ t.arr.values = w
    BY <1>1 DEF Series, TypedArray
  <1>6. IsBitmap(b) /\ b.len = n /\ (IsSet(b, i) <=> i \notin bad)
    <2>1. PICK c : c = NewBitmap(n) /\ IsBitmap(c) /\ c.len = n /\ \A k \in 0 .. n - 1 : IsSet(c, k)
      BY <1>2, NewBits DEF IsBitmapOf
    <2>2. bad \subseteq 0 .. c.len - 1
      BY <1>1, <2>1 DEF InvalidRows
    <2>3. /\ IsBitmapOf(ClearAll(c, bad), c.len)
          /\ \A k \in 0 .. c.len - 1 : IsSet(ClearAll(c, bad), k) <=> IsSet(c, k) /\ k \notin bad
      BY <2>1, <2>2, BitsCleared
    <2>4. QED
      BY <1>1, <1>2, <2>1, <2>3 DEF IsBitmapOf
  <1>7. IsNull(t.arr, i) <=> i \in bad
    BY <1>5, <1>6, NilIsNoBitmap DEF IsNull
  <1>8. Value(t, i) = w[i]
    BY <1>5 DEF Value
  <1>9. i \notin bad => w[i] = Rolling1(fn, FloatValues(a), window, i)
    BY <1>1, <1>2 DEF RolledValues, InvalidRows
  <1>10. QED
    BY <1>1, <1>4, <1>7, <1>8, <1>9 DEF Cell

(* A row is valid exactly if its window is in the column and has no null.  *)
LEMMA ValidWindow ==
  ASSUME NEW a, a.length \in Nat, NEW window \in Nat \ {0}, NEW i \in 0 .. a.length - 1
  PROVE  i \in InvalidRows(a, window) <=>
           i < window - 1 \/ \E j \in Windowed(window, i) : IsNull(a, j)
  <1>1. CASE i < window - 1
    BY <1>1 DEF InvalidRows
  <1>2. CASE i >= window - 1
    <2>1. PICK n, v, W : n = a.length /\ v = NullsOf(a) /\ W = Windowed(window, i)
      OBVIOUS
    <2>2. n \in Nat /\ v \in [0 .. n - 1 -> Int] /\ i \in window - 1 .. n - 1
      BY <1>2, <2>1 DEF NullsOf
    <2>3. \A j \in W : j \in 0 .. n - 1
      BY <2>1, <2>2 DEF Windowed
    <2>4. \A j \in W : v[j] \in Nat /\ (v[j] = 0 <=> ~IsNull(a, j))
      BY <2>1, <2>3 DEF NullsOf
    <2>5. IsFiniteSet(W) /\ WindowSum(PrefixSum(v), window, i) = SumOver(v, W)
      BY <2>1, <2>2, WindowIsSum DEF Windowed
    <2>6. (SumOver(v, W) = 0) <=> (\A j \in W : v[j] = 0)
      BY <2>4, <2>5, ZeroSum
    <2>7. i \in InvalidRows(a, window) <=> WindowSum(PrefixSum(v), window, i) # 0
      BY <1>2, <2>1 DEF InvalidRows
    <2>8. QED
      BY <1>2, <2>1, <2>4, <2>5, <2>6, <2>7
  <1>3. QED
    BY <1>1, <1>2

(* The value of a valid row, from the cells of its window                  *)
CellsOf(s, window, i) == [j \in Windowed(window, i) |-> Cell(s, j)]

CellSet(c) == {c[j] : j \in DOMAIN c}

LEMMA WindowCells ==
  ASSUME NEW s, IsSeries(s), s.dtype \notin {"Boolean", "String"},
         NEW window \in Nat \ {0}, NEW i \in window - 1 .. s.arr.length - 1,
         \A j \in Windowed(window, i) : ~IsNull(s.arr, j)
  PROVE  /\ s.arr.length \in Nat
         /\ FloatValues(s.arr) \in [0 .. s.arr.length - 1 -> Int]
         /\ \A j \in Windowed(window, i) :
              /\ j \in 0 .. s.arr.length - 1
              /\ FloatValues(s.arr)[j] \in Int
              /\ FloatValues(s.arr)[j] = CellsOf(s, window, i)[j]
  <1>1. PICK a, n : a = s.arr /\ n = a.length
    OBVIOUS
  <1>2. IsTyped(a) /\ n \in Nat
    BY <1>1 DEF IsSeries, IsArray
  <1>3. \A j \in 0 .. n - 1 : a.values[j] \in Int
    BY <1>1, <1>2 DEF IsTyped
  <1>4. FloatValues(a) \in [0 .. n - 1 -> Int]
    BY <1>1, <1>3 DEF FloatValues
  <1>5. ASSUME NEW j \in Windowed(window, i)
        PROVE  j \in 0 .. n - 1 /\ FloatValues(a)[j] \in Int /\ FloatValues(a)[j] = CellsOf(s, window, i)[j]
    <2>1. j \in 0 .. n - 1
      BY <1>1, <1>2 DEF Windowed
    <2>2. FloatValues(a)[j] = a.values[j]
      BY <1>1, <2>1 DEF FloatValues
    <2>3. CellsOf(s, window, i)[j] = a.values[j]
      <3>1. Cell(s, j) = Value(s, j) /\ Value(s, j) = a.values[j]
        BY <1>1 DEF Cell, Value
      <3>2. QED
        BY <3>1 DEF CellsOf
    <2>4. QED
      BY <1>3, <2>1, <2>2, <2>3
  <1>6. QED
    BY <1>1, <1>2, <1>4, <1>5

(* c has the values of v in the window that ends in row i.                 *)
IsWindow(c, v, window, i) ==
  DOMAIN c = Windowed(window, i) /\ \A j \in Windowed(window, i) : v[j] = c[j] /\ v[j] \in Int

LEMMA BestIsOfWindow ==
  ASSUME NEW n \in Nat, NEW v \in [0 .. n - 1 -> Int], NEW window \in Nat \ {0}, NEW i \in window - 1 .. n - 1,
         NEW c, IsWindow(c, v, window, i)
  PROVE  /\ rollingMinMax("min", v, window, i) = Min(CellSet(c))
         /\ rollingMinMax("max", v, window, i) = Max(CellSet(c))
  <1>1. PICK W, S : W = Windowed(window, i) /\ S = CellSet(c)
    OBVIOUS
  <1>2. S \in SUBSET Int /\ \A j \in W : v[j] \in S /\ v[j] \in Int
    BY <1>1 DEF CellSet, IsWindow
  <1>3. \A x \in S : \E j \in W : x = v[j]
    BY <1>1 DEF CellSet, IsWindow
  <1>4. rollingMinMax("min", v, window, i) = Min(S)
    <2>1. PICK x \in i - window + 1 .. i :
            /\ rollingMinMax("min", v, window, i) = v[x]
            /\ \A j \in i - window + 1 .. i : AsGood("min", v[x], v[j])
      BY FrontIsBest
    <2>2. x \in W /\ \A j \in W : AsGood("min", v[x], v[j])
      BY <1>1, <2>1 DEF Windowed
    <2>3. \A j \in W : v[x] <= v[j]
      BY <1>2, <2>2 DEF AsGood
    <2>4. IsLeast(v[x], S)
      BY <1>2, <1>3, <2>2, <2>3 DEF IsLeast
    <2>5. QED
      BY <1>2, <2>1, <2>4, MinIs
  <1>5. rollingMinMax("max", v, window, i) = Max(S)
    <2>1. PICK x \in i - window + 1 .. i :
            /\ rollingMinMax("max", v, window, i) = v[x]
            /\ \A j \in i - window + 1 .. i : AsGood("max", v[x], v[j])
      BY FrontIsBest
    <2>2. x \in W /\ \A j \in W : AsGood("max", v[x], v[j])
      BY <1>1, <2>1 DEF Windowed
    <2>3. \A j \in W : v[x] >= v[j]
      BY <1>2, <2>2 DEF AsGood
    <2>4. IsGreatest(v[x], S)
      BY <1>2, <1>3, <2>2, <2>3 DEF IsGreatest
    <2>5. QED
      BY <1>2, <2>1, <2>4, MaxIs
  <1>6. QED
    BY <1>1, <1>4, <1>5

-----------------------------------------------------------------------------
(* The rows a mask selects, word by word                                   *)

InWord(m, wi) == {i \in 0 .. m.len - 1 : wi * wordSize <= i /\ i < (wi + 1) * wordSize /\ IsSet(m, i)}

Before(m, wi) == {i \in 0 .. m.len - 1 : i < wi * wordSize /\ IsSet(m, i)}

LEMMA WordStep ==
  ASSUME NEW m, IsBitmap(m), NEW wi \in Nat
  PROVE  /\ IsFiniteSet(Before(m, wi)) /\ IsFiniteSet(InWord(m, wi)) /\ IsFiniteSet(Before(m, wi + 1))
         /\ \A i \in Before(m, wi + 1) : i \in Int
         /\ Before(m, wi) \in SUBSET Before(m, wi + 1)
         /\ Before(m, wi + 1) \ Before(m, wi) = InWord(m, wi)
         /\ \A i \in Before(m, wi) : \A k \in InWord(m, wi) : i < k
  <1>1. PICK b, e : b = wi * wordSize /\ e = (wi + 1) * wordSize
    OBVIOUS
  <1>2. b \in Nat /\ e \in Nat /\ b <= e
    BY <1>1, Words, ProductGrows
  <1>3. PICK R : R = 0 .. m.len - 1
    OBVIOUS
  <1>4. IsFiniteSet(R) /\ R \subseteq Nat
    BY <1>3, RowCount DEF IsBitmap
  <1>5. /\ Before(m, wi) = {i \in R : i < b /\ IsSet(m, i)}
        /\ Before(m, wi + 1) = {i \in R : i < e /\ IsSet(m, i)}
        /\ InWord(m, wi) = {i \in R : b <= i /\ i < e /\ IsSet(m, i)}
    BY <1>1, <1>3 DEF Before, InWord
  <1>6. Before(m, wi) \in SUBSET R /\ Before(m, wi + 1) \in SUBSET R /\ InWord(m, wi) \in SUBSET R
    BY <1>5
  <1>7. IsFiniteSet(Before(m, wi)) /\ IsFiniteSet(InWord(m, wi)) /\ IsFiniteSet(Before(m, wi + 1))
    BY <1>4, <1>6, FS_Subset
  <1>7a. \A i \in R : i \in Int /\ (i < b => i < e) /\ \A k \in R : i < b /\ b <= k => i < k
    BY <1>2, <1>3
  <1>8. Before(m, wi) \in SUBSET Before(m, wi + 1)
    BY <1>5, <1>7a
  <1>9. Before(m, wi + 1) \ Before(m, wi) = InWord(m, wi)
    <2>1. \A i \in R : i < e /\ ~(i < b) <=> b <= i /\ i < e
      BY <1>2, <1>4
    <2>2. QED
      BY <1>5, <2>1
  <1>10. \A i \in Before(m, wi) : \A k \in InWord(m, wi) : i < k
    BY <1>5, <1>7a
  <1>11. \A i \in Before(m, wi + 1) : i \in Int
    BY <1>6, <1>7a
  <1>12. QED
    BY <1>7, <1>8, <1>9, <1>10, <1>11

(* The first and the last word                                             *)
LEMMA AllWords ==
  ASSUME NEW m, IsBitmap(m)
  PROVE  /\ wordsNeeded(m.len) \in Nat /\ DOMAIN m.data = 0 .. wordsNeeded(m.len) - 1
         /\ Before(m, 0) = {}
         /\ Before(m, wordsNeeded(m.len)) = {i \in 0 .. m.len - 1 : IsSet(m, i)}
  <1>1. PICK w, W : w = wordSize /\ W = wordsNeeded(m.len)
    OBVIOUS
  <1>2. w \in Nat \ {0} /\ m.len \in Nat
    BY <1>1, Words DEF IsBitmap
  <1>3. W \in Nat
    <2>1. CASE m.len = 0
      BY <1>1, <2>1 DEF wordsNeeded
    <2>2. CASE m.len > 0
      <3>0. m.len + w - 1 \in Nat
        BY <1>2
      <3>1. PICK q \in Nat : \E r \in 0..w-1 : m.len + w - 1 = w * q + r
                               /\ (m.len + w - 1) \div w = q /\ (m.len + w - 1) % w = r
        BY <1>2, <3>0, DivMod
      <3>2. QED
        BY <1>1, <1>2, <2>2, <3>1 DEF wordsNeeded
    <2>3. QED
      BY <1>2, <2>1, <2>2
  <1>4. WordIndexes(m.len) = 0 .. W - 1
    BY <1>1 DEF WordIndexes
  <1>5. W \notin WordIndexes(m.len)
    BY <1>3, <1>4
  <1>6. m.len <= W * w /\ W * w \in Nat
    <2>1. W * w \in Nat
      BY <1>2, <1>3, ProductGrows
    <2>2. ~(W * wordSize < m.len)
      BY <1>2, <1>3, <1>5, WordOf
    <2>3. QED
      BY <1>1, <1>2, <2>1, <2>2
  <1>7. Before(m, 0) = {}
    <2>1. 0 * w = 0
      BY <1>2
    <2>2. \A i \in 0 .. m.len - 1 : ~(i < 0)
      OBVIOUS
    <2>3. QED
      BY <1>1, <2>1, <2>2 DEF Before
  <1>8. Before(m, W) = {i \in 0 .. m.len - 1 : IsSet(m, i)}
    <2>1. \A i \in 0 .. m.len - 1 : i < W * w
      BY <1>2, <1>6
    <2>2. QED
      BY <1>1, <2>1 DEF Before
  <1>9. DOMAIN m.data = 0 .. W - 1
    BY <1>4 DEF IsBitmap
  <1>10. QED
    BY <1>1, <1>3, <1>7, <1>8, <1>9

(* The rows of a word are the places of its bits.                          *)
LEMMA BitsOfWord ==
  ASSUME NEW m, IsBitmap(m), NEW wi \in WordIndexes(m.len)
  PROVE  /\ InWord(m, wi) = {wi * wordSize + p : p \in m.data[wi]}
         /\ m.data[wi] \in SUBSET Positions
         /\ \A p \in m.data[wi] : wi * wordSize + p < m.len
         /\ Cardinality(InWord(m, wi)) = Cardinality(m.data[wi])
  <1>1. PICK b, e, w : b = wi * wordSize /\ e = (wi + 1) * wordSize /\ w = wordSize
    OBVIOUS
  <1>2. w \in Nat \ {0} /\ m.len \in Nat /\ wi \in Nat
    BY <1>1, Words, WordOf DEF IsBitmap
  <1>3. b \in Nat /\ e = b + w
    BY <1>1, <1>2, ProductGrows
  <1>4. m.data[wi] \in SUBSET Positions /\ \A p \in m.data[wi] : wi * wordSize + p < m.len
    BY DEF IsBitmap, SlackClear
  <1>5. ASSUME NEW i \in InWord(m, wi) PROVE \E p \in m.data[wi] : i = b + p
    <2>1. i \in 0 .. m.len - 1 /\ b <= i /\ i < e /\ IsSet(m, i)
      BY <1>1, <1>5 DEF InWord
    <2>2. PICK p : p = i - b
      OBVIOUS
    <2>3. p \in Positions /\ i = b + p
      BY <1>1, <1>2, <1>3, <2>1, <2>2 DEF Positions
    <2>4. wi * wordSize + p < m.len /\ IsSet(m, wi * wordSize + p)
      BY <1>1, <1>2, <2>1, <2>3
    <2>5. p \in m.data[wi]
      BY <1>2, <2>3, <2>4, BitOfWord, RawParts
    <2>6. QED
      BY <2>3, <2>5
  <1>6. ASSUME NEW p \in m.data[wi] PROVE b + p \in InWord(m, wi)
    <2>1. p \in Positions /\ p \in Nat /\ p < w /\ b + p < m.len
      BY <1>1, <1>4, Words
    <2>2. IsSet(m, wi * wordSize + p)
      BY <1>2, <1>4, <2>1, BitOfWord, RawParts
    <2>3. b + p \in 0 .. m.len - 1 /\ b <= b + p /\ b + p < e
      BY <1>2, <1>3, <2>1
    <2>4. QED
      BY <1>1, <2>2, <2>3 DEF InWord
  <1>7. InWord(m, wi) = {b + p : p \in m.data[wi]}
    BY <1>5, <1>6
  <1>8. Cardinality(InWord(m, wi)) = Cardinality(m.data[wi])
    <2>1. PICK f : f = [p \in m.data[wi] |-> b + p]
      OBVIOUS
    <2>2. \A p \in m.data[wi] : p \in Int
      BY <1>4, Words
    <2>3. f \in Bijection(m.data[wi], InWord(m, wi))
      <3>1. f \in [m.data[wi] -> InWord(m, wi)]
        BY <1>6, <2>1
      <3>2. ASSUME NEW p \in m.data[wi], NEW q \in m.data[wi], f[p] = f[q] PROVE p = q
        <4>1. b + p = b + q /\ p \in Int /\ q \in Int
          BY <2>1, <2>2, <3>2
        <4>2. QED
          BY <1>3, <4>1
      <3>3. \A i \in InWord(m, wi) : \E p \in m.data[wi] : f[p] = i
        BY <1>5, <2>1
      <3>4. QED
        BY <3>1, <3>2, <3>3 DEF Bijection, Injection, Surjection, IsInjective
    <2>4. IsFiniteSet(m.data[wi])
      <3>1. IsFiniteSet(Positions)
        <4>1. IsFiniteSet(0 .. w - 1)
          BY <1>2, RowCount
        <4>2. QED
          BY <1>1, <4>1 DEF Positions
      <3>2. QED
        BY <1>4, <3>1, FS_Subset
    <2>5. QED
      BY <2>3, <2>4, FS_Bijection DEF ExistsBijection
  <1>9. QED
    BY <1>1, <1>4, <1>7, <1>8

(* A sum over the first k + 1 numbers is that over the first k and one     *)
(* more.                                                                   *)
LEMMA SumGrows ==
  ASSUME NEW n \in Nat, NEW v, \A k \in 0 .. n - 1 : v[k] \in Int
  PROVE  /\ SumOver(v, 0 .. 0 - 1) = 0
         /\ \A k \in 0 .. n : SumOver(v, 0 .. k - 1) \in Int
         /\ \A k \in 0 .. n - 1 : SumOver(v, 0 .. k) = SumOver(v, 0 .. k - 1) + v[k]
  <1>1. SumOver(v, 0 .. 0 - 1) = 0
    <2>1. 0 .. 0 - 1 = {}
      OBVIOUS
    <2>2. SumOver(v, {}) = 0
      BY SumOne, FS_EmptySet
    <2>3. QED
      BY <2>1, <2>2
  <1>2. ASSUME NEW k \in 0 .. n PROVE SumOver(v, 0 .. k - 1) \in Int
    <2>1. IsFiniteSet(0 .. k - 1) /\ \A x \in 0 .. k - 1 : v[x] \in Int
      BY RowCount
    <2>2. PICK S : S = 0 .. k - 1
      OBVIOUS
    <2>3. SumOver(v, S) \in Int
      BY <2>1, <2>2, SumOne
    <2>4. QED
      BY <2>2, <2>3
  <1>3. ASSUME NEW k \in 0 .. n - 1 PROVE SumOver(v, 0 .. k) = SumOver(v, 0 .. k - 1) + v[k]
    <2>1. PICK S : S = 0 .. k
      OBVIOUS
    <2>2. IsFiniteSet(S)
      <3>1. k + 1 \in Nat /\ (k + 1) - 1 = k
        OBVIOUS
      <3>2. QED
        BY <2>1, <3>1, RowCount
    <2>3. k \in S /\ \A x \in S : v[x] \in Int
      BY <2>1
    <2>4. S \ {k} = 0 .. k - 1
      BY <2>1
    <2>5. SumOver(v, S) = SumOver(v, S \ {k}) + v[k]
      BY <2>2, <2>3, SumOne
    <2>6. QED
      BY <2>1, <2>4, <2>5
  <1>4. QED
    BY <1>1, <1>2, <1>3

(* PopCount counts the bits below the length, word by word.                *)
LEMMA CountBits ==
  ASSUME NEW m, IsBitmap(m)
  PROVE  /\ PopCount(m) = Cardinality({i \in 0 .. m.len - 1 : IsSet(m, i)})
         /\ PopCount(m) \in Nat
         /\ \A wi \in 0 .. wordsNeeded(m.len) :
              Cardinality(Before(m, wi)) \in Nat /\ Cardinality(Before(m, wi)) <= PopCount(m)
  <1>1. PICK W : W = wordsNeeded(m.len)
    OBVIOUS
  <1>2. W \in Nat /\ DOMAIN m.data = 0 .. W - 1 /\ WordIndexes(m.len) = 0 .. W - 1
    BY <1>1, AllWords DEF WordIndexes
  <1>3. PICK ones : ones = [wi \in 0 .. W - 1 |-> Cardinality(m.data[wi])]
    OBVIOUS
  <1>4. PopCount(m) = SumOver(ones, 0 .. W - 1)
    BY <1>2, <1>3 DEF PopCount, SumOver
  <1>5. \A wi \in 0 .. W - 1 : ones[wi] = Cardinality(InWord(m, wi)) /\ ones[wi] \in Nat
    <2>1. ASSUME NEW wi \in 0 .. W - 1
          PROVE  ones[wi] = Cardinality(InWord(m, wi)) /\ ones[wi] \in Nat
      <3>1. ones[wi] = Cardinality(InWord(m, wi))
        BY <1>2, <1>3, BitsOfWord
      <3>2. wi \in Nat
        OBVIOUS
      <3>3. IsFiniteSet(InWord(m, wi))
        BY <3>2, WordStep
      <3>4. QED
        BY <3>1, <3>3, FS_CardinalityType
    <2>2. QED
      BY <2>1
  <1> DEFINE F == {wi \in 0 .. W : SumOver(ones, 0 .. wi - 1) = Cardinality(Before(m, wi))}
  <1>6. 0 \in F
    <2>1. SumOver(ones, 0 .. 0 - 1) = 0
      BY <1>2, <1>5, SumGrows
    <2>2. Cardinality(Before(m, 0)) = 0
      BY AllWords, FS_EmptySet
    <2>3. 0 \in 0 .. W
      BY <1>2
    <2>4. QED
      BY <2>1, <2>2, <2>3
  <1>7. ASSUME NEW wi \in 0 .. W - 1, wi \in F PROVE wi + 1 \in F
    <2>1. wi \in Nat /\ wi + 1 \in 0 .. W /\ (wi + 1) - 1 = wi
      BY <1>2
    <2>2. SumOver(ones, 0 .. wi) = SumOver(ones, 0 .. wi - 1) + ones[wi]
      BY <1>2, <1>5, SumGrows
    <2>3. Cardinality(Before(m, wi + 1)) = Cardinality(Before(m, wi)) + Cardinality(InWord(m, wi))
      <3>1. PICK S, T : S = Before(m, wi + 1) /\ T = Before(m, wi)
        OBVIOUS
      <3>2. /\ IsFiniteSet(S) /\ (\A x \in S : x \in Int) /\ T \in SUBSET S
            /\ S \ T = InWord(m, wi) /\ \A x \in T : \A y \in S \ T : x < y
        BY <2>1, <3>1, WordStep
      <3>3. Cardinality(S) = Cardinality(T) + Cardinality(S \ T)
        BY <3>2, RowListJoins
      <3>4. QED
        BY <3>1, <3>2, <3>3
    <2>4. SumOver(ones, 0 .. (wi + 1) - 1) = Cardinality(Before(m, wi + 1))
      BY <1>5, <1>7, <2>1, <2>2, <2>3
    <2>5. QED
      BY <2>1, <2>4
  <1>8. W \in F
    <2> HIDE DEF F
    <2>1. 0 \in Int /\ W \in Int
      BY <1>2
    <2>2. 0 .. W \subseteq F
      BY <1>6, <1>7, <2>1, IntervalInduction
    <2>3. QED
      BY <1>2, <2>2
  <1>9. Before(m, W) = {i \in 0 .. m.len - 1 : IsSet(m, i)}
    BY <1>1, AllWords
  <1>10. PopCount(m) = Cardinality(Before(m, W))
    BY <1>4, <1>8
  <1>11. PICK R : R = 0 .. m.len - 1
    OBVIOUS
  <1>12. IsFiniteSet(R)
    BY <1>11, RowCount DEF IsBitmap
  <1>13. ASSUME NEW wi \in 0 .. W
         PROVE  /\ Before(m, wi) \in SUBSET Before(m, W)
                /\ IsFiniteSet(Before(m, wi)) /\ IsFiniteSet(Before(m, W))
    <2>1. Before(m, wi) \in SUBSET Before(m, W)
      BY <1>9 DEF Before
    <2>2. Before(m, W) \in SUBSET R
      BY <1>9, <1>11
    <2>3. QED
      BY <1>12, <2>1, <2>2, FS_Subset
  <1>14. ASSUME NEW wi \in 0 .. W
         PROVE  /\ Cardinality(Before(m, wi)) \in Nat /\ Cardinality(Before(m, W)) \in Nat
                /\ Cardinality(Before(m, wi)) <= Cardinality(Before(m, W))
    BY <1>13, FS_Subset, FS_CardinalityType
  <1>15. QED
    BY <1>1, <1>2, <1>9, <1>10, <1>14

-----------------------------------------------------------------------------
(* What one word adds to the array of a column                             *)

(* The validity of n rows of which the first j are written                 *)
IsValidity(v, a, n, j) ==
  IF a.validity = nil THEN v = nil ELSE IsBitmapOf(v, n) /\ \A k \in j .. n - 1 : IsSet(v, k)

NullAt(v, k) == v # nil /\ ~IsSet(v, k)

(* From place j on, t has the nulls of the rows of a and is u before.      *)
NullsOfRows(t, u, a, rows, j) ==
  /\ \A k \in 0 .. j - 1 : NullAt(t, k) <=> NullAt(u, k)
  /\ \A q \in DOMAIN rows : NullAt(t, j + q - 1) <=> IsNull(a, rows[q])

LEMMA NullsCleared ==
  ASSUME NEW a, NEW n \in Nat, NEW j \in Nat, NEW m \in Nat, NEW rows, DOMAIN rows = 1 .. m,
         j + m <= n, NEW v, IsValidity(v, a, n, j)
  PROVE  /\ IsValidity(ClearNulls(v, a, rows, j), a, n, j + m)
         /\ NullsOfRows(ClearNulls(v, a, rows, j), v, a, rows, j)
  <1>1. PICK t : t = ClearNulls(v, a, rows, j)
    OBVIOUS
  <1>2. CASE a.validity = nil
    <2>1. t = v /\ v = nil
      BY <1>1, <1>2 DEF ClearNulls, IsValidity
    <2>2. QED
      BY <1>1, <1>2, <2>1 DEF IsValidity, NullsOfRows, NullAt, IsNull
  <1>3. CASE a.validity # nil
    <2>1. IsBitmap(v) /\ v.len = n /\ \A k \in j .. n - 1 : IsSet(v, k)
      BY <1>3 DEF IsValidity, IsBitmapOf
    <2>2. PICK S : S = {j + k - 1 : k \in {k \in 1 .. m : IsNull(a, rows[k])}}
      OBVIOUS
    <2>3. t = ClearAll(v, S)
      BY <1>1, <1>3, <2>2 DEF ClearNulls
    <2>4. \A i \in S : i \in j .. j + m - 1 /\ i \in 0 .. n - 1
      BY <2>2
    <2>5. /\ IsBitmapOf(t, n)
          /\ \A i \in 0 .. n - 1 : IsSet(t, i) <=> IsSet(v, i) /\ i \notin S
      BY <2>1, <2>3, <2>4, BitsCleared
    <2>6. \A q \in 1 .. m : (j + q - 1) \in S <=> IsNull(a, rows[q])
      <3>1. ASSUME NEW q \in 1 .. m, (j + q - 1) \in S PROVE IsNull(a, rows[q])
        <4>1. PICK k \in 1 .. m : IsNull(a, rows[k]) /\ j + q - 1 = j + k - 1
          BY <2>2, <3>1
        <4>2. k = q
          BY <4>1
        <4>3. QED
          BY <4>1, <4>2
      <3>2. ASSUME NEW q \in 1 .. m, IsNull(a, rows[q]) PROVE (j + q - 1) \in S
        BY <2>2, <3>2
      <3>3. QED
        BY <3>1, <3>2
    <2>7. t # nil /\ v # nil
      BY <2>1, <2>5, NilIsNoBitmap DEF IsBitmapOf
    <2>8. \A k \in 0 .. j - 1 : NullAt(t, k) <=> NullAt(v, k)
      <3>1. \A k \in 0 .. j - 1 : k \in 0 .. n - 1 /\ k \notin S
        BY <2>4
      <3>2. QED
        BY <2>5, <2>7, <3>1 DEF NullAt
    <2>9. \A q \in 1 .. m : NullAt(t, j + q - 1) <=> IsNull(a, rows[q])
      <3>1. \A q \in 1 .. m : j + q - 1 \in 0 .. n - 1 /\ j + q - 1 \in j .. n - 1
        OBVIOUS
      <3>2. QED
        BY <2>1, <2>5, <2>6, <2>7, <3>1 DEF NullAt
    <2>10. \A k \in j + m .. n - 1 : IsSet(t, k)
      <3>1. \A k \in j + m .. n - 1 : k \in 0 .. n - 1 /\ k \in j .. n - 1 /\ k \notin S
        BY <2>4
      <3>2. QED
        BY <2>1, <2>5, <3>1
    <2>11. QED
      BY <1>1, <1>3, <2>5, <2>8, <2>9, <2>10 DEF IsValidity, NullsOfRows
  <1>4. QED
    BY <1>2, <1>3

(* t is b with r bits of src, from place from on, in place j and after it. *)
CopiedBits(t, b, n, j, src, from, r) ==
  /\ IsBitmapOf(t, n)
  /\ \A k \in 0 .. j - 1 : IsSet(t, k) <=> IsSet(b, k)
  /\ \A q \in 0 .. r - 1 : IsSet(t, j + q) <=> IsSet(src, from + q)
  /\ \A k \in j + r .. n - 1 : IsSet(t, k) <=> IsSet(b, k)

(* A dense word that is copied to the start of a word                      *)
LEMMA WordCopied ==
  ASSUME NEW src, IsBitmap(src), NEW wi \in WordIndexes(src.len), NEW r \in 1 .. wordSize,
         wi * wordSize + r <= src.len,
         NEW n \in Nat, NEW b, IsBitmapOf(b, n), NEW j \in Nat, j % wordSize = 0,
         j + r <= n, r = wordSize \/ j + r = n
  PROVE  CopiedBits(SetWord(b, j \div wordSize, src.data[wi] \cap LowBits(r)), b, n, j, src, wi * wordSize, r)
  <1>1. PICK w, o, word : w = wordSize /\ o = j \div wordSize /\ word = src.data[wi] \cap LowBits(r)
    OBVIOUS
  <1>2. w \in Nat \ {0} /\ r \in 1 .. w /\ src.len \in Nat /\ wi \in Nat
    BY <1>1, Words, WordOf DEF IsBitmap
  <1>3. o \in Nat /\ j = o * w
    <2>1. j = (j \div wordSize) * wordSize + (j % wordSize) /\ j \div wordSize \in Nat
      BY BitPlace
    <2>2. o * w \in Nat
      BY <1>1, <1>2, <2>1, ProductGrows
    <2>3. QED
      BY <1>1, <2>1, <2>2
  <1>4. o \in WordIndexes(n)
    <2>1. j < n
      BY <1>2
    <2>2. QED
      BY <1>1, <1>3, <2>1, WordOf
  <1>5. PICK t : t = SetWord(b, o, word)
    OBVIOUS
  <1>6. Raw(b) /\ SlackClear(b) /\ b.len = n /\ DOMAIN b.data = WordIndexes(n)
    BY DEF IsBitmapOf, IsBitmap, Raw
  <1>7. word \in SUBSET Positions
    BY <1>1, BitsOfWord
  <1>8. /\ t.len = n /\ t = [data |-> t.data, len |-> t.len]
        /\ t.data = [b.data EXCEPT ![o] = word]
    <2>1. t = [b EXCEPT !.data[o] = word] /\ b = [data |-> b.data, len |-> b.len]
      BY <1>4, <1>5, <1>6 DEF SetWord, Raw
    <2>2. QED
      BY <1>6, <2>1
  <1>9. /\ t.data \in [WordIndexes(n) -> SUBSET Positions]
        /\ t.data[o] = word
        /\ \A v \in WordIndexes(n) : v # o => t.data[v] = b.data[v]
    <2>1. b.data \in [WordIndexes(n) -> SUBSET Positions]
      BY <1>6 DEF Raw
    <2>2. QED
      BY <1>4, <1>7, <1>8, <2>1
  <1>10. Raw(t)
    BY <1>8, <1>9 DEF Raw
  <1>11. SlackClear(t)
    <2> SUFFICES ASSUME NEW v \in WordIndexes(n), NEW p \in t.data[v] PROVE v * wordSize + p < n
      BY <1>8, <1>9 DEF SlackClear
    <2>1. CASE v = o
      <3>1. p \in 0 .. r - 1
        BY <1>1, <1>9, <2>1 DEF LowBits
      <3>2. j + p < n
        BY <1>2, <3>1
      <3>3. QED
        BY <1>1, <1>3, <2>1, <3>2
    <2>2. CASE v # o
      BY <1>6, <1>9, <2>2 DEF SlackClear
    <2>3. QED
      BY <2>1, <2>2
  <1>12. IsBitmapOf(t, n)
    BY <1>8, <1>10, <1>11, RawParts DEF IsBitmapOf
  <1>13. ASSUME NEW k \in 0 .. n - 1, k < j \/ k >= j + r PROVE IsSet(t, k) <=> IsSet(b, k)
    <2>1. PICK v \in WordIndexes(n), p \in Positions : k = v * wordSize + p /\ (IsSet(b, k) <=> p \in b.data[v])
      BY <1>6, <1>13, WordOfBit
    <2>2. v \in Nat /\ p \in Nat /\ p < w /\ k = v * w + p
      BY <1>1, <2>1, Words, WordOf
    <2>3. v # o
      <3>1. SUFFICES ASSUME v = o PROVE FALSE
        OBVIOUS
      <3>2. k = j + p
        BY <1>3, <2>2, <3>1
      <3>3. QED
        BY <1>1, <1>2, <1>13, <2>2, <3>2
    <2>4. t.data[v] = b.data[v]
      BY <1>9, <2>3
    <2>5. IsSet(t, v * wordSize + p) <=> p \in t.data[v]
      <3>1. v * wordSize + p < t.len
        BY <1>1, <1>8, <1>13, <2>2
      <3>2. QED
        BY <1>10, <2>2, <3>1, BitOfWord
    <2>6. QED
      BY <2>1, <2>4, <2>5
  <1>14. ASSUME NEW q \in 0 .. r - 1 PROVE IsSet(t, j + q) <=> IsSet(src, wi * wordSize + q)
    <2>1. q \in Positions /\ q \in LowBits(r)
      BY <1>1, <1>2, <1>14 DEF Positions, LowBits
    <2>2. IsSet(src, wi * wordSize + q) <=> q \in src.data[wi]
      <3>1. wi * w \in Nat
        BY <1>2, ProductGrows
      <3>2. wi * wordSize + q < src.len
        BY <1>1, <1>2, <1>14, <3>1
      <3>3. QED
        BY <1>2, <2>1, <3>2, BitOfWord, RawParts
    <2>3. IsSet(t, o * wordSize + q) <=> q \in t.data[o]
      <3>1. o * wordSize + q < t.len
        BY <1>1, <1>2, <1>3, <1>8, <1>14
      <3>2. QED
        BY <1>3, <1>10, <2>1, <3>1, BitOfWord
    <2>4. q \in t.data[o] <=> q \in src.data[wi]
      BY <1>1, <1>9, <2>1
    <2>5. QED
      BY <1>1, <1>3, <2>2, <2>3, <2>4
  <1>15. \A k \in 0 .. j - 1 : IsSet(t, k) <=> IsSet(b, k)
    <2>1. \A k \in 0 .. j - 1 : k \in 0 .. n - 1 /\ k < j
      BY <1>2
    <2>2. QED
      BY <1>13, <2>1
  <1>16. \A k \in j + r .. n - 1 : IsSet(t, k) <=> IsSet(b, k)
    <2>1. \A k \in j + r .. n - 1 : k \in 0 .. n - 1 /\ k >= j + r
      BY <1>2
    <2>2. QED
      BY <1>13, <2>1
  <1>17. QED
    BY <1>1, <1>5, <1>12, <1>14, <1>15, <1>16 DEF CopiedBits

(* An array with other data                                                *)
WithValues(o, v, u) == [o EXCEPT !.values = v, !.validity = u]

LEMMA TypedRecord ==
  ASSUME NEW o, NEW n, o = [values |-> o.values, validity |-> o.validity, length |-> n], NEW v, NEW u,
         NEW t, t = WithValues(o, v, u)
  PROVE  t = [values |-> t.values, validity |-> t.validity, length |-> n] /\ t.values = v /\ t.validity = u
  <1>1. PICK x, y : x = o.values /\ y = o.validity
    OBVIOUS
  <1>2. o = [values |-> x, validity |-> y, length |-> n]
    BY <1>1
  <1>2a. t = [o EXCEPT !.values = v, !.validity = u]
    BY DEF WithValues
  <1>3. t = [[values |-> x, validity |-> y, length |-> n] EXCEPT !.values = v, !.validity = u]
    BY <1>2, <1>2a
  <1>4. t = [values |-> v, validity |-> u, length |-> n]
    BY <1>3
  <1>5. t.values = v /\ t.validity = u
    BY <1>4
  <1>6. QED
    BY <1>4, <1>5

WithBits(o, v, u) == [o EXCEPT !.data = v, !.validity = u]

LEMMA BooleanRecord ==
  ASSUME NEW o, NEW n, o = [data |-> o.data, validity |-> o.validity, length |-> n], NEW v, NEW u,
         NEW t, t = WithBits(o, v, u)
  PROVE  t = [data |-> t.data, validity |-> t.validity, length |-> n] /\ t.data = v /\ t.validity = u
  <1>1. PICK x, y : x = o.data /\ y = o.validity
    OBVIOUS
  <1>2. o = [data |-> x, validity |-> y, length |-> n]
    BY <1>1
  <1>2a. t = [o EXCEPT !.data = v, !.validity = u]
    BY DEF WithBits
  <1>3. t = [[data |-> x, validity |-> y, length |-> n] EXCEPT !.data = v, !.validity = u]
    BY <1>2, <1>2a
  <1>4. t = [data |-> v, validity |-> u, length |-> n]
    BY <1>3
  <1>5. t.data = v /\ t.validity = u
    BY <1>4
  <1>6. QED
    BY <1>4, <1>5

WithBytes(o, b, v, u) == [o EXCEPT !.bytes = b, !.offsets = v, !.validity = u]

LEMMA TextRecord ==
  ASSUME NEW o, NEW n,
         o = [bytes |-> o.bytes, offsets |-> o.offsets, validity |-> o.validity, length |-> n],
         NEW b, NEW v, NEW u, NEW t, t = WithBytes(o, b, v, u)
  PROVE  /\ t = [bytes |-> t.bytes, offsets |-> t.offsets, validity |-> t.validity, length |-> n]
         /\ t.bytes = b /\ t.offsets = v /\ t.validity = u
  <1>1. PICK x, y, z : x = o.bytes /\ y = o.offsets /\ z = o.validity
    OBVIOUS
  <1>2. o = [bytes |-> x, offsets |-> y, validity |-> z, length |-> n]
    BY <1>1
  <1>2a. t = [o EXCEPT !.bytes = b, !.offsets = v, !.validity = u]
    BY DEF WithBytes
  <1>3. t = [[bytes |-> x, offsets |-> y, validity |-> z, length |-> n]
               EXCEPT !.bytes = b, !.offsets = v, !.validity = u]
    BY <1>2, <1>2a
  <1>4. t = [bytes |-> b, offsets |-> v, validity |-> u, length |-> n]
    BY <1>3
  <1>5. t.bytes = b /\ t.offsets = v /\ t.validity = u
    BY <1>4
  <1>6. QED
    BY <1>4, <1>5

(* A series with another array                                             *)
WithArr(s, o) == [s EXCEPT !.arr = o]

LEMMA ArrOf ==
  ASSUME NEW s, IsSeries(s), NEW o
  PROVE  WithArr(s, o).arr = o /\ WithArr(s, o).dtype = s.dtype /\ WithArr(s, o).name = s.name
  BY DEF IsSeries, Series, WithArr

(* Arrays of n rows of which the first j are written                       *)
PartTyped(a, o, n, j) ==
  /\ o = [values |-> o.values, validity |-> o.validity, length |-> n]
  /\ o.values \in [0 .. n - 1 -> Int]
  /\ IsValidity(o.validity, a, n, j)

PartBoolean(a, o, n, j) ==
  /\ o = [data |-> o.data, validity |-> o.validity, length |-> n]
  /\ IsBitmapOf(o.data, n) /\ \A k \in j .. n - 1 : ~IsSet(o.data, k)
  /\ IsValidity(o.validity, a, n, j)

(* t has the rows at j and the following places and the cells of o before. *)
Added(s, t, o, rows, j) ==
  /\ \A k \in 0 .. j - 1 : Cell(WithArr(s, t), k) = Cell(WithArr(s, o), k)
  /\ \A q \in DOMAIN rows : Cell(WithArr(s, t), j + q - 1) = Cell(s, rows[q])

LEMMA AddedByParts ==
  ASSUME NEW s, IsSeries(s), NEW t, NEW o, NEW rows, NEW j,
         NullsOfRows(t.validity, o.validity, s.arr, rows, j),
         \A k \in 0 .. j - 1 : Value(WithArr(s, t), k) = Value(WithArr(s, o), k),
         \A q \in DOMAIN rows : Value(WithArr(s, t), j + q - 1) = Value(s, rows[q])
  PROVE  Added(s, t, o, rows, j)
  <1>1. WithArr(s, t).arr = t /\ WithArr(s, o).arr = o
    BY ArrOf
  <1>2. \A k : (IsNull(t, k) <=> NullAt(t.validity, k)) /\ (IsNull(o, k) <=> NullAt(o.validity, k))
    BY DEF IsNull, NullAt
  <1>3. ASSUME NEW k \in 0 .. j - 1 PROVE Cell(WithArr(s, t), k) = Cell(WithArr(s, o), k)
    <2>1. IsNull(t, k) <=> IsNull(o, k)
      BY <1>2 DEF NullsOfRows
    <2>2. QED
      BY <1>1, <2>1, CellsOfParts
  <1>4. ASSUME NEW q \in DOMAIN rows PROVE Cell(WithArr(s, t), j + q - 1) = Cell(s, rows[q])
    <2>1. IsNull(t, j + q - 1) <=> IsNull(s.arr, rows[q])
      BY <1>2 DEF NullsOfRows
    <2>2. QED
      BY <1>1, <2>1, CellsOfParts
  <1>5. QED
    BY <1>3, <1>4 DEF Added

-----------------------------------------------------------------------------
(* The bytes of a string column                                            *)

(* rows are m rows of a.                                                   *)
RowsOf(rows, m, a) ==
  m \in Nat /\ DOMAIN rows = 1 .. m /\ Len(rows) = m /\ \A q \in 1 .. m : rows[q] \in 0 .. a.length - 1

Width(a, i) == a.offsets[i + 1] - a.offsets[i]

LEMMA WidthOf ==
  ASSUME NEW a, IsString(a), a.length \in Nat, NEW i \in 0 .. a.length - 1
  PROVE  /\ Width(a, i) \in Nat /\ a.offsets[i] \in Nat /\ a.offsets[i + 1] \in Nat
         /\ a.offsets[i + 1] = a.offsets[i] + Width(a, i)
  <1>1. i \in 0 .. a.length /\ i + 1 \in i .. a.length
    OBVIOUS
  <1>2. a.offsets[i] <= a.offsets[i + 1] /\ a.offsets[i] \in Nat /\ a.offsets[i + 1] \in Nat
    BY <1>1, OffsetsRise
  <1>3. QED
    BY <1>2 DEF Width

(* e[k] is where the k-th row ends.                                        *)
EndsOf(e, a, rows, m, pos) ==
  /\ e = [k \in 0 .. m |-> e[k]]
  /\ e[0] = pos
  /\ \A k \in 0 .. m : e[k] \in Nat
  /\ \A k \in 1 .. m : e[k] = e[k - 1] + Width(a, rows[k])

IsEnds(f, a, rows, m, pos) ==
  f = [k \in 0 .. m |-> IF k = 0 THEN pos ELSE f[k - 1] + a.offsets[rows[k] + 1] - a.offsets[rows[k]]]

LEMMA EndsAre ==
  ASSUME NEW a, IsString(a), a.length \in Nat, NEW rows, NEW m, RowsOf(rows, m, a), NEW pos \in Nat
  PROVE  EndsOf(Ends(a, rows, pos), a, rows, m, pos)
  <1>1. m \in Nat /\ Len(rows) = m /\ \A k \in 1 .. m : rows[k] \in 0 .. a.length - 1
    BY DEF RowsOf
  <1>2. Ends(a, rows, pos) = CHOOSE f : IsEnds(f, a, rows, m, pos)
    BY <1>1 DEF Ends, IsEnds
  <1>3. \A k \in 1 .. m : /\ Width(a, rows[k]) \in Nat
                          /\ a.offsets[rows[k]] \in Nat /\ a.offsets[rows[k] + 1] \in Nat
                          /\ a.offsets[rows[k] + 1] = a.offsets[rows[k]] + Width(a, rows[k])
    BY <1>1, WidthOf
  <1>4. PICK step : step = [k \in 1 .. m |-> [x \in Nat |-> x + Width(a, rows[k])]]
    OBVIOUS
  <1>5. \A k \in 1 .. m : \A x \in Nat : step[k][x] = x + Width(a, rows[k]) /\ step[k][x] \in Nat
    BY <1>3, <1>4
  <1>6. PICK g : IsLoop(g, Nat, pos, step, m)
    BY <1>1, <1>5, LoopExists
  <1>7. g \in [0 .. m -> Nat] /\ g = [k \in 0 .. m |-> IF k = 0 THEN pos ELSE step[k][g[k - 1]]]
    BY <1>6 DEF IsLoop
  <1>8. IsEnds(g, a, rows, m, pos)
    <2>1. ASSUME NEW k \in 0 .. m
          PROVE  g[k] = IF k = 0 THEN pos ELSE g[k - 1] + a.offsets[rows[k] + 1] - a.offsets[rows[k]]
      <3>1. CASE k = 0
        BY <1>7, <3>1
      <3>2. CASE k # 0
        <4>1. k \in 1 .. m /\ k - 1 \in 0 .. m
          BY <1>1, <3>2
        <4>2. g[k] = step[k][g[k - 1]] /\ g[k - 1] \in Nat
          BY <1>7, <3>2, <4>1
        <4>3. g[k] = g[k - 1] + Width(a, rows[k])
          BY <1>5, <4>1, <4>2
        <4>4. QED
          BY <1>3, <3>2, <4>1, <4>2, <4>3
      <3>3. QED
        BY <3>1, <3>2
    <2>2. g = [k \in 0 .. m |-> g[k]]
      BY <1>7
    <2>3. g = [k \in 0 .. m |-> IF k = 0 THEN pos ELSE g[k - 1] + a.offsets[rows[k] + 1] - a.offsets[rows[k]]]
      BY <2>1, <2>2, Zenon
    <2>4. QED
      BY <2>3 DEF IsEnds
  <1>9. PICK e : e = Ends(a, rows, pos)
    OBVIOUS
  <1>10. IsEnds(e, a, rows, m, pos)
    BY <1>2, <1>8, <1>9
  <1>11. \A k \in 0 .. m :
           e[k] = IF k = 0 THEN pos ELSE e[k - 1] + a.offsets[rows[k] + 1] - a.offsets[rows[k]]
    BY <1>10 DEF IsEnds
  <1>12. e = [k \in 0 .. m |-> e[k]]
    <2>1. DOMAIN e = 0 .. m
      BY <1>10 DEF IsEnds
    <2>2. \E S : \E h : e = [k \in S |-> h[k]]
      <3>1. PICK h : h = [k \in 0 .. m |-> IF k = 0 THEN pos
                                           ELSE e[k - 1] + a.offsets[rows[k] + 1] - a.offsets[rows[k]]]
        OBVIOUS
      <3>2. e = h /\ h = [k \in 0 .. m |-> h[k]]
        BY <1>10, <3>1, Zenon DEF IsEnds
      <3>3. QED
        BY <3>2
    <2>3. QED
      BY <2>1, <2>2
  <1> DEFINE F == {k \in 0 .. m : e[k] \in Nat}
  <1>13. 0 \in F
    <2>1. 0 \in 0 .. m /\ pos \in Nat
      BY <1>1
    <2>2. e[0] = pos
      BY <1>11, <2>1
    <2>3. QED
      BY <2>1, <2>2
  <1>14. ASSUME NEW k \in 0 .. m - 1, k \in F PROVE k + 1 \in F
    <2>1. k + 1 \in 1 .. m /\ k + 1 \in 0 .. m /\ k + 1 # 0 /\ (k + 1) - 1 = k
      BY <1>1, <1>14
    <2>2. e[k + 1] = e[k] + a.offsets[rows[k + 1] + 1] - a.offsets[rows[k + 1]]
      BY <1>11, <2>1
    <2>3. QED
      BY <1>3, <1>14, <2>1, <2>2
  <1>15. \A k \in 0 .. m : e[k] \in Nat
    <2> HIDE DEF F
    <2>1. 0 \in Int /\ m \in Int
      BY <1>1
    <2>2. 0 .. m \subseteq F
      BY <1>13, <1>14, <2>1, IntervalInduction
    <2>3. QED
      BY <2>2 DEF F
  <1>16. \A k \in 1 .. m : e[k] = e[k - 1] + Width(a, rows[k])
    <2>1. ASSUME NEW k \in 1 .. m PROVE e[k] = e[k - 1] + Width(a, rows[k])
      <3>1. k \in 0 .. m /\ k - 1 \in 0 .. m /\ k # 0
        BY <1>1
      <3>2. e[k] = e[k - 1] + a.offsets[rows[k] + 1] - a.offsets[rows[k]] /\ e[k - 1] \in Nat
        BY <1>11, <1>15, <3>1
      <3>3. QED
        BY <1>3, <3>2
    <2>2. QED
      BY <2>1
  <1>17. e[0] = pos
    BY <1>1, <1>11
  <1>18. QED
    BY <1>9, <1>12, <1>15, <1>16, <1>17 DEF EndsOf

(* A row ends after those before it.                                       *)
LEMMA EndsRise ==
  ASSUME NEW a, IsString(a), a.length \in Nat, NEW rows, NEW m, RowsOf(rows, m, a), NEW pos \in Nat,
         NEW e, EndsOf(e, a, rows, m, pos), NEW k \in 0 .. m, NEW l \in k .. m
  PROVE  e[k] <= e[l]
  <1>1. m \in Nat /\ \A q \in 1 .. m : Width(a, rows[q]) \in Nat
    BY WidthOf DEF RowsOf
  <1>2. \A q \in 0 .. m : e[q] \in Nat
    BY DEF EndsOf
  <1> DEFINE F == {q \in k .. m : e[k] <= e[q]}
  <1>3. k \in F
    BY <1>2
  <1>4. ASSUME NEW q \in k .. l - 1, q \in F PROVE q + 1 \in F
    <2>1. q + 1 \in 1 .. m /\ q + 1 \in k .. m /\ (q + 1) - 1 = q /\ q \in 0 .. m
      BY <1>1, <1>4
    <2>2. e[q + 1] = e[q] + Width(a, rows[q + 1])
      BY <2>1 DEF EndsOf
    <2>3. QED
      BY <1>1, <1>2, <1>4, <2>1, <2>2
  <1>5. k .. l \subseteq F
    <2> HIDE DEF F
    <2>1. QED
      BY <1>3, <1>4, IntervalInduction
  <1>6. QED
    BY <1>5

(* The rows start where the ones before them end, wherever these are.      *)
LEMMA EndsShift ==
  ASSUME NEW a, IsString(a), a.length \in Nat, NEW rows, NEW m, RowsOf(rows, m, a), NEW pos \in Nat,
         NEW e, EndsOf(e, a, rows, m, pos), NEW f, EndsOf(f, a, rows, m, 0)
  PROVE  e[m] = pos + f[m]
  <1>1. m \in Nat /\ \A q \in 1 .. m : Width(a, rows[q]) \in Nat
    BY WidthOf DEF RowsOf
  <1>2. /\ \A q \in 0 .. m : e[q] \in Nat /\ f[q] \in Nat
        /\ e[0] = pos /\ f[0] = 0
    BY DEF EndsOf
  <1> DEFINE F == {q \in 0 .. m : e[q] = pos + f[q]}
  <1>3. 0 \in F
    BY <1>1, <1>2
  <1>4. ASSUME NEW q \in 0 .. m - 1, q \in F PROVE q + 1 \in F
    <2>1. q + 1 \in 1 .. m /\ q + 1 \in 0 .. m /\ (q + 1) - 1 = q /\ q \in 0 .. m
      BY <1>1, <1>4
    <2>2. e[q + 1] = e[q] + Width(a, rows[q + 1]) /\ f[q + 1] = f[q] + Width(a, rows[q + 1])
      BY <2>1 DEF EndsOf
    <2>3. QED
      BY <1>1, <1>2, <1>4, <2>1, <2>2
  <1>5. 0 .. m \subseteq F
    <2> HIDE DEF F
    <2>1. 0 \in Int /\ m \in Int
      BY <1>1
    <2>2. QED
      BY <1>3, <1>4, <2>1, IntervalInduction
  <1>6. QED
    BY <1>1, <1>5

(* The rows are those from b on.                                           *)
DenseRows(rows, m, b) == \A k \in 1 .. m : rows[k] = b + k - 1

DenseEnds(e, a, m, b, pos) ==
  \A k \in 0 .. m : b + k \in 0 .. a.length /\ e[k] = pos + a.offsets[b + k] - a.offsets[b]

(* Where rows that follow each other end                                   *)
LEMMA EndsDense ==
  ASSUME NEW a, IsString(a), a.length \in Nat, NEW rows, NEW m, RowsOf(rows, m, a), NEW pos \in Nat,
         NEW e, EndsOf(e, a, rows, m, pos), NEW b \in Nat, b + m <= a.length,
         DenseRows(rows, m, b)
  PROVE  DenseEnds(e, a, m, b, pos)
  <1>1. m \in Nat
    BY DEF RowsOf
  <1>2. /\ \A q \in 0 .. m : e[q] \in Nat
        /\ e[0] = pos
    BY DEF EndsOf
  <1>2a. \A q \in 0 .. a.length : a.offsets[q] \in Nat
    BY DEF IsString
  <1> DEFINE F == {q \in 0 .. m : e[q] = pos + a.offsets[b + q] - a.offsets[b]}
  <1>3. 0 \in F
    <2>1. b + 0 = b /\ b \in 0 .. a.length
      BY <1>1
    <2>2. QED
      BY <1>1, <1>2, <1>2a, <2>1
  <1>4. ASSUME NEW q \in 0 .. m - 1, q \in F PROVE q + 1 \in F
    <2>1. /\ q + 1 \in 1 .. m /\ q + 1 \in 0 .. m /\ (q + 1) - 1 = q /\ q \in 0 .. m
          /\ b + (q + 1) = (b + q) + 1 /\ b \in 0 .. a.length /\ b + q \in 0 .. a.length
      BY <1>1, <1>4
    <2>2. e[q + 1] = e[q] + Width(a, rows[q + 1])
      BY <2>1 DEF EndsOf
    <2>3. rows[q + 1] = b + q /\ b + q \in 0 .. a.length - 1
      <3>1. rows[q + 1] = b + (q + 1) - 1
        BY <2>1 DEF DenseRows
      <3>2. QED
        BY <1>1, <1>4, <3>1
    <2>4. /\ a.offsets[(b + q) + 1] = a.offsets[b + q] + Width(a, b + q) /\ Width(a, b + q) \in Nat
          /\ a.offsets[(b + q) + 1] \in Nat
      BY <2>3, WidthOf
    <2>5. e[q + 1] = pos + a.offsets[(b + q) + 1] - a.offsets[b]
      BY <1>2, <1>2a, <1>4, <2>1, <2>2, <2>3, <2>4
    <2>6. QED
      BY <2>1, <2>5
  <1>5. 0 .. m \subseteq F
    <2> HIDE DEF F
    <2>1. 0 \in Int /\ m \in Int
      BY <1>1
    <2>2. QED
      BY <1>3, <1>4, <2>1, IntervalInduction
  <1>6. \A k \in 0 .. m : b + k \in 0 .. a.length
    BY <1>1
  <1>7. QED
    BY <1>5, <1>6 DEF DenseEnds

(* Every byte is one of a row, and of no other.                            *)
LEMMA RowOfByte ==
  ASSUME NEW a, IsString(a), a.length \in Nat, NEW rows, NEW m, RowsOf(rows, m, a), NEW pos \in Nat,
         NEW e, EndsOf(e, a, rows, m, pos), NEW p \in Int,
         NEW k \in 1 .. m, e[k - 1] <= p, p < e[k], NEW l \in 1 .. m, e[l - 1] <= p, p < e[l]
  PROVE  k = l
  <1>1. \A q \in 0 .. m : e[q] \in Nat
    BY DEF EndsOf
  <1>2. m \in Nat
    BY DEF RowsOf
  <1>3. \A x, y \in 1 .. m : x < y => e[x] <= e[y - 1]
    <2>1. ASSUME NEW x \in 1 .. m, NEW y \in 1 .. m, x < y PROVE e[x] <= e[y - 1]
      <3>1. x \in 0 .. m /\ y - 1 \in x .. m
        BY <1>2, <2>1
      <3>2. QED
        BY <3>1, EndsRise
    <2>2. QED
      BY <2>1
  <1>4. k \in 0 .. m /\ k - 1 \in 0 .. m /\ l \in 0 .. m /\ l - 1 \in 0 .. m
    BY <1>2
  <1>5. ~(k < l)
    BY <1>1, <1>3, <1>4
  <1>6. ~(l < k)
    BY <1>1, <1>3, <1>4
  <1>7. QED
    BY <1>5, <1>6

RowAt(rows, e, p) == CHOOSE k \in DOMAIN rows : e[k - 1] <= p /\ p < e[k]

(* t is dst with the bytes of the rows from pos on.                        *)
BytesPut(t, dst, a, rows, m, e, pos, total) ==
  /\ t = [p \in 0 .. total - 1 |-> t[p]]
  /\ \A p \in 0 .. pos - 1 : t[p] = dst[p]
  /\ \A q \in 1 .. m : \A i \in 0 .. Width(a, rows[q]) - 1 :
       t[e[q - 1] + i] = a.bytes[a.offsets[rows[q]] + i]

(* CopyBytes puts the bytes of every row where it belongs.                 *)
LEMMA BytesCopied ==
  ASSUME NEW a, IsString(a), a.length \in Nat, NEW rows, NEW m, RowsOf(rows, m, a), NEW pos \in Nat,
         NEW e, EndsOf(e, a, rows, m, pos), NEW dst, NEW total \in Nat, DOMAIN dst = 0 .. total - 1,
         e[m] <= total
  PROVE  BytesPut(CopyBytes(dst, a, rows, e), dst, a, rows, m, e, pos, total)
  <1>1. PICK t, at : /\ t = CopyBytes(dst, a, rows, e)
                     /\ at = [p \in Int |-> CHOOSE k \in 1 .. m : e[k - 1] <= p /\ p < e[k]]
    OBVIOUS
  <1>2. m \in Nat /\ DOMAIN rows = 1 .. m /\ Len(rows) = m
    BY DEF RowsOf
  <1>3. /\ \A q \in 0 .. m : e[q] \in Nat
        /\ e[0] = pos
        /\ \A k \in 1 .. m : e[k] = e[k - 1] + Width(a, rows[k])
    BY DEF EndsOf
  <1>4. t = [p \in 0 .. total - 1 |->
               IF pos <= p /\ p < e[m] THEN a.bytes[a.offsets[rows[at[p]]] + p - e[at[p] - 1]] ELSE dst[p]]
    <2>1. t = [p \in DOMAIN dst |->
                 IF e[0] <= p /\ p < e[Len(rows)]
                   THEN a.bytes[a.offsets[rows[RowAt(rows, e, p)]] + p - e[RowAt(rows, e, p) - 1]] ELSE dst[p]]
      BY <1>1, Zenon DEF CopyBytes, RowAt
    <2>2. \A p \in 0 .. total - 1 : at[p] = RowAt(rows, e, p)
      <3>1. ASSUME NEW p \in 0 .. total - 1 PROVE at[p] = RowAt(rows, e, p)
        <4>1. p \in Int
          OBVIOUS
        <4>2. at[p] = CHOOSE k \in 1 .. m : e[k - 1] <= p /\ p < e[k]
          BY <1>1, <4>1
        <4>3. QED
          BY <1>2, <4>2, Zenon DEF RowAt
      <3>2. QED
        BY <3>1
    <2>3. t = [p \in 0 .. total - 1 |->
                 IF pos <= p /\ p < e[m]
                   THEN a.bytes[a.offsets[rows[RowAt(rows, e, p)]] + p - e[RowAt(rows, e, p) - 1]] ELSE dst[p]]
      BY <1>2, <1>3, <2>1, Zenon
    <2>4. QED
      BY <2>2, <2>3, Zenon
  <1>5. t = [p \in 0 .. total - 1 |-> t[p]]
    BY <1>4
  <1>6. ASSUME NEW p \in 0 .. pos - 1 PROVE t[p] = dst[p]
    <2>1. e[0] <= e[m]
      <3>1. 0 \in 0 .. m /\ m \in 0 .. m
        BY <1>2
      <3>2. QED
        BY <3>1, EndsRise
    <2>2. p \in 0 .. total - 1 /\ ~(pos <= p)
      BY <1>2, <1>3, <2>1
    <2>3. QED
      BY <1>4, <2>2
  <1>7. ASSUME NEW q \in 1 .. m, NEW i \in 0 .. Width(a, rows[q]) - 1
        PROVE  t[e[q - 1] + i] = a.bytes[a.offsets[rows[q]] + i]
    <2>1. q - 1 \in 0 .. m /\ q \in 0 .. m /\ 0 \in 0 .. m /\ m \in 0 .. m /\ rows[q] \in 0 .. a.length - 1
      BY <1>2 DEF RowsOf
    <2>2. Width(a, rows[q]) \in Nat /\ a.offsets[rows[q]] \in Nat
      BY <2>1, WidthOf
    <2>3. e[0] <= e[q - 1] /\ e[q] <= e[m]
      <3>1. q - 1 \in 0 .. m /\ m \in q .. m
        BY <1>2
      <3>2. QED
        BY <2>1, <3>1, EndsRise
    <2>4. PICK p : p = e[q - 1] + i
      OBVIOUS
    <2>5. p \in Int /\ e[q - 1] <= p /\ p < e[q] /\ p \in 0 .. total - 1 /\ pos <= p /\ p < e[m]
      <3>1. PICK u, v, x, y, w : u = e[q - 1] /\ v = e[q] /\ x = e[0] /\ y = e[m] /\ w = Width(a, rows[q])
        OBVIOUS
      <3>2. u \in Nat /\ v \in Nat /\ x \in Nat /\ y \in Nat /\ v = u + w /\ x = pos
        BY <1>3, <2>1, <3>1
      <3>3. w \in Nat /\ i \in 0 .. w - 1 /\ x <= u /\ v <= y /\ y <= total /\ p = u + i
        BY <2>2, <2>3, <2>4, <3>1
      <3>4. p \in Int /\ u <= p /\ p < v /\ p \in 0 .. total - 1 /\ pos <= p /\ p < y
        BY <3>2, <3>3
      <3>5. QED
        BY <3>1, <3>4
    <2>6. at[p] \in 1 .. m /\ e[at[p] - 1] <= p /\ p < e[at[p]]
      BY <1>1, <2>5
    <2>7. at[p] = q
      BY <2>5, <2>6, RowOfByte
    <2>8. t[p] = a.bytes[a.offsets[rows[q]] + p - e[q - 1]]
      BY <1>4, <2>5, <2>7
    <2>9. a.offsets[rows[q]] + p - e[q - 1] = a.offsets[rows[q]] + i
      <3>1. PICK x, y : x = a.offsets[rows[q]] /\ y = e[q - 1]
        OBVIOUS
      <3>2. x \in Nat /\ y \in Nat /\ i \in Int /\ p = y + i
        BY <1>3, <2>1, <2>2, <2>4, <3>1
      <3>3. x + p - y = x + i
        BY <3>2
      <3>4. QED
        BY <3>1, <3>3
    <2>10. QED
      BY <2>4, <2>8, <2>9
  <1>8. QED
    BY <1>1, <1>5, <1>6, <1>7 DEF BytesPut

(* A string array of n rows of which the first j are written, with pos of  *)
(* the total bytes                                                         *)
PartString(a, o, n, j, pos, total) ==
  /\ o = [bytes |-> o.bytes, offsets |-> o.offsets, validity |-> o.validity, length |-> n]
  /\ o.bytes = [p \in 0 .. total - 1 |-> o.bytes[p]]
  /\ o.offsets \in [0 .. n -> Nat]
  /\ o.offsets[0] = 0 /\ o.offsets[j] = pos
  /\ \A k \in 0 .. j - 1 : o.offsets[k] <= o.offsets[k + 1] /\ o.offsets[k + 1] <= pos
  /\ IsValidity(o.validity, a, n, j)

(* t is o with the texts of the rows written from place j and byte pos on. *)
TextsPut(a, t, o, rows, m, n, j, pos, total, e) ==
  /\ t = [bytes |-> t.bytes, offsets |-> t.offsets, validity |-> t.validity, length |-> n]
  /\ t.bytes = [p \in 0 .. total - 1 |-> t.bytes[p]]
  /\ \A p \in 0 .. pos - 1 : t.bytes[p] = o.bytes[p]
  /\ \A q \in 1 .. m : \A i \in 0 .. Width(a, rows[q]) - 1 :
       t.bytes[e[q - 1] + i] = a.bytes[a.offsets[rows[q]] + i]
  /\ t.offsets = [k \in 0 .. n |-> IF k - j \in 1 .. m THEN e[k - j] ELSE o.offsets[k]]
  /\ t.validity = ClearNulls(o.validity, a, rows, j)

(* The text of row i                                                       *)
LEMMA TextOfRow ==
  ASSUME NEW t, NEW u, NEW i, NEW k, NEW w, NEW x, NEW y, t.offsets[i] = x, u.offsets[k] = y,
         t.offsets[i + 1] - t.offsets[i] = w, u.offsets[k + 1] - u.offsets[k] = w, w \in Nat,
         x \in Nat, y \in Nat,
         \A p \in 0 .. w - 1 : t.bytes[x + p] = u.bytes[y + p]
  PROVE  BytesOf(t, i) = BytesOf(u, k)
  <1>1. BytesOf(t, i) = [p \in 1 .. w |-> t.bytes[x + p - 1]]
    BY Zenon DEF BytesOf
  <1>2. BytesOf(u, k) = [p \in 1 .. w |-> u.bytes[y + p - 1]]
    BY Zenon DEF BytesOf
  <1>3. \A p \in 1 .. w : t.bytes[x + p - 1] = u.bytes[y + p - 1]
    <2>1. ASSUME NEW p \in 1 .. w PROVE t.bytes[x + p - 1] = u.bytes[y + p - 1]
      <3>1. p - 1 \in 0 .. w - 1 /\ x + p - 1 = x + (p - 1) /\ y + p - 1 = y + (p - 1)
        OBVIOUS
      <3>2. QED
        BY <3>1
    <2>2. QED
      BY <2>1
  <1>4. QED
    BY <1>1, <1>2, <1>3, Zenon

LEMMA TextAdds ==
  ASSUME NEW s, IsSeries(s), s.dtype = "String", NEW n \in Nat, NEW m, NEW j \in Nat, NEW total \in Nat,
         NEW pos \in Nat, NEW o, PartString(s.arr, o, n, j, pos, total),
         NEW rows, RowsOf(rows, m, s.arr), j + m <= n,
         NEW e, EndsOf(e, s.arr, rows, m, pos), e[m] <= total,
         NEW t, TextsPut(s.arr, t, o, rows, m, n, j, pos, total, e)
  PROVE  PartString(s.arr, t, n, j + m, e[m], total) /\ Added(s, t, o, rows, j)
  <1>1. PICK a : a = s.arr
    OBVIOUS
  <1>2. IsString(a) /\ a.length \in Nat
    BY <1>1 DEF IsSeries, IsArray
  <1>3. m \in Nat /\ DOMAIN rows = 1 .. m /\ \A q \in 1 .. m : rows[q] \in 0 .. a.length - 1
    BY <1>1 DEF RowsOf
  <1>4. /\ \A q \in 0 .. m : e[q] \in Nat
        /\ e[0] = pos
        /\ \A k \in 1 .. m : e[k] = e[k - 1] + Width(a, rows[k])
    BY <1>1 DEF EndsOf
  <1>5. /\ \A k \in 0 .. n : o.offsets[k] \in Nat
        /\ o.offsets[0] = 0 /\ o.offsets[j] = pos
        /\ \A k \in 0 .. j - 1 : o.offsets[k] <= o.offsets[k + 1] /\ o.offsets[k + 1] <= pos
        /\ IsValidity(o.validity, a, n, j)
    BY <1>1 DEF PartString
  <1>6. /\ t = [bytes |-> t.bytes, offsets |-> t.offsets, validity |-> t.validity, length |-> n]
        /\ t.bytes = [p \in 0 .. total - 1 |-> t.bytes[p]]
        /\ t.offsets = [k \in 0 .. n |-> IF k - j \in 1 .. m THEN e[k - j] ELSE o.offsets[k]]
        /\ t.validity = ClearNulls(o.validity, a, rows, j)
    BY <1>1 DEF TextsPut
  <1>7. \A k \in 0 .. j : k \in 0 .. n /\ t.offsets[k] = o.offsets[k]
    <2>1. \A k \in 0 .. j : k \in 0 .. n /\ ~(k - j \in 1 .. m)
      BY <1>3
    <2>2. QED
      BY <1>6, <2>1
  <1>8. \A q \in 0 .. m : j + q \in 0 .. n /\ t.offsets[j + q] = e[q]
    <2>1. ASSUME NEW q \in 0 .. m PROVE j + q \in 0 .. n /\ t.offsets[j + q] = e[q]
      <3>1. j + q \in 0 .. n /\ (j + q) - j = q
        BY <1>3
      <3>2. CASE q = 0
        <4>1. j + q = j /\ j \in 0 .. j
          BY <3>2
        <4>2. QED
          BY <1>4, <1>5, <1>7, <3>1, <3>2, <4>1
      <3>3. CASE q # 0
        <4>1. q \in 1 .. m
          BY <1>3, <3>3
        <4>2. QED
          BY <1>6, <3>1, <4>1
      <3>4. QED
        BY <3>2, <3>3
    <2>2. QED
      BY <2>1
  <1>9. \A q \in 1 .. m : Width(a, rows[q]) \in Nat /\ a.offsets[rows[q]] \in Nat
                          /\ a.offsets[rows[q] + 1] \in Nat
                          /\ a.offsets[rows[q] + 1] = a.offsets[rows[q]] + Width(a, rows[q])
    BY <1>2, <1>3, WidthOf
  <1>10. t.offsets \in [0 .. n -> Nat]
    <2>1. \A k \in 0 .. n : (IF k - j \in 1 .. m THEN e[k - j] ELSE o.offsets[k]) \in Nat
      <3>1. ASSUME NEW k \in 0 .. n, k - j \in 1 .. m PROVE e[k - j] \in Nat
        <4>1. k - j \in 0 .. m
          BY <1>3, <3>1
        <4>2. QED
          BY <1>4, <4>1
      <3>2. QED
        BY <1>5, <3>1
    <2>2. QED
      BY <1>6, <2>1
  <1>11. \A q \in 0 .. m : e[q] <= e[m]
    <2>1. ASSUME NEW q \in 0 .. m PROVE e[q] <= e[m]
      <3>1. m \in q .. m
        BY <1>3
      <3>2. QED
        BY <1>1, <1>2, <3>1, EndsRise
    <2>2. QED
      BY <2>1
  <1>12. \A k \in 0 .. (j + m) - 1 : t.offsets[k] <= t.offsets[k + 1] /\ t.offsets[k + 1] <= e[m]
    <2>1. ASSUME NEW k \in 0 .. j - 1 PROVE t.offsets[k] <= t.offsets[k + 1] /\ t.offsets[k + 1] <= e[m]
      <3>1. k \in 0 .. j /\ k + 1 \in 0 .. j /\ 0 \in 0 .. m /\ m \in 0 .. m
        BY <1>3
      <3>2. t.offsets[k] = o.offsets[k] /\ t.offsets[k + 1] = o.offsets[k + 1]
        BY <1>7, <3>1
      <3>3. o.offsets[k] <= o.offsets[k + 1] /\ o.offsets[k + 1] <= pos /\ pos <= e[m]
        BY <1>4, <1>5, <1>11, <3>1
      <3>4. o.offsets[k + 1] \in Nat /\ e[m] \in Nat
        BY <1>4, <1>5, <1>7, <3>1
      <3>5. QED
        BY <3>2, <3>3, <3>4
    <2>2. ASSUME NEW q \in 0 .. m - 1
          PROVE  t.offsets[j + q] <= t.offsets[j + q + 1] /\ t.offsets[j + q + 1] <= e[m]
      <3>1. q \in 0 .. m /\ q + 1 \in 0 .. m /\ q + 1 \in 1 .. m /\ (q + 1) - 1 = q
            /\ j + q + 1 = j + (q + 1)
        BY <1>3
      <3>2. t.offsets[j + q] = e[q] /\ t.offsets[j + q + 1] = e[q + 1]
        BY <1>8, <3>1
      <3>3. e[q + 1] = e[q] + Width(a, rows[q + 1]) /\ Width(a, rows[q + 1]) \in Nat /\ e[q] \in Nat
        <4>1. e[q + 1] = e[(q + 1) - 1] + Width(a, rows[q + 1])
          BY <1>4, <3>1
        <4>2. QED
          BY <1>4, <1>9, <3>1, <4>1
      <3>4. e[q + 1] <= e[m]
        BY <1>11, <3>1
      <3>5. QED
        BY <3>2, <3>3, <3>4
    <2>3. ASSUME NEW k \in 0 .. (j + m) - 1 PROVE k \in 0 .. j - 1 \/ \E q \in 0 .. m - 1 : k = j + q
      <3>1. k \in 0 .. j - 1 \/ (k - j \in 0 .. m - 1 /\ k = j + (k - j))
        BY <1>3
      <3>2. QED
        BY <3>1
    <2>4. QED
      BY <2>1, <2>2, <2>3
  <1>13. IsValidity(t.validity, a, n, j + m) /\ NullsOfRows(t.validity, o.validity, a, rows, j)
    BY <1>3, <1>5, <1>6, NullsCleared
  <1>14. t.offsets[0] = 0 /\ t.offsets[j + m] = e[m]
    <2>1. 0 \in 0 .. j /\ m \in 0 .. m
      BY <1>3
    <2>2. QED
      BY <1>5, <1>7, <1>8, <2>1
  <1>15. PartString(a, t, n, j + m, e[m], total)
    BY <1>6, <1>10, <1>12, <1>13, <1>14 DEF PartString
  <1>16. \A v \in {t, o} : \A k : Value(WithArr(s, v), k) = BytesOf(v, k)
    BY ArrOf DEF Value
  <1>17. \A k \in 0 .. j - 1 : Value(WithArr(s, t), k) = Value(WithArr(s, o), k)
    <2>1. ASSUME NEW k \in 0 .. j - 1 PROVE BytesOf(t, k) = BytesOf(o, k)
      <3>1. k \in 0 .. j /\ k + 1 \in 0 .. j
        OBVIOUS
      <3>2. /\ t.offsets[k] = o.offsets[k] /\ t.offsets[k + 1] = o.offsets[k + 1]
            /\ o.offsets[k] \in Nat /\ o.offsets[k + 1] \in Nat
            /\ o.offsets[k] <= o.offsets[k + 1] /\ o.offsets[k + 1] <= pos
        BY <1>5, <1>7, <3>1
      <3>3. PICK x, w : x = o.offsets[k] /\ w = o.offsets[k + 1] - o.offsets[k]
        OBVIOUS
      <3>4. x \in Nat /\ w \in Nat /\ x + w <= pos
        BY <3>2, <3>3
      <3>5. \A p \in 0 .. w - 1 : t.bytes[x + p] = o.bytes[x + p]
        <4>1. \A p \in 0 .. w - 1 : x + p \in 0 .. pos - 1
          BY <3>4
        <4>2. QED
          BY <4>1 DEF TextsPut
      <3>6. QED
        BY <3>2, <3>3, <3>4, <3>5, TextOfRow
    <2>2. QED
      BY <1>16, <2>1
  <1>18. \A q \in 1 .. m : Value(WithArr(s, t), j + q - 1) = Value(s, rows[q])
    <2>1. ASSUME NEW q \in 1 .. m PROVE BytesOf(t, j + q - 1) = BytesOf(a, rows[q])
      <3>1. q - 1 \in 0 .. m /\ q \in 0 .. m /\ j + (q - 1) = j + q - 1 /\ (j + q - 1) + 1 = j + q
        BY <1>3
      <3>2. t.offsets[j + q - 1] = e[q - 1] /\ t.offsets[(j + q - 1) + 1] = e[q]
        BY <1>8, <3>1
      <3>3. PICK i, x, w : i = j + q - 1 /\ x = e[q - 1] /\ w = Width(a, rows[q])
        OBVIOUS
      <3>4. e[q] = x + w /\ x \in Nat /\ w \in Nat
        BY <1>4, <1>9, <3>1, <3>3
      <3>5. t.offsets[i] = x /\ t.offsets[i + 1] - t.offsets[i] = w
        BY <3>2, <3>3, <3>4
      <3>6. a.offsets[rows[q] + 1] - a.offsets[rows[q]] = w /\ a.offsets[rows[q]] \in Nat
        BY <1>9, <3>3 DEF Width
      <3>7. \A p \in 0 .. w - 1 : t.bytes[x + p] = a.bytes[a.offsets[rows[q]] + p]
        BY <1>1, <3>3 DEF TextsPut
      <3>8. BytesOf(t, i) = BytesOf(a, rows[q])
        BY <3>4, <3>5, <3>6, <3>7, TextOfRow
      <3>9. QED
        BY <3>3, <3>8
    <2>2. \A i : Value(s, i) = BytesOf(a, i)
      BY <1>1 DEF Value
    <2>3. QED
      BY <1>16, <2>1, <2>2
  <1>19. Added(s, t, o, rows, j)
    BY <1>1, <1>3, <1>13, <1>17, <1>18, AddedByParts
  <1>20. QED
    BY <1>1, <1>15, <1>19

(* The bytes and the offsets of a dense word                               *)
BlockBytes(dst, a, pos, b, r, delta) ==
  [p \in DOMAIN dst |-> IF pos <= p /\ p < a.offsets[b + r] + delta THEN a.bytes[p - delta] ELSE dst[p]]

BlockOffsets(dst, a, rows, j, delta) == Put(dst, j + 1, rows, LAMBDA i : a.offsets[i + 1] + delta)

(* The offsets of a sparse word                                            *)
RowOffsets(dst, rows, j, e) == [k \in DOMAIN dst |-> IF k - j \in DOMAIN rows THEN e[k - j] ELSE dst[k]]

(* The sum over the first numbers grows with their count.                  *)
LEMMA SumsRise ==
  ASSUME NEW n \in Nat, NEW v, \A k \in 0 .. n - 1 : v[k] \in Nat
  PROVE  \A k \in 0 .. n : /\ SumOver(v, 0 .. k - 1) \in Nat
                           /\ SumOver(v, 0 .. k - 1) <= SumOver(v, 0 .. n - 1)
  <1>1. PICK g : g = [k \in 0 .. n |-> SumOver(v, 0 .. k - 1)]
    OBVIOUS
  <1>2. /\ \A k \in 0 .. n - 1 : v[k] \in Int
        /\ 0 \in 0 .. n /\ n \in 0 .. n
    OBVIOUS
  <1>3. /\ SumOver(v, 0 .. 0 - 1) = 0
        /\ \A k \in 0 .. n : SumOver(v, 0 .. k - 1) \in Int
        /\ \A k \in 0 .. n - 1 : SumOver(v, 0 .. k) = SumOver(v, 0 .. k - 1) + v[k]
    BY <1>2, SumGrows
  <1>4. g[0] = 0
    BY <1>1, <1>2, <1>3
  <1>5. \A k \in 0 .. n - 1 : g[k + 1] = g[k] + v[k] /\ g[k] \in Int
    <2>1. ASSUME NEW k \in 0 .. n - 1 PROVE g[k + 1] = g[k] + v[k] /\ g[k] \in Int
      <3>1. k \in 0 .. n /\ k + 1 \in 0 .. n /\ (k + 1) - 1 = k
        OBVIOUS
      <3>2. g[k + 1] = SumOver(v, 0 .. (k + 1) - 1) /\ g[k] = SumOver(v, 0 .. k - 1)
        BY <1>1, <3>1
      <3>3. g[k + 1] = SumOver(v, 0 .. k)
        BY <3>1, <3>2
      <3>4. QED
        BY <1>3, <3>1, <3>2, <3>3
    <2>2. QED
      BY <2>1
  <1> DEFINE F == {k \in 0 .. n : g[k] \in Nat /\ \A l \in 0 .. k : g[l] <= g[k]}
  <1>6. 0 \in F
    BY <1>2, <1>4
  <1>7. ASSUME NEW k \in 0 .. n - 1, k \in F PROVE k + 1 \in F
    <2>1. k + 1 \in 0 .. n /\ g[k + 1] = g[k] + v[k] /\ v[k] \in Nat /\ g[k] \in Nat
      BY <1>5, <1>7
    <2>2. ASSUME NEW l \in 0 .. k + 1 PROVE g[l] <= g[k + 1]
      <3>1. CASE l = k + 1
        BY <2>1, <3>1
      <3>2. CASE l # k + 1
        <4>1. l \in 0 .. k /\ l \in 0 .. n - 1
          BY <3>2
        <4>2. g[l] <= g[k] /\ g[l] \in Int
          BY <1>5, <1>7, <4>1
        <4>3. QED
          BY <2>1, <4>2
      <3>3. QED
        BY <3>1, <3>2
    <2>3. QED
      BY <2>1, <2>2
  <1>8. 0 .. n \subseteq F
    <2> HIDE DEF F
    <2>1. 0 \in Int /\ n \in Int
      OBVIOUS
    <2>2. QED
      BY <1>6, <1>7, <2>1, IntervalInduction
  <1>9. \A k \in 0 .. n : g[k] \in Nat /\ g[k] <= g[n]
    BY <1>2, <1>8
  <1>10. QED
    BY <1>1, <1>2, <1>9

(* The cells of the rows the first wi words select are in place.           *)
CellsBefore(s, m, wi, o) ==
  \A k \in 1 .. Cardinality(Before(m, wi)) :
    Cell(WithArr(s, o), k - 1) = Cell(s, RowList(Before(m, wi))[k])

ZeroTo(n) == [p \in 0 .. n - 1 |-> 0]

-----------------------------------------------------------------------------
(* The bits of a condition                                                 *)

LEMMA AndBits ==
  ASSUME NEW n \in Nat, NEW b, IsBitmapOf(b, n), NEW c, IsBitmapOf(c, n)
  PROVE  /\ IsBitmapOf(And(b, c), n)
         /\ \A i \in 0 .. n - 1 : IsSet(And(b, c), i) <=> IsSet(b, i) /\ IsSet(c, i)
  <1>1. PICK d : d = And(b, c)
    OBVIOUS
  <1>2. Raw(b) /\ SlackClear(b) /\ b.len = n /\ Raw(c) /\ c.len = n
    BY RawParts DEF IsBitmapOf
  <1>3. /\ Raw(d) /\ d.len = n /\ DOMAIN b.data = WordIndexes(n)
        /\ \A wi \in WordIndexes(n) : d.data[wi] = b.data[wi] \cap c.data[wi]
    <2>1. d = [b EXCEPT !.data = [wi \in DOMAIN b.data |-> @[wi] \cap c.data[wi]]]
      BY <1>1, <1>2 DEF And
    <2>2. QED
      BY <1>2, <2>1 DEF Raw
  <1>4. SlackClear(d)
    BY <1>2, <1>3 DEF SlackClear, Raw
  <1>5. ASSUME NEW i \in 0 .. n - 1 PROVE IsSet(d, i) <=> IsSet(b, i) /\ IsSet(c, i)
    <2>1. PICK wi \in WordIndexes(n), p \in Positions :
             i = wi * wordSize + p /\ (IsSet(b, i) <=> p \in b.data[wi])
      BY <1>2, WordOfBit
    <2>2. wi \in Nat /\ i < d.len /\ i < c.len
      BY <1>2, <1>3, WordOf
    <2>3. (IsSet(c, i) <=> p \in c.data[wi]) /\ (IsSet(d, i) <=> p \in d.data[wi])
      BY <1>2, <1>3, <2>1, <2>2, BitOfWord
    <2>4. QED
      BY <1>3, <2>1, <2>3
  <1>6. QED
    BY <1>1, <1>3, <1>4, <1>5, RawParts DEF IsBitmapOf

LEMMA OrBits ==
  ASSUME NEW n \in Nat, NEW b, IsBitmapOf(b, n), NEW c, IsBitmapOf(c, n)
  PROVE  /\ IsBitmapOf(Or(b, c), n)
         /\ \A i \in 0 .. n - 1 : IsSet(Or(b, c), i) <=> IsSet(b, i) \/ IsSet(c, i)
  <1>1. PICK d : d = Or(b, c)
    OBVIOUS
  <1>2. Raw(b) /\ SlackClear(b) /\ b.len = n /\ Raw(c) /\ SlackClear(c) /\ c.len = n
    BY RawParts DEF IsBitmapOf
  <1>3. /\ Raw(d) /\ d.len = n /\ DOMAIN b.data = WordIndexes(n) /\ DOMAIN c.data = WordIndexes(n)
        /\ \A wi \in WordIndexes(n) : d.data[wi] = b.data[wi] \cup c.data[wi]
    <2>1. d = [b EXCEPT !.data = [wi \in DOMAIN b.data |-> @[wi] \cup c.data[wi]]]
      BY <1>1, <1>2 DEF Or
    <2>2. QED
      BY <1>2, <2>1 DEF Raw
  <1>4. SlackClear(d)
    BY <1>2, <1>3 DEF SlackClear, Raw
  <1>5. ASSUME NEW i \in 0 .. n - 1 PROVE IsSet(d, i) <=> IsSet(b, i) \/ IsSet(c, i)
    <2>1. PICK wi \in WordIndexes(n), p \in Positions :
             i = wi * wordSize + p /\ (IsSet(b, i) <=> p \in b.data[wi])
      BY <1>2, WordOfBit
    <2>2. wi \in Nat /\ i < d.len /\ i < c.len
      BY <1>2, <1>3, WordOf
    <2>3. (IsSet(c, i) <=> p \in c.data[wi]) /\ (IsSet(d, i) <=> p \in d.data[wi])
      BY <1>2, <1>3, <2>1, <2>2, BitOfWord
    <2>4. QED
      BY <1>3, <2>1, <2>3
  <1>6. QED
    BY <1>1, <1>3, <1>4, <1>5, RawParts DEF IsBitmapOf

LEMMA NotBits ==
  ASSUME NEW n \in Nat, NEW b, IsBitmapOf(b, n)
  PROVE  /\ IsBitmapOf(Not(b), n)
         /\ \A i \in 0 .. n - 1 : IsSet(Not(b), i) <=> ~IsSet(b, i)
  <1>1. PICK d : d = [b EXCEPT !.data = [wi \in DOMAIN b.data |-> AllOnes \ @[wi]]]
    OBVIOUS
  <1>2. Raw(b) /\ b.len = n
    BY RawParts DEF IsBitmapOf
  <1>3. /\ Raw(d) /\ d.len = n
        /\ \A wi \in WordIndexes(n) : d.data[wi] = Positions \ b.data[wi]
    BY <1>1, <1>2 DEF Raw, AllOnes
  <1>4. Not(b) = clearTrailingBits(d)
    BY <1>1, Zenon DEF Not
  <1>5. /\ IsBitmap(clearTrailingBits(d)) /\ clearTrailingBits(d).len = n
        /\ \A i \in 0 .. n - 1 : IsSet(clearTrailingBits(d), i) <=> IsSet(d, i)
    BY <1>3, SlackCleared
  <1>6. ASSUME NEW i \in 0 .. n - 1 PROVE IsSet(d, i) <=> ~IsSet(b, i)
    <2>1. PICK wi \in WordIndexes(n), p \in Positions :
             i = wi * wordSize + p /\ (IsSet(b, i) <=> p \in b.data[wi])
      BY <1>2, WordOfBit
    <2>2. wi \in Nat /\ i < d.len
      BY <1>3, WordOf
    <2>3. IsSet(d, i) <=> p \in d.data[wi]
      BY <1>3, <2>1, <2>2, BitOfWord
    <2>4. QED
      BY <1>3, <2>1, <2>3
  <1>7. QED
    BY <1>4, <1>5, <1>6 DEF IsBitmapOf

(* A word of bits below the length is written.                             *)
LEMMA WordWritten ==
  ASSUME NEW n \in Nat, NEW b, IsBitmapOf(b, n), NEW wi \in WordIndexes(n), NEW word \in SUBSET Positions,
         \A p \in word : wi * wordSize + p < n
  PROVE  /\ IsBitmapOf(SetWord(b, wi, word), n)
         /\ \A i \in 0 .. n - 1 :
              IF wi * wordSize <= i /\ i < (wi + 1) * wordSize
                THEN IsSet(SetWord(b, wi, word), i) <=> i - wi * wordSize \in word
                ELSE IsSet(SetWord(b, wi, word), i) <=> IsSet(b, i)
  <1>1. PICK t, w : t = SetWord(b, wi, word) /\ w = wordSize
    OBVIOUS
  <1>2. Raw(b) /\ SlackClear(b) /\ b.len = n /\ DOMAIN b.data = WordIndexes(n)
    BY RawParts DEF IsBitmapOf, Raw
  <1>3. t = [b EXCEPT !.data[wi] = word] /\ b = [data |-> b.data, len |-> b.len]
    BY <1>1, <1>2 DEF SetWord, Raw
  <1>4. /\ t.len = n /\ t = [data |-> t.data, len |-> t.len]
        /\ t.data = [b.data EXCEPT ![wi] = word]
    BY <1>2, <1>3
  <1>5. /\ t.data \in [WordIndexes(n) -> SUBSET Positions]
        /\ t.data[wi] = word
        /\ \A v \in WordIndexes(n) : v # wi => t.data[v] = b.data[v]
    <2>1. b.data \in [WordIndexes(n) -> SUBSET Positions]
      BY <1>2 DEF Raw
    <2>2. QED
      BY <1>4, <2>1
  <1>6. Raw(t)
    BY <1>4, <1>5 DEF Raw
  <1>7. SlackClear(t)
    <2> SUFFICES ASSUME NEW v \in WordIndexes(n), NEW p \in t.data[v] PROVE v * wordSize + p < n
      BY <1>4, <1>5 DEF SlackClear
    <2>1. CASE v = wi
      BY <1>5, <2>1
    <2>2. CASE v # wi
      BY <1>2, <1>5, <2>2 DEF SlackClear
    <2>3. QED
      BY <2>1, <2>2
  <1>8. IsBitmapOf(t, n)
    BY <1>4, <1>6, <1>7, RawParts DEF IsBitmapOf
  <1>9. ASSUME NEW i \in 0 .. n - 1
        PROVE  IF wi * wordSize <= i /\ i < (wi + 1) * wordSize
                 THEN IsSet(t, i) <=> i - wi * wordSize \in word
                 ELSE IsSet(t, i) <=> IsSet(b, i)
    <2>1. PICK v \in WordIndexes(n), p \in Positions :
             i = v * wordSize + p /\ (IsSet(b, i) <=> p \in b.data[v])
      BY <1>2, WordOfBit
    <2>2. v \in Nat /\ p \in Nat /\ p < w /\ w \in Nat \ {0} /\ wi \in Nat
      BY <1>1, <2>1, Words, WordOf
    <2>3. IsSet(t, i) <=> p \in t.data[v]
      <3>1. v * wordSize + p < t.len
        BY <1>4, <2>1
      <3>2. IsSet(t, v * wordSize + p) <=> p \in t.data[v]
        BY <1>6, <2>1, <2>2, <3>1, BitOfWord
      <3>3. QED
        BY <2>1, <3>2
    <2>4. PICK x, y, z : x = v * w /\ y = wi * w /\ z = (wi + 1) * w
      OBVIOUS
    <2>5. x \in Nat /\ y \in Nat /\ z = y + w /\ i = x + p
      BY <1>1, <2>1, <2>2, <2>4, ProductGrows
    <2>6. CASE v = wi
      <3>1. x = y /\ i - y = p /\ y <= i /\ i < z
        BY <2>2, <2>4, <2>5, <2>6
      <3>2. QED
        BY <1>1, <1>5, <2>3, <2>4, <2>6, <3>1
    <2>7. CASE v # wi
      <3>1. ~(y <= i /\ i < z)
        <4>1. CASE v < wi
          <5>1. v + 1 <= wi
            BY <2>2, <4>1
          <5>2. x + w <= y
            BY <2>2, <2>4, <5>1, ProductGrows
          <5>3. QED
            BY <2>2, <2>5, <5>2
        <4>2. CASE wi < v
          <5>1. wi + 1 <= v
            BY <2>2, <4>2
          <5>2. y + w <= x
            BY <2>2, <2>4, <5>1, ProductGrows
          <5>3. QED
            BY <2>2, <2>5, <5>2
        <4>3. QED
          BY <2>2, <2>7, <4>1, <4>2
      <3>2. QED
        BY <1>1, <1>5, <2>1, <2>3, <2>4, <2>7, <3>1
    <2>8. QED
      BY <2>6, <2>7
  <1>10. QED
    BY <1>1, <1>8, <1>9

(* A row is null when it is in one of the operands.                        *)
LEMMA NullsMerged ==
  ASSUME NEW n \in Nat, NEW u, u = nil \/ IsBitmapOf(u, n), NEW v, v = nil \/ IsBitmapOf(v, n)
  PROVE  LET t == mergeValidity(u, v)
         IN /\ t = nil \/ IsBitmapOf(t, n)
            /\ \A i \in 0 .. n - 1 : NullAt(t, i) <=> NullAt(u, i) \/ NullAt(v, i)
  <1>1. CASE u = nil \/ v = nil
    BY <1>1 DEF mergeValidity, NullAt
  <1>2. CASE u # nil /\ v # nil
    <2>1. mergeValidity(u, v) = And(u, v)
      BY <1>2 DEF mergeValidity
    <2>2. /\ IsBitmapOf(And(u, v), n)
          /\ \A i \in 0 .. n - 1 : IsSet(And(u, v), i) <=> IsSet(u, i) /\ IsSet(v, i)
      BY <1>2, AndBits
    <2>3. And(u, v) # nil
      BY <2>2, NilIsNoBitmap DEF IsBitmapOf
    <2>4. QED
      BY <1>2, <2>1, <2>2, <2>3 DEF NullAt
  <1>3. QED
    BY <1>1, <1>2

(* The condition, of the columns cols                                      *)
Left(cols, cond, i) == cols[cond.left].arr.values[i]

Right(cols, cond, i) == IF cond.right = 0 THEN cond.scalar ELSE cols[cond.right].arr.values[i]

OperandNull(cols, cond, i) ==
  \/ IsNull(cols[cond.left].arr, i)
  \/ cond.right # 0 /\ IsNull(cols[cond.right].arr, i)

EvaluableIn(cols, cond) ==
  /\ \A c \in {cond.left, cond.right} \ {0} : c \in DOMAIN cols /\ cols[c].dtype = "Int64"
  /\ cond.logic \in {"and", "or"} => cond.flag \in DOMAIN cols /\ cols[cond.flag].dtype = "Boolean"

IsPredicate(p, n) ==
  /\ p = [data |-> p.data, validity |-> p.validity, length |-> n]
  /\ IsBitmapOf(p.data, n) /\ (p.validity = nil \/ IsBitmapOf(p.validity, n))

LEMMA ColumnOfFrame ==
  ASSUME NEW cols, IsFrame(cols), NEW c \in DOMAIN cols
  PROVE  /\ IsSeries(cols[c]) /\ cols[c].arr.length = Height(cols) /\ Height(cols) \in Nat
         /\ \/ cols[c].arr.validity = nil
            \/ IsBitmapOf(cols[c].arr.validity, Height(cols))
  BY DEF IsFrame, IsSeries, IsArray

(* What the comparison kernel has written when the words of todo are left  *)
InWordNo(wi, i) == wi * wordSize <= i /\ i < (wi + 1) * wordSize

Combined(cols, cond, p) ==
  LET flag == cols[cond.flag].arr
  IN CASE cond.logic = "none" -> p
       [] cond.logic = "not" -> BooleanArray(Not(p.data), p.validity)
       [] cond.logic = "and" -> BooleanArray(And(p.data, flag.data), mergeValidity(p.validity, flag.validity))
       [] cond.logic = "or" -> BooleanArray(Or(p.data, flag.data), mergeValidity(p.validity, flag.validity))

(* What the condition is made of: the comparison h and the flag f          *)
CondOf(logic, h, f) ==
  CASE logic = "none" -> h
    [] logic = "not" -> IF h = Null THEN Null ELSE ~h
    [] logic = "and" -> IF h = Null \/ f = Null THEN Null ELSE h /\ f
    [] logic = "or" -> IF h = Null \/ f = Null THEN Null ELSE h \/ f

LEMMA CondOfTruths ==
  ASSUME NEW h \in BOOLEAN \cup {Null}, NEW f \in BOOLEAN \cup {Null}
  PROVE  /\ CondOf("none", h, f) = h
         /\ h = Null => CondOf("not", h, f) = Null
         /\ h # Null => CondOf("not", h, f) # Null /\ (CondOf("not", h, f) = TRUE <=> h = FALSE)
         /\ h = Null \/ f = Null => CondOf("and", h, f) = Null /\ CondOf("or", h, f) = Null
         /\ h # Null /\ f # Null =>
              /\ CondOf("and", h, f) # Null /\ (CondOf("and", h, f) = TRUE <=> h = TRUE /\ f = TRUE)
              /\ CondOf("or", h, f) # Null /\ (CondOf("or", h, f) = TRUE <=> h = TRUE \/ f = TRUE)
  <1>1. Null # TRUE /\ Null # FALSE
    BY CellAssumption
  <1>2. CondOf("none", h, f) = h
    BY DEF CondOf
  <1>3. CondOf("not", h, f) = IF h = Null THEN Null ELSE ~h
    BY Zenon DEF CondOf
  <1>4. CondOf("and", h, f) = IF h = Null \/ f = Null THEN Null ELSE h /\ f
    BY Zenon DEF CondOf
  <1>5. CondOf("or", h, f) = IF h = Null \/ f = Null THEN Null ELSE h \/ f
    BY Zenon DEF CondOf
  <1>6. QED
    BY <1>1, <1>2, <1>3, <1>4, <1>5

(* A flag's cell                                                           *)
LEMMA FlagCell ==
  ASSUME NEW cols, IsFrame(cols), NEW c \in DOMAIN cols, cols[c].dtype = "Boolean",
         NEW i \in 0 .. Height(cols) - 1
  PROVE  /\ IsBitmapOf(cols[c].arr.data, Height(cols))
         /\ Cell(cols[c], i) = IF NullAt(cols[c].arr.validity, i) THEN Null ELSE IsSet(cols[c].arr.data, i)
         /\ IsSet(cols[c].arr.data, i) \in BOOLEAN
  <1>1. IsArray("Boolean", cols[c].arr) /\ cols[c].arr.length = Height(cols)
    BY DEF IsFrame, IsSeries
  <1>2. IsBitmapOf(cols[c].arr.data, Height(cols))
    BY <1>1 DEF IsArray, IsBoolean, IsBitmapOf
  <1>3. Value(cols[c], i) = IsSet(cols[c].arr.data, i)
    BY DEF Value
  <1>4. IsNull(cols[c].arr, i) <=> NullAt(cols[c].arr.validity, i)
    BY DEF IsNull, NullAt
  <1>5. Cell(cols[c], i) = IF NullAt(cols[c].arr.validity, i) THEN Null ELSE IsSet(cols[c].arr.data, i)
    BY <1>3, <1>4 DEF Cell
  <1>6. IsSet(cols[c].arr.data, i) \in BOOLEAN
    <2>1. InRange(cols[c].arr.data, i)
      BY <1>2 DEF IsBitmapOf, IsBitmap, InRange
    <2>2. QED
      BY <2>1 DEF IsSet
  <1>7. QED
    BY <1>2, <1>5, <1>6

IsRowChoice(s, n) == \E k \in Nat : s \in [1 .. k -> 0 .. n - 1]

Gathered(cols, cur) == [c \in DOMAIN cols |-> [cols[c] EXCEPT !.arr = cur[c].arr]]

Assembled(cols, cur, req) ==
  IF \A c \in DOMAIN Gathered(cols, cur) : Gathered(cols, cur)[c].arr.length = Height(Gathered(cols, cur))
    THEN [cols |-> Gathered(cols, cur), height |-> Height(Gathered(cols, cur))]
  ELSE IF req.op = "filter" THEN [cols |-> <<>>, height |-> Height(Gathered(cols, cur))]
  ELSE nil

LEMMA HeightIs ==
  ASSUME NEW cols, IsFrame(cols)
  PROVE  Height(cols) \in Nat
  <1>1. \A c \in DOMAIN cols : Height(cols) \in Nat
    BY ColumnOfFrame
  <1>2. DOMAIN cols # {}
    BY DEF IsFrame
  <1>3. QED
    BY <1>1, <1>2

-----------------------------------------------------------------------------
(* A column of the rows asked for                                          *)

LEMMA FreshValidity ==
  ASSUME NEW a, NEW n \in Nat
  PROVE  IsValidity(NewValidity(a, n), a, n, 0)
  <1>1. IsBitmapOf(NewBitmap(n), n) /\ \A i \in 0 .. n - 1 : IsSet(NewBitmap(n), i)
    BY NewBits
  <1>2. QED
    BY <1>1 DEF IsValidity, NewValidity

TakesCells(s, o, rows, n) ==
  o.length = n /\ \A q \in 1 .. n : Cell(WithArr(s, o), q - 1) = Cell(s, rows[q])

LEMMA TypedTaken ==
  ASSUME NEW s, IsSeries(s), s.dtype \notin {"Boolean", "String"},
         NEW rows, NEW n, RowsOf(rows, n, s.arr)
  PROVE  TakesCells(s, TakeTyped(s.arr, rows), rows, n)
  <1>1. PICK a, v, u, t, o, vals :
          /\ a = s.arr /\ v = NewValidity(a, n) /\ u = ClearNulls(v, a, rows, 0)
          /\ t = TakeTyped(a, rows) /\ vals = [k \in 0 .. n - 1 |-> a.values[rows[k + 1]]]
          /\ o = [values |-> vals, validity |-> v, length |-> n]
    OBVIOUS
  <1>2. n \in Nat /\ DOMAIN rows = 1 .. n /\ Len(rows) = n
    BY DEF RowsOf
  <1>3. t = TypedArray(vals, u)
    BY <1>1, <1>2 DEF TakeTyped
  <1>4. Cardinality(DOMAIN vals) = n
    BY <1>1, <1>2, RowCount
  <1>5. t = [values |-> vals, validity |-> u, length |-> n]
    BY <1>3, <1>4 DEF TypedArray
  <1>6. IsValidity(v, a, n, 0)
    BY <1>1, <1>2, FreshValidity
  <1>7. NullsOfRows(u, v, a, rows, 0)
    <2>1. 0 \in Nat /\ 0 + n <= n
      BY <1>2
    <2>2. NullsOfRows(ClearNulls(v, a, rows, 0), v, a, rows, 0)
      BY <1>2, <1>6, <2>1, NullsCleared
    <2>3. QED
      BY <1>1, <2>2
  <1>8. NullsOfRows(t.validity, o.validity, s.arr, rows, 0)
    BY <1>1, <1>5, <1>7
  <1>9. \A k \in 0 .. 0 - 1 : Value(WithArr(s, t), k) = Value(WithArr(s, o), k)
    OBVIOUS
  <1>10. \A q \in DOMAIN rows : Value(WithArr(s, t), 0 + q - 1) = Value(s, rows[q])
    <2>1. WithArr(s, t).arr = t /\ WithArr(s, t).dtype = s.dtype
      BY ArrOf
    <2>2. \A k : Value(WithArr(s, t), k) = t.values[k] /\ Value(s, k) = a.values[k]
      BY <1>1, <2>1 DEF Value
    <2>3. ASSUME NEW q \in DOMAIN rows PROVE t.values[0 + q - 1] = a.values[rows[q]]
      <3>1. 0 + q - 1 \in 0 .. n - 1 /\ (0 + q - 1) + 1 = q
        BY <1>2
      <3>2. QED
        BY <1>1, <1>5, <3>1
    <2>4. QED
      BY <2>2, <2>3
  <1>11. Added(s, t, o, rows, 0)
    BY <1>8, <1>9, <1>10, AddedByParts
  <1>12. \A q \in 1 .. n : 0 + q - 1 = q - 1
    BY <1>2
  <1>13. \A q \in 1 .. n : Cell(WithArr(s, t), q - 1) = Cell(s, rows[q])
    BY <1>2, <1>11, <1>12 DEF Added
  <1>14. t.length = n /\ t = TakeTyped(s.arr, rows)
    BY <1>1, <1>5
  <1>15. QED
    BY <1>13, <1>14 DEF TakesCells

LEMMA TextTaken ==
  ASSUME NEW s, IsSeries(s), s.dtype = "String", NEW rows, NEW n, RowsOf(rows, n, s.arr)
  PROVE  TakesCells(s, TakeString(s.arr, rows), rows, n)
  <1>1. PICK a, v, u, t, e, total :
          /\ a = s.arr /\ v = NewValidity(a, n) /\ u = ClearNulls(v, a, rows, 0)
          /\ t = TakeString(a, rows) /\ e = Ends(a, rows, 0) /\ total = e[n]
    OBVIOUS
  <1>2. PICK zeros, bytes, o :
          /\ zeros = ZeroTo(total) /\ bytes = CopyBytes(zeros, a, rows, e)
          /\ o = [bytes |-> zeros, offsets |-> ZeroTo(n + 1), validity |-> v, length |-> n]
    OBVIOUS
  <1>3. n \in Nat /\ DOMAIN rows = 1 .. n /\ Len(rows) = n /\ RowsOf(rows, n, a)
    BY <1>1 DEF RowsOf
  <1>4. IsString(a) /\ a.length \in Nat
    BY <1>1 DEF IsSeries, IsArray
  <1>5. EndsOf(e, a, rows, n, 0)
    BY <1>1, <1>3, <1>4, EndsAre
  <1>6. /\ e = [k \in 0 .. n |-> e[k]] /\ e[0] = 0 /\ \A k \in 0 .. n : e[k] \in Nat
        /\ n \in 0 .. n /\ 0 \in 0 .. n
    BY <1>3, <1>5 DEF EndsOf
  <1>7. total \in Nat /\ e[n] <= total
    BY <1>1, <1>6
  <1>8. t = StringArray(bytes, e, u)
    <2>1. t = StringArray(CopyBytes(ZeroTo(Ends(a, rows, 0)[Len(rows)]), a, rows, Ends(a, rows, 0)),
                          Ends(a, rows, 0), ClearNulls(NewValidity(a, Len(rows)), a, rows, 0))
      BY <1>1, Zenon DEF TakeString, ZeroTo
    <2>2. QED
      BY <1>1, <1>2, <1>3, <2>1
  <1>9. t = [bytes |-> bytes, offsets |-> e, validity |-> u, length |-> n]
    <2>1. Cardinality(DOMAIN e) - 1 = n
      <3>1. DOMAIN e = 0 .. (n + 1) - 1
        BY <1>3, <1>6
      <3>2. Cardinality(0 .. (n + 1) - 1) = n + 1
        BY <1>3, RowCount
      <3>3. QED
        BY <1>3, <3>1, <3>2
    <2>2. QED
      BY <1>8, <2>1 DEF StringArray
  <1>10. BytesPut(bytes, zeros, a, rows, n, e, 0, total)
    <2>1. DOMAIN zeros = 0 .. total - 1
      BY <1>2 DEF ZeroTo
    <2>2. QED
      BY <1>2, <1>3, <1>4, <1>5, <1>7, <2>1, BytesCopied
  <1>11. /\ bytes = [p \in 0 .. total - 1 |-> bytes[p]]
         /\ \A p \in 0 .. 0 - 1 : bytes[p] = zeros[p]
         /\ \A q \in 1 .. n : \A i \in 0 .. Width(a, rows[q]) - 1 :
              bytes[e[q - 1] + i] = a.bytes[a.offsets[rows[q]] + i]
    BY <1>10 DEF BytesPut
  <1>12. IsValidity(v, a, n, 0)
    BY <1>1, <1>3, FreshValidity
  <1>13. PartString(a, o, n, 0, 0, total)
    <2>1. zeros = [p \in 0 .. total - 1 |-> zeros[p]]
      BY <1>2 DEF ZeroTo
    <2>2. ZeroTo(n + 1) \in [0 .. n -> Nat] /\ ZeroTo(n + 1)[0] = 0
      <3>1. 0 .. (n + 1) - 1 = 0 .. n
        BY <1>3
      <3>2. QED
        BY <1>6, <3>1 DEF ZeroTo
    <2>3. \A k \in 0 .. 0 - 1 : o.offsets[k] <= o.offsets[k + 1] /\ o.offsets[k + 1] <= 0
      OBVIOUS
    <2>4. QED
      BY <1>2, <1>12, <2>1, <2>2, <2>3 DEF PartString
  <1>14. t.offsets = [k \in 0 .. n |-> IF k - 0 \in 1 .. n THEN e[k - 0] ELSE o.offsets[k]]
    <2>1. PICK f : f = [k \in 0 .. n |-> IF k - 0 \in 1 .. n THEN e[k - 0] ELSE o.offsets[k]]
      OBVIOUS
    <2>2. \A k \in 0 .. n : f[k] = e[k]
      <3>1. o.offsets[0] = 0
        BY <1>13 DEF PartString
      <3>2. ASSUME NEW k \in 0 .. n PROVE f[k] = e[k]
        <4>1. CASE k = 0
          <5>1. ~(k - 0 \in 1 .. n)
            BY <4>1
          <5>2. QED
            BY <1>6, <2>1, <3>1, <4>1, <5>1
        <4>2. CASE k # 0
          <5>1. k - 0 \in 1 .. n /\ k - 0 = k
            BY <1>3, <4>2
          <5>2. QED
            BY <2>1, <5>1
        <4>3. QED
          BY <4>1, <4>2
      <3>3. QED
        BY <3>2
    <2>3. f = e
      <3>1. f = [k \in 0 .. n |-> f[k]]
        BY <2>1
      <3>2. QED
        BY <1>6, <2>2, <3>1
    <2>4. QED
      BY <1>9, <2>1, <2>3
  <1>15. TextsPut(a, t, o, rows, n, n, 0, 0, total, e)
    <2>1. /\ t = [bytes |-> t.bytes, offsets |-> t.offsets, validity |-> t.validity, length |-> n]
          /\ t.bytes = bytes /\ t.validity = u
      BY <1>9
    <2>2. o.bytes = zeros /\ o.validity = v
      BY <1>2
    <2>3. t.validity = ClearNulls(o.validity, a, rows, 0)
      BY <1>1, <2>1, <2>2
    <2>4. t.bytes = [p \in 0 .. total - 1 |-> t.bytes[p]]
      BY <1>11, <2>1
    <2>5. \A p \in 0 .. 0 - 1 : t.bytes[p] = o.bytes[p]
      OBVIOUS
    <2>6. \A q \in 1 .. n : \A i \in 0 .. Width(a, rows[q]) - 1 :
            t.bytes[e[q - 1] + i] = a.bytes[a.offsets[rows[q]] + i]
      BY <1>11, <2>1
    <2>7. QED
      BY <1>14, <2>1, <2>3, <2>4, <2>5, <2>6 DEF TextsPut
  <1>16. Added(s, t, o, rows, 0)
    <2>1. 0 \in Nat /\ 0 + n <= n
      BY <1>3
    <2>2. /\ PartString(s.arr, o, n, 0, 0, total) /\ RowsOf(rows, n, s.arr)
          /\ EndsOf(e, s.arr, rows, n, 0) /\ TextsPut(s.arr, t, o, rows, n, n, 0, 0, total, e)
      BY <1>1, <1>3, <1>5, <1>13, <1>15
    <2>3. QED
      BY <1>3, <1>7, <2>1, <2>2, TextAdds
  <1>17. \A q \in 1 .. n : 0 + q - 1 = q - 1
    BY <1>3
  <1>18. QED
    BY <1>1, <1>3, <1>9, <1>16, <1>17 DEF Added, TakesCells

LEMMA ColumnTaken ==
  ASSUME NEW s, IsSeries(s), s.dtype \in Takeable, NEW rows, NEW n, RowsOf(rows, n, s.arr)
  PROVE  TakesCells(s, TakeSeries(s, rows).arr, rows, n)
  <1>1. CASE s.dtype = "String"
    <2>1. TakeSeries(s, rows) = WithArr(s, TakeString(s.arr, rows))
      BY <1>1 DEF TakeSeries, WithArr
    <2>2. QED
      BY <1>1, <2>1, ArrOf, TextTaken
  <1>2. CASE s.dtype # "String"
    <2>1. TakeSeries(s, rows) = WithArr(s, TakeTyped(s.arr, rows))
      BY <1>2 DEF TakeSeries, WithArr
    <2>2. s.dtype \notin {"Boolean", "String"}
      BY <1>2 DEF Takeable
    <2>3. QED
      BY <2>1, <2>2, ArrOf, TypedTaken
  <1>3. QED
    BY <1>1, <1>2

-----------------------------------------------------------------------------
(* The columns assembled again                                             *)

(* All columns have n rows, those listed.                                  *)
HasRows(cols, cur, rows, n) == \A c \in DOMAIN cols : TakesCells(cols[c], cur[c].arr, rows, n)

LEMMA GatheredRows ==
  ASSUME NEW cols, IsFrame(cols), NEW cur, NEW rows, NEW n, HasRows(cols, cur, rows, n), NEW req
  PROVE  LET r == Assembled(cols, cur, req)
         IN /\ r # nil /\ DOMAIN r.cols = DOMAIN cols /\ r.height = n
            /\ \A c \in DOMAIN cols : \A k \in 1 .. n : Cell(r.cols[c], k - 1) = Cell(cols[c], rows[k])
  <1>1. PICK g, r : g = Gathered(cols, cur) /\ r = Assembled(cols, cur, req)
    OBVIOUS
  <1>2. 1 \in DOMAIN cols
    BY DEF IsFrame
  <1>3. DOMAIN g = DOMAIN cols
    BY <1>1 DEF Gathered
  <1>4. ASSUME NEW c \in DOMAIN cols
        PROVE  /\ g[c] = WithArr(cols[c], cur[c].arr) /\ g[c].arr.length = n
               /\ \A k \in 1 .. n : Cell(g[c], k - 1) = Cell(cols[c], rows[k])
    <2>1. g[c] = WithArr(cols[c], cur[c].arr)
      BY <1>1 DEF Gathered, WithArr
    <2>2. g[c].arr = cur[c].arr
      BY <2>1, ArrOf, ColumnOfFrame
    <2>3. QED
      BY <2>1, <2>2 DEF HasRows, TakesCells
  <1>5. Height(g) = n
    BY <1>2, <1>4 DEF Height
  <1>6. r = [cols |-> g, height |-> n]
    BY <1>1, <1>3, <1>4, <1>5 DEF Assembled
  <1>7. r.cols = g /\ r.height = n
    BY <1>6
  <1>8. r # nil
    <2>1. DOMAIN r = {"cols", "height"} /\ DOMAIN nil = {}
      BY <1>6 DEF nil
    <2>2. QED
      BY <2>1
  <1>9. QED
    BY <1>1, <1>3, <1>4, <1>7, <1>8

-----------------------------------------------------------------------------
(* Bits copied to any bit of the target                                    *)

LEMMA ShiftedLeft ==
  ASSUME NEW w, w \subseteq Int, NEW d \in Int, NEW p \in Int
  PROVE  p \in ShiftLeft(w, d) <=> p - d \in w /\ p < wordSize
  <1>1. p \in ShiftLeft(w, d) <=> \E q \in w : q + d < wordSize /\ p = q + d
    BY DEF ShiftLeft
  <1>2. \A q \in w : q \in Int /\ (p = q + d <=> q = p - d)
    OBVIOUS
  <1>3. wordSize \in Nat
    BY Words
  <1>4. QED
    BY <1>1, <1>2, <1>3

LEMMA ShiftedRight ==
  ASSUME NEW w, w \subseteq Int, NEW d \in Int, NEW p \in Int
  PROVE  p \in ShiftRight(w, d) <=> p + d \in w /\ p >= 0
  <1>1. p \in ShiftRight(w, d) <=> \E q \in w : q >= d /\ p = q - d
    BY DEF ShiftRight
  <1>2. \A q \in w : q \in Int /\ (p = q - d <=> q = p + d)
    OBVIOUS
  <1>3. QED
    BY <1>1, <1>2

(* The words of n bits, and a word written into them                       *)
WordsOf(n) == [WordIndexes(n) -> SUBSET Positions]

OneWord(d, w, u) == [d EXCEPT ![w] = u]

TwoWords(d, w, u, v) == [d EXCEPT ![w] = u, ![w + 1] = v]

LEMMA WordPut ==
  ASSUME NEW n, NEW d \in WordsOf(n), NEW w, NEW u \in SUBSET Positions
  PROVE  /\ OneWord(d, w, u) \in WordsOf(n)
         /\ \A wi \in WordIndexes(n) : OneWord(d, w, u)[wi] = IF wi = w THEN u ELSE d[wi]
  BY DEF OneWord, WordsOf

LEMMA WordsPut ==
  ASSUME NEW n, NEW d \in WordsOf(n), NEW w \in Nat, NEW u \in SUBSET Positions, NEW v \in SUBSET Positions
  PROVE  /\ TwoWords(d, w, u, v) \in WordsOf(n)
         /\ \A wi \in WordIndexes(n) :
              TwoWords(d, w, u, v)[wi] = IF wi = w + 1 THEN v ELSE IF wi = w THEN u ELSE d[wi]
  <1>1. TwoWords(d, w, u, v) = OneWord(OneWord(d, w, u), w + 1, v)
    BY DEF TwoWords, OneWord
  <1>2. OneWord(d, w, u) \in WordsOf(n)
        /\ \A wi \in WordIndexes(n) : OneWord(d, w, u)[wi] = IF wi = w THEN u ELSE d[wi]
    BY WordPut
  <1>3. PICK e : e = OneWord(d, w, u)
    OBVIOUS
  <1>4. OneWord(e, w + 1, v) \in WordsOf(n)
        /\ \A wi \in WordIndexes(n) : OneWord(e, w + 1, v)[wi] = IF wi = w + 1 THEN v ELSE e[wi]
    BY <1>2, <1>3, WordPut
  <1>5. QED
    BY <1>1, <1>2, <1>3, <1>4

Place(wi, p) == wi * wordSize + p

Between(x, at, n) == at <= x /\ x < at + n

(* t has the given bits from place at on, and those of d elsewhere         *)
BitsAt(t, d, n, at, chunk, bits) ==
  /\ t \in WordsOf(n)
  /\ \A wi \in WordIndexes(n) : \A p \in Positions :
       p \in t[wi] <=> IF Between(Place(wi, p), at, chunk) THEN Place(wi, p) - at \in bits ELSE p \in d[wi]

LEMMA BitsPut ==
  ASSUME NEW n \in Nat, NEW d \in WordsOf(n), NEW at \in Nat, NEW chunk \in 1 .. wordSize,
         at + chunk <= n, NEW bits, bits \subseteq LowBits(chunk)
  PROVE  BitsAt(PutBits(d, at \div wordSize, at % wordSize, bits, chunk), d, n, at, chunk, bits)
  <1>1. PICK w : w = at \div wordSize
    OBVIOUS
  <1>2. PICK b : b = at % wordSize
    OBVIOUS
  <1>3. w \in Nat /\ b \in Nat /\ b < wordSize /\ at = w * wordSize + b /\ wordSize \in Nat \ {0}
    BY <1>1, <1>2, BitPlace, Words
  <1>4. PICK m : m = w * wordSize
    OBVIOUS
  <1>5. m \in Nat /\ at = m + b
    BY <1>3, <1>4, ProductGrows
  <1>6. w \in WordIndexes(n)
    BY <1>3, <1>4, <1>5, WordOf
  <1>7. bits \subseteq Int /\ LowBits(chunk) \subseteq Int /\ \A q \in bits : q \in Nat /\ q < chunk
    BY DEF LowBits
  <1>8. \A p : p \in Positions <=> p \in Nat /\ p < wordSize
    BY Words
  <1>9. d[w] \in SUBSET Positions
    BY <1>6 DEF WordsOf
  <1>10. \A p \in Positions : p \in ShiftLeft(bits, b) <=> p - b \in bits
    <2> SUFFICES ASSUME NEW p \in Positions PROVE p \in ShiftLeft(bits, b) <=> p - b \in bits
      OBVIOUS
    <2>1. p \in Int /\ p < wordSize /\ b \in Int
      BY <1>3, <1>8
    <2>2. QED
      BY <1>7, <2>1, ShiftedLeft
  <1>11. ShiftLeft(bits, b) \subseteq Positions
    <2>1. ASSUME NEW p \in ShiftLeft(bits, b) PROVE p \in Positions
      <3>1. PICK q \in bits : q + b < wordSize /\ p = q + b
        BY DEF ShiftLeft
      <3>2. QED
        BY <1>3, <1>7, <1>8, <3>1
    <2>2. QED
      BY <2>1
  <1>12. \A wi \in WordIndexes(n) : wi \in Nat /\ wi * wordSize \in Nat
         /\ (wi < w => wi * wordSize + wordSize <= m) /\ (wi > w => m + wordSize <= wi * wordSize)
         /\ (wi = w => wi * wordSize = m) /\ (wi = w + 1 => wi * wordSize = m + wordSize)
         /\ (wi > w + 1 => m + wordSize + wordSize <= wi * wordSize)
    <2> SUFFICES ASSUME NEW wi \in WordIndexes(n)
                 PROVE  /\ wi \in Nat /\ wi * wordSize \in Nat
                        /\ (wi < w => wi * wordSize + wordSize <= m)
                        /\ (wi > w => m + wordSize <= wi * wordSize)
                        /\ (wi = w => wi * wordSize = m) /\ (wi = w + 1 => wi * wordSize = m + wordSize)
                        /\ (wi > w + 1 => m + wordSize + wordSize <= wi * wordSize)
      OBVIOUS
    <2>1. wi \in Nat
      BY WordOf
    <2>2. wi * wordSize \in Nat /\ (wi < w => wi * wordSize + wordSize <= m)
      BY <1>3, <1>4, <2>1, ProductGrows
    <2>3. wi > w => m + wordSize <= wi * wordSize
      BY <1>3, <1>4, <2>1, ProductGrows
    <2>4. (w + 1) * wordSize = m + wordSize
      BY <1>3, <1>4, ProductGrows
    <2>5. wi > w + 1 => (w + 1) * wordSize + wordSize <= wi * wordSize
      BY <1>3, <2>1, ProductGrows
    <2>6. QED
      BY <1>4, <2>1, <2>2, <2>3, <2>4, <2>5
  <1>13. CASE chunk <= wordSize - b
    <2>1. PICK u : u = (d[w] \ ShiftLeft(LowBits(chunk), b)) \cup ShiftLeft(bits, b)
      OBVIOUS
    <2>2. PutBits(d, w, b, bits, chunk) = OneWord(d, w, u)
      BY <1>13, <2>1 DEF PutBits, OneWord
    <2>3. u \in SUBSET Positions
      BY <1>9, <1>11, <2>1
    <2>4. PICK t : t = OneWord(d, w, u)
      OBVIOUS
    <2>5. t \in WordsOf(n) /\ \A wi \in WordIndexes(n) : t[wi] = IF wi = w THEN u ELSE d[wi]
      BY <2>3, <2>4, WordPut
    <2>6. \A p \in Positions : p \in ShiftLeft(LowBits(chunk), b) <=> b <= p /\ p < b + chunk
      <3> SUFFICES ASSUME NEW p \in Positions
                   PROVE  p \in ShiftLeft(LowBits(chunk), b) <=> b <= p /\ p < b + chunk
        OBVIOUS
      <3>1. p \in Int /\ p < wordSize /\ b \in Int
        BY <1>3, <1>8
      <3>2. p \in ShiftLeft(LowBits(chunk), b) <=> p - b \in LowBits(chunk)
        BY <1>7, <3>1, ShiftedLeft
      <3>3. QED
        BY <3>1, <3>2 DEF LowBits
    <2>7. ASSUME NEW wi \in WordIndexes(n), NEW p \in Positions
          PROVE  p \in t[wi] <=> IF Between(Place(wi, p), at, chunk)
                                   THEN Place(wi, p) - at \in bits ELSE p \in d[wi]
      <3>1. p \in Nat /\ p < wordSize
        BY <1>8
      <3>2. CASE wi = w
        <4>1. wi * wordSize = m
          BY <1>12, <3>2
        <4>2. p \in u <=> (p \in d[w] /\ ~(b <= p /\ p < b + chunk)) \/ p - b \in bits
          BY <1>10, <2>1, <2>6
        <4>3. p - b \in bits => b <= p /\ p < b + chunk
          BY <1>3, <1>7, <3>1
        <4>4. Place(wi, p) - at = p - b
          <5>1. Place(wi, p) = m + p
            BY <4>1 DEF Place
          <5>2. QED
            BY <1>3, <1>5, <3>1, <5>1
        <4>5. Between(Place(wi, p), at, chunk) <=> (b <= p /\ p < b + chunk)
          BY <1>3, <1>5, <3>1, <4>1 DEF Place, Between
        <4>6. t[wi] = u
          BY <2>5, <3>2
        <4>7. QED
          BY <3>2, <4>2, <4>3, <4>4, <4>5, <4>6
      <3>3. CASE wi # w
        <4>1. ~Between(Place(wi, p), at, chunk)
          <5>1. wi \in Nat /\ wi * wordSize \in Nat /\ (wi < w => wi * wordSize + wordSize <= m)
                /\ (wi > w => m + wordSize <= wi * wordSize)
            BY <1>12
          <5>2. QED
            BY <1>3, <1>5, <1>13, <3>1, <3>3, <5>1 DEF Place, Between
        <4>2. t[wi] = d[wi]
          BY <2>5, <3>3
        <4>3. QED
          BY <4>1, <4>2
      <3>4. QED
        BY <3>2, <3>3
    <2>8. QED
      BY <1>1, <1>2, <2>2, <2>4, <2>5, <2>7 DEF BitsAt
  <1>14. CASE chunk > wordSize - b
    <2> DEFINE rest == chunk - (wordSize - b)
    <2>0. rest \in Nat /\ rest <= b /\ wordSize - b \in Nat
      BY <1>3, <1>14
    <2>1. PICK u : u = (d[w] \cap LowBits(b)) \cup ShiftLeft(bits, b)
      OBVIOUS
    <2>2. PICK v : v = (d[w + 1] \ LowBits(rest)) \cup (ShiftRight(bits, wordSize - b) \cap LowBits(rest))
      OBVIOUS
    <2>3. PutBits(d, w, b, bits, chunk) = TwoWords(d, w, u, v)
      <3>1. w # w + 1
        BY <1>3
      <3>2. ~(chunk <= wordSize - b)
        BY <1>3, <1>14
      <3>3. QED
        BY <2>1, <2>2, <3>1, <3>2 DEF PutBits, TwoWords
    <2>4. w + 1 \in WordIndexes(n)
      <3>1. (w + 1) * wordSize = m + wordSize
        BY <1>3, <1>4, ProductGrows
      <3>2. (w + 1) * wordSize < n
        BY <1>3, <1>5, <1>14, <3>1
      <3>3. QED
        BY <1>3, <3>2, WordOf
    <2>5. d[w + 1] \in SUBSET Positions
      BY <2>4 DEF WordsOf
    <2>6. LowBits(rest) \subseteq Positions
      BY <1>3, <1>8, <2>0 DEF LowBits
    <2>7. u \in SUBSET Positions /\ v \in SUBSET Positions
      BY <1>9, <1>11, <2>1, <2>2, <2>5, <2>6
    <2>8. PICK t : t = TwoWords(d, w, u, v)
      OBVIOUS
    <2>9. t \in WordsOf(n)
          /\ \A wi \in WordIndexes(n) : t[wi] = IF wi = w + 1 THEN v ELSE IF wi = w THEN u ELSE d[wi]
      BY <1>3, <2>7, <2>8, WordsPut
    <2>10. ASSUME NEW wi \in WordIndexes(n), NEW p \in Positions
           PROVE  p \in t[wi] <=> IF Between(Place(wi, p), at, chunk)
                                   THEN Place(wi, p) - at \in bits ELSE p \in d[wi]
      <3>1. p \in Nat /\ p < wordSize
        BY <1>8
      <3>2. CASE wi = w
        <4>1. wi * wordSize = m
          BY <1>12, <3>2
        <4>2. p \in u <=> (p \in d[w] /\ p < b) \/ p - b \in bits
          BY <1>3, <1>10, <2>1, <3>1 DEF LowBits
        <4>3. p - b \in bits => b <= p
          BY <1>3, <1>7, <3>1
        <4>4. Place(wi, p) - at = p - b
          <5>1. Place(wi, p) = m + p
            BY <4>1 DEF Place
          <5>2. QED
            BY <1>3, <1>5, <3>1, <5>1
        <4>5. Between(Place(wi, p), at, chunk) <=> b <= p
          BY <1>3, <1>5, <1>14, <3>1, <4>1 DEF Place, Between
        <4>6. t[wi] = u
          <5>1. wi # w + 1
            BY <1>3, <3>2
          <5>2. QED
            BY <2>9, <3>2, <5>1
        <4>7. QED
          BY <1>3, <3>1, <3>2, <4>2, <4>3, <4>4, <4>5, <4>6
      <3>3. CASE wi = w + 1
        <4>1. wi * wordSize = m + wordSize
          BY <1>12, <3>3
        <4>2. p \in v <=> (p \in d[wi] /\ ~(p < rest)) \/ (p \in ShiftRight(bits, wordSize - b) /\ p < rest)
          BY <2>0, <2>2, <3>1, <3>3 DEF LowBits
        <4>3. p \in ShiftRight(bits, wordSize - b) <=> p + (wordSize - b) \in bits
          <5>1. p \in Int /\ wordSize - b \in Int /\ p >= 0
            BY <2>0, <3>1
          <5>2. QED
            BY <1>7, <5>1, ShiftedRight
        <4>4. Place(wi, p) - at = p + (wordSize - b)
          BY <1>3, <1>5, <3>1, <4>1 DEF Place
        <4>5. Between(Place(wi, p), at, chunk) <=> p < rest
          BY <1>3, <1>5, <1>14, <3>1, <4>1 DEF Place, Between
        <4>6. t[wi] = v
          BY <2>9, <3>3
        <4>7. QED
          BY <4>2, <4>3, <4>4, <4>5, <4>6
      <3>4. CASE wi # w /\ wi # w + 1
        <4>1. ~Between(Place(wi, p), at, chunk)
          <5>1. wi \in Nat /\ wi * wordSize \in Nat /\ (wi < w => wi * wordSize + wordSize <= m)
                /\ (wi > w + 1 => m + wordSize + wordSize <= wi * wordSize)
            BY <1>12
          <5>2. wi < w \/ wi > w + 1
            BY <1>3, <3>4, <5>1
          <5>3. QED
            BY <1>3, <1>5, <3>1, <5>1, <5>2 DEF Place, Between
        <4>2. t[wi] = d[wi]
          BY <2>9, <3>4
        <4>3. QED
          BY <4>1, <4>2
      <3>5. QED
        BY <3>2, <3>3, <3>4
    <2>11. QED
      BY <1>1, <1>2, <2>3, <2>8, <2>9, <2>10 DEF BitsAt
  <1>15. QED
    BY <1>3, <1>13, <1>14

-----------------------------------------------------------------------------
(* copyBitmapBits                                                          *)

BitAt(src, i) == (i % wordSize) \in src[i \div wordSize]

(* t has the first n bits of src from place at on, and the bits of d       *)
(* elsewhere                                                               *)
BitsFrom(t, d, size, at, n, src) ==
  /\ t \in WordsOf(size)
  /\ \A wi \in WordIndexes(size) : \A p \in Positions :
       p \in t[wi] <=> IF Between(Place(wi, p), at, n) THEN BitAt(src, Place(wi, p) - at) ELSE p \in d[wi]

Chunk(n, wi) == IF n - wi * wordSize < wordSize THEN n - wi * wordSize ELSE wordSize

PutWord(acc, offset, src, n, wi) ==
  PutBits(acc, (offset + wi * wordSize) \div wordSize, offset % wordSize,
          src[wi] \cap LowBits(Chunk(n, wi)), Chunk(n, wi))

WordList(n) == [k \in 1 .. wordsNeeded(n) |-> k - 1]

IsCopy(f, dst, offset, src, n) ==
  f = [s \in SUBSET (DOMAIN WordList(n)) |->
         IF s = {} THEN dst ELSE PutWord(f[s \ {Max(s)}], offset, src, n, WordList(n)[Max(s)])]

LEMMA CopyUnfolds ==
  ASSUME NEW dst, NEW offset, NEW src, NEW n
  PROVE  copyBitmapBits(dst, offset, src, n)
         = (CHOOSE f : IsCopy(f, dst, offset, src, n))[DOMAIN WordList(n)]
  BY DEF copyBitmapBits, FoldLeft, MapThenFoldSet, IsCopy, PutWord, Chunk, WordList

LEMMA PlaceIsNat ==
  ASSUME NEW wi \in Nat, NEW p \in Positions
  PROVE  Place(wi, p) \in Nat
  BY PlaceOfBit DEF Place

LEMMA NeededWords ==
  ASSUME NEW n \in Nat
  PROVE  wordsNeeded(n) \in Nat
  <1>1. wordSize \in Nat \ {0}
    BY Words
  <1>2. CASE n = 0
    BY <1>2 DEF wordsNeeded
  <1>3. CASE n > 0
    <2>1. n + wordSize - 1 \in Nat
      BY <1>1, <1>3
    <2>2. (n + wordSize - 1) \div wordSize \in Nat
      BY <2>1, BitPlace
    <2>3. QED
      BY <1>3, <2>2 DEF wordsNeeded
  <1>4. QED
    BY <1>2, <1>3

LEMMA SameOffset ==
  ASSUME NEW offset \in Nat, NEW wi \in Nat
  PROVE  offset + wi * wordSize \in Nat /\ offset % wordSize = (offset + wi * wordSize) % wordSize
  <1>1. PICK a : a = offset \div wordSize
    OBVIOUS
  <1>2. PICK r : r = offset % wordSize
    OBVIOUS
  <1>3. a \in Nat /\ r \in Positions /\ offset = a * wordSize + r
    BY <1>1, <1>2, BitPlace
  <1>4. (a + wi) * wordSize = a * wordSize + wi * wordSize /\ a * wordSize \in Nat /\ wi * wordSize \in Nat
    <2>1. wordSize \in Nat
      BY Words
    <2>2. \A x \in Nat, y \in Nat, z \in Nat : (x + y) * z = x * z + y * z
      OBVIOUS
    <2>3. QED
      BY <1>3, <2>1, <2>2, Words, ProductGrows
  <1>5. ((a + wi) * wordSize + r) % wordSize = r
    BY <1>3, PlaceOfBit
  <1>6. r \in Nat
    BY <1>3, Words
  <1>7. offset + wi * wordSize = (a + wi) * wordSize + r
    BY <1>3, <1>4, <1>6
  <1>8. QED
    BY <1>2, <1>4, <1>5, <1>7

(* How many bits the first k words are                                     *)
DoneBits(n, k) == IF n < k * wordSize THEN n ELSE k * wordSize

LEMMA ChunkOf ==
  ASSUME NEW n \in Nat, NEW k \in 1 .. wordsNeeded(n)
  PROVE  /\ k - 1 \in WordIndexes(n) /\ k - 1 \in Nat /\ (k - 1) * wordSize \in Nat
         /\ Chunk(n, k - 1) \in 1 .. wordSize
         /\ DoneBits(n, k - 1) = (k - 1) * wordSize
         /\ DoneBits(n, k) = (k - 1) * wordSize + Chunk(n, k - 1)
         /\ DoneBits(n, k) <= n
  <1>1. k - 1 \in WordIndexes(n) /\ k - 1 \in Nat
    BY NeededWords DEF WordIndexes
  <1>2. PICK m : m = (k - 1) * wordSize
    OBVIOUS
  <1>3. m < n
    BY <1>1, <1>2, WordOf
  <1>4. m \in Nat /\ k * wordSize = m + wordSize
    <2>1. k - 1 \in Nat /\ (k - 1) + 1 = k
      BY <1>1
    <2>2. (k - 1) * wordSize \in Nat /\ ((k - 1) + 1) * wordSize = (k - 1) * wordSize + wordSize
      BY <2>1, Words, ProductGrows
    <2>3. QED
      BY <1>2, <2>1, <2>2
  <1>5. wordSize \in Nat \ {0}
    BY Words
  <1>6. Chunk(n, k - 1) = IF n - m < wordSize THEN n - m ELSE wordSize
    BY <1>2 DEF Chunk
  <1>7. DoneBits(n, k - 1) = IF n < m THEN n ELSE m
    BY <1>2 DEF DoneBits
  <1>8. DoneBits(n, k) = IF n < m + wordSize THEN n ELSE m + wordSize
    BY <1>4 DEF DoneBits
  <1>9. QED
    BY <1>1, <1>2, <1>3, <1>4, <1>5, <1>6, <1>7, <1>8

(* One more word                                                           *)
LEMMA WordAdded ==
  ASSUME NEW size \in Nat, NEW offset \in Nat, NEW n \in Nat, offset + n <= size,
         NEW src \in WordsOf(n), NEW d \in WordsOf(size), NEW k \in 1 .. wordsNeeded(n),
         NEW t, BitsFrom(t, d, size, offset, DoneBits(n, k - 1), src)
  PROVE  BitsFrom(PutWord(t, offset, src, n, k - 1), d, size, offset, DoneBits(n, k), src)
  <1>1. PICK m : m = (k - 1) * wordSize
    OBVIOUS
  <1>2. PICK c : c = Chunk(n, k - 1)
    OBVIOUS
  <1>3. /\ k - 1 \in WordIndexes(n) /\ k - 1 \in Nat /\ m \in Nat /\ c \in 1 .. wordSize
        /\ DoneBits(n, k - 1) = m /\ DoneBits(n, k) = m + c /\ m + c <= n
    BY <1>1, <1>2, ChunkOf
  <1>4. PICK bits : bits = src[k - 1] \cap LowBits(c)
    OBVIOUS
  <1>5. bits \subseteq LowBits(c) /\ src[k - 1] \in SUBSET Positions
    BY <1>3, <1>4 DEF WordsOf
  <1>6. offset + m \in Nat /\ offset % wordSize = (offset + m) % wordSize
    BY <1>1, <1>3, SameOffset
  <1>7. t \in WordsOf(size) /\ offset + m + c <= size /\ wordSize \in Nat
    BY <1>3, Words DEF BitsFrom
  <1>8. PICK at : at = offset + m
    OBVIOUS
  <1>9. BitsAt(PutBits(t, at \div wordSize, at % wordSize, bits, c), t, size, at, c, bits)
    BY <1>3, <1>5, <1>6, <1>7, <1>8, BitsPut
  <1>10. PICK u : u = PutWord(t, offset, src, n, k - 1)
    OBVIOUS
  <1>11. u = PutBits(t, at \div wordSize, at % wordSize, bits, c)
    <2>1. u = PutBits(t, (offset + (k - 1) * wordSize) \div wordSize, offset % wordSize,
                      src[k - 1] \cap LowBits(Chunk(n, k - 1)), Chunk(n, k - 1))
      BY <1>10 DEF PutWord
    <2>2. QED
      BY <1>1, <1>2, <1>4, <1>6, <1>8, <2>1
  <1>12. BitsAt(u, t, size, at, c, bits)
    BY <1>9, <1>11
  <1>13. u \in WordsOf(size)
    BY <1>12 DEF BitsAt
  <1>14. ASSUME NEW wi \in WordIndexes(size), NEW p \in Positions
         PROVE  p \in u[wi] <=> IF Between(Place(wi, p), offset, m + c)
                                  THEN BitAt(src, Place(wi, p) - offset) ELSE p \in d[wi]
    <2>1. PICK x : x = Place(wi, p)
      OBVIOUS
    <2>2. x \in Nat
      <3>1. wi \in Nat
        BY WordOf
      <3>2. QED
        BY <2>1, <3>1, PlaceIsNat
    <2>3. p \in u[wi] <=> IF Between(x, at, c) THEN x - at \in bits ELSE p \in t[wi]
      BY <1>12, <2>1 DEF BitsAt
    <2>4. p \in t[wi] <=> IF Between(x, offset, m) THEN BitAt(src, x - offset) ELSE p \in d[wi]
      <3>1. BitsFrom(t, d, size, offset, m, src)
        BY <1>3
      <3>2. QED
        BY <2>1, <3>1 DEF BitsFrom
    <2>5. CASE Between(x, at, c)
      <3>1. PICK q : q = x - at
        OBVIOUS
      <3>2. q \in Nat /\ q < c /\ q < wordSize /\ x - offset = m + q
        BY <1>3, <1>7, <1>8, <2>2, <2>5, <3>1 DEF Between
      <3>3. q \in Positions
        BY <3>2, Words
      <3>4. (m + q) \div wordSize = k - 1 /\ (m + q) % wordSize = q
        BY <1>1, <1>3, <3>3, PlaceOfBit
      <3>5. BitAt(src, x - offset) <=> q \in src[k - 1]
        BY <3>2, <3>4 DEF BitAt
      <3>6. q \in bits <=> q \in src[k - 1]
        BY <1>3, <1>4, <3>2 DEF LowBits
      <3>7. Between(x, offset, m + c)
        BY <1>3, <1>8, <2>2, <2>5 DEF Between
      <3>8. p \in u[wi] <=> BitAt(src, x - offset)
        BY <2>3, <2>5, <3>1, <3>5, <3>6
      <3>9. QED
        BY <2>1, <3>7, <3>8
    <2>6. CASE ~Between(x, at, c)
      <3>1. Between(x, offset, m) <=> Between(x, offset, m + c)
        BY <1>3, <1>8, <2>2, <2>6 DEF Between
      <3>2. QED
        BY <2>1, <2>3, <2>4, <2>6, <3>1
    <2>7. QED
      BY <2>5, <2>6
  <1>15. QED
    BY <1>3, <1>10, <1>13, <1>14 DEF BitsFrom

(* The bits end up where they belong, and nothing else changes.            *)
LEMMA BitsCopied ==
  ASSUME NEW size \in Nat, NEW offset \in Nat, NEW n \in Nat, offset + n <= size,
         NEW src \in WordsOf(n), NEW d \in WordsOf(size)
  PROVE  BitsFrom(copyBitmapBits(d, offset, src, n), d, size, offset, n, src)
  <1>1. PICK last : last = wordsNeeded(n)
    OBVIOUS
  <1>2. last \in Nat /\ DOMAIN WordList(n) = 1 .. last /\ \A k \in 1 .. last : WordList(n)[k] = k - 1
    <2>1. wordsNeeded(n) \in Nat
      BY NeededWords
    <2>2. QED
      BY <1>1, <2>1 DEF WordList
  <1>3. PICK step : step = [k \in 1 .. last |-> [t \in WordsOf(size) |-> PutWord(t, offset, src, n, k - 1)]]
    OBVIOUS
  <1>4. ASSUME NEW k \in 1 .. last, NEW t \in WordsOf(size) PROVE PutWord(t, offset, src, n, k - 1) \in WordsOf(size)
    <2>1. PICK c : c = Chunk(n, k - 1)
      OBVIOUS
    <2>2. PICK m : m = (k - 1) * wordSize
      OBVIOUS
    <2>3. /\ k - 1 \in Nat /\ m \in Nat /\ c \in 1 .. wordSize /\ m + c <= n
      BY <1>1, <2>1, <2>2, ChunkOf
    <2>4. PICK at : at = offset + m
      OBVIOUS
    <2>5. at \in Nat /\ at + c <= size /\ offset % wordSize = at % wordSize
      <3>1. wordSize \in Nat
        BY Words
      <3>2. offset % wordSize = (offset + m) % wordSize
        BY <2>2, <2>3, SameOffset
      <3>3. QED
        BY <2>3, <2>4, <3>1, <3>2
    <2>6. PICK bits : bits = src[k - 1] \cap LowBits(c)
      OBVIOUS
    <2>7. BitsAt(PutBits(t, at \div wordSize, at % wordSize, bits, c), t, size, at, c, bits)
      BY <2>3, <2>5, <2>6, BitsPut
    <2>8. PutWord(t, offset, src, n, k - 1)
          = PutBits(t, (offset + (k - 1) * wordSize) \div wordSize, offset % wordSize,
                    src[k - 1] \cap LowBits(Chunk(n, k - 1)), Chunk(n, k - 1))
      BY DEF PutWord
    <2>9. PutWord(t, offset, src, n, k - 1) = PutBits(t, at \div wordSize, at % wordSize, bits, c)
      BY <2>1, <2>2, <2>4, <2>5, <2>6, <2>8
    <2>10. QED
      BY <2>7, <2>9 DEF BitsAt
  <1>5. \A k \in 1 .. last : \A t \in WordsOf(size) :
          step[k][t] = PutWord(t, offset, src, n, k - 1) /\ step[k][t] \in WordsOf(size)
    BY <1>3, <1>4
  <1>6. PICK g : IsFold(g, d, step, SUBSET (1 .. last)) /\ \A s \in SUBSET (1 .. last) : g[s] \in WordsOf(size)
    BY <1>2, <1>5, FoldExists
  <1>7. IsCopy(g, d, offset, src, n)
    <2>1. ASSUME NEW s \in SUBSET (1 .. last)
          PROVE  g[s] = IF s = {} THEN d ELSE PutWord(g[s \ {Max(s)}], offset, src, n, WordList(n)[Max(s)])
      <3>1. CASE s = {}
        BY <1>6, <3>1 DEF IsFold
      <3>2. CASE s # {}
        <4>1. Max(s) \in 1 .. last /\ s \ {Max(s)} \in SUBSET (1 .. last)
          BY <1>2, <3>2, LastOfPositions
        <4>2. g[s] = step[Max(s)][g[s \ {Max(s)}]]
          BY <1>6, <3>2 DEF IsFold
        <4>3. WordList(n)[Max(s)] = Max(s) - 1 /\ g[s \ {Max(s)}] \in WordsOf(size)
          BY <1>2, <1>6, <4>1
        <4>4. QED
          BY <1>5, <3>2, <4>1, <4>2, <4>3
      <3>3. QED
        BY <3>1, <3>2
    <2>2. g = [s \in SUBSET (1 .. last) |-> g[s]]
      BY <1>6 DEF IsFold
    <2>3. QED
      BY <1>2, <2>1, <2>2 DEF IsCopy
  <1>8. PICK f : f = CHOOSE h : IsCopy(h, d, offset, src, n)
    OBVIOUS
  <1>9. IsCopy(f, d, offset, src, n)
    BY <1>7, <1>8
  <1>10. f[{}] = d /\ \A k \in 1 .. last : f[1 .. k] = PutWord(f[1 .. k - 1], offset, src, n, k - 1)
    <2>1. f[{}] = d
      BY <1>9 DEF IsCopy
    <2>2. ASSUME NEW k \in 1 .. last PROVE f[1 .. k] = PutWord(f[1 .. k - 1], offset, src, n, k - 1)
      <3>1. 1 .. k \in SUBSET (1 .. last) /\ 1 .. k # {} /\ Max(1 .. k) = k /\ (1 .. k) \ {k} = 1 .. k - 1
        BY <1>2, FirstPositions
      <3>2. f[1 .. k] = PutWord(f[(1 .. k) \ {Max(1 .. k)}], offset, src, n, WordList(n)[Max(1 .. k)])
        BY <1>2, <1>9, <3>1 DEF IsCopy
      <3>3. QED
        BY <1>2, <3>1, <3>2
    <2>3. QED
      BY <2>1, <2>2
  <1>11. DoneBits(n, 0) = 0 /\ DoneBits(n, last) = n
    <2>1. DoneBits(n, 0) = 0
      <3>1. 0 * wordSize = 0
        BY Words
      <3>2. QED
        BY <3>1 DEF DoneBits
    <2>2. DoneBits(n, last) = n
      <3>1. last \notin WordIndexes(n)
        BY <1>1, <1>2 DEF WordIndexes
      <3>2. ~(last * wordSize < n)
        BY <1>2, <3>1, WordOf
      <3>3. last * wordSize \in Nat
        BY <1>2, Words, ProductGrows
      <3>4. QED
        BY <3>2, <3>3 DEF DoneBits
    <2>3. QED
      BY <2>1, <2>2
  <1> DEFINE K == {k \in 0 .. last : BitsFrom(f[1 .. k], d, size, offset, DoneBits(n, k), src)}
  <1>12. 0 \in K
    <2>1. 1 .. 0 = {}
      OBVIOUS
    <2>2. f[1 .. 0] = d
      BY <1>10, <2>1
    <2>3. BitsFrom(d, d, size, offset, 0, src)
      <3>1. ASSUME NEW wi \in WordIndexes(size), NEW p \in Positions
            PROVE  ~Between(Place(wi, p), offset, 0)
        <4>1. wi \in Nat
          BY WordOf
        <4>2. Place(wi, p) \in Nat
          BY <4>1, PlaceIsNat
        <4>3. QED
          BY <4>2 DEF Between
      <3>2. QED
        BY <3>1 DEF BitsFrom
    <2>4. QED
      BY <1>2, <1>11, <2>2, <2>3
  <1>13. ASSUME NEW k \in 0 .. last - 1, k \in K PROVE k + 1 \in K
    <2>1. k + 1 \in 1 .. last /\ (k + 1) - 1 = k
      BY <1>2
    <2>2. BitsFrom(f[1 .. k], d, size, offset, DoneBits(n, (k + 1) - 1), src)
      BY <1>13, <2>1
    <2>3. BitsFrom(PutWord(f[1 .. k], offset, src, n, (k + 1) - 1), d, size, offset, DoneBits(n, k + 1), src)
      BY <1>1, <2>1, <2>2, WordAdded
    <2>4. f[1 .. k + 1] = PutWord(f[1 .. (k + 1) - 1], offset, src, n, (k + 1) - 1)
      BY <1>10, <2>1
    <2>5. QED
      BY <1>2, <2>1, <2>3, <2>4
  <1>14. last \in K
    <2> HIDE DEF K
    <2>0. 0 \in Int /\ last \in Int
      BY <1>2
    <2>1. 0 .. last \subseteq K
      BY <1>2, <1>12, <1>13, <2>0, IntervalInduction
    <2>2. QED
      BY <1>2, <2>1
  <1>15. BitsFrom(f[1 .. last], d, size, offset, n, src)
    BY <1>11, <1>14
  <1>16. copyBitmapBits(d, offset, src, n) = f[1 .. last]
    BY <1>2, <1>8, CopyUnfolds
  <1>17. QED
    BY <1>15, <1>16

-----------------------------------------------------------------------------
(* Where the parts of a whole begin                                        *)

(* Parts 1 .. m of the given lengths begin at st, the last one ends at st[m + 1] *)
IsStarts(st, len, m) ==
  /\ m \in Nat /\ st[1] = 0
  /\ \A k \in 1 .. m + 1 : st[k] \in Nat
  /\ \A k \in 1 .. m : len[k] \in Nat /\ st[k + 1] = st[k] + len[k]

LEMMA StartsRise ==
  ASSUME NEW st, NEW len, NEW m, IsStarts(st, len, m), NEW k \in 1 .. m + 1, NEW l \in k .. m + 1
  PROVE  st[k] <= st[l] /\ st[k] \in Nat /\ st[l] \in Nat
  <1>0. PICK e : e = m + 1
    OBVIOUS
  <1> DEFINE S == {x \in k .. e : st[k] <= st[x]}
  <1>1. m \in Nat /\ k \in Nat /\ e \in Nat /\ k <= e
    BY <1>0 DEF IsStarts
  <1>2. k \in S
    <2>1. st[k] \in Nat /\ k \in k .. e
      BY <1>1 DEF IsStarts
    <2>2. QED
      BY <2>1
  <1>3. ASSUME NEW x \in k .. e - 1, x \in S PROVE x + 1 \in S
    <2>1. x \in 1 .. m /\ x + 1 \in k .. e /\ x \in 1 .. m + 1 /\ x + 1 \in 1 .. m + 1
      BY <1>0, <1>1
    <2>2. len[x] \in Nat /\ st[x + 1] = st[x] + len[x] /\ st[x] \in Nat /\ st[k] \in Nat
      BY <2>1 DEF IsStarts
    <2>3. st[k] <= st[x]
      BY <1>3
    <2>4. QED
      BY <2>1, <2>2, <2>3
  <1>4. k .. e \subseteq S
    <2> HIDE DEF S
    <2>1. k \in Int /\ e \in Int
      BY <1>1
    <2>2. QED
      BY <1>2, <1>3, <2>1, IntervalInduction
  <1>5. l \in 1 .. m + 1
    BY <1>1
  <1>6. QED
    BY <1>0, <1>4, <1>5 DEF IsStarts

LEMMA PartOfPlace ==
  ASSUME NEW st, NEW len, NEW m, IsStarts(st, len, m), NEW i \in Int, 0 <= i, i < st[m + 1]
  PROVE  \E k \in 1 .. m : st[k] <= i /\ i < st[k + 1]
  <1>0. PICK e : e = m + 1
    OBVIOUS
  <1> DEFINE S == {x \in 1 .. e : st[x] <= i}
  <1>1. m \in Nat /\ st[1] = 0 /\ e \in Nat /\ 1 <= e
    BY <1>0 DEF IsStarts
  <1>2. SUFFICES ASSUME \A k \in 1 .. m : ~(st[k] <= i /\ i < st[k + 1]) PROVE FALSE
    OBVIOUS
  <1>3. 1 \in S
    BY <1>1
  <1>4. ASSUME NEW x \in 1 .. e - 1, x \in S PROVE x + 1 \in S
    <2>1. x \in 1 .. m /\ x + 1 \in 1 .. m + 1 /\ x + 1 \in 1 .. e
      BY <1>0, <1>1
    <2>2. st[x + 1] \in Nat
      BY <2>1 DEF IsStarts
    <2>3. st[x] <= i
      BY <1>4
    <2>4. QED
      BY <1>2, <2>1, <2>2, <2>3
  <1>5. 1 .. e \subseteq S
    <2> HIDE DEF S
    <2>1. 1 \in Int /\ e \in Int
      BY <1>1
    <2>2. QED
      BY <1>3, <1>4, <2>1, IntervalInduction
  <1>6. m + 1 \in 1 .. m + 1
    BY <1>1
  <1>7. m + 1 \in S
    BY <1>0, <1>5, <1>6
  <1>8. st[m + 1] <= i /\ st[m + 1] \in Nat
    BY <1>6, <1>7 DEF IsStarts
  <1>9. QED
    BY <1>8

LEMMA OnePart ==
  ASSUME NEW st, NEW len, NEW m, IsStarts(st, len, m), NEW i \in Int,
         NEW k \in 1 .. m, st[k] <= i, i < st[k + 1],
         NEW l \in 1 .. m, st[l] <= i, i < st[l + 1]
  PROVE  k = l
  <1>1. m \in Nat
    BY DEF IsStarts
  <1>2. CASE k < l
    <2>1. k + 1 \in 1 .. m + 1 /\ l \in k + 1 .. m + 1
      BY <1>1, <1>2
    <2>2. st[k + 1] <= st[l] /\ st[k + 1] \in Nat /\ st[l] \in Nat
      BY <2>1, StartsRise
    <2>3. QED
      BY <2>2
  <1>3. CASE l < k
    <2>1. l + 1 \in 1 .. m + 1 /\ k \in l + 1 .. m + 1
      BY <1>1, <1>3
    <2>2. st[l + 1] <= st[k] /\ st[l + 1] \in Nat /\ st[k] \in Nat
      BY <2>1, StartsRise
    <2>3. QED
      BY <2>2
  <1>4. QED
    BY <1>2, <1>3

LEMMA StartsAreSums ==
  ASSUME NEW m \in Nat, NEW len, \A k \in 1 .. m : len[k] \in Nat
  PROVE  IsStarts([k \in 1 .. m + 1 |-> SumOver(len, 1 .. k - 1)], len, m)
  <1>1. PICK st : st = [k \in 1 .. m + 1 |-> SumOver(len, 1 .. k - 1)]
    OBVIOUS
  <1>2. ASSUME NEW k \in 1 .. m + 1
        PROVE  IsFiniteSet(1 .. k - 1) /\ (\A x \in 1 .. k - 1 : len[x] \in Nat) /\ st[k] \in Nat
    <2>1. 1 \in Int /\ k - 1 \in Int
      OBVIOUS
    <2>2. IsFiniteSet(1 .. k - 1)
      BY <2>1, FS_Interval
    <2>3. \A x \in 1 .. k - 1 : len[x] \in Nat
      OBVIOUS
    <2>4. SumOver(len, 1 .. k - 1) \in Nat
      BY <2>2, <2>3, ZeroSum
    <2>5. QED
      BY <1>1, <2>2, <2>3, <2>4
  <1>3. st[1] = 0
    <2>1. 1 \in 1 .. m + 1 /\ 1 .. 1 - 1 = {}
      OBVIOUS
    <2>2. IsFiniteSet({}) /\ \A y \in {} : len[y] \in Int
      BY FS_EmptySet
    <2>3. SumOver(len, {}) = 0
      BY <2>2, SumOne
    <2>4. st[1] = SumOver(len, 1 .. 1 - 1)
      BY <1>1, <2>1
    <2>5. QED
      BY <2>1, <2>3, <2>4
  <1>4. ASSUME NEW k \in 1 .. m PROVE st[k + 1] = st[k] + len[k]
    <2>1. k + 1 \in 1 .. m + 1 /\ k \in 1 .. m + 1 /\ (k + 1) - 1 = k
      OBVIOUS
    <2>2. IsFiniteSet(1 .. (k + 1) - 1) /\ \A x \in 1 .. (k + 1) - 1 : len[x] \in Nat
      BY <1>2, <2>1
    <2>3. IsFiniteSet(1 .. k) /\ (\A x \in 1 .. k : len[x] \in Int) /\ k \in 1 .. k
      BY <2>1, <2>2
    <2>4. SumOver(len, 1 .. k) = SumOver(len, (1 .. k) \ {k}) + len[k]
      BY <2>3, SumOne
    <2>5. (1 .. k) \ {k} = 1 .. k - 1
      OBVIOUS
    <2>6. st[k + 1] = SumOver(len, 1 .. (k + 1) - 1) /\ st[k] = SumOver(len, 1 .. k - 1)
      BY <1>1, <2>1
    <2>7. QED
      BY <2>1, <2>4, <2>5, <2>6
  <1>5. IsStarts(st, len, m)
    BY <1>2, <1>3, <1>4 DEF IsStarts
  <1>6. QED
    BY <1>1, <1>5

(* The rows, and the bytes, before an array                                *)
IsRowSum(f, arrs, dom) ==
  f = [s \in dom |-> IF s = {} THEN 0 ELSE arrs[Some(s)].length + f[s \ {Some(s)}]]

IsByteSum(f, arrs, dom) ==
  f = [s \in dom |-> IF s = {} THEN 0 ELSE Cardinality(DOMAIN arrs[Some(s)].bytes) + f[s \ {Some(s)}]]

BytesBefore(arrs, k) == MapThenSumSet(LAMBDA l : Cardinality(DOMAIN arrs[l].bytes), 1 .. k - 1)

RowCounts(arrs) == [k \in DOMAIN arrs |-> arrs[k].length]

ByteCounts(arrs) == [k \in DOMAIN arrs |-> Cardinality(DOMAIN arrs[k].bytes)]

LEMMA RowsUnfold ==
  ASSUME NEW arrs, NEW k
  PROVE  RowsBefore(arrs, k) = (CHOOSE h : IsRowSum(h, arrs, SUBSET (1 .. k - 1)))[1 .. k - 1]
  BY DEF RowsBefore, MapThenSumSet, MapThenFoldSet, IsRowSum, Some

LEMMA BytesUnfold ==
  ASSUME NEW arrs, NEW k
  PROVE  BytesBefore(arrs, k) = (CHOOSE h : IsByteSum(h, arrs, SUBSET (1 .. k - 1)))[1 .. k - 1]
  BY DEF BytesBefore, MapThenSumSet, MapThenFoldSet, IsByteSum, Some

LEMMA SomeOf ==
  ASSUME NEW S, NEW s \in SUBSET S, s # {}
  PROVE  Some(s) \in S
  BY DEF Some

LEMMA RowsAreSum ==
  ASSUME NEW m \in Nat, NEW arrs, DOMAIN arrs = 1 .. m, NEW k \in 1 .. m + 1
  PROVE  RowsBefore(arrs, k) = SumOver(RowCounts(arrs), 1 .. k - 1)
  <1>1. PICK S : S = 1 .. k - 1
    OBVIOUS
  <1>2. PICK col : col = RowCounts(arrs)
    OBVIOUS
  <1>3. IsFiniteSet(S) /\ S \in SUBSET S /\ \A x \in S : col[x] = arrs[x].length
    <2>1. 1 \in Int /\ k - 1 \in Int
      OBVIOUS
    <2>2. QED
      BY <1>1, <1>2, <2>1, FS_Interval DEF RowCounts
  <1>4. ASSUME NEW f PROVE IsRowSum(f, arrs, SUBSET S) <=> IsSum(f, col, SUBSET S)
    <2>1. PICK g : g = [s \in SUBSET S |-> IF s = {} THEN 0 ELSE arrs[Some(s)].length + f[s \ {Some(s)}]]
      OBVIOUS
    <2>2. PICK h : h = [s \in SUBSET S |-> IF s = {} THEN 0 ELSE col[Some(s)] + f[s \ {Some(s)}]]
      OBVIOUS
    <2>3. ASSUME NEW s \in SUBSET S PROVE g[s] = h[s]
      BY <1>3, <2>1, <2>2, SomeOf
    <2>4. g = [s \in SUBSET S |-> g[s]] /\ h = [s \in SUBSET S |-> h[s]]
      BY <2>1, <2>2
    <2>5. g = h
      BY <2>3, <2>4
    <2>6. QED
      BY <2>1, <2>2, <2>5 DEF IsRowSum, IsSum
  <1>5. PICK g : IsSum(g, col, SUBSET S) /\ SumOver(col, S) = g[S]
    BY <1>3, SumExists, SumUnfolds
  <1>6. PICK f : IsRowSum(f, arrs, SUBSET S) /\ RowsBefore(arrs, k) = f[S]
    <2>1. RowsBefore(arrs, k) = (CHOOSE h : IsRowSum(h, arrs, SUBSET S))[S]
      BY <1>1, RowsUnfold
    <2>2. \E f : IsRowSum(f, arrs, SUBSET S)
      BY <1>4, <1>5
    <2>3. PICK f : f = CHOOSE h : IsRowSum(h, arrs, SUBSET S)
      OBVIOUS
    <2>4. IsRowSum(f, arrs, SUBSET S)
      BY <2>2, <2>3
    <2>5. QED
      BY <2>1, <2>3, <2>4
  <1>7. AgreeOn(f, g, S)
    BY <1>3, <1>4, <1>5, <1>6, SumsAgree
  <1>8. QED
    BY <1>1, <1>2, <1>3, <1>5, <1>6, <1>7 DEF AgreeOn

LEMMA BytesAreSum ==
  ASSUME NEW m \in Nat, NEW arrs, DOMAIN arrs = 1 .. m, NEW k \in 1 .. m + 1
  PROVE  BytesBefore(arrs, k) = SumOver(ByteCounts(arrs), 1 .. k - 1)
  <1>1. PICK S : S = 1 .. k - 1
    OBVIOUS
  <1>2. PICK col : col = ByteCounts(arrs)
    OBVIOUS
  <1>3. IsFiniteSet(S) /\ S \in SUBSET S /\ \A x \in S : col[x] = Cardinality(DOMAIN arrs[x].bytes)
    <2>1. 1 \in Int /\ k - 1 \in Int
      OBVIOUS
    <2>2. QED
      BY <1>1, <1>2, <2>1, FS_Interval DEF ByteCounts
  <1>4. ASSUME NEW f PROVE IsByteSum(f, arrs, SUBSET S) <=> IsSum(f, col, SUBSET S)
    <2>1. PICK g : g = [s \in SUBSET S |->
                          IF s = {} THEN 0 ELSE Cardinality(DOMAIN arrs[Some(s)].bytes) + f[s \ {Some(s)}]]
      OBVIOUS
    <2>2. PICK h : h = [s \in SUBSET S |-> IF s = {} THEN 0 ELSE col[Some(s)] + f[s \ {Some(s)}]]
      OBVIOUS
    <2>3. ASSUME NEW s \in SUBSET S PROVE g[s] = h[s]
      BY <1>3, <2>1, <2>2, SomeOf
    <2>4. g = [s \in SUBSET S |-> g[s]] /\ h = [s \in SUBSET S |-> h[s]]
      BY <2>1, <2>2
    <2>5. g = h
      BY <2>3, <2>4
    <2>6. QED
      BY <2>1, <2>2, <2>5 DEF IsByteSum, IsSum
  <1>5. PICK g : IsSum(g, col, SUBSET S) /\ SumOver(col, S) = g[S]
    BY <1>3, SumExists, SumUnfolds
  <1>6. PICK f : IsByteSum(f, arrs, SUBSET S) /\ BytesBefore(arrs, k) = f[S]
    <2>1. BytesBefore(arrs, k) = (CHOOSE h : IsByteSum(h, arrs, SUBSET S))[S]
      BY <1>1, BytesUnfold
    <2>2. \E f : IsByteSum(f, arrs, SUBSET S)
      BY <1>4, <1>5
    <2>3. PICK f : f = CHOOSE h : IsByteSum(h, arrs, SUBSET S)
      OBVIOUS
    <2>4. IsByteSum(f, arrs, SUBSET S)
      BY <2>2, <2>3
    <2>5. QED
      BY <2>1, <2>3, <2>4
  <1>7. AgreeOn(f, g, S)
    BY <1>3, <1>4, <1>5, <1>6, SumsAgree
  <1>8. QED
    BY <1>1, <1>2, <1>3, <1>5, <1>6, <1>7 DEF AgreeOn

(* The arrays of a column: a sequence of at least one array                *)
RowStarts(arrs, m) == [k \in 1 .. m + 1 |-> RowsBefore(arrs, k)]

ByteStarts(arrs, m) == [k \in 1 .. m + 1 |-> BytesBefore(arrs, k)]

LEMMA RowsStart ==
  ASSUME NEW m \in Nat, NEW arrs, DOMAIN arrs = 1 .. m, \A k \in 1 .. m : arrs[k].length \in Nat
  PROVE  /\ IsStarts(RowStarts(arrs, m), RowCounts(arrs), m)
         /\ \A k \in 1 .. m : RowCounts(arrs)[k] = arrs[k].length
         /\ \A k \in 1 .. m + 1 : RowStarts(arrs, m)[k] = RowsBefore(arrs, k)
  <1>1. PICK len : len = RowCounts(arrs)
    OBVIOUS
  <1>2. \A k \in 1 .. m : len[k] = arrs[k].length
    BY <1>1 DEF RowCounts
  <1>3. PICK st : st = [k \in 1 .. m + 1 |-> SumOver(len, 1 .. k - 1)]
    OBVIOUS
  <1>4. IsStarts(st, len, m)
    BY <1>2, <1>3, StartsAreSums
  <1>5. PICK t : t = RowStarts(arrs, m)
    OBVIOUS
  <1>6. ASSUME NEW k \in 1 .. m + 1 PROVE t[k] = st[k] /\ t[k] = RowsBefore(arrs, k)
    <2>1. t[k] = RowsBefore(arrs, k)
      BY <1>5 DEF RowStarts
    <2>2. RowsBefore(arrs, k) = SumOver(len, 1 .. k - 1)
      BY <1>1, RowsAreSum
    <2>3. QED
      BY <1>3, <2>1, <2>2
  <1>7. t = [k \in 1 .. m + 1 |-> t[k]] /\ st = [k \in 1 .. m + 1 |-> st[k]]
    BY <1>3, <1>5 DEF RowStarts
  <1>8. t = st
    BY <1>6, <1>7
  <1>9. QED
    BY <1>1, <1>2, <1>4, <1>5, <1>6, <1>8

LEMMA BytesStart ==
  ASSUME NEW m \in Nat, NEW arrs, DOMAIN arrs = 1 .. m,
         \A k \in 1 .. m : Cardinality(DOMAIN arrs[k].bytes) \in Nat
  PROVE  /\ IsStarts(ByteStarts(arrs, m), ByteCounts(arrs), m)
         /\ \A k \in 1 .. m : ByteCounts(arrs)[k] = Cardinality(DOMAIN arrs[k].bytes)
         /\ \A k \in 1 .. m + 1 : ByteStarts(arrs, m)[k] = BytesBefore(arrs, k)
  <1>1. PICK len : len = ByteCounts(arrs)
    OBVIOUS
  <1>2. \A k \in 1 .. m : len[k] = Cardinality(DOMAIN arrs[k].bytes)
    BY <1>1 DEF ByteCounts
  <1>3. PICK st : st = [k \in 1 .. m + 1 |-> SumOver(len, 1 .. k - 1)]
    OBVIOUS
  <1>4. IsStarts(st, len, m)
    BY <1>2, <1>3, StartsAreSums
  <1>5. PICK t : t = ByteStarts(arrs, m)
    OBVIOUS
  <1>6. ASSUME NEW k \in 1 .. m + 1 PROVE t[k] = st[k] /\ t[k] = BytesBefore(arrs, k)
    <2>1. t[k] = BytesBefore(arrs, k)
      BY <1>5 DEF ByteStarts
    <2>2. BytesBefore(arrs, k) = SumOver(len, 1 .. k - 1)
      BY <1>1, BytesAreSum
    <2>3. QED
      BY <1>3, <2>1, <2>2
  <1>7. t = [k \in 1 .. m + 1 |-> t[k]] /\ st = [k \in 1 .. m + 1 |-> st[k]]
    BY <1>3, <1>5 DEF ByteStarts
  <1>8. t = st
    BY <1>6, <1>7
  <1>9. QED
    BY <1>1, <1>2, <1>4, <1>5, <1>6, <1>8

-----------------------------------------------------------------------------
(* Bitmaps one after the other                                             *)

WithData(b, d) == [b EXCEPT !.data = d]

LEMMA DataPut ==
  ASSUME NEW b, Raw(b), NEW d \in WordsOf(b.len)
  PROVE  LET t == WithData(b, d) IN Raw(t) /\ t.len = b.len /\ t.data = d
  <1>1. b = [data |-> b.data, len |-> b.len] /\ b.len \in Nat
    BY DEF Raw
  <1>2. WithData(b, d) = [data |-> d, len |-> b.len]
    BY <1>1 DEF WithData
  <1>3. PICK t : t = [data |-> d, len |-> b.len]
    OBVIOUS
  <1>4. t.data = d /\ t.len = b.len
    BY <1>3
  <1>5. Raw(t)
    BY <1>1, <1>3, <1>4 DEF Raw, WordsOf
  <1>6. QED
    BY <1>2, <1>3, <1>4, <1>5

LEMMA BitmapCopied ==
  ASSUME NEW size \in Nat, NEW b, IsBitmapOf(b, size), NEW n \in Nat, NEW src, IsBitmapOf(src, n),
         NEW offset \in Nat, offset + n <= size
  PROVE  CopiedBits(WithData(b, copyBitmapBits(b.data, offset, src.data, n)), b, size, offset, src, 0, n)
  <1>1. PICK d : d = b.data
    OBVIOUS
  <1>2. PICK e : e = src.data
    OBVIOUS
  <1>3. Raw(b) /\ b.len = size /\ Raw(src) /\ src.len = n /\ SlackClear(b)
    BY RawParts DEF IsBitmapOf
  <1>4. d \in WordsOf(size) /\ e \in WordsOf(n)
    BY <1>1, <1>2, <1>3 DEF Raw, WordsOf
  <1>5. PICK f : f = copyBitmapBits(d, offset, e, n)
    OBVIOUS
  <1>6. BitsFrom(f, d, size, offset, n, e)
    BY <1>4, <1>5, BitsCopied
  <1>7. f \in WordsOf(size)
    BY <1>6 DEF BitsFrom
  <1>8. PICK t : t = WithData(b, f)
    OBVIOUS
  <1>9. Raw(t) /\ t.len = size /\ t.data = f
    BY <1>3, <1>7, <1>8, DataPut
  <1>10. ASSUME NEW wi \in WordIndexes(size), NEW p \in Positions
         PROVE  p \in f[wi] <=> IF Between(Place(wi, p), offset, n) THEN BitAt(e, Place(wi, p) - offset) ELSE p \in d[wi]
    BY <1>6 DEF BitsFrom
  <1>11. IsBitmapOf(t, size)
    <2>1. ASSUME NEW wi \in DOMAIN t.data, NEW p \in t.data[wi] PROVE wi * wordSize + p < t.len
      <3>1. wi \in WordIndexes(size) /\ p \in f[wi] /\ p \in Positions
        BY <1>7, <1>9, <2>1 DEF WordsOf
      <3>2. wi \in Nat
        BY <3>1, WordOf
      <3>3. Place(wi, p) \in Nat
        BY <3>1, <3>2, PlaceIsNat
      <3>4. CASE Between(Place(wi, p), offset, n)
        <4>1. Place(wi, p) < size
          BY <3>3, <3>4 DEF Between
        <4>2. QED
          BY <1>9, <4>1 DEF Place
      <3>5. CASE ~Between(Place(wi, p), offset, n)
        <4>1. p \in d[wi]
          BY <1>10, <3>1, <3>5
        <4>2. wi \in DOMAIN b.data
          BY <1>1, <1>4, <3>1 DEF WordsOf
        <4>3. QED
          BY <1>1, <1>3, <1>9, <4>1, <4>2 DEF SlackClear
      <3>6. QED
        BY <3>4, <3>5
    <2>2. SlackClear(t)
      BY <2>1 DEF SlackClear
    <2>3. QED
      BY <1>9, <2>2, RawParts DEF IsBitmapOf
  <1>12. ASSUME NEW i \in 0 .. size - 1
         PROVE  IsSet(t, i) <=> IF Between(i, offset, n) THEN BitAt(e, i - offset) ELSE IsSet(b, i)
    <2>1. PICK wi \in WordIndexes(size), p \in Positions :
             i = wi * wordSize + p /\ (IsSet(t, i) <=> p \in t.data[wi])
      BY <1>9, WordOfBit
    <2>2. wi \in Nat /\ i \in Nat /\ i < size
      BY <2>1, WordOf
    <2>3. wi * wordSize + p < b.len
      BY <1>3, <2>1, <2>2
    <2>4. IsSet(b, wi * wordSize + p) <=> p \in b.data[wi]
      BY <1>3, <2>2, <2>3, BitOfWord
    <2>5. IsSet(b, i) <=> p \in d[wi]
      BY <1>1, <2>1, <2>4
    <2>6. Place(wi, p) = i
      BY <2>1 DEF Place
    <2>7. p \in f[wi] <=> IF Between(i, offset, n) THEN BitAt(e, i - offset) ELSE p \in d[wi]
      BY <1>10, <2>6
    <2>8. QED
      BY <1>9, <2>1, <2>5, <2>7
  <1>13. ASSUME NEW i \in 0 .. offset - 1 PROVE IsSet(t, i) <=> IsSet(b, i)
    <2>1. i \in 0 .. size - 1 /\ ~Between(i, offset, n)
      BY DEF Between
    <2>2. QED
      BY <1>12, <2>1
  <1>14. ASSUME NEW q \in 0 .. n - 1 PROVE IsSet(t, offset + q) <=> IsSet(src, 0 + q)
    <2>1. offset + q \in 0 .. size - 1 /\ Between(offset + q, offset, n) /\ offset + q - offset = q /\ 0 + q = q
      BY DEF Between
    <2>2. IsSet(t, offset + q) <=> BitAt(e, q)
      BY <1>12, <2>1
    <2>3. BitAt(e, q) <=> IsSet(src, q)
      <3>1. InRange(src, q)
        BY <1>3 DEF InRange
      <3>2. QED
        BY <1>2, <3>1 DEF BitAt, IsSet
    <2>4. QED
      BY <2>1, <2>2, <2>3
  <1>15. ASSUME NEW i \in offset + n .. size - 1 PROVE IsSet(t, i) <=> IsSet(b, i)
    <2>1. i \in 0 .. size - 1 /\ ~Between(i, offset, n)
      BY DEF Between
    <2>2. QED
      BY <1>12, <2>1
  <1>16. CopiedBits(t, b, size, offset, src, 0, n)
    BY <1>11, <1>13, <1>14, <1>15 DEF CopiedBits
  <1>17. QED
    BY <1>1, <1>2, <1>5, <1>8, <1>16

CopyOne(b, bitmaps, arrs, k) ==
  IF bitmaps[k] = nil THEN b
  ELSE [b EXCEPT !.data = copyBitmapBits(@, RowsBefore(arrs, k), bitmaps[k].data, arrs[k].length)]

KList(arrs) == [k \in DOMAIN arrs |-> k]

IsJoin(f, start, bitmaps, arrs) ==
  f = [s \in SUBSET (DOMAIN KList(arrs)) |->
         IF s = {} THEN start ELSE CopyOne(f[s \ {Max(s)}], bitmaps, arrs, KList(arrs)[Max(s)])]

LEMMA JoinUnfolds ==
  ASSUME NEW start, NEW bitmaps, NEW arrs
  PROVE  CopyBitmaps(start, bitmaps, arrs)
         = (CHOOSE f : IsJoin(f, start, bitmaps, arrs))[DOMAIN KList(arrs)]
  BY DEF CopyBitmaps, FoldLeft, MapThenFoldSet, IsJoin, CopyOne, KList

LEMMA CopyOneIs ==
  ASSUME NEW b, NEW bitmaps, NEW arrs, NEW k
  PROVE  CopyOne(b, bitmaps, arrs, k)
         = IF bitmaps[k] = nil THEN b
           ELSE WithData(b, copyBitmapBits(b.data, RowsBefore(arrs, k), bitmaps[k].data, arrs[k].length))
  BY Zenon DEF CopyOne, WithData

(* m arrays, each with its bitmap or none                                  *)
HaveBitmaps(bitmaps, arrs, m) ==
  /\ m \in Nat /\ DOMAIN arrs = 1 .. m
  /\ \A k \in 1 .. m : arrs[k].length \in Nat
  /\ \A k \in 1 .. m : bitmaps[k] = nil \/ IsBitmapOf(bitmaps[k], arrs[k].length)

(* The bits of the first k arrays are in place, and those of start where    *)
(* an array has none and after them                                        *)
Joined(b, start, bitmaps, arrs, size, k) ==
  /\ IsBitmapOf(b, size)
  /\ \A l \in 1 .. k : \A i \in 0 .. arrs[l].length - 1 :
       IsSet(b, RowsBefore(arrs, l) + i)
         <=> IF bitmaps[l] = nil THEN IsSet(start, RowsBefore(arrs, l) + i) ELSE IsSet(bitmaps[l], i)
  /\ \A i \in RowsBefore(arrs, k + 1) .. size - 1 : IsSet(b, i) <=> IsSet(start, i)

(* Where the rows of the arrays are                                        *)
LEMMA RowPlaces ==
  ASSUME NEW m \in Nat, NEW arrs, DOMAIN arrs = 1 .. m, \A k \in 1 .. m : arrs[k].length \in Nat
  PROVE  /\ RowsBefore(arrs, 1) = 0
         /\ \A k \in 1 .. m + 1 : RowsBefore(arrs, k) \in Nat
         /\ \A k \in 1 .. m : RowsBefore(arrs, k + 1) = RowsBefore(arrs, k) + arrs[k].length
         /\ \A k \in 1 .. m + 1 : \A l \in k .. m + 1 : RowsBefore(arrs, k) <= RowsBefore(arrs, l)
  <1>1. PICK st : st = RowStarts(arrs, m)
    OBVIOUS
  <1>2. PICK len : len = RowCounts(arrs)
    OBVIOUS
  <1>3. /\ IsStarts(st, len, m)
        /\ \A k \in 1 .. m : len[k] = arrs[k].length
        /\ \A k \in 1 .. m + 1 : st[k] = RowsBefore(arrs, k)
    BY <1>1, <1>2, RowsStart
  <1>4. 1 \in 1 .. m + 1 /\ \A k \in 1 .. m : k \in 1 .. m + 1 /\ k + 1 \in 1 .. m + 1
    OBVIOUS
  <1>5. RowsBefore(arrs, 1) = 0
    BY <1>3, <1>4 DEF IsStarts
  <1>6. \A k \in 1 .. m + 1 : RowsBefore(arrs, k) \in Nat
    BY <1>3 DEF IsStarts
  <1>7. ASSUME NEW k \in 1 .. m PROVE RowsBefore(arrs, k + 1) = RowsBefore(arrs, k) + arrs[k].length
    <2>1. st[k + 1] = st[k] + len[k]
      BY <1>3 DEF IsStarts
    <2>2. QED
      BY <1>3, <1>4, <2>1
  <1>8. ASSUME NEW k \in 1 .. m + 1, NEW l \in k .. m + 1 PROVE RowsBefore(arrs, k) <= RowsBefore(arrs, l)
    <2>1. st[k] <= st[l]
      BY <1>3, StartsRise
    <2>2. l \in 1 .. m + 1
      OBVIOUS
    <2>3. QED
      BY <1>3, <2>1, <2>2
  <1>9. QED
    BY <1>5, <1>6, <1>7, <1>8

LEMMA OneJoined ==
  ASSUME NEW start, NEW bitmaps, NEW arrs, NEW m, HaveBitmaps(bitmaps, arrs, m),
         NEW size, size = RowsBefore(arrs, m + 1), NEW k \in 1 .. m,
         NEW b, Joined(b, start, bitmaps, arrs, size, k - 1)
  PROVE  Joined(CopyOne(b, bitmaps, arrs, k), start, bitmaps, arrs, size, k)
  <1>1. m \in Nat /\ DOMAIN arrs = 1 .. m /\ (\A l \in 1 .. m : arrs[l].length \in Nat)
        /\ (bitmaps[k] = nil \/ IsBitmapOf(bitmaps[k], arrs[k].length))
    BY DEF HaveBitmaps
  <1>2. PICK n : n = arrs[k].length
    OBVIOUS
  <1>3. PICK at : at = RowsBefore(arrs, k)
    OBVIOUS
  <1>4. k \in 1 .. m + 1 /\ k + 1 \in 1 .. m + 1 /\ m + 1 \in k + 1 .. m + 1 /\ m + 1 \in 1 .. m + 1 /\ (k - 1) + 1 = k
    BY <1>1
  <1>5. n \in Nat /\ at \in Nat /\ RowsBefore(arrs, k + 1) = at + n /\ at + n <= size /\ size \in Nat
    <2>1. \A l \in 1 .. m + 1 : RowsBefore(arrs, l) \in Nat
      BY <1>1, RowPlaces
    <2>2. RowsBefore(arrs, k + 1) = RowsBefore(arrs, k) + arrs[k].length
      BY <1>1, RowPlaces
    <2>3. RowsBefore(arrs, k + 1) <= RowsBefore(arrs, m + 1)
      BY <1>1, <1>4, RowPlaces
    <2>4. QED
      BY <1>1, <1>2, <1>3, <1>4, <2>1, <2>2, <2>3
  <1>6. /\ IsBitmapOf(b, size)
        /\ \A l \in 1 .. k - 1 : \A i \in 0 .. arrs[l].length - 1 :
             IsSet(b, RowsBefore(arrs, l) + i)
               <=> IF bitmaps[l] = nil THEN IsSet(start, RowsBefore(arrs, l) + i) ELSE IsSet(bitmaps[l], i)
        /\ \A i \in at .. size - 1 : IsSet(b, i) <=> IsSet(start, i)
    BY <1>3, <1>4 DEF Joined
  <1>7. CASE bitmaps[k] = nil
    <2>1. CopyOne(b, bitmaps, arrs, k) = b
      BY <1>7, CopyOneIs
    <2>2. ASSUME NEW l \in 1 .. k, NEW i \in 0 .. arrs[l].length - 1
          PROVE  IsSet(b, RowsBefore(arrs, l) + i)
                   <=> IF bitmaps[l] = nil THEN IsSet(start, RowsBefore(arrs, l) + i) ELSE IsSet(bitmaps[l], i)
      <3>1. CASE l = k
        <4>1. at + i \in at .. size - 1
          BY <1>2, <1>5, <3>1
        <4>2. IsSet(b, at + i) <=> IsSet(start, at + i)
          BY <1>6, <4>1
        <4>3. QED
          BY <1>3, <1>7, <3>1, <4>2
      <3>2. CASE l # k
        <4>1. l \in 1 .. k - 1
          BY <3>2
        <4>2. QED
          BY <1>6, <4>1
      <3>3. QED
        BY <3>1, <3>2
    <2>3. ASSUME NEW i \in RowsBefore(arrs, k + 1) .. size - 1 PROVE IsSet(b, i) <=> IsSet(start, i)
      <3>1. i \in at .. size - 1
        BY <1>5
      <3>2. QED
        BY <1>6, <3>1
    <2>4. Joined(b, start, bitmaps, arrs, size, k)
      BY <1>6, <2>2, <2>3 DEF Joined
    <2>5. QED
      BY <2>1, <2>4
  <1>8. CASE bitmaps[k] # nil
    <2>1. PICK src : src = bitmaps[k]
      OBVIOUS
    <2>2. IsBitmapOf(src, n)
      BY <1>1, <1>2, <1>8, <2>1
    <2>3. PICK t : t = CopyOne(b, bitmaps, arrs, k)
      OBVIOUS
    <2>4. t = WithData(b, copyBitmapBits(b.data, at, src.data, n))
      BY <1>2, <1>3, <1>8, <2>1, <2>3, CopyOneIs
    <2>5. CopiedBits(WithData(b, copyBitmapBits(b.data, at, src.data, n)), b, size, at, src, 0, n)
      BY <1>5, <1>6, <2>2, BitmapCopied
    <2>6. /\ IsBitmapOf(t, size)
          /\ \A i \in 0 .. at - 1 : IsSet(t, i) <=> IsSet(b, i)
          /\ \A q \in 0 .. n - 1 : IsSet(t, at + q) <=> IsSet(src, 0 + q)
          /\ \A i \in at + n .. size - 1 : IsSet(t, i) <=> IsSet(b, i)
      BY <2>4, <2>5 DEF CopiedBits
    <2>7. ASSUME NEW l \in 1 .. k, NEW i \in 0 .. arrs[l].length - 1
          PROVE  IsSet(t, RowsBefore(arrs, l) + i)
                   <=> IF bitmaps[l] = nil THEN IsSet(start, RowsBefore(arrs, l) + i) ELSE IsSet(bitmaps[l], i)
      <3>1. CASE l = k
        <4>1. i \in 0 .. n - 1 /\ 0 + i = i
          BY <1>2, <1>5, <3>1
        <4>2. IsSet(t, at + i) <=> IsSet(src, i)
          BY <2>6, <4>1
        <4>3. QED
          BY <1>3, <1>8, <2>1, <3>1, <4>2
      <3>2. CASE l # k
        <4>1. l \in 1 .. k - 1 /\ l \in 1 .. m /\ l + 1 \in 1 .. m + 1 /\ k \in l + 1 .. m + 1 /\ l \in 1 .. m + 1
          BY <1>1, <3>2
        <4>2. RowsBefore(arrs, l + 1) <= RowsBefore(arrs, k)
          BY <1>1, <4>1, RowPlaces
        <4>3. RowsBefore(arrs, l + 1) = RowsBefore(arrs, l) + arrs[l].length
          BY <1>1, <4>1, RowPlaces
        <4>4. RowsBefore(arrs, l) \in Nat
          BY <1>1, <4>1, RowPlaces
        <4>5. arrs[l].length \in Nat
          BY <1>1, <4>1
        <4>6. RowsBefore(arrs, l) + i \in 0 .. at - 1
          BY <1>3, <1>5, <4>2, <4>3, <4>4, <4>5
        <4>7. IsSet(t, RowsBefore(arrs, l) + i) <=> IsSet(b, RowsBefore(arrs, l) + i)
          BY <2>6, <4>6
        <4>8. QED
          BY <1>6, <4>1, <4>7
      <3>3. QED
        BY <3>1, <3>2
    <2>8. ASSUME NEW i \in RowsBefore(arrs, k + 1) .. size - 1 PROVE IsSet(t, i) <=> IsSet(start, i)
      <3>1. i \in at .. size - 1 /\ i \in at + n .. size - 1
        BY <1>5
      <3>2. QED
        BY <1>6, <2>6, <3>1
    <2>9. Joined(t, start, bitmaps, arrs, size, k)
      BY <2>6, <2>7, <2>8 DEF Joined
    <2>10. QED
      BY <2>3, <2>9
  <1>9. QED
    BY <1>7, <1>8

-----------------------------------------------------------------------------
(* All bitmaps are in place                                                *)

RawsOf(size) == {b \in {[data |-> d, len |-> size] : d \in WordsOf(size)} : IsBitmapOf(b, size)}

LEMMA RawsAre ==
  ASSUME NEW size \in Nat, NEW b
  PROVE  b \in RawsOf(size) <=> IsBitmapOf(b, size)
  <1>1. ASSUME IsBitmapOf(b, size) PROVE b \in RawsOf(size)
    <2>1. b = [data |-> b.data, len |-> size] /\ b.data \in WordsOf(size)
      BY <1>1 DEF IsBitmapOf, IsBitmap, WordsOf
    <2>2. QED
      BY <1>1, <2>1 DEF RawsOf
  <1>2. QED
    BY <1>1 DEF RawsOf

LEMMA BitmapsJoined ==
  ASSUME NEW bitmaps, NEW arrs, NEW m, HaveBitmaps(bitmaps, arrs, m),
         NEW size, size = RowsBefore(arrs, m + 1), NEW start, IsBitmapOf(start, size)
  PROVE  Joined(CopyBitmaps(start, bitmaps, arrs), start, bitmaps, arrs, size, m)
  <1>1. m \in Nat /\ DOMAIN arrs = 1 .. m /\ (\A l \in 1 .. m : arrs[l].length \in Nat)
        /\ (\A k \in 1 .. m : bitmaps[k] = nil \/ IsBitmapOf(bitmaps[k], arrs[k].length))
    BY DEF HaveBitmaps
  <1>2. size \in Nat
    <2>1. m + 1 \in 1 .. m + 1
      BY <1>1
    <2>2. QED
      BY <1>1, <2>1, RowPlaces
  <1>3. DOMAIN KList(arrs) = 1 .. m /\ \A k \in 1 .. m : KList(arrs)[k] = k
    BY <1>1 DEF KList
  <1>4. ASSUME NEW k \in 1 .. m, NEW b, IsBitmapOf(b, size)
        PROVE  IsBitmapOf(CopyOne(b, bitmaps, arrs, k), size)
    <2>1. CASE bitmaps[k] = nil
      BY <1>4, <2>1, CopyOneIs
    <2>2. CASE bitmaps[k] # nil
      <3>1. PICK at : at = RowsBefore(arrs, k)
        OBVIOUS
      <3>2. PICK n : n = arrs[k].length
        OBVIOUS
      <3>3. PICK src : src = bitmaps[k]
        OBVIOUS
      <3>4. IsBitmapOf(src, n) /\ n \in Nat
        BY <1>1, <2>2, <3>2, <3>3
      <3>5. k \in 1 .. m + 1 /\ k + 1 \in 1 .. m + 1 /\ m + 1 \in k + 1 .. m + 1
        BY <1>1
      <3>6. at \in Nat
        BY <1>1, <3>1, <3>5, RowPlaces
      <3>7. RowsBefore(arrs, k + 1) = at + n
        BY <1>1, <3>1, <3>2, RowPlaces
      <3>8. RowsBefore(arrs, k + 1) <= size
        BY <1>1, <3>5, RowPlaces
      <3>9. at + n <= size
        BY <3>7, <3>8
      <3>10. CopiedBits(WithData(b, copyBitmapBits(b.data, at, src.data, n)), b, size, at, src, 0, n)
        BY <1>2, <1>4, <3>4, <3>6, <3>9, BitmapCopied
      <3>11. CopyOne(b, bitmaps, arrs, k) = WithData(b, copyBitmapBits(b.data, at, src.data, n))
        BY <2>2, <3>1, <3>2, <3>3, CopyOneIs
      <3>12. QED
        BY <3>10, <3>11 DEF CopiedBits
    <2>3. QED
      BY <2>1, <2>2
  <1>5. PICK R : R = RawsOf(size)
    OBVIOUS
  <1>6. \A b : b \in R <=> IsBitmapOf(b, size)
    BY <1>2, <1>5, RawsAre
  <1>7. PICK step : step = [k \in 1 .. m |-> [b \in R |-> CopyOne(b, bitmaps, arrs, k)]]
    OBVIOUS
  <1>8. \A k \in 1 .. m : \A b \in R : step[k][b] = CopyOne(b, bitmaps, arrs, k) /\ step[k][b] \in R
    BY <1>4, <1>6, <1>7
  <1>9. start \in R
    BY <1>6
  <1>10. PICK g : IsFold(g, start, step, SUBSET (1 .. m)) /\ \A s \in SUBSET (1 .. m) : g[s] \in R
    BY <1>1, <1>8, <1>9, FoldExists
  <1>11. IsJoin(g, start, bitmaps, arrs)
    <2>1. ASSUME NEW s \in SUBSET (1 .. m)
          PROVE  g[s] = IF s = {} THEN start ELSE CopyOne(g[s \ {Max(s)}], bitmaps, arrs, KList(arrs)[Max(s)])
      <3>1. CASE s = {}
        BY <1>10, <3>1 DEF IsFold
      <3>2. CASE s # {}
        <4>1. Max(s) \in 1 .. m /\ s \ {Max(s)} \in SUBSET (1 .. m)
          BY <1>1, <3>2, LastOfPositions
        <4>2. g[s] = step[Max(s)][g[s \ {Max(s)}]]
          BY <1>10, <3>2 DEF IsFold
        <4>3. KList(arrs)[Max(s)] = Max(s) /\ g[s \ {Max(s)}] \in R
          BY <1>3, <1>10, <4>1
        <4>4. QED
          BY <1>8, <3>2, <4>1, <4>2, <4>3
      <3>3. QED
        BY <3>1, <3>2
    <2>2. g = [s \in SUBSET (1 .. m) |-> g[s]]
      BY <1>10 DEF IsFold
    <2>3. QED
      BY <1>3, <2>1, <2>2 DEF IsJoin
  <1>12. PICK f : f = CHOOSE h : IsJoin(h, start, bitmaps, arrs)
    OBVIOUS
  <1>13. IsJoin(f, start, bitmaps, arrs)
    BY <1>11, <1>12
  <1>14. f[{}] = start
    BY <1>13 DEF IsJoin
  <1>15. ASSUME NEW k \in 1 .. m PROVE f[1 .. k] = CopyOne(f[1 .. k - 1], bitmaps, arrs, k)
    <2>1. 1 .. k \in SUBSET (1 .. m) /\ 1 .. k # {} /\ Max(1 .. k) = k /\ (1 .. k) \ {k} = 1 .. k - 1
      BY <1>1, FirstPositions
    <2>2. f[1 .. k] = CopyOne(f[(1 .. k) \ {Max(1 .. k)}], bitmaps, arrs, KList(arrs)[Max(1 .. k)])
      BY <1>3, <1>13, <2>1 DEF IsJoin
    <2>3. QED
      BY <1>3, <2>1, <2>2
  <1> DEFINE K == {k \in 0 .. m : Joined(f[1 .. k], start, bitmaps, arrs, size, k)}
  <1>16. 0 \in K
    <2>1. 1 .. 0 = {} /\ f[1 .. 0] = start
      BY <1>14
    <2>2. Joined(start, start, bitmaps, arrs, size, 0)
      BY <2>1 DEF Joined
    <2>3. QED
      BY <1>1, <2>1, <2>2
  <1>17. ASSUME NEW k \in 0 .. m - 1, k \in K PROVE k + 1 \in K
    <2>1. k + 1 \in 1 .. m /\ (k + 1) - 1 = k /\ k + 1 \in 0 .. m
      BY <1>1
    <2>2. Joined(f[1 .. k], start, bitmaps, arrs, size, (k + 1) - 1)
      BY <1>17, <2>1
    <2>3. Joined(CopyOne(f[1 .. k], bitmaps, arrs, k + 1), start, bitmaps, arrs, size, k + 1)
      BY <2>1, <2>2, OneJoined
    <2>4. f[1 .. k + 1] = CopyOne(f[1 .. (k + 1) - 1], bitmaps, arrs, k + 1)
      BY <1>15, <2>1
    <2>5. QED
      BY <2>1, <2>3, <2>4
  <1>18. m \in K
    <2> HIDE DEF K
    <2>0. 0 \in Int /\ m \in Int
      BY <1>1
    <2>1. 0 .. m \subseteq K
      BY <1>1, <1>16, <1>17, <2>0, IntervalInduction
    <2>2. QED
      BY <1>1, <2>1
  <1>19. CopyBitmaps(start, bitmaps, arrs) = f[1 .. m]
    BY <1>3, <1>12, JoinUnfolds
  <1>20. QED
    BY <1>18, <1>19

-----------------------------------------------------------------------------
(* The validity of a whole column                                          *)

Validities(arrs) == [k \in DOMAIN arrs |-> arrs[k].validity]

LEMMA NullsJoined ==
  ASSUME NEW arrs, NEW m, HaveBitmaps(Validities(arrs), arrs, m),
         NEW size, size = RowsBefore(arrs, m + 1)
  PROVE  LET v == concatBitmaps(arrs)
         IN /\ v = nil \/ IsBitmapOf(v, size)
            /\ \A l \in 1 .. m : \A i \in 0 .. arrs[l].length - 1 :
                 NullAt(v, RowsBefore(arrs, l) + i) <=> IsNull(arrs[l], i)
  <1>1. PICK v : v = concatBitmaps(arrs)
    OBVIOUS
  <1>2. m \in Nat /\ DOMAIN arrs = 1 .. m /\ (\A l \in 1 .. m : arrs[l].length \in Nat)
    BY DEF HaveBitmaps
  <1>3. size \in Nat
    <2>1. m + 1 \in 1 .. m + 1
      BY <1>2
    <2>2. QED
      BY <1>2, <2>1, RowPlaces
  <1>4. \A l \in 1 .. m : Validities(arrs)[l] = arrs[l].validity
    BY <1>2 DEF Validities
  <1>5. CASE \A k \in 1 .. m : arrs[k].validity = nil
    <2>1. v = nil
      BY <1>1, <1>2, <1>5 DEF concatBitmaps
    <2>2. QED
      BY <1>1, <1>5, <2>1 DEF NullAt, IsNull
  <1>6. CASE ~\A k \in 1 .. m : arrs[k].validity = nil
    <2>1. TotalHeight(arrs) = size
      <3>1. Len(arrs) = m
        BY <1>2
      <3>2. QED
        BY <3>1 DEF TotalHeight
    <2>2. v = CopyBitmaps(NewBitmap(size), Validities(arrs), arrs)
      BY <1>1, <1>2, <1>6, <2>1 DEF concatBitmaps, Validities
    <2>3. PICK start : start = NewBitmap(size)
      OBVIOUS
    <2>4. IsBitmapOf(start, size) /\ \A i \in 0 .. size - 1 : IsSet(start, i)
      BY <1>3, <2>3, NewBits
    <2>5. Joined(v, start, Validities(arrs), arrs, size, m)
      BY <2>2, <2>3, <2>4, BitmapsJoined
    <2>6. IsBitmapOf(v, size) /\ v # nil
      <3>1. IsBitmapOf(v, size)
        BY <2>5 DEF Joined
      <3>2. QED
        BY <3>1, NilIsNoBitmap DEF IsBitmapOf
    <2>7. ASSUME NEW l \in 1 .. m, NEW i \in 0 .. arrs[l].length - 1
          PROVE  NullAt(v, RowsBefore(arrs, l) + i) <=> IsNull(arrs[l], i)
      <3>1. IsSet(v, RowsBefore(arrs, l) + i)
              <=> IF Validities(arrs)[l] = nil THEN IsSet(start, RowsBefore(arrs, l) + i)
                  ELSE IsSet(Validities(arrs)[l], i)
        BY <2>5 DEF Joined
      <3>2. RowsBefore(arrs, l) + i \in 0 .. size - 1
        <4>1. l \in 1 .. m + 1 /\ l + 1 \in 1 .. m + 1 /\ m + 1 \in l + 1 .. m + 1
          BY <1>2
        <4>2. RowsBefore(arrs, l) \in Nat /\ arrs[l].length \in Nat
          BY <1>2, <4>1, RowPlaces
        <4>3. RowsBefore(arrs, l + 1) = RowsBefore(arrs, l) + arrs[l].length
          BY <1>2, RowPlaces
        <4>4. RowsBefore(arrs, l + 1) <= RowsBefore(arrs, m + 1)
          BY <1>2, <4>1, RowPlaces
        <4>5. QED
          BY <1>3, <4>2, <4>3, <4>4
      <3>3. IsSet(start, RowsBefore(arrs, l) + i)
        BY <2>4, <3>2
      <3>4. Validities(arrs)[l] = arrs[l].validity
        BY <1>4
      <3>5. QED
        BY <2>6, <3>1, <3>3, <3>4 DEF NullAt, IsNull
    <2>8. QED
      BY <1>1, <2>6, <2>7
  <1>7. QED
    BY <1>5, <1>6

-----------------------------------------------------------------------------
(* The rows of a whole column, and of its parts                            *)

Arrays(dtype, arrs, m) ==
  m \in Nat /\ DOMAIN arrs = 1 .. m /\ \A k \in 1 .. m : IsArray(dtype, arrs[k])

LEMMA ArraysFit ==
  ASSUME NEW dtype, NEW arrs, NEW m, Arrays(dtype, arrs, m)
  PROVE  /\ m \in Nat /\ DOMAIN arrs = 1 .. m /\ \A k \in 1 .. m : arrs[k].length \in Nat
         /\ HaveBitmaps(Validities(arrs), arrs, m)
         /\ TotalHeight(arrs) = RowsBefore(arrs, m + 1) /\ TotalHeight(arrs) \in Nat
  <1>1. m \in Nat /\ DOMAIN arrs = 1 .. m
    BY DEF Arrays
  <1>2. ASSUME NEW k \in 1 .. m
        PROVE  arrs[k].length \in Nat /\ (arrs[k].validity = nil \/ IsBitmapOf(arrs[k].validity, arrs[k].length))
               /\ Validities(arrs)[k] = arrs[k].validity
    BY <1>1 DEF Arrays, IsArray, Validities
  <1>3. HaveBitmaps(Validities(arrs), arrs, m)
    BY <1>1, <1>2 DEF HaveBitmaps
  <1>4. TotalHeight(arrs) = RowsBefore(arrs, m + 1)
    <2>1. Len(arrs) = m
      BY <1>1
    <2>2. QED
      BY <2>1 DEF TotalHeight
  <1>5. RowsBefore(arrs, m + 1) \in Nat
    <2>1. m + 1 \in 1 .. m + 1
      BY <1>1
    <2>2. QED
      BY <1>1, <1>2, <2>1, RowPlaces
  <1>6. QED
    BY <1>1, <1>2, <1>3, <1>4, <1>5

LEMMA PlaceIs ==
  ASSUME NEW m \in Nat, NEW arrs, DOMAIN arrs = 1 .. m, \A k \in 1 .. m : arrs[k].length \in Nat,
         NEW k \in 1 .. m, NEW j \in 0 .. arrs[k].length - 1
  PROVE  /\ PlaceOf(arrs, RowsBefore(arrs, k) + j) = <<k, j>>
         /\ RowsBefore(arrs, k) \in Nat /\ RowsBefore(arrs, k) + j \in 0 .. RowsBefore(arrs, m + 1) - 1
  <1>1. PICK st : st = RowStarts(arrs, m)
    OBVIOUS
  <1>2. PICK len : len = RowCounts(arrs)
    OBVIOUS
  <1>3. /\ IsStarts(st, len, m)
        /\ \A l \in 1 .. m : len[l] = arrs[l].length
        /\ \A l \in 1 .. m + 1 : st[l] = RowsBefore(arrs, l)
    BY <1>1, <1>2, RowsStart
  <1>4. \A l \in 1 .. m : l \in 1 .. m + 1 /\ l + 1 \in 1 .. m + 1 /\ m + 1 \in l + 1 .. m + 1
    OBVIOUS
  <1>5. RowsBefore(arrs, k) \in Nat /\ arrs[k].length \in Nat
    BY <1>4, RowPlaces
  <1>6. RowsBefore(arrs, k + 1) = RowsBefore(arrs, k) + arrs[k].length
    BY RowPlaces
  <1>7. RowsBefore(arrs, k + 1) <= RowsBefore(arrs, m + 1) /\ RowsBefore(arrs, m + 1) \in Nat
    <2>1. m + 1 \in 1 .. m + 1
      OBVIOUS
    <2>2. QED
      BY <1>4, <2>1, RowPlaces
  <1>8. PICK x : x = RowsBefore(arrs, k) + j
    OBVIOUS
  <1>9. x \in Int /\ RowsBefore(arrs, k) <= x /\ x < RowsBefore(arrs, k + 1) /\ x - RowsBefore(arrs, k) = j
    BY <1>5, <1>6, <1>8
  <1>10. PICK c : c = CHOOSE l \in DOMAIN arrs : RowsBefore(arrs, l) <= x /\ x < RowsBefore(arrs, l + 1)
    OBVIOUS
  <1>11. c \in 1 .. m /\ RowsBefore(arrs, c) <= x /\ x < RowsBefore(arrs, c + 1)
    <2>1. \E l \in DOMAIN arrs : RowsBefore(arrs, l) <= x /\ x < RowsBefore(arrs, l + 1)
      BY <1>9
    <2>2. QED
      BY <1>10, <2>1
  <1>12. c = k
    <2>1. st[k] <= x /\ x < st[k + 1] /\ st[c] <= x /\ x < st[c + 1]
      BY <1>3, <1>4, <1>9, <1>11
    <2>2. QED
      BY <1>3, <1>9, <1>11, <2>1, OnePart
  <1>13. PlaceOf(arrs, x) = <<c, x - RowsBefore(arrs, c)>>
    BY <1>10 DEF PlaceOf
  <1>14. PlaceOf(arrs, x) = <<k, j>>
    BY <1>9, <1>12, <1>13
  <1>15. QED
    BY <1>5, <1>6, <1>7, <1>8, <1>14

LEMMA RowHasPlace ==
  ASSUME NEW m \in Nat, NEW arrs, DOMAIN arrs = 1 .. m, \A k \in 1 .. m : arrs[k].length \in Nat,
         NEW i \in 0 .. RowsBefore(arrs, m + 1) - 1
  PROVE  \E k \in 1 .. m : \E j \in 0 .. arrs[k].length - 1 :
           i = RowsBefore(arrs, k) + j /\ PlaceOf(arrs, i) = <<k, j>>
  <1>1. PICK st : st = RowStarts(arrs, m)
    OBVIOUS
  <1>2. PICK len : len = RowCounts(arrs)
    OBVIOUS
  <1>3. /\ IsStarts(st, len, m)
        /\ \A l \in 1 .. m : len[l] = arrs[l].length
        /\ \A l \in 1 .. m + 1 : st[l] = RowsBefore(arrs, l)
    BY <1>1, <1>2, RowsStart
  <1>4. m + 1 \in 1 .. m + 1 /\ \A l \in 1 .. m : l \in 1 .. m + 1 /\ l + 1 \in 1 .. m + 1
    OBVIOUS
  <1>5. i \in Int /\ 0 <= i /\ i < st[m + 1]
    <2>1. RowsBefore(arrs, m + 1) \in Nat
      BY <1>4, RowPlaces
    <2>2. QED
      BY <1>3, <1>4, <2>1
  <1>6. PICK k \in 1 .. m : st[k] <= i /\ i < st[k + 1]
    BY <1>3, <1>5, PartOfPlace
  <1>7. RowsBefore(arrs, k) <= i /\ i < RowsBefore(arrs, k + 1)
    BY <1>3, <1>4, <1>6
  <1>8. RowsBefore(arrs, k) \in Nat /\ arrs[k].length \in Nat
    BY <1>4, RowPlaces
  <1>9. RowsBefore(arrs, k + 1) = RowsBefore(arrs, k) + arrs[k].length
    BY RowPlaces
  <1>10. PICK j : j = i - RowsBefore(arrs, k)
    OBVIOUS
  <1>11. j \in 0 .. arrs[k].length - 1 /\ i = RowsBefore(arrs, k) + j
    BY <1>5, <1>7, <1>8, <1>9, <1>10
  <1>12. PlaceOf(arrs, RowsBefore(arrs, k) + j) = <<k, j>>
    BY <1>11, PlaceIs
  <1>13. QED
    BY <1>11, <1>12

ValueIn(dtype, a, i) == CASE dtype = "Boolean" -> IsSet(a.data, i)
                          [] dtype = "String" -> BytesOf(a, i)
                          [] OTHER -> a.values[i]

LEMMA ValueOfArray ==
  ASSUME NEW s, NEW i
  PROVE  Value(s, i) = ValueIn(s.dtype, s.arr, i)
  BY DEF Value, ValueIn

(* t is the arrays one after the other                                     *)
ColumnJoined(dtype, t, arrs, m) ==
  /\ IsArray(dtype, t) /\ t.length = RowsBefore(arrs, m + 1)
  /\ \A k \in 1 .. m : \A j \in 0 .. arrs[k].length - 1 :
       /\ IsNull(t, RowsBefore(arrs, k) + j) <=> IsNull(arrs[k], j)
       /\ ValueIn(dtype, t, RowsBefore(arrs, k) + j) = ValueIn(dtype, arrs[k], j)

LEMMA TypedJoined ==
  ASSUME NEW dtype, dtype \notin {"Boolean", "String"}, NEW arrs, NEW m, Arrays(dtype, arrs, m)
  PROVE  ColumnJoined(dtype, concatTypedColumn(arrs), arrs, m)
  <1>1. PICK size : size = RowsBefore(arrs, m + 1)
    OBVIOUS
  <1>2. /\ m \in Nat /\ DOMAIN arrs = 1 .. m /\ (\A k \in 1 .. m : arrs[k].length \in Nat)
        /\ HaveBitmaps(Validities(arrs), arrs, m) /\ TotalHeight(arrs) = size /\ size \in Nat
    BY <1>1, ArraysFit
  <1>3. PICK v : v = concatBitmaps(arrs)
    OBVIOUS
  <1>4. /\ v = nil \/ IsBitmapOf(v, size)
        /\ \A l \in 1 .. m : \A i \in 0 .. arrs[l].length - 1 :
             NullAt(v, RowsBefore(arrs, l) + i) <=> IsNull(arrs[l], i)
    BY <1>1, <1>2, <1>3, NullsJoined
  <1>5. PICK vals : vals = [i \in 0 .. size - 1 |-> arrs[PlaceOf(arrs, i)[1]].values[PlaceOf(arrs, i)[2]]]
    OBVIOUS
  <1>6. PICK t : t = concatTypedColumn(arrs)
    OBVIOUS
  <1>7. t = TypedArray(vals, v)
    BY <1>2, <1>3, <1>5, <1>6 DEF concatTypedColumn
  <1>8. Cardinality(DOMAIN vals) = size
    BY <1>2, <1>5, RowCount
  <1>9. t = [values |-> vals, validity |-> v, length |-> size]
    BY <1>7, <1>8 DEF TypedArray
  <1>10. t.values = vals /\ t.validity = v /\ t.length = size
         /\ t = [values |-> t.values, validity |-> t.validity, length |-> t.length]
    BY <1>9
  <1>11. ASSUME NEW k \in 1 .. m, NEW j \in 0 .. arrs[k].length - 1
         PROVE  vals[RowsBefore(arrs, k) + j] = arrs[k].values[j]
    <2>1. PlaceOf(arrs, RowsBefore(arrs, k) + j) = <<k, j>> /\ RowsBefore(arrs, k) + j \in 0 .. size - 1
      BY <1>1, <1>2, PlaceIs
    <2>2. QED
      BY <1>5, <2>1
  <1>12. ASSUME NEW i \in 0 .. size - 1 PROVE vals[i] \in Int
    <2>0. PICK k \in 1 .. m : \E j \in 0 .. arrs[k].length - 1 :
             i = RowsBefore(arrs, k) + j /\ PlaceOf(arrs, i) = <<k, j>>
      BY <1>1, <1>2, RowHasPlace
    <2>1. PICK j \in 0 .. arrs[k].length - 1 : i = RowsBefore(arrs, k) + j
      BY <2>0
    <2>2. IsTyped(arrs[k])
      BY DEF Arrays, IsArray
    <2>3. arrs[k].values[j] \in Int
      BY <2>2 DEF IsTyped
    <2>4. QED
      BY <1>11, <2>1, <2>3
  <1>13. vals \in [0 .. size - 1 -> Int]
    BY <1>5, <1>12
  <1>14. IsArray(dtype, t)
    BY <1>2, <1>4, <1>10, <1>13 DEF IsArray, IsTyped
  <1>15. ASSUME NEW k \in 1 .. m, NEW j \in 0 .. arrs[k].length - 1
         PROVE  /\ IsNull(t, RowsBefore(arrs, k) + j) <=> IsNull(arrs[k], j)
                /\ ValueIn(dtype, t, RowsBefore(arrs, k) + j) = ValueIn(dtype, arrs[k], j)
    <2>1. IsNull(t, RowsBefore(arrs, k) + j) <=> NullAt(v, RowsBefore(arrs, k) + j)
      BY <1>10 DEF IsNull, NullAt
    <2>2. ValueIn(dtype, t, RowsBefore(arrs, k) + j) = vals[RowsBefore(arrs, k) + j]
          /\ ValueIn(dtype, arrs[k], j) = arrs[k].values[j]
      BY <1>10 DEF ValueIn
    <2>3. QED
      BY <1>4, <1>11, <2>1, <2>2
  <1>16. QED
    BY <1>1, <1>6, <1>10, <1>14, <1>15 DEF ColumnJoined

Bitmaps(arrs) == [k \in DOMAIN arrs |-> arrs[k].data]

LEMMA BooleanJoined ==
  ASSUME NEW arrs, NEW m, Arrays("Boolean", arrs, m)
  PROVE  ColumnJoined("Boolean", concatBoolColumn(arrs), arrs, m)
  <1>1. PICK size : size = RowsBefore(arrs, m + 1)
    OBVIOUS
  <1>2. /\ m \in Nat /\ DOMAIN arrs = 1 .. m /\ (\A k \in 1 .. m : arrs[k].length \in Nat)
        /\ HaveBitmaps(Validities(arrs), arrs, m) /\ TotalHeight(arrs) = size /\ size \in Nat
    BY <1>1, ArraysFit
  <1>3. PICK v : v = concatBitmaps(arrs)
    OBVIOUS
  <1>4. /\ v = nil \/ IsBitmapOf(v, size)
        /\ \A l \in 1 .. m : \A i \in 0 .. arrs[l].length - 1 :
             NullAt(v, RowsBefore(arrs, l) + i) <=> IsNull(arrs[l], i)
    BY <1>1, <1>2, <1>3, NullsJoined
  <1>5. ASSUME NEW k \in 1 .. m
        PROVE  Bitmaps(arrs)[k] = arrs[k].data /\ IsBitmapOf(arrs[k].data, arrs[k].length) /\ arrs[k].data # nil
    <2>1. IsBitmapOf(arrs[k].data, arrs[k].length)
      BY DEF Arrays, IsArray, IsBoolean
    <2>2. QED
      BY <1>2, <2>1, NilIsNoBitmap DEF Bitmaps, IsBitmapOf
  <1>6. HaveBitmaps(Bitmaps(arrs), arrs, m)
    BY <1>2, <1>5 DEF HaveBitmaps
  <1>7. PICK start : start = NewEmpty(size)
    OBVIOUS
  <1>8. IsBitmapOf(start, size)
    BY <1>2, <1>7, EmptyBits
  <1>9. PICK d : d = CopyBitmaps(start, Bitmaps(arrs), arrs)
    OBVIOUS
  <1>10. Joined(d, start, Bitmaps(arrs), arrs, size, m)
    BY <1>1, <1>6, <1>8, <1>9, BitmapsJoined
  <1>11. IsBitmapOf(d, size)
    BY <1>10 DEF Joined
  <1>12. PICK t : t = concatBoolColumn(arrs)
    OBVIOUS
  <1>13. t = BooleanArray(d, v)
    BY <1>2, <1>3, <1>7, <1>9, <1>12 DEF concatBoolColumn, Bitmaps
  <1>14. t = [data |-> d, validity |-> v, length |-> size]
    BY <1>11, <1>13 DEF BooleanArray, IsBitmapOf
  <1>15. t.data = d /\ t.validity = v /\ t.length = size
         /\ t = [data |-> t.data, validity |-> t.validity, length |-> t.length]
    BY <1>14
  <1>16. IsArray("Boolean", t)
    BY <1>2, <1>4, <1>11, <1>15 DEF IsArray, IsBoolean
  <1>17. ASSUME NEW k \in 1 .. m, NEW j \in 0 .. arrs[k].length - 1
         PROVE  /\ IsNull(t, RowsBefore(arrs, k) + j) <=> IsNull(arrs[k], j)
                /\ ValueIn("Boolean", t, RowsBefore(arrs, k) + j) = ValueIn("Boolean", arrs[k], j)
    <2>1. IsNull(t, RowsBefore(arrs, k) + j) <=> NullAt(v, RowsBefore(arrs, k) + j)
      BY <1>15 DEF IsNull, NullAt
    <2>2. PICK x : x = RowsBefore(arrs, k) + j
      OBVIOUS
    <2>3. x \in 0 .. size - 1
      BY <1>1, <1>2, <2>2, PlaceIs
    <2>4. IsSet(d, x) <=> IF Bitmaps(arrs)[k] = nil THEN IsSet(start, x) ELSE IsSet(Bitmaps(arrs)[k], j)
      BY <1>10, <2>2 DEF Joined
    <2>5. IsSet(d, x) <=> IsSet(arrs[k].data, j)
      BY <1>5, <2>4
    <2>6. PICK e : e = arrs[k].data
      OBVIOUS
    <2>7. IsBitmap(d) /\ IsBitmap(e) /\ x \in 0 .. d.len - 1 /\ j \in 0 .. e.len - 1
      BY <1>5, <1>11, <2>3, <2>6 DEF IsBitmapOf
    <2>8. IsSet(d, x) = IsSet(e, j)
      BY <2>5, <2>6, <2>7, SameBit
    <2>9. ValueIn("Boolean", t, x) = IsSet(d, x) /\ ValueIn("Boolean", arrs[k], j) = IsSet(arrs[k].data, j)
      BY <1>15 DEF ValueIn
    <2>10. QED
      BY <1>4, <2>1, <2>2, <2>6, <2>8, <2>9
  <1>18. QED
    BY <1>1, <1>12, <1>15, <1>16, <1>17 DEF ColumnJoined

-----------------------------------------------------------------------------
(* The texts of a whole column                                             *)

Holder(arrs, p) == CHOOSE k \in DOMAIN arrs : BytesBefore(arrs, k) <= p /\ p < BytesBefore(arrs, k + 1)

TextEnd(arrs, i) ==
  arrs[PlaceOf(arrs, i)[1]].offsets[PlaceOf(arrs, i)[2] + 1] + BytesBefore(arrs, PlaceOf(arrs, i)[1])

AllTexts(arrs) ==
  [p \in 0 .. BytesBefore(arrs, Len(arrs) + 1) - 1 |->
     arrs[Holder(arrs, p)].bytes[p - BytesBefore(arrs, Holder(arrs, p))]]

AllOffsets(arrs) == [i \in 0 .. TotalHeight(arrs) |-> IF i = 0 THEN 0 ELSE TextEnd(arrs, i - 1)]

LEMMA TextsUnfold ==
  ASSUME NEW arrs
  PROVE  concatStringColumn(arrs) = StringArray(AllTexts(arrs), AllOffsets(arrs), concatBitmaps(arrs))
  BY Zenon DEF concatStringColumn, AllTexts, AllOffsets, TextEnd, Holder, BytesBefore

LEMMA BytesOfArray ==
  ASSUME NEW a, IsString(a), a.length \in Nat
  PROVE  /\ Cardinality(DOMAIN a.bytes) = a.offsets[a.length] /\ a.offsets[a.length] \in Nat
         /\ DOMAIN a.bytes = 0 .. a.offsets[a.length] - 1 /\ a.offsets[0] = 0
  <1>1. a.offsets[a.length] \in Nat /\ DOMAIN a.bytes = 0 .. a.offsets[a.length] - 1 /\ a.offsets[0] = 0
    BY DEF IsString
  <1>2. PICK n : n = a.offsets[a.length]
    OBVIOUS
  <1>3. Cardinality(0 .. n - 1) = n
    BY <1>1, <1>2, RowCount
  <1>4. QED
    BY <1>1, <1>2, <1>3

LEMMA BytePlaces ==
  ASSUME NEW arrs, NEW m, Arrays("String", arrs, m)
  PROVE  /\ IsStarts(ByteStarts(arrs, m), ByteCounts(arrs), m)
         /\ \A k \in 1 .. m : ByteCounts(arrs)[k] = arrs[k].offsets[arrs[k].length]
         /\ \A k \in 1 .. m + 1 : ByteStarts(arrs, m)[k] = BytesBefore(arrs, k) /\ BytesBefore(arrs, k) \in Nat
         /\ BytesBefore(arrs, 1) = 0
         /\ \A k \in 1 .. m : BytesBefore(arrs, k + 1) = BytesBefore(arrs, k) + arrs[k].offsets[arrs[k].length]
  <1>1. m \in Nat /\ DOMAIN arrs = 1 .. m
    BY DEF Arrays
  <1>2. \A k \in 1 .. m : Cardinality(DOMAIN arrs[k].bytes) = arrs[k].offsets[arrs[k].length]
                          /\ arrs[k].offsets[arrs[k].length] \in Nat
    <2> SUFFICES ASSUME NEW k \in 1 .. m
                 PROVE  Cardinality(DOMAIN arrs[k].bytes) = arrs[k].offsets[arrs[k].length]
                        /\ arrs[k].offsets[arrs[k].length] \in Nat
      OBVIOUS
    <2>1. IsString(arrs[k]) /\ arrs[k].length \in Nat
      BY DEF Arrays, IsArray
    <2>2. QED
      BY <2>1, BytesOfArray
  <1>3. PICK st : st = ByteStarts(arrs, m)
    OBVIOUS
  <1>4. PICK len : len = ByteCounts(arrs)
    OBVIOUS
  <1>5. /\ IsStarts(st, len, m)
        /\ \A k \in 1 .. m : len[k] = Cardinality(DOMAIN arrs[k].bytes)
        /\ \A k \in 1 .. m + 1 : st[k] = BytesBefore(arrs, k)
    BY <1>1, <1>2, <1>3, <1>4, BytesStart
  <1>6. \A k \in 1 .. m : k \in 1 .. m + 1 /\ k + 1 \in 1 .. m + 1
    BY <1>1
  <1>7. 1 \in 1 .. m + 1
    BY <1>1
  <1>8. \A k \in 1 .. m + 1 : BytesBefore(arrs, k) \in Nat
    BY <1>5 DEF IsStarts
  <1>9. BytesBefore(arrs, 1) = 0
    BY <1>5, <1>7 DEF IsStarts
  <1>10. ASSUME NEW k \in 1 .. m
         PROVE  BytesBefore(arrs, k + 1) = BytesBefore(arrs, k) + arrs[k].offsets[arrs[k].length]
    <2>1. st[k + 1] = st[k] + len[k]
      BY <1>5 DEF IsStarts
    <2>2. QED
      BY <1>2, <1>5, <1>6, <2>1
  <1>11. QED
    BY <1>2, <1>3, <1>4, <1>5, <1>8, <1>9, <1>10

LEMMA HolderIs ==
  ASSUME NEW arrs, NEW m, Arrays("String", arrs, m), NEW k \in 1 .. m,
         NEW p \in 0 .. arrs[k].offsets[arrs[k].length] - 1
  PROVE  /\ Holder(arrs, BytesBefore(arrs, k) + p) = k /\ BytesBefore(arrs, k) \in Nat
         /\ BytesBefore(arrs, k) + p \in 0 .. BytesBefore(arrs, m + 1) - 1
  <1>1. PICK st : st = ByteStarts(arrs, m)
    OBVIOUS
  <1>2. PICK len : len = ByteCounts(arrs)
    OBVIOUS
  <1>3. /\ IsStarts(st, len, m)
        /\ \A l \in 1 .. m + 1 : st[l] = BytesBefore(arrs, l) /\ BytesBefore(arrs, l) \in Nat
        /\ \A l \in 1 .. m : BytesBefore(arrs, l + 1) = BytesBefore(arrs, l) + arrs[l].offsets[arrs[l].length]
    BY <1>1, <1>2, BytePlaces
  <1>4. m \in Nat /\ DOMAIN arrs = 1 .. m
    BY DEF Arrays
  <1>5. \A l \in 1 .. m : l \in 1 .. m + 1 /\ l + 1 \in 1 .. m + 1 /\ m + 1 \in l + 1 .. m + 1
    BY <1>4
  <1>6. m + 1 \in 1 .. m + 1
    BY <1>4
  <1>7. IsString(arrs[k]) /\ arrs[k].length \in Nat
    BY DEF Arrays, IsArray
  <1>8. arrs[k].offsets[arrs[k].length] \in Nat
    BY <1>7, BytesOfArray
  <1>9. PICK x : x = BytesBefore(arrs, k) + p
    OBVIOUS
  <1>10. BytesBefore(arrs, k) \in Nat /\ BytesBefore(arrs, k + 1) = BytesBefore(arrs, k) + arrs[k].offsets[arrs[k].length]
    BY <1>3, <1>5
  <1>11. x \in Int /\ 0 <= x /\ BytesBefore(arrs, k) <= x /\ x < BytesBefore(arrs, k + 1)
    BY <1>8, <1>9, <1>10
  <1>12. PICK c : c = Holder(arrs, x)
    OBVIOUS
  <1>13. c \in 1 .. m /\ BytesBefore(arrs, c) <= x /\ x < BytesBefore(arrs, c + 1)
    <2>1. \E l \in DOMAIN arrs : BytesBefore(arrs, l) <= x /\ x < BytesBefore(arrs, l + 1)
      BY <1>4, <1>11
    <2>2. QED
      BY <1>4, <1>12, <2>1 DEF Holder
  <1>14. c = k
    <2>1. st[k] <= x /\ x < st[k + 1] /\ st[c] <= x /\ x < st[c + 1]
      BY <1>3, <1>5, <1>11, <1>13
    <2>2. QED
      BY <1>3, <1>11, <1>13, <2>1, OnePart
  <1>15. st[k + 1] <= st[m + 1]
    BY <1>3, <1>5, StartsRise
  <1>16. BytesBefore(arrs, k + 1) <= BytesBefore(arrs, m + 1) /\ BytesBefore(arrs, m + 1) \in Nat
    BY <1>3, <1>5, <1>6, <1>15
  <1>17. BytesBefore(arrs, k + 1) \in Nat
    BY <1>8, <1>10
  <1>18. x \in 0 .. BytesBefore(arrs, m + 1) - 1
    BY <1>11, <1>16, <1>17
  <1>19. QED
    BY <1>9, <1>10, <1>12, <1>14, <1>18

LEMMA ByteHasPlace ==
  ASSUME NEW arrs, NEW m, Arrays("String", arrs, m)
  PROVE  \A k \in 1 .. m : \A p \in 0 .. arrs[k].offsets[arrs[k].length] - 1 :
           /\ BytesBefore(arrs, k) + p \in DOMAIN AllTexts(arrs)
           /\ AllTexts(arrs)[BytesBefore(arrs, k) + p] = arrs[k].bytes[p]
  <1> SUFFICES ASSUME NEW k \in 1 .. m, NEW p \in 0 .. arrs[k].offsets[arrs[k].length] - 1
               PROVE  /\ BytesBefore(arrs, k) + p \in DOMAIN AllTexts(arrs)
                      /\ AllTexts(arrs)[BytesBefore(arrs, k) + p] = arrs[k].bytes[p]
    OBVIOUS
  <1>1. m \in Nat /\ DOMAIN arrs = 1 .. m
    BY DEF Arrays
  <1>2. Len(arrs) = m
    BY <1>1
  <1>3. PICK x : x = BytesBefore(arrs, k) + p
    OBVIOUS
  <1>4. Holder(arrs, x) = k /\ BytesBefore(arrs, k) \in Nat /\ x \in 0 .. BytesBefore(arrs, m + 1) - 1
    BY <1>3, HolderIs
  <1>5. PICK t : t = AllTexts(arrs)
    OBVIOUS
  <1>6. DOMAIN t = 0 .. BytesBefore(arrs, m + 1) - 1
    BY <1>2, <1>5 DEF AllTexts
  <1>7. t[x] = arrs[Holder(arrs, x)].bytes[x - BytesBefore(arrs, Holder(arrs, x))]
    BY <1>2, <1>4, <1>5 DEF AllTexts
  <1>8. x - BytesBefore(arrs, k) = p
    BY <1>3, <1>4
  <1>9. t[x] = arrs[k].bytes[p]
    BY <1>4, <1>7, <1>8
  <1>10. QED
    BY <1>3, <1>4, <1>5, <1>6, <1>9

(* The texts of an array begin where those of the arrays before it end      *)
LEMMA OffsetsJoined ==
  ASSUME NEW arrs, NEW m, Arrays("String", arrs, m), NEW t, t = AllOffsets(arrs)
  PROVE  /\ \A k \in 1 .. m + 1 : t[RowsBefore(arrs, k)] = BytesBefore(arrs, k)
         /\ \A k \in 1 .. m : \A j \in 0 .. arrs[k].length :
              t[RowsBefore(arrs, k) + j] = BytesBefore(arrs, k) + arrs[k].offsets[j]
  <1>1. PICK size : size = RowsBefore(arrs, m + 1)
    OBVIOUS
  <1>2. /\ m \in Nat /\ DOMAIN arrs = 1 .. m /\ (\A k \in 1 .. m : arrs[k].length \in Nat)
        /\ TotalHeight(arrs) = size /\ size \in Nat
    BY <1>1, ArraysFit
  <1>3. \A i \in 0 .. size : t[i] = IF i = 0 THEN 0 ELSE TextEnd(arrs, i - 1)
    BY <1>2 DEF AllOffsets
  <1>4. ASSUME NEW k \in 1 .. m, NEW j \in 1 .. arrs[k].length
        PROVE  /\ t[RowsBefore(arrs, k) + j] = BytesBefore(arrs, k) + arrs[k].offsets[j]
               /\ RowsBefore(arrs, k) \in Nat
    <2>1. j - 1 \in 0 .. arrs[k].length - 1
      BY <1>2
    <2>2. /\ PlaceOf(arrs, RowsBefore(arrs, k) + (j - 1)) = <<k, j - 1>>
          /\ RowsBefore(arrs, k) \in Nat /\ RowsBefore(arrs, k) + (j - 1) \in 0 .. size - 1
      BY <1>1, <1>2, <2>1, PlaceIs
    <2>3. PICK x : x = RowsBefore(arrs, k) + j
      OBVIOUS
    <2>4. x \in 0 .. size /\ x # 0 /\ x - 1 = RowsBefore(arrs, k) + (j - 1)
      BY <1>2, <2>2, <2>3
    <2>5. t[x] = TextEnd(arrs, x - 1)
      BY <1>3, <2>4
    <2>6. PlaceOf(arrs, x - 1) = <<k, j - 1>>
      BY <2>2, <2>4
    <2>7. TextEnd(arrs, x - 1) = arrs[k].offsets[(j - 1) + 1] + BytesBefore(arrs, k)
      BY <2>6 DEF TextEnd
    <2>8. (j - 1) + 1 = j
      OBVIOUS
    <2>9. IsString(arrs[k]) /\ j \in 0 .. arrs[k].length
      BY <1>2 DEF Arrays, IsArray
    <2>10. arrs[k].offsets[j] \in Nat
      BY <2>9 DEF IsString
    <2>11. k \in 1 .. m + 1
      BY <1>2
    <2>12. BytesBefore(arrs, k) \in Nat
      BY <2>11, BytePlaces
    <2>13. QED
      BY <2>2, <2>3, <2>5, <2>7, <2>8, <2>10, <2>12
  <1>5. PICK e : e = m + 1
    OBVIOUS
  <1> DEFINE K == {k \in 1 .. e : t[RowsBefore(arrs, k)] = BytesBefore(arrs, k)}
  <1>6. 1 \in K
    <2>1. RowsBefore(arrs, 1) = 0
      BY <1>2, RowPlaces
    <2>2. BytesBefore(arrs, 1) = 0
      BY BytePlaces
    <2>3. t[0] = 0
      BY <1>2, <1>3
    <2>4. 1 \in 1 .. e
      BY <1>2, <1>5
    <2>5. QED
      BY <2>1, <2>2, <2>3, <2>4
  <1>7. ASSUME NEW k \in 1 .. e - 1, k \in K PROVE k + 1 \in K
    <2>1. k \in 1 .. m /\ k + 1 \in 1 .. e
      BY <1>2, <1>5
    <2>2. RowsBefore(arrs, k + 1) = RowsBefore(arrs, k) + arrs[k].length
      BY <1>2, <2>1, RowPlaces
    <2>3. BytesBefore(arrs, k + 1) = BytesBefore(arrs, k) + arrs[k].offsets[arrs[k].length]
      BY <2>1, BytePlaces
    <2>4. k \in 1 .. m + 1
      BY <1>2, <2>1
    <2>5. RowsBefore(arrs, k) \in Nat
      BY <1>2, <2>4, RowPlaces
    <2>6. BytesBefore(arrs, k) \in Nat
      BY <2>4, BytePlaces
    <2>7. CASE arrs[k].length = 0
      <3>1. IsString(arrs[k])
        BY <2>1 DEF Arrays, IsArray
      <3>2. arrs[k].offsets[arrs[k].length] = 0
        BY <2>7, <3>1 DEF IsString
      <3>3. RowsBefore(arrs, k + 1) = RowsBefore(arrs, k) /\ BytesBefore(arrs, k + 1) = BytesBefore(arrs, k)
        BY <2>2, <2>3, <2>5, <2>6, <2>7, <3>2
      <3>4. QED
        BY <1>7, <2>1, <3>3
    <2>8. CASE arrs[k].length # 0
      <3>1. arrs[k].length \in 1 .. arrs[k].length
        BY <1>2, <2>1, <2>8
      <3>2. t[RowsBefore(arrs, k) + arrs[k].length] = BytesBefore(arrs, k) + arrs[k].offsets[arrs[k].length]
        BY <1>4, <2>1, <3>1
      <3>3. QED
        BY <2>1, <2>2, <2>3, <3>2
    <2>9. QED
      BY <2>7, <2>8
  <1>8. 1 .. e \subseteq K
    <2> HIDE DEF K
    <2>1. 1 \in Int /\ e \in Int
      BY <1>2, <1>5
    <2>2. QED
      BY <1>6, <1>7, <2>1, IntervalInduction
  <1>9. \A k \in 1 .. m + 1 : t[RowsBefore(arrs, k)] = BytesBefore(arrs, k)
    BY <1>5, <1>8
  <1>10. ASSUME NEW k \in 1 .. m, NEW j \in 0 .. arrs[k].length
         PROVE  t[RowsBefore(arrs, k) + j] = BytesBefore(arrs, k) + arrs[k].offsets[j]
    <2>1. CASE j = 0
      <3>1. IsString(arrs[k]) /\ k \in 1 .. m + 1
        BY <1>2 DEF Arrays, IsArray
      <3>2. arrs[k].offsets[0] = 0
        BY <3>1 DEF IsString
      <3>3. RowsBefore(arrs, k) \in Nat
        BY <1>2, <3>1, RowPlaces
      <3>4. BytesBefore(arrs, k) \in Nat
        BY <3>1, BytePlaces
      <3>5. RowsBefore(arrs, k) + j = RowsBefore(arrs, k)
            /\ BytesBefore(arrs, k) + arrs[k].offsets[j] = BytesBefore(arrs, k)
        BY <2>1, <3>2, <3>3, <3>4
      <3>6. QED
        BY <1>9, <3>1, <3>5
    <2>2. CASE j # 0
      <3>1. j \in 1 .. arrs[k].length
        BY <1>2, <2>2
      <3>2. QED
        BY <1>4, <3>1
    <2>3. QED
      BY <2>1, <2>2
  <1>11. QED
    BY <1>9, <1>10

LEMMA StringJoined ==
  ASSUME NEW arrs, NEW m, Arrays("String", arrs, m)
  PROVE  ColumnJoined("String", concatStringColumn(arrs), arrs, m)
  <1>1. PICK size : size = RowsBefore(arrs, m + 1)
    OBVIOUS
  <1>2. /\ m \in Nat /\ DOMAIN arrs = 1 .. m /\ (\A k \in 1 .. m : arrs[k].length \in Nat)
        /\ HaveBitmaps(Validities(arrs), arrs, m) /\ TotalHeight(arrs) = size /\ size \in Nat
    BY <1>1, ArraysFit
  <1>3. PICK v : v = concatBitmaps(arrs)
    OBVIOUS
  <1>4. /\ v = nil \/ IsBitmapOf(v, size)
        /\ \A l \in 1 .. m : \A i \in 0 .. arrs[l].length - 1 :
             NullAt(v, RowsBefore(arrs, l) + i) <=> IsNull(arrs[l], i)
    BY <1>1, <1>2, <1>3, NullsJoined
  <1>5. PICK b : b = AllTexts(arrs)
    OBVIOUS
  <1>6. PICK o : o = AllOffsets(arrs)
    OBVIOUS
  <1>7. PICK t : t = concatStringColumn(arrs)
    OBVIOUS
  <1>8. t = StringArray(b, o, v)
    BY <1>3, <1>5, <1>6, <1>7, TextsUnfold
  <1>9. DOMAIN o = 0 .. size
    BY <1>2, <1>6 DEF AllOffsets
  <1>10. Cardinality(DOMAIN o) - 1 = size
    <2>1. size + 1 \in Nat /\ (size + 1) - 1 = size
      BY <1>2
    <2>2. Cardinality(0 .. (size + 1) - 1) = size + 1
      BY <2>1, RowCount
    <2>3. QED
      BY <1>2, <1>9, <2>1, <2>2
  <1>11. t = [bytes |-> b, offsets |-> o, validity |-> v, length |-> size]
    BY <1>8, <1>10 DEF StringArray
  <1>12. t.bytes = b /\ t.offsets = o /\ t.validity = v /\ t.length = size
         /\ t = [bytes |-> t.bytes, offsets |-> t.offsets, validity |-> t.validity, length |-> t.length]
    BY <1>11
  <1>13. /\ \A k \in 1 .. m + 1 : o[RowsBefore(arrs, k)] = BytesBefore(arrs, k)
         /\ \A k \in 1 .. m : \A j \in 0 .. arrs[k].length :
              o[RowsBefore(arrs, k) + j] = BytesBefore(arrs, k) + arrs[k].offsets[j]
    BY <1>6, OffsetsJoined
  <1>14. 1 \in 1 .. m + 1 /\ m + 1 \in 1 .. m + 1 /\ \A k \in 1 .. m : k \in 1 .. m + 1
    BY <1>2
  <1>15. o[0] = 0 /\ o[size] = BytesBefore(arrs, m + 1) /\ BytesBefore(arrs, m + 1) \in Nat
    <2>1. RowsBefore(arrs, 1) = 0
      BY <1>2, RowPlaces
    <2>2. BytesBefore(arrs, 1) = 0 /\ BytesBefore(arrs, m + 1) \in Nat
      BY <1>14, BytePlaces
    <2>3. QED
      BY <1>1, <1>13, <1>14, <2>1, <2>2
  <1>16. ASSUME NEW k \in 1 .. m, NEW j \in 0 .. arrs[k].length - 1
         PROVE  LET x == RowsBefore(arrs, k) + j
                    w == arrs[k].offsets[j + 1] - arrs[k].offsets[j]
                IN /\ o[x] = BytesBefore(arrs, k) + arrs[k].offsets[j] /\ o[x] \in Nat /\ o[x + 1] \in Nat
                   /\ o[x + 1] - o[x] = w /\ w \in Nat /\ arrs[k].offsets[j] \in Nat
                   /\ arrs[k].offsets[j + 1] <= arrs[k].offsets[arrs[k].length]
                   /\ BytesBefore(arrs, k) \in Nat
    <2>1. IsString(arrs[k]) /\ arrs[k].length \in Nat
      BY DEF Arrays, IsArray
    <2>2. j \in 0 .. arrs[k].length /\ j + 1 \in 0 .. arrs[k].length /\ arrs[k].length \in j + 1 .. arrs[k].length
      BY <2>1
    <2>3. arrs[k].offsets[j] \in Nat /\ arrs[k].offsets[j + 1] \in Nat /\ arrs[k].offsets[j] <= arrs[k].offsets[j + 1]
      BY <2>1, <2>2 DEF IsString
    <2>4. arrs[k].offsets[j + 1] <= arrs[k].offsets[arrs[k].length]
      BY <2>1, <2>2, OffsetsRise
    <2>5. BytesBefore(arrs, k) \in Nat
      BY <1>14, BytePlaces
    <2>6. RowsBefore(arrs, k) \in Nat
      BY <1>2, <1>14, RowPlaces
    <2>7. RowsBefore(arrs, k) + (j + 1) = (RowsBefore(arrs, k) + j) + 1
      BY <2>6
    <2>8. o[RowsBefore(arrs, k) + j] = BytesBefore(arrs, k) + arrs[k].offsets[j]
      BY <1>13, <2>2
    <2>9. o[RowsBefore(arrs, k) + (j + 1)] = BytesBefore(arrs, k) + arrs[k].offsets[j + 1]
      BY <1>13, <2>2
    <2>10. o[(RowsBefore(arrs, k) + j) + 1] = BytesBefore(arrs, k) + arrs[k].offsets[j + 1]
      BY <2>7, <2>9
    <2>11. QED
      BY <2>3, <2>4, <2>5, <2>8, <2>10
  <1>17. ASSUME NEW i \in 0 .. size - 1 PROVE o[i] \in Nat /\ o[i + 1] \in Nat /\ o[i] <= o[i + 1]
    <2>0. i \in 0 .. RowsBefore(arrs, m + 1) - 1
      BY <1>1
    <2>1. PICK k \in 1 .. m : \E j \in 0 .. arrs[k].length - 1 :
             i = RowsBefore(arrs, k) + j /\ PlaceOf(arrs, i) = <<k, j>>
      BY <1>2, <2>0, RowHasPlace
    <2>2. PICK j \in 0 .. arrs[k].length - 1 : i = RowsBefore(arrs, k) + j
      BY <2>1
    <2>3. o[i] \in Nat /\ o[i + 1] \in Nat /\ o[i + 1] - o[i] \in Nat
      BY <1>16, <2>2
    <2>4. QED
      BY <2>3
  <1>18. IsString(t)
    <2>1. \A i \in 0 .. size : o[i] \in Nat
      BY <1>2, <1>15, <1>17
    <2>2. o = [i \in 0 .. size |-> o[i]]
      BY <1>2, <1>6 DEF AllOffsets
    <2>3. o \in [0 .. size -> Nat]
      BY <2>1, <2>2
    <2>4. Len(arrs) = m
      BY <1>2
    <2>5. DOMAIN b = 0 .. o[size] - 1 /\ b = [p \in DOMAIN b |-> b[p]]
      BY <1>5, <1>15, <2>4 DEF AllTexts
    <2>6. QED
      BY <1>12, <1>15, <1>17, <2>3, <2>5 DEF IsString
  <1>19. IsArray("String", t)
    BY <1>2, <1>4, <1>12, <1>18 DEF IsArray
  <1>20. ASSUME NEW k \in 1 .. m, NEW j \in 0 .. arrs[k].length - 1
         PROVE  /\ IsNull(t, RowsBefore(arrs, k) + j) <=> IsNull(arrs[k], j)
                /\ ValueIn("String", t, RowsBefore(arrs, k) + j) = ValueIn("String", arrs[k], j)
    <2>1. IsNull(t, RowsBefore(arrs, k) + j) <=> NullAt(v, RowsBefore(arrs, k) + j)
      BY <1>12 DEF IsNull, NullAt
    <2>2. PICK x : x = RowsBefore(arrs, k) + j
      OBVIOUS
    <2>3. PICK u : u = arrs[k]
      OBVIOUS
    <2>4. PICK y : y = u.offsets[j]
      OBVIOUS
    <2>5. PICK w : w = u.offsets[j + 1] - y
      OBVIOUS
    <2>6. PICK z : z = o[x]
      OBVIOUS
    <2>7. PICK base : base = BytesBefore(arrs, k)
      OBVIOUS
    <2>8. /\ z = base + y /\ z \in Nat /\ o[x + 1] - z = w /\ w \in Nat /\ y \in Nat
          /\ u.offsets[j + 1] <= u.offsets[u.length] /\ base \in Nat
      BY <1>16, <2>2, <2>3, <2>4, <2>5, <2>6, <2>7
    <2>9. ASSUME NEW p \in 0 .. w - 1 PROVE t.bytes[z + p] = u.bytes[y + p]
      <3>1. IsString(u) /\ u.length \in Nat
        BY <2>3 DEF Arrays, IsArray
      <3>2. u.offsets[u.length] \in Nat
        BY <3>1, BytesOfArray
      <3>3. u.offsets[j + 1] \in Nat
        <4>1. j + 1 \in 0 .. u.length
          BY <2>3, <3>1
        <4>2. QED
          BY <3>1, <4>1 DEF IsString
      <3>4. y + p \in 0 .. u.offsets[u.length] - 1
        BY <2>5, <2>8, <3>2, <3>3
      <3>5. b[base + (y + p)] = u.bytes[y + p]
        BY <1>5, <2>3, <2>7, <3>4, ByteHasPlace
      <3>6. z + p = base + (y + p)
        BY <2>8
      <3>7. QED
        BY <1>12, <3>5, <3>6
    <2>10. t.offsets[x] = z /\ t.offsets[x + 1] - t.offsets[x] = w
      BY <1>12, <2>6, <2>8
    <2>11. u.offsets[j + 1] - u.offsets[j] = w
      BY <2>4, <2>5
    <2>12. BytesOf(t, x) = BytesOf(u, j)
      BY <2>4, <2>8, <2>9, <2>10, <2>11, TextOfRow
    <2>13. ValueIn("String", t, x) = BytesOf(t, x) /\ ValueIn("String", u, j) = BytesOf(u, j)
      BY DEF ValueIn
    <2>14. QED
      BY <1>4, <2>1, <2>2, <2>3, <2>12, <2>13
  <1>21. QED
    BY <1>1, <1>7, <1>12, <1>19, <1>20 DEF ColumnJoined

LEMMA ColumnsJoin ==
  ASSUME NEW dtype, NEW arrs, NEW m, Arrays(dtype, arrs, m)
  PROVE  ColumnJoined(dtype, concatColumn(dtype, arrs), arrs, m)
  <1>1. CASE dtype = "Boolean"
    <2>1. concatColumn(dtype, arrs) = concatBoolColumn(arrs)
      BY <1>1 DEF concatColumn
    <2>2. QED
      BY <1>1, <2>1, BooleanJoined
  <1>2. CASE dtype = "String"
    <2>1. concatColumn(dtype, arrs) = concatStringColumn(arrs)
      BY <1>2 DEF concatColumn
    <2>2. QED
      BY <1>2, <2>1, StringJoined
  <1>3. CASE dtype \notin {"Boolean", "String"}
    <2>1. concatColumn(dtype, arrs) = concatTypedColumn(arrs)
      BY <1>3 DEF concatColumn
    <2>2. QED
      BY <1>3, <2>1, TypedJoined
  <1>4. QED
    BY <1>1, <1>2, <1>3

-----------------------------------------------------------------------------
(* Concat of the parts of a frame                                          *)

ReadSeries(read, s) == IF read /\ ~HasNulls(s.arr) THEN [s EXCEPT !.arr.validity = nil] ELSE s

PartFrame(cols, read, start, end) == [c \in DOMAIN cols |-> ReadSeries(read, SliceSeries(cols[c], start, end))]

ThreeParts(cols, a, b, read) ==
  <<PartFrame(cols, read, 0, a), PartFrame(cols, read, a, b), PartFrame(cols, read, b, Height(cols))>>

(* s and t have the same cells, name and type                              *)
SameSeries(t, s, start, n) ==
  /\ IsSeries(t) /\ t.name = s.name /\ t.dtype = s.dtype /\ t.arr.length = n
  /\ CellsFrom(t, s, start, n)

NoValidity(a) == [a EXCEPT !.validity = nil]

LEMMA ValidityDropped ==
  ASSUME NEW dtype, NEW a, IsArray(dtype, a)
  PROVE  LET t == NoValidity(a)
         IN /\ IsArray(dtype, t) /\ t.length = a.length /\ t.validity = nil
            /\ \A i : ValueIn(dtype, t, i) = ValueIn(dtype, a, i)
  <1>1. PICK t : t = NoValidity(a)
    OBVIOUS
  <1>2. CASE dtype = "Boolean"
    <2>1. a = [data |-> a.data, validity |-> a.validity, length |-> a.length]
      BY <1>2 DEF IsArray, IsBoolean
    <2>2. t = [data |-> a.data, validity |-> nil, length |-> a.length]
      BY <1>1, <2>1 DEF NoValidity
    <2>3. t.data = a.data /\ t.validity = nil /\ t.length = a.length
          /\ t = [data |-> t.data, validity |-> t.validity, length |-> t.length]
      BY <2>2
    <2>4. IsArray(dtype, t)
      BY <1>2, <2>3 DEF IsArray, IsBoolean
    <2>5. \A i : ValueIn(dtype, t, i) = ValueIn(dtype, a, i)
      BY <1>2, <2>3 DEF ValueIn
    <2>6. QED
      BY <1>1, <2>3, <2>4, <2>5
  <1>3. CASE dtype = "String"
    <2>1. a = [bytes |-> a.bytes, offsets |-> a.offsets, validity |-> a.validity, length |-> a.length]
      BY <1>3 DEF IsArray, IsString
    <2>2. t = [bytes |-> a.bytes, offsets |-> a.offsets, validity |-> nil, length |-> a.length]
      BY <1>1, <2>1 DEF NoValidity
    <2>3. t.bytes = a.bytes /\ t.offsets = a.offsets /\ t.validity = nil /\ t.length = a.length
          /\ t = [bytes |-> t.bytes, offsets |-> t.offsets, validity |-> t.validity, length |-> t.length]
      BY <2>2
    <2>4. IsString(a) /\ a.length \in Nat
      BY <1>3 DEF IsArray
    <2>5. IsString(t)
      BY <2>3, <2>4 DEF IsString
    <2>6. IsArray(dtype, t)
      BY <1>3, <2>3, <2>4, <2>5 DEF IsArray
    <2>7. \A i : BytesOf(t, i) = BytesOf(a, i)
      BY <2>3 DEF BytesOf
    <2>8. \A i : ValueIn(dtype, t, i) = ValueIn(dtype, a, i)
      BY <1>3, <2>7 DEF ValueIn
    <2>9. QED
      BY <1>1, <2>3, <2>6, <2>8
  <1>4. CASE dtype \notin {"Boolean", "String"}
    <2>1. a = [values |-> a.values, validity |-> a.validity, length |-> a.length]
      BY <1>4 DEF IsArray, IsTyped
    <2>2. t = [values |-> a.values, validity |-> nil, length |-> a.length]
      BY <1>1, <2>1 DEF NoValidity
    <2>3. t.values = a.values /\ t.validity = nil /\ t.length = a.length
          /\ t = [values |-> t.values, validity |-> t.validity, length |-> t.length]
      BY <2>2
    <2>4. IsArray(dtype, t)
      BY <1>4, <2>3 DEF IsArray, IsTyped
    <2>5. \A i : ValueIn(dtype, t, i) = ValueIn(dtype, a, i)
      BY <1>4, <2>3 DEF ValueIn
    <2>6. QED
      BY <1>1, <2>3, <2>4, <2>5
  <1>5. QED
    BY <1>2, <1>3, <1>4

LEMMA ReadKeepsCells ==
  ASSUME NEW s, IsSeries(s), NEW read
  PROVE  SameSeries(ReadSeries(read, s), s, 0, s.arr.length)
  <1>1. s = [name |-> s.name, dtype |-> s.dtype, arr |-> s.arr] /\ IsArray(s.dtype, s.arr) /\ s.arr.length \in Nat
    BY DEF IsSeries, Series, IsArray
  <1>2. CASE read /\ ~HasNulls(s.arr)
    <2>1. PICK t : t = ReadSeries(read, s)
      OBVIOUS
    <2>2. PICK u : u = NoValidity(s.arr)
      OBVIOUS
    <2>3. [s EXCEPT !.arr.validity = nil] = [s EXCEPT !.arr = NoValidity(s.arr)]
      BY Zenon DEF NoValidity
    <2>4. t = [s EXCEPT !.arr = u]
      BY <1>2, <2>1, <2>2, <2>3 DEF ReadSeries
    <2>5. t = [name |-> s.name, dtype |-> s.dtype, arr |-> u]
      BY <1>1, <2>4
    <2>6. t.name = s.name /\ t.dtype = s.dtype /\ t.arr = u /\ t = [name |-> t.name, dtype |-> t.dtype, arr |-> t.arr]
      BY <2>5
    <2>7. /\ IsArray(s.dtype, u) /\ u.length = s.arr.length /\ u.validity = nil
          /\ \A i : ValueIn(s.dtype, u, i) = ValueIn(s.dtype, s.arr, i)
      BY <1>1, <2>2, ValidityDropped
    <2>8. IsSeries(t)
      BY <2>6, <2>7 DEF IsSeries, Series
    <2>9. ASSUME NEW i \in 0 .. s.arr.length - 1 PROVE Cell(t, i) = Cell(s, 0 + i)
      <3>1. ~IsNull(t.arr, i)
        BY <2>6, <2>7 DEF IsNull
      <3>2. ~IsNull(s.arr, i)
        BY <1>2 DEF HasNulls, IsNull
      <3>3. Value(t, i) = Value(s, i)
        BY <2>6, <2>7, ValueOfArray
      <3>4. Cell(t, i) = Cell(s, i) /\ 0 + i = i
        BY <3>1, <3>2, <3>3, CellsOfParts
      <3>5. QED
        BY <3>4
    <2>10. QED
      BY <2>1, <2>6, <2>7, <2>8, <2>9 DEF SameSeries, CellsFrom
  <1>3. CASE ~(read /\ ~HasNulls(s.arr))
    <2>1. ReadSeries(read, s) = s
      BY <1>3 DEF ReadSeries
    <2>2. \A i \in 0 .. s.arr.length - 1 : 0 + i = i
      OBVIOUS
    <2>3. QED
      BY <2>1, <2>2 DEF SameSeries, CellsFrom
  <1>4. QED
    BY <1>2, <1>3

LEMMA PartIs ==
  ASSUME NEW cols, IsFrame(cols), NEW read, NEW start \in Nat, NEW end \in Nat, start <= end, end <= Height(cols)
  PROVE  LET p == PartFrame(cols, read, start, end)
         IN DOMAIN p = DOMAIN cols /\ \A c \in DOMAIN cols : SameSeries(p[c], cols[c], start, end - start)
  <1>1. PICK p : p = PartFrame(cols, read, start, end)
    OBVIOUS
  <1>2. DOMAIN p = DOMAIN cols /\ \A c \in DOMAIN cols : p[c] = ReadSeries(read, SliceSeries(cols[c], start, end))
    BY <1>1 DEF PartFrame
  <1>3. ASSUME NEW c \in DOMAIN cols PROVE SameSeries(p[c], cols[c], start, end - start)
    <2>1. IsSeries(cols[c]) /\ cols[c].arr.length = Height(cols)
      BY DEF IsFrame
    <2>2. PICK s : s = cols[c]
      OBVIOUS
    <2>3. PICK t : t = SliceSeries(s, start, end)
      OBVIOUS
    <2>4. /\ IsSeries(t) /\ t.name = s.name /\ t.dtype = s.dtype
          /\ t.arr.length = end - start
          /\ CellsFrom(t, s, start, end - start)
      BY <2>1, <2>2, <2>3, SliceOfSeries
    <2>5. PICK u : u = ReadSeries(read, t)
      OBVIOUS
    <2>6. SameSeries(u, t, 0, t.arr.length)
      BY <2>4, <2>5, ReadKeepsCells
    <2>7. ASSUME NEW i \in 0 .. end - start - 1 PROVE Cell(u, i) = Cell(s, start + i)
      <3>1. Cell(u, i) = Cell(t, 0 + i) /\ 0 + i = i
        BY <2>4, <2>6 DEF SameSeries, CellsFrom
      <3>2. Cell(t, i) = Cell(s, start + i)
        BY <2>4 DEF CellsFrom
      <3>3. QED
        BY <3>1, <3>2
    <2>8. SameSeries(u, s, start, end - start)
      BY <2>4, <2>6, <2>7 DEF SameSeries, CellsFrom
    <2>9. QED
      BY <1>2, <2>2, <2>3, <2>5, <2>8
  <1>4. QED
    BY <1>1, <1>2, <1>3

-----------------------------------------------------------------------------
(* Three parts, one below the other                                        *)

ThreeArrays(dfs, c) == [k \in DOMAIN dfs |-> dfs[k][c].arr]

ConcatSeries(dfs, c) == WithArr(dfs[1][c], concatColumn(dfs[1][c].dtype, ThreeArrays(dfs, c)))

LEMMA ConcatUnfolds ==
  ASSUME NEW dfs
  PROVE  ConcatFrames(dfs)
         = IF Len(dfs) = 1 THEN New(dfs[1])
           ELSE IF \E k \in DOMAIN dfs : Schema(dfs[k]) # Schema(dfs[1]) THEN nil
           ELSE New([c \in DOMAIN dfs[1] |-> ConcatSeries(dfs, c)])
  BY Zenon DEF ConcatFrames, ConcatSeries, WithArr, ThreeArrays

(* The parts of a series that end at a, b and h                            *)
PartsOfSeries(s, p, q, r, a, b, h) ==
  SameSeries(p, s, 0, a) /\ SameSeries(q, s, a, b - a) /\ SameSeries(r, s, b, h - b)

LEMMA SeriesConcat ==
  ASSUME NEW s, IsSeries(s), NEW a \in Nat, NEW b \in Nat, NEW h \in Nat, a <= b, b <= h, s.arr.length = h,
         NEW p, NEW q, NEW r, PartsOfSeries(s, p, q, r, a, b, h)
  PROVE  SameSeries(WithArr(p, concatColumn(p.dtype, <<p.arr, q.arr, r.arr>>)), s, 0, h)
  <1>1. PICK arrs : arrs = <<p.arr, q.arr, r.arr>>
    OBVIOUS
  <1>2. DOMAIN arrs = 1 .. 3 /\ arrs[1] = p.arr /\ arrs[2] = q.arr /\ arrs[3] = r.arr
    BY <1>1
  <1>3. /\ IsSeries(p) /\ p.name = s.name /\ p.dtype = s.dtype /\ p.arr.length = a /\ CellsFrom(p, s, 0, a)
        /\ IsSeries(q) /\ q.dtype = s.dtype /\ q.arr.length = b - a /\ CellsFrom(q, s, a, b - a)
        /\ IsSeries(r) /\ r.dtype = s.dtype /\ r.arr.length = h - b /\ CellsFrom(r, s, b, h - b)
    BY DEF PartsOfSeries, SameSeries
  <1>4. IsArray(s.dtype, p.arr) /\ IsArray(s.dtype, q.arr) /\ IsArray(s.dtype, r.arr)
    BY <1>3 DEF IsSeries
  <1>5. Arrays(s.dtype, arrs, 3)
    <2>1. \A k \in 1 .. 3 : k = 1 \/ k = 2 \/ k = 3
      OBVIOUS
    <2>2. QED
      BY <1>2, <1>4, <2>1 DEF Arrays
  <1>6. PICK t : t = concatColumn(s.dtype, arrs)
    OBVIOUS
  <1>7. ColumnJoined(s.dtype, t, arrs, 3)
    BY <1>5, <1>6, ColumnsJoin
  <1>8. RowsBefore(arrs, 1) = 0 /\ RowsBefore(arrs, 2) = a /\ RowsBefore(arrs, 3) = b /\ RowsBefore(arrs, 4) = h
    <2>1. 3 \in Nat /\ DOMAIN arrs = 1 .. 3 /\ \A k \in 1 .. 3 : arrs[k].length \in Nat
      BY <1>5, ArraysFit
    <2>2. RowsBefore(arrs, 1) = 0
      BY <2>1, RowPlaces
    <2>3. \A k \in 1 .. 3 : RowsBefore(arrs, k + 1) = RowsBefore(arrs, k) + arrs[k].length
      BY <2>1, RowPlaces
    <2>4. RowsBefore(arrs, 1 + 1) = RowsBefore(arrs, 1) + arrs[1].length
      BY <2>3
    <2>5. RowsBefore(arrs, 2 + 1) = RowsBefore(arrs, 2) + arrs[2].length
      BY <2>3
    <2>6. RowsBefore(arrs, 3 + 1) = RowsBefore(arrs, 3) + arrs[3].length
      BY <2>3
    <2>7. RowsBefore(arrs, 2) = a
      BY <1>2, <1>3, <2>2, <2>4
    <2>8. RowsBefore(arrs, 3) = b
      BY <1>2, <1>3, <2>5, <2>7
    <2>9. RowsBefore(arrs, 4) = h
      BY <1>2, <1>3, <2>6, <2>8
    <2>10. QED
      BY <2>2, <2>7, <2>8, <2>9
  <1>9. IsArray(s.dtype, t) /\ t.length = h
    <2>1. 3 + 1 = 4
      OBVIOUS
    <2>2. QED
      BY <1>7, <1>8, <2>1 DEF ColumnJoined
  <1>10. PICK u : u = WithArr(p, t)
    OBVIOUS
  <1>11. u.arr = t /\ u.dtype = s.dtype /\ u.name = s.name
    BY <1>3, <1>10, ArrOf
  <1>12. IsSeries(u)
    <2>1. p = [name |-> p.name, dtype |-> p.dtype, arr |-> p.arr]
      BY <1>3 DEF IsSeries, Series
    <2>2. u = [name |-> p.name, dtype |-> p.dtype, arr |-> t]
      BY <1>10, <2>1 DEF WithArr
    <2>3. u = Series(u.name, u.dtype, u.arr)
      BY <2>2 DEF Series
    <2>4. QED
      BY <1>9, <1>11, <2>3 DEF IsSeries
  <1>13. ASSUME NEW k \in 1 .. 3, NEW j \in 0 .. arrs[k].length - 1, NEW x, x = RowsBefore(arrs, k) + j,
                NEW part, part.arr = arrs[k], part.dtype = s.dtype
         PROVE  Cell(u, x) = Cell(part, j)
    <2>1. IsNull(t, x) <=> IsNull(arrs[k], j)
      BY <1>7, <1>13 DEF ColumnJoined
    <2>2. ValueIn(s.dtype, t, x) = ValueIn(s.dtype, arrs[k], j)
      BY <1>7, <1>13 DEF ColumnJoined
    <2>3. Value(u, x) = Value(part, j)
      BY <1>11, <1>13, <2>2, ValueOfArray
    <2>4. QED
      BY <1>11, <1>13, <2>1, <2>3, CellsOfParts
  <1>14. ASSUME NEW i \in 0 .. h - 1 PROVE Cell(u, i) = Cell(s, 0 + i)
    <2>1. 0 + i = i /\ i \in Nat
      OBVIOUS
    <2>2. CASE i < a
      <3>1. i \in 0 .. a - 1 /\ i \in 0 .. arrs[1].length - 1 /\ i = RowsBefore(arrs, 1) + i
        BY <1>2, <1>3, <1>8, <2>2
      <3>2. Cell(u, i) = Cell(p, i)
        BY <1>2, <1>3, <1>13, <3>1
      <3>3. Cell(p, i) = Cell(s, 0 + i)
        BY <1>3, <3>1 DEF CellsFrom
      <3>4. QED
        BY <3>2, <3>3
    <2>3. CASE a <= i /\ i < b
      <3>1. PICK j : j = i - a
        OBVIOUS
      <3>2. j \in 0 .. b - a - 1 /\ j \in 0 .. arrs[2].length - 1 /\ i = RowsBefore(arrs, 2) + j /\ a + j = i
        BY <1>2, <1>3, <1>8, <2>3, <3>1
      <3>3. Cell(u, i) = Cell(q, j)
        BY <1>2, <1>3, <1>13, <3>2
      <3>4. Cell(q, j) = Cell(s, a + j)
        BY <1>3, <3>2 DEF CellsFrom
      <3>5. QED
        BY <2>1, <3>2, <3>3, <3>4
    <2>4. CASE b <= i
      <3>1. PICK j : j = i - b
        OBVIOUS
      <3>2. j \in 0 .. h - b - 1 /\ j \in 0 .. arrs[3].length - 1 /\ i = RowsBefore(arrs, 3) + j /\ b + j = i
        BY <1>2, <1>3, <1>8, <2>4, <3>1
      <3>3. Cell(u, i) = Cell(r, j)
        BY <1>2, <1>3, <1>13, <3>2
      <3>4. Cell(r, j) = Cell(s, b + j)
        BY <1>3, <3>2 DEF CellsFrom
      <3>5. QED
        BY <2>1, <3>2, <3>3, <3>4
    <2>5. QED
      BY <2>2, <2>3, <2>4
  <1>15. SameSeries(u, s, 0, h)
    BY <1>9, <1>11, <1>12, <1>14 DEF SameSeries, CellsFrom
  <1>16. QED
    BY <1>1, <1>3, <1>6, <1>10, <1>15

(* The frame f has the columns of cols                                     *)
SameFrame(f, cols) ==
  /\ f # nil /\ f.height = Height(cols) /\ DOMAIN f.cols = DOMAIN cols /\ Schema(f.cols) = Schema(cols)
  /\ \A c \in DOMAIN cols : SameSeries(f.cols[c], cols[c], 0, Height(cols))

LEMMA SameSchema ==
  ASSUME NEW p, NEW cols, DOMAIN p = DOMAIN cols,
         \A c \in DOMAIN cols : p[c].name = cols[c].name /\ p[c].dtype = cols[c].dtype
  PROVE  Schema(p) = Schema(cols)
  BY DEF Schema

LEMMA FrameConcat ==
  ASSUME NEW cols, IsFrame(cols), NEW read, NEW a \in Nat, NEW b \in Nat, a <= b, b <= Height(cols)
  PROVE  SameFrame(ConcatFrames(ThreeParts(cols, a, b, read)), cols)
  <1>1. PICK h : h = Height(cols)
    OBVIOUS
  <1>2. h \in Nat /\ 0 \in Nat
    BY <1>1, HeightIs
  <1>3. PICK p : p = PartFrame(cols, read, 0, a)
    OBVIOUS
  <1>4. PICK q : q = PartFrame(cols, read, a, b)
    OBVIOUS
  <1>5. PICK r : r = PartFrame(cols, read, b, h)
    OBVIOUS
  <1>6. DOMAIN p = DOMAIN cols /\ \A c \in DOMAIN cols : SameSeries(p[c], cols[c], 0, a)
    <2>1. 0 <= a /\ a <= Height(cols) /\ a - 0 = a
      BY <1>1, <1>2
    <2>2. DOMAIN p = DOMAIN cols /\ \A c \in DOMAIN cols : SameSeries(p[c], cols[c], 0, a - 0)
      BY <1>2, <1>3, <2>1, PartIs
    <2>3. QED
      BY <2>1, <2>2
  <1>7. DOMAIN q = DOMAIN cols /\ \A c \in DOMAIN cols : SameSeries(q[c], cols[c], a, b - a)
    BY <1>4, PartIs
  <1>8. DOMAIN r = DOMAIN cols /\ \A c \in DOMAIN cols : SameSeries(r[c], cols[c], b, h - b)
    BY <1>1, <1>2, <1>5, PartIs
  <1>9. PICK dfs : dfs = <<p, q, r>>
    OBVIOUS
  <1>10. ThreeParts(cols, a, b, read) = dfs
    BY <1>1, <1>3, <1>4, <1>5, <1>9 DEF ThreeParts
  <1>11. Len(dfs) = 3 /\ DOMAIN dfs = 1 .. 3 /\ dfs[1] = p /\ dfs[2] = q /\ dfs[3] = r
    BY <1>9
  <1>12. Schema(p) = Schema(cols) /\ Schema(q) = Schema(cols) /\ Schema(r) = Schema(cols)
    <2>1. Schema(p) = Schema(cols)
      BY <1>6, SameSchema DEF SameSeries
    <2>2. Schema(q) = Schema(cols)
      BY <1>7, SameSchema DEF SameSeries
    <2>3. Schema(r) = Schema(cols)
      BY <1>8, SameSchema DEF SameSeries
    <2>4. QED
      BY <2>1, <2>2, <2>3
  <1>13. ~\E k \in DOMAIN dfs : Schema(dfs[k]) # Schema(dfs[1])
    <2>1. \A k \in 1 .. 3 : k = 1 \/ k = 2 \/ k = 3
      OBVIOUS
    <2>2. QED
      BY <1>11, <1>12, <2>1
  <1>14. PICK out : out = [c \in DOMAIN cols |-> ConcatSeries(dfs, c)]
    OBVIOUS
  <1>15. ConcatFrames(dfs) = New(out)
    <2>1. DOMAIN dfs[1] = DOMAIN cols
      BY <1>6, <1>11
    <2>2. Len(dfs) # 1
      BY <1>11
    <2>3. ConcatFrames(dfs) = New([c \in DOMAIN dfs[1] |-> ConcatSeries(dfs, c)])
      BY <1>13, <2>2, ConcatUnfolds
    <2>4. QED
      BY <1>14, <2>1, <2>3
  <1>16. ASSUME NEW c \in DOMAIN cols PROVE SameSeries(out[c], cols[c], 0, h)
    <2>1. PICK s : s = cols[c]
      OBVIOUS
    <2>2. IsSeries(s) /\ s.arr.length = h
      BY <1>1, <2>1 DEF IsFrame
    <2>3. PartsOfSeries(s, p[c], q[c], r[c], a, b, h)
      BY <1>6, <1>7, <1>8, <2>1 DEF PartsOfSeries
    <2>4. PICK arrs : arrs = ThreeArrays(dfs, c)
      OBVIOUS
    <2>5. arrs = <<p[c].arr, q[c].arr, r[c].arr>>
      <3>1. arrs = [k \in 1 .. 3 |-> dfs[k][c].arr]
        BY <1>11, <2>4 DEF ThreeArrays
      <3>2. arrs[1] = p[c].arr /\ arrs[2] = q[c].arr /\ arrs[3] = r[c].arr
        BY <1>11, <3>1
      <3>3. QED
        BY <3>1, <3>2
    <2>6. SameSeries(WithArr(p[c], concatColumn(p[c].dtype, <<p[c].arr, q[c].arr, r[c].arr>>)), s, 0, h)
      BY <1>1, <1>2, <2>2, <2>3, SeriesConcat
    <2>7. out[c] = WithArr(p[c], concatColumn(p[c].dtype, arrs))
      BY <1>11, <1>14, <2>4 DEF ConcatSeries
    <2>8. QED
      BY <2>1, <2>5, <2>6, <2>7
  <1>17. DOMAIN out = DOMAIN cols
    BY <1>14
  <1>18. 1 \in DOMAIN cols
    BY DEF IsFrame
  <1>19. Height(out) = h
    BY <1>16, <1>18 DEF Height, SameSeries
  <1>20. \A c, d \in DOMAIN out : out[c].arr.length = out[d].arr.length /\ (out[c].name = out[d].name => c = d)
    <2> SUFFICES ASSUME NEW c \in DOMAIN cols, NEW d \in DOMAIN cols
                 PROVE  out[c].arr.length = out[d].arr.length /\ (out[c].name = out[d].name => c = d)
      BY <1>17
    <2>1. out[c].arr.length = h /\ out[d].arr.length = h /\ out[c].name = cols[c].name /\ out[d].name = cols[d].name
      BY <1>16 DEF SameSeries
    <2>2. cols[c].name = cols[d].name => c = d
      BY DEF IsFrame
    <2>3. QED
      BY <2>1, <2>2
  <1>21. PICK f : f = ConcatFrames(dfs)
    OBVIOUS
  <1>22. f = [cols |-> out, height |-> h]
    BY <1>15, <1>19, <1>20, <1>21 DEF New
  <1>23. f.cols = out /\ f.height = h
    BY <1>22
  <1>24. f # nil
    <2>1. nil = <<>>
      BY DEF nil
    <2>2. DOMAIN nil = {} /\ DOMAIN f # {}
      BY <1>22, <2>1
    <2>3. QED
      BY <2>2
  <1>25. Schema(out) = Schema(cols)
    BY <1>16, <1>17, SameSchema DEF SameSeries
  <1>26. SameFrame(f, cols)
    BY <1>1, <1>16, <1>17, <1>23, <1>24, <1>25 DEF SameFrame
  <1>27. QED
    BY <1>10, <1>21, <1>26

-----------------------------------------------------------------------------
(* Columns side by side                                                    *)

Beside(cols, last, first) == ConcatHorizontal(<<SubSeq(cols, 1, last), SubSeq(cols, first, Len(cols))>>)

Joint(cols, last, first) == SubSeq(cols, 1, last) \o SubSeq(cols, first, Len(cols))

LEMMA TwoFlatten ==
  ASSUME NEW x, NEW y
  PROVE  FlattenSeq(<<x, y>>) = x \o y
  <1>1. PICK ss : ss = <<x, y>>
    OBVIOUS
  <1>2. Len(ss) = 2 /\ ss[1] = x /\ ss[2] = y /\ 2 \in Nat \ {0}
    BY <1>1
  <1>3. PICK f : IsFlatten(f, ss, 2) /\ FlattenSeq(ss) = f[2]
    BY <1>2, FlattenIsLast
  <1>4. 1 \in 1 .. 2 /\ 2 \in 1 .. 2 /\ 2 # 1 /\ 2 - 1 = 1
    OBVIOUS
  <1>5. f[1] = ss[1]
    BY <1>3, <1>4 DEF IsFlatten
  <1>6. f[2] = f[2 - 1] \o ss[2]
    BY <1>3, <1>4 DEF IsFlatten
  <1>7. QED
    BY <1>1, <1>2, <1>3, <1>4, <1>5, <1>6

LEMMA JointIs ==
  ASSUME NEW cols, IsFrame(cols), NEW last \in DOMAIN cols, NEW first \in DOMAIN cols
  PROVE  LET z == Joint(cols, last, first)
             n == Len(cols)
         IN /\ DOMAIN z = 1 .. last + (n - first + 1)
            /\ \A i \in 1 .. last : z[i] = cols[i]
            /\ \A k \in 1 .. n - first + 1 : z[last + k] = cols[first + k - 1]
  <1>1. PICK n : n = Len(cols)
    OBVIOUS
  <1>2. n \in Nat \ {0} /\ cols = [c \in 1 .. n |-> cols[c]]
    BY <1>1 DEF IsFrame
  <1>3. PICK T : T = {cols[c] : c \in 1 .. n}
    OBVIOUS
  <1>4. cols \in Seq(T) /\ last \in 1 .. n /\ first \in 1 .. n
    BY <1>2, <1>3
  <1>5. PICK x : x = SubSeq(cols, 1, last)
    OBVIOUS
  <1>6. x \in Seq(T) /\ Len(x) = last /\ \A i \in 1 .. last : x[i] = cols[i]
    BY <1>1, <1>4, <1>5
  <1>7. PICK y : y = SubSeq(cols, first, n)
    OBVIOUS
  <1>8. y \in Seq(T) /\ Len(y) = n - first + 1 /\ \A k \in 1 .. n - first + 1 : y[k] = cols[first + k - 1]
    BY <1>1, <1>2, <1>4, <1>7
  <1>9. PICK z : z = x \o y
    OBVIOUS
  <1>10. /\ DOMAIN z = 1 .. last + (n - first + 1)
         /\ \A i \in 1 .. last : z[i] = x[i]
         /\ \A k \in 1 .. n - first + 1 : z[last + k] = y[k]
    BY <1>6, <1>8, <1>9, ConcatAt
  <1>11. Joint(cols, last, first) = z
    BY <1>1, <1>5, <1>7, <1>9 DEF Joint
  <1>12. QED
    BY <1>1, <1>6, <1>8, <1>10, <1>11

(* No column twice, and all of them if there is none                       *)
BesideIs(f, cols, last, first) ==
  IF first <= last THEN f = nil
  ELSE /\ f.cols = Joint(cols, last, first)
       /\ \A c \in DOMAIN f.cols : \E d \in DOMAIN cols : f.cols[c] = cols[d]

(* Two runs of columns that do not meet keep their places apart            *)
RunPlace(last, first, i) == IF i <= last THEN i ELSE first + (i - last) - 1

LEMMA TwoRuns ==
  ASSUME NEW last \in Int, NEW first \in Int, last < first, NEW i \in Int, NEW j \in Int,
         RunPlace(last, first, i) = RunPlace(last, first, j)
  PROVE  i = j
  <1>1. CASE i <= last
    BY <1>1 DEF RunPlace
  <1>2. CASE ~(i <= last)
    BY <1>2 DEF RunPlace
  <1>3. QED
    BY <1>1, <1>2

LEMMA FrameBeside ==
  ASSUME NEW cols, IsFrame(cols), NEW last \in DOMAIN cols, NEW first \in DOMAIN cols
  PROVE  BesideIs(Beside(cols, last, first), cols, last, first)
  <1>1. PICK n : n = Len(cols)
    OBVIOUS
  <1>2. n \in Nat \ {0} /\ last \in 1 .. n /\ first \in 1 .. n /\ DOMAIN cols = 1 .. n
    BY <1>1 DEF IsFrame
  <1>3. PICK z : z = Joint(cols, last, first)
    OBVIOUS
  <1>4. /\ DOMAIN z = 1 .. last + (n - first + 1)
        /\ \A i \in 1 .. last : z[i] = cols[i]
        /\ \A k \in 1 .. n - first + 1 : z[last + k] = cols[first + k - 1]
    BY <1>1, <1>3, JointIs
  <1>5. PICK f : f = Beside(cols, last, first)
    OBVIOUS
  <1>6. f = New(z)
    BY <1>3, <1>5, TwoFlatten DEF Beside, Joint, ConcatHorizontal
  <1>7. CASE first <= last
    <2>1. first \in 1 .. last /\ 1 \in 1 .. n - first + 1 /\ first + 1 - 1 = first /\ first # last + 1
          /\ first \in 1 .. last + (n - first + 1) /\ last + 1 \in 1 .. last + (n - first + 1)
      BY <1>2, <1>7
    <2>2. z[first] = cols[first]
      BY <1>4, <2>1
    <2>3. z[last + 1] = cols[first]
      <3>1. z[last + 1] = cols[first + 1 - 1]
        BY <1>4, <2>1
      <3>2. QED
        BY <2>1, <3>1
    <2>4. first \in DOMAIN z /\ last + 1 \in DOMAIN z /\ z[first].name = z[last + 1].name
      BY <1>4, <2>1, <2>2, <2>3
    <2>5. ~\A c, d \in DOMAIN z :
             z[c].arr.length = z[d].arr.length /\ (z[c].name = z[d].name => c = d)
      BY <2>1, <2>4
    <2>6. f = nil
      BY <1>6, <2>5 DEF New
    <2>7. QED
      BY <1>5, <1>7, <2>6 DEF BesideIs
  <1>8. CASE ~(first <= last)
    <2>1. PICK g : g = [i \in DOMAIN z |-> RunPlace(last, first, i)]
      OBVIOUS
    <2>2. ASSUME NEW i \in DOMAIN z PROVE g[i] \in 1 .. n /\ z[i] = cols[g[i]]
      <3>1. i \in 1 .. last + (n - first + 1)
        BY <1>4
      <3>2. CASE i <= last
        <4>1. g[i] = i /\ i \in 1 .. last
          BY <2>1, <3>1, <3>2 DEF RunPlace
        <4>2. QED
          BY <1>2, <1>4, <4>1
      <3>3. CASE ~(i <= last)
        <4>1. PICK k : k = i - last
          OBVIOUS
        <4>2. k \in 1 .. n - first + 1 /\ last + k = i
          BY <1>2, <3>1, <3>3, <4>1
        <4>3. g[i] = first + k - 1
          BY <2>1, <3>3, <4>1 DEF RunPlace
        <4>4. z[last + k] = cols[first + k - 1]
          BY <1>4, <4>2
        <4>5. first + k - 1 \in 1 .. n
          BY <1>2, <4>2
        <4>6. QED
          BY <4>2, <4>3, <4>4, <4>5
      <3>4. QED
        BY <3>2, <3>3
    <2>3. ASSUME NEW i \in DOMAIN z, NEW j \in DOMAIN z, g[i] = g[j] PROVE i = j
      <3>1. i \in 1 .. last + (n - first + 1) /\ j \in 1 .. last + (n - first + 1)
        BY <1>4
      <3>2. g[i] = RunPlace(last, first, i) /\ g[j] = RunPlace(last, first, j)
        BY <2>1
      <3>3. i \in Int /\ j \in Int /\ last \in Int /\ first \in Int /\ last < first
        BY <1>2, <1>8, <3>1
      <3>4. RunPlace(last, first, i) = RunPlace(last, first, j)
        BY <2>3, <3>2
      <3>5. QED
        BY <3>3, <3>4, TwoRuns
    <2>4. \A c, d \in DOMAIN z : z[c].arr.length = z[d].arr.length /\ (z[c].name = z[d].name => c = d)
      <3> SUFFICES ASSUME NEW c \in DOMAIN z, NEW d \in DOMAIN z
                   PROVE  z[c].arr.length = z[d].arr.length /\ (z[c].name = z[d].name => c = d)
        OBVIOUS
      <3>1. g[c] \in DOMAIN cols /\ g[d] \in DOMAIN cols /\ z[c] = cols[g[c]] /\ z[d] = cols[g[d]]
        BY <1>2, <2>2
      <3>2. cols[g[c]].arr.length = Height(cols) /\ cols[g[d]].arr.length = Height(cols)
            /\ (cols[g[c]].name = cols[g[d]].name => g[c] = g[d])
        BY <3>1 DEF IsFrame
      <3>3. QED
        BY <2>3, <3>1, <3>2
    <2>5. f = [cols |-> z, height |-> Height(z)]
      BY <1>6, <2>4 DEF New
    <2>6. f.cols = z
      BY <2>5
    <2>7. \A c \in DOMAIN z : \E d \in DOMAIN cols : z[c] = cols[d]
      BY <1>2, <2>2
    <2>8. QED
      BY <1>3, <1>5, <1>8, <2>6, <2>7 DEF BesideIs
  <1>9. QED
    BY <1>7, <1>8

-----------------------------------------------------------------------------
(* Columns built of cells                                                  *)

(* The bitmaps of a column have its length.                                *)
BitmapsFit(s) ==
  /\ s.arr.length \in Nat
  /\ s.arr.validity = nil \/ IsBitmapOf(s.arr.validity, s.arr.length)
  /\ s.dtype = "Boolean" => IsBitmapOf(s.arr.data, s.arr.length)

LEMMA SeriesFits ==
  ASSUME NEW s, IsSeries(s)
  PROVE  BitmapsFit(s)
  <1>1. IsArray(s.dtype, s.arr)
    BY DEF IsSeries
  <1>2. s.dtype = "Boolean" => IsBoolean(s.arr)
    BY <1>1 DEF IsArray
  <1>3. QED
    BY <1>1, <1>2 DEF IsArray, IsBoolean, BitmapsFit

ValueAs(dtype, cells, i) == IF cells[i + 1] = Null THEN Zero(dtype) ELSE cells[i + 1]
NullPlaces(cells) == {k - 1 : k \in {k \in 1 .. Len(cells) : cells[k] = Null}}
TruePlaces(dtype, cells) == {i \in 0 .. Len(cells) - 1 : ValueAs(dtype, cells, i)}
BuiltValues(dtype, cells) == [i \in 0 .. Len(cells) - 1 |-> ValueAs(dtype, cells, i)]
BuiltTexts(dtype, cells) == [k \in 1 .. Len(cells) |-> ValueAs(dtype, cells, k - 1)]
BuiltBytes(dtype, cells) ==
  LET bytes == FlattenSeq(BuiltTexts(dtype, cells)) IN [p \in 0 .. Len(bytes) - 1 |-> bytes[p + 1]]
IsBuiltEnds(f, dtype, cells) ==
  f = [k \in 0 .. Len(cells) |-> IF k = 0 THEN 0 ELSE f[k - 1] + Len(ValueAs(dtype, cells, k - 1))]
BuiltEnds(dtype, cells) == CHOOSE f : IsBuiltEnds(f, dtype, cells)
BuiltValidity(cells) == ClearAll(NewBitmap(Len(cells)), NullPlaces(cells))

BuiltArray(dtype, cells) ==
  CASE dtype = "Boolean" ->
         BooleanArray(SetAll(NewEmpty(Len(cells)), TruePlaces(dtype, cells)), BuiltValidity(cells))
    [] dtype = "String" ->
         StringArray(BuiltBytes(dtype, cells), BuiltEnds(dtype, cells), BuiltValidity(cells))
    [] OTHER -> TypedArray(BuiltValues(dtype, cells), BuiltValidity(cells))

LEMMA BuildUnfolds ==
  ASSUME NEW name, NEW dtype, NEW cells
  PROVE  Build(name, dtype, cells) = Series(name, dtype, BuiltArray(dtype, cells))
  BY DEF Build, BuiltArray, BuiltBytes, BuiltTexts, BuiltEnds, IsBuiltEnds, BuiltValues, TruePlaces,
         BuiltValidity, NullPlaces, ValueAs

LEMMA BuiltEndsAre ==
  ASSUME NEW dtype, NEW cells, NEW n \in Nat, Len(cells) = n
  PROVE  IsBuiltEnds(BuiltEnds(dtype, cells), dtype, cells)
  <1>1. PICK len : len = [k \in 1 .. n |-> Len(ValueAs(dtype, cells, k - 1))]
    OBVIOUS
  <1>2. PICK f : IsTotal(f, len, n)
    BY TotalExists
  <1>3. f = [k \in 0 .. n |-> IF k = 0 THEN 0 ELSE f[k - 1] + len[k]]
    BY <1>2 DEF IsTotal
  <1>4. ASSUME NEW k \in 0 .. n
        PROVE  f[k] = IF k = 0 THEN 0 ELSE f[k - 1] + Len(ValueAs(dtype, cells, k - 1))
    <2>1. f[k] = IF k = 0 THEN 0 ELSE f[k - 1] + len[k]
      BY <1>3
    <2>2. CASE k = 0
      BY <2>1, <2>2
    <2>3. CASE k # 0
      <3>1. k \in 1 .. n
        BY <2>3
      <3>2. QED
        BY <1>1, <2>1, <2>3, <3>1
    <2>4. QED
      BY <2>2, <2>3
  <1>5. f = [k \in 0 .. n |-> f[k]]
    BY <1>3
  <1>6. f = [k \in 0 .. n |-> IF k = 0 THEN 0 ELSE f[k - 1] + Len(ValueAs(dtype, cells, k - 1))]
    BY Zenon, <1>4, <1>5
  <1>7. IsBuiltEnds(f, dtype, cells)
    BY <1>6 DEF IsBuiltEnds
  <1>8. QED
    BY <1>7 DEF BuiltEnds

LEMMA BuiltValid ==
  ASSUME NEW cells, NEW n \in Nat, Len(cells) = n
  PROVE  /\ IsBitmapOf(BuiltValidity(cells), n)
         /\ \A k \in 1 .. n : IsSet(BuiltValidity(cells), k - 1) <=> cells[k] # Null
  <1>1. PICK b, S : b = NewBitmap(n) /\ S = NullPlaces(cells)
    OBVIOUS
  <1>2. IsBitmap(b) /\ b.len = n /\ \A i \in 0 .. n - 1 : IsSet(b, i)
    BY <1>1, NewBits DEF IsBitmapOf
  <1>3. S \subseteq 0 .. b.len - 1
    BY <1>1, <1>2 DEF NullPlaces
  <1>4. PICK v : v = ClearAll(b, S)
    OBVIOUS
  <1>5. IsBitmapOf(v, n) /\ \A i \in 0 .. n - 1 : IsSet(v, i) <=> IsSet(b, i) /\ i \notin S
    <2>1. /\ IsBitmapOf(ClearAll(b, S), b.len)
          /\ \A i \in 0 .. b.len - 1 : IsSet(ClearAll(b, S), i) <=> IsSet(b, i) /\ i \notin S
      BY <1>2, <1>3, BitsCleared
    <2>2. QED
      BY <1>2, <1>4, <2>1
  <1>6. BuiltValidity(cells) = v
    BY <1>1, <1>4 DEF BuiltValidity
  <1>7. ASSUME NEW k \in 1 .. n PROVE IsSet(v, k - 1) <=> cells[k] # Null
    <2>1. k - 1 \in 0 .. n - 1
      OBVIOUS
    <2>2. k - 1 \in S <=> cells[k] = Null
      <3>1. ASSUME cells[k] = Null PROVE k - 1 \in S
        BY <1>1, <3>1 DEF NullPlaces
      <3>2. ASSUME k - 1 \in S PROVE cells[k] = Null
        <4>1. PICK j \in 1 .. n : cells[j] = Null /\ k - 1 = j - 1
          BY <1>1, <3>2 DEF NullPlaces
        <4>2. j = k
          BY <4>1
        <4>3. QED
          BY <4>1, <4>2
      <3>3. QED
        BY <3>1, <3>2
    <2>3. QED
      BY <1>2, <1>5, <2>1, <2>2
  <1>8. QED
    BY <1>5, <1>6, <1>7

BuiltBits(dtype, cells) == SetAll(NewEmpty(Len(cells)), TruePlaces(dtype, cells))

LEMMA BuiltData ==
  ASSUME NEW dtype, NEW cells, NEW n \in Nat, Len(cells) = n
  PROVE  /\ IsBitmapOf(BuiltBits(dtype, cells), n)
         /\ \A k \in 1 .. n : IsSet(BuiltBits(dtype, cells), k - 1) <=> ValueAs(dtype, cells, k - 1)
  <1>1. PICK b, S : b = NewEmpty(n) /\ S = TruePlaces(dtype, cells)
    OBVIOUS
  <1>2. IsBitmap(b) /\ b.len = n /\ \A i \in 0 .. n - 1 : ~IsSet(b, i)
    BY <1>1, EmptyBits DEF IsBitmapOf
  <1>3. S \subseteq 0 .. b.len - 1
    BY <1>1, <1>2 DEF TruePlaces
  <1>4. PICK v : v = SetAll(b, S)
    OBVIOUS
  <1>5. IsBitmapOf(v, n) /\ \A i \in 0 .. n - 1 : IsSet(v, i) <=> IsSet(b, i) \/ i \in S
    <2>1. /\ IsBitmapOf(SetAll(b, S), b.len)
          /\ \A i \in 0 .. b.len - 1 : IsSet(SetAll(b, S), i) <=> IsSet(b, i) \/ i \in S
      BY <1>2, <1>3, BitsSet
    <2>2. QED
      BY <1>2, <1>4, <2>1
  <1>6. BuiltBits(dtype, cells) = v
    BY <1>1, <1>4 DEF BuiltBits
  <1>7. ASSUME NEW k \in 1 .. n PROVE IsSet(v, k - 1) <=> ValueAs(dtype, cells, k - 1)
    <2>1. k - 1 \in 0 .. n - 1
      OBVIOUS
    <2>2. k - 1 \in S <=> ValueAs(dtype, cells, k - 1)
      BY <1>1, <2>1 DEF TruePlaces
    <2>3. QED
      BY <1>2, <1>5, <2>1, <2>2
  <1>8. QED
    BY <1>5, <1>6, <1>7

LEMMA BuiltFits ==
  ASSUME NEW name, NEW dtype, NEW cells, NEW n \in Nat, Len(cells) = n
  PROVE  LET s == Build(name, dtype, cells)
         IN /\ s = Series(name, dtype, BuiltArray(dtype, cells))
            /\ s.name = name /\ s.dtype = dtype /\ s.arr.length = n
            /\ s.arr.validity = BuiltValidity(cells) /\ BitmapsFit(s)
  <1>1. PICK a, v, s : a = BuiltArray(dtype, cells) /\ v = BuiltValidity(cells) /\ s = Build(name, dtype, cells)
    OBVIOUS
  <1>2. s = Series(name, dtype, a) /\ s.name = name /\ s.dtype = dtype /\ s.arr = a
    BY <1>1, BuildUnfolds DEF Series
  <1>3. IsBitmapOf(v, n)
    BY <1>1, BuiltValid
  <1>4. a.length = n /\ a.validity = v /\ (dtype = "Boolean" => IsBitmapOf(a.data, n))
    <2>1. CASE dtype = "Boolean"
      <3>1. a = BooleanArray(BuiltBits(dtype, cells), v)
        BY <1>1, <2>1 DEF BuiltArray, BuiltBits
      <3>2. IsBitmapOf(BuiltBits(dtype, cells), n)
        BY BuiltData
      <3>3. QED
        BY <3>1, <3>2 DEF BooleanArray, IsBitmapOf
    <2>2. CASE dtype = "String"
      <3>1. PICK f : f = BuiltEnds(dtype, cells)
        OBVIOUS
      <3>2. a = StringArray(BuiltBytes(dtype, cells), f, v)
        BY <1>1, <2>2, <3>1 DEF BuiltArray
      <3>3. IsBuiltEnds(f, dtype, cells)
        BY <3>1, BuiltEndsAre
      <3>4. DOMAIN f = 0 .. (n + 1) - 1
        BY <3>3 DEF IsBuiltEnds
      <3>5. Cardinality(0 .. (n + 1) - 1) = n + 1
        <4>1. n + 1 \in Nat
          OBVIOUS
        <4>2. QED
          BY <4>1, RowCount
      <3>6. Cardinality(DOMAIN f) - 1 = n
        BY <3>4, <3>5
      <3>7. QED
        BY <2>2, <3>2, <3>6 DEF StringArray
    <2>3. CASE dtype \notin {"Boolean", "String"}
      <3>1. PICK f : f = BuiltValues(dtype, cells)
        OBVIOUS
      <3>2. a = TypedArray(f, v)
        BY <1>1, <2>3, <3>1 DEF BuiltArray
      <3>3. DOMAIN f = 0 .. n - 1
        BY <3>1 DEF BuiltValues
      <3>4. Cardinality(DOMAIN f) = n
        BY <3>3, RowCount
      <3>5. QED
        BY <2>3, <3>2, <3>4 DEF TypedArray
    <2>4. QED
      BY <2>1, <2>2, <2>3
  <1>5. BitmapsFit(s)
    BY <1>2, <1>3, <1>4 DEF BitmapsFit
  <1>6. QED
    BY <1>1, <1>2, <1>4, <1>5

(* NewString, without the validity                                         *)
LEMMA NewStringFits ==
  ASSUME NEW name, NEW texts, NEW n \in Nat, Len(texts) = n
  PROVE  LET s == NewString(name, texts)
         IN /\ s.name = name /\ s.dtype = "String" /\ s.arr.length = n /\ s.arr.validity = nil
            /\ s.arr.bytes = Build(name, "String", texts).arr.bytes
            /\ s.arr.offsets = Build(name, "String", texts).arr.offsets
            /\ BitmapsFit(s)
  <1>1. PICK b, s : b = Build(name, "String", texts) /\ s = NewString(name, texts)
    OBVIOUS
  <1>2. b = Series(name, "String", BuiltArray("String", texts)) /\ b.arr.length = n
    BY <1>1, BuiltFits
  <1>3. PICK y, o, v : BuiltArray("String", texts) = StringArray(y, o, v)
    BY DEF BuiltArray
  <1>4. s = [b EXCEPT !.arr.validity = nil]
    BY <1>1 DEF NewString
  <1>5. PICK l : b = [name |-> name, dtype |-> "String",
                      arr |-> [bytes |-> y, offsets |-> o, validity |-> v, length |-> l]]
    BY <1>2, <1>3 DEF Series, StringArray
  <1>6. s = [name |-> name, dtype |-> "String",
             arr |-> [bytes |-> y, offsets |-> o, validity |-> nil, length |-> l]]
    BY <1>4, <1>5
  <1>7. l = n
    BY <1>2, <1>5
  <1>8. BitmapsFit(s)
    BY <1>6, <1>7 DEF BitmapsFit
  <1>9. QED
    BY <1>1, <1>5, <1>6, <1>7, <1>8

(* A cell a column of the data type can have                               *)
CellFits(dtype, cell) ==
  cell = Null \/ CASE dtype = "Boolean" -> cell \in BOOLEAN
                   [] dtype = "String" -> IsList(cell)
                   [] OTHER -> TRUE

(* The bytes of the texts are one after the other.                         *)
LEMMA BuiltText ==
  ASSUME NEW cells, NEW n \in Nat, Len(cells) = n,
         \A k \in 1 .. n : CellFits("String", cells[k]), NEW v,
         NEW a, a = StringArray(BuiltBytes("String", cells), BuiltEnds("String", cells), v)
  PROVE  \A k \in 1 .. n : BytesOf(a, k - 1) = ValueAs("String", cells, k - 1)
  <1>1. PICK ss, ends, s : /\ ss = BuiltTexts("String", cells) /\ ends = BuiltEnds("String", cells)
                           /\ s = FlattenSeq(ss)
    OBVIOUS
  <1>2. DOMAIN ss = 1 .. n /\ ss = [k \in 1 .. n |-> ss[k]]
        /\ \A k \in 1 .. n : ss[k] = ValueAs("String", cells, k - 1)
    BY <1>1 DEF BuiltTexts
  <1>3. ASSUME NEW k \in 1 .. n PROVE IsList(ss[k])
    <2>1. ss[k] = IF cells[k] = Null THEN <<>> ELSE cells[k]
      <3>1. (k - 1) + 1 = k
        OBVIOUS
      <3>2. Zero("String") = <<>>
        BY DEF Zero
      <3>3. QED
        BY <1>2, <3>1, <3>2 DEF ValueAs
    <2>2. IsList(<<>>)
      BY DEF IsList
    <2>3. cells[k] = Null \/ IsList(cells[k])
      BY DEF CellFits
    <2>4. QED
      BY <2>1, <2>2, <2>3
  <1>4. IsBuiltEnds(ends, "String", cells)
    BY <1>1, BuiltEndsAre
  <1>5. ends[0] = 0 /\ \A k \in 1 .. n : ends[k] = ends[k - 1] + Len(ss[k])
    <2>1. \A k \in 0 .. n : ends[k] = IF k = 0 THEN 0 ELSE ends[k - 1] + Len(ValueAs("String", cells, k - 1))
      BY <1>4 DEF IsBuiltEnds
    <2>2. ends[0] = 0
      BY <2>1
    <2>3. ASSUME NEW k \in 1 .. n PROVE ends[k] = ends[k - 1] + Len(ss[k])
      <3>1. k \in 0 .. n /\ k # 0
        OBVIOUS
      <3>2. QED
        BY <1>2, <2>1, <3>1
    <2>4. QED
      BY <2>2, <2>3
  <1>6. ListsAt(ss, n, ends)
    BY <1>2, <1>3, <1>5 DEF ListsAt
  <1>7. Flattened(s, ss, ends, n)
    BY <1>1, <1>6, FlattenPlaces
  <1>8. PICK bytes : bytes = BuiltBytes("String", cells)
    OBVIOUS
  <1>9. bytes = [p \in 0 .. Len(s) - 1 |-> s[p + 1]]
    BY <1>1, <1>8 DEF BuiltBytes
  <1>10. a.bytes = bytes /\ a.offsets = ends
    BY <1>1, <1>8 DEF StringArray
  <1>11. ASSUME NEW k \in 1 .. n PROVE BytesOf(a, k - 1) = ss[k]
    <2>1. k \in 0 .. n /\ k - 1 \in 0 .. n /\ (k - 1) + 1 = k
      OBVIOUS
    <2>2. PICK b, e, l : b = ends[k - 1] /\ e = ends[k] /\ l = Len(ss[k])
      OBVIOUS
    <2>3. /\ b \in Nat /\ e \in Nat /\ e = b + l /\ l \in Nat /\ e <= Len(s) /\ Len(s) \in Nat
      BY <1>3, <1>5, <1>7, <2>1, <2>2 DEF Flattened, IsList
    <2>4. BytesOf(a, k - 1) = [j \in 1 .. a.offsets[(k - 1) + 1] - a.offsets[k - 1] |-> a.bytes[a.offsets[k - 1] + j - 1]]
      BY DEF BytesOf
    <2>5. BytesOf(a, k - 1) = [j \in 1 .. e - b |-> bytes[b + j - 1]]
      BY <1>10, <2>1, <2>2, <2>4
    <2>6. e - b = l
      BY <2>3
    <2>7. ASSUME NEW j \in 1 .. l PROVE bytes[b + j - 1] = ss[k][j]
      <3>1. b + j - 1 \in 0 .. Len(s) - 1 /\ (b + j - 1) + 1 = b + j
        BY <2>3
      <3>2. bytes[b + j - 1] = s[b + j]
        BY <1>9, <3>1
      <3>3. s[b + j] = ss[k][j]
        BY <1>7, <2>2 DEF Flattened
      <3>4. QED
        BY <3>2, <3>3
    <2>8. ss[k] = [j \in 1 .. l |-> ss[k][j]]
      BY <1>3, <2>2 DEF IsList
    <2>9. QED
      BY <2>5, <2>6, <2>7, <2>8
  <1>12. QED
    BY <1>2, <1>11

LEMMA BuiltCells ==
  ASSUME NEW name, NEW dtype, NEW cells, NEW n \in Nat, Len(cells) = n,
         \A k \in 1 .. n : CellFits(dtype, cells[k])
  PROVE  \A k \in 1 .. n : Cell(Build(name, dtype, cells), k - 1) = cells[k]
  <1>1. PICK s, a, v : s = Build(name, dtype, cells) /\ a = BuiltArray(dtype, cells) /\ v = BuiltValidity(cells)
    OBVIOUS
  <1>2. s = Series(name, dtype, a) /\ s.arr.validity = v
    BY <1>1, BuiltFits
  <1>3. s.arr = a /\ s.dtype = dtype /\ a.validity = v
    BY <1>2 DEF Series
  <1>4. IsBitmapOf(v, n) /\ \A k \in 1 .. n : IsSet(v, k - 1) <=> cells[k] # Null
    BY <1>1, BuiltValid
  <1>5. v # nil
    BY <1>4, NilIsNoBitmap DEF IsBitmapOf
  <1> SUFFICES ASSUME NEW k \in 1 .. n PROVE Cell(s, k - 1) = cells[k]
    BY <1>1
  <1>6. IsNull(s.arr, k - 1) <=> cells[k] = Null
    BY <1>3, <1>4, <1>5 DEF IsNull
  <1>7. CASE cells[k] = Null
    BY <1>6, <1>7 DEF Cell
  <1>8. CASE cells[k] # Null
    <2>1. Cell(s, k - 1) = Value(s, k - 1)
      BY <1>6, <1>8 DEF Cell
    <2>2. ValueAs(dtype, cells, k - 1) = cells[k]
      <3>1. (k - 1) + 1 = k
        OBVIOUS
      <3>2. QED
        BY <1>8, <3>1 DEF ValueAs
    <2>3. CASE dtype = "Boolean"
      <3>1. a.data = BuiltBits(dtype, cells)
        BY <1>1, <2>3 DEF BuiltArray, BuiltBits, BooleanArray
      <3>2. IsSet(a.data, k - 1) <=> cells[k]
        BY <2>2, <3>1, BuiltData
      <3>3. IsBitmapOf(a.data, n)
        BY <3>1, BuiltData
      <3>4. IsSet(a.data, k - 1) \in BOOLEAN
        <4>1. InRange(a.data, k - 1)
          BY <3>3 DEF IsBitmapOf, InRange
        <4>2. QED
          BY <4>1 DEF IsSet
      <3>5. cells[k] \in BOOLEAN
        BY <1>8, <2>3 DEF CellFits
      <3>6. Value(s, k - 1) = IsSet(a.data, k - 1)
        BY <1>3, <2>3 DEF Value
      <3>7. QED
        BY <2>1, <3>2, <3>4, <3>5, <3>6
    <2>4. CASE dtype = "String"
      <3>1. a = StringArray(BuiltBytes("String", cells), BuiltEnds("String", cells), v)
        BY <1>1, <2>4 DEF BuiltArray
      <3>2. BytesOf(a, k - 1) = ValueAs("String", cells, k - 1)
        BY <2>4, <3>1, BuiltText
      <3>3. Value(s, k - 1) = BytesOf(a, k - 1)
        BY <1>3, <2>4 DEF Value
      <3>4. QED
        BY <2>1, <2>2, <2>4, <3>2, <3>3
    <2>5. CASE dtype \notin {"Boolean", "String"}
      <3>1. a.values = BuiltValues(dtype, cells)
        BY <1>1, <2>5 DEF BuiltArray, TypedArray
      <3>2. k - 1 \in 0 .. n - 1
        OBVIOUS
      <3>3. a.values[k - 1] = ValueAs(dtype, cells, k - 1)
        BY <3>1, <3>2 DEF BuiltValues
      <3>4. Value(s, k - 1) = a.values[k - 1]
        BY <1>3, <2>5 DEF Value
      <3>5. QED
        BY <2>1, <2>2, <3>3, <3>4
    <2>6. QED
      BY <2>3, <2>4, <2>5
  <1>9. QED
    BY <1>7, <1>8

-----------------------------------------------------------------------------
(* Data frames made of such columns                                        *)

AllFit(cols) == IsList(cols) /\ \A c \in 1 .. Len(cols) : BitmapsFit(cols[c])

FrameFits(f) == f = nil \/ AllFit(f.cols)

LEMMA FitEach ==
  ASSUME NEW n \in Nat, NEW cols, DOMAIN cols = 1 .. n, cols = [c \in 1 .. n |-> cols[c]],
         \A c \in 1 .. n : BitmapsFit(cols[c])
  PROVE  AllFit(cols) /\ Len(cols) = n
  <1>1. IsList(cols) /\ Len(cols) = n
    BY ListOf
  <1>2. QED
    BY <1>1 DEF AllFit

LEMMA FitTogether ==
  ASSUME NEW s, AllFit(s), NEW t, AllFit(t)
  PROVE  AllFit(s \o t) /\ Len(s \o t) = Len(s) + Len(t)
  <1>1. PICK z, l, m : z = s \o t /\ l = Len(s) /\ m = Len(t)
    OBVIOUS
  <1>2. IsList(s) /\ IsList(t)
    BY DEF AllFit
  <1>3. /\ IsList(s \o t) /\ Len(s \o t) = Len(s) + Len(t)
        /\ \A k \in 1 .. Len(s) : (s \o t)[k] = s[k]
        /\ \A k \in 1 .. Len(t) : (s \o t)[Len(s) + k] = t[k]
    BY <1>2, ListsConcat
  <1>4. IsList(z) /\ Len(z) = l + m /\ l \in Nat /\ m \in Nat
        /\ (\A k \in 1 .. l : z[k] = s[k]) /\ (\A k \in 1 .. m : z[l + k] = t[k])
    BY <1>1, <1>2, <1>3 DEF IsList
  <1>5. ASSUME NEW c \in 1 .. l + m PROVE BitmapsFit(z[c])
    <2>1. CASE c <= l
      <3>1. c \in 1 .. l
        BY <1>4, <2>1
      <3>2. QED
        BY <1>1, <1>4, <3>1 DEF AllFit
    <2>2. CASE ~(c <= l)
      <3>1. c - l \in 1 .. m /\ l + (c - l) = c
        BY <1>4, <2>2
      <3>2. z[c] = t[c - l]
        BY <1>4, <3>1
      <3>3. QED
        BY <1>1, <3>1, <3>2 DEF AllFit
    <2>3. QED
      BY <2>1, <2>2
  <1>6. QED
    BY <1>1, <1>4, <1>5 DEF AllFit

LEMMA NewKeepsColumns ==
  ASSUME NEW cols
  PROVE  New(cols) = nil \/ New(cols).cols = cols
  BY DEF New

LEMMA NewFits ==
  ASSUME NEW cols, AllFit(cols)
  PROVE  FrameFits(New(cols))
  BY NewKeepsColumns DEF FrameFits

LEMMA OneFits ==
  ASSUME NEW s, BitmapsFit(s)
  PROVE  AllFit(<<s>>) /\ Len(<<s>>) = 1
  <1>1. PICK t : t = <<s>>
    OBVIOUS
  <1>2. 1 \in Nat /\ DOMAIN t = 1 .. 1 /\ t = [c \in 1 .. 1 |-> t[c]] /\ \A c \in 1 .. 1 : t[c] = s
    BY <1>1
  <1>3. AllFit(t) /\ Len(t) = 1
    BY <1>2, FitEach
  <1>4. QED
    BY <1>1, <1>3

LEMMA TwoFit ==
  ASSUME NEW s, BitmapsFit(s), NEW r, BitmapsFit(r)
  PROVE  AllFit(<<s, r>>) /\ Len(<<s, r>>) = 2
  <1>1. PICK t : t = <<s, r>>
    OBVIOUS
  <1>2. 2 \in Nat /\ DOMAIN t = 1 .. 2 /\ t = [c \in 1 .. 2 |-> t[c]] /\ t[1] = s /\ t[2] = r
    BY <1>1
  <1>3. \A c \in 1 .. 2 : BitmapsFit(t[c])
    BY <1>2
  <1>4. AllFit(t) /\ Len(t) = 2
    BY <1>2, <1>3, FitEach
  <1>5. QED
    BY <1>1, <1>4

(* A column that is built has as many rows as cells.                       *)
LEMMA BuildFits ==
  ASSUME NEW name, NEW dtype, NEW n \in Nat, NEW cells, DOMAIN cells = 1 .. n,
         cells = [k \in 1 .. n |-> cells[k]]
  PROVE  BitmapsFit(Build(name, dtype, cells)) /\ BitmapsFit(NewString(name, cells))
  <1>1. Len(cells) = n
    BY ListOf
  <1>2. BitmapsFit(Build(name, dtype, cells))
    BY <1>1, BuiltFits
  <1>3. BitmapsFit(NewString(name, cells))
    BY <1>1, NewStringFits
  <1>4. QED
    BY <1>2, <1>3

LEMMA CopiedFits ==
  ASSUME NEW s, NEW rows, IsList(rows)
  PROVE  BitmapsFit(Copied(s, rows))
  <1>1. PICK cells : cells = [k \in DOMAIN rows |-> CellAs(s, rows[k], TypeBuilt(s.dtype))]
    OBVIOUS
  <1>2. Len(rows) \in Nat /\ DOMAIN rows = 1 .. Len(rows)
    BY DEF IsList
  <1>3. DOMAIN cells = 1 .. Len(rows) /\ cells = [k \in 1 .. Len(rows) |-> cells[k]]
    BY <1>1, <1>2
  <1>4. Copied(s, rows) = Build(s.name, TypeBuilt(s.dtype), cells)
    BY <1>1 DEF Copied
  <1>5. QED
    BY <1>2, <1>3, <1>4, BuildFits

LEMMA CopiedColumnsFit ==
  ASSUME NEW cols, NEW ids, IsList(ids), NEW rows, IsList(rows)
  PROVE  LET z == [k \in DOMAIN ids |-> Copied(cols[ids[k]], rows)]
         IN AllFit(z) /\ Len(z) = Len(ids)
  <1>1. PICK z : z = [k \in DOMAIN ids |-> Copied(cols[ids[k]], rows)]
    OBVIOUS
  <1>2. Len(ids) \in Nat /\ DOMAIN ids = 1 .. Len(ids)
    BY DEF IsList
  <1>3. \A k \in 1 .. Len(ids) : BitmapsFit(z[k])
    BY <1>1, <1>2, CopiedFits
  <1>4. DOMAIN z = 1 .. Len(ids) /\ z = [k \in 1 .. Len(ids) |-> z[k]]
    BY <1>1, <1>2
  <1>5. AllFit(z) /\ Len(z) = Len(ids)
    BY <1>2, <1>3, <1>4, FitEach
  <1>6. QED
    BY <1>1, <1>5

(* The rows Unpivot copies, once for every value column                    *)
MeltRows(cols, vals) == FlattenSeq([k \in DOMAIN vals |-> RowNumbers(cols)])
MeltSource(cols, vals, k) ==
  [i \in DOMAIN vals |-> cols[vals[i]]][((k - 1) \div Height(cols)) + 1]
MeltNames(cols, vals) == [k \in DOMAIN MeltRows(cols, vals) |-> MeltSource(cols, vals, k).name]
MeltType(cols, vals) == TypeBuilt(CommonType([i \in DOMAIN vals |-> cols[vals[i]]]))
MeltCells(cols, vals) ==
  [k \in DOMAIN MeltRows(cols, vals) |->
     CellAs(MeltSource(cols, vals, k), MeltRows(cols, vals)[k], MeltType(cols, vals))]

LEMMA UnpivotUnfolds ==
  ASSUME NEW cols, NEW ids, NEW vals
  PROVE  Unpivot(cols, ids, vals)
         = New([k \in DOMAIN ids |-> Copied(cols[ids[k]], MeltRows(cols, vals))]
               \o <<NewString(<<"variable">>, MeltNames(cols, vals)),
                    Build(<<"value">>, MeltType(cols, vals), MeltCells(cols, vals))>>)
  BY Zenon DEF Unpivot, MeltRows, MeltSource, MeltNames, MeltType, MeltCells

LEMMA MeltRowsList ==
  ASSUME NEW cols, Height(cols) \in Nat, NEW vals, IsList(vals)
  PROVE  IsList(MeltRows(cols, vals))
  <1>1. PICK rows, ss : rows = RowNumbers(cols) /\ ss = [k \in DOMAIN vals |-> RowNumbers(cols)]
    OBVIOUS
  <1>2. Len(vals) \in Nat /\ DOMAIN vals = 1 .. Len(vals)
    BY DEF IsList
  <1>3. IsList(rows)
    <2>1. DOMAIN rows = 1 .. Height(cols) /\ rows = [k \in 1 .. Height(cols) |-> rows[k]]
      BY <1>1 DEF RowNumbers
    <2>2. QED
      BY <2>1, ListOf
  <1>4. DOMAIN ss = 1 .. Len(vals) /\ ss = [k \in 1 .. Len(vals) |-> ss[k]] /\ \A k \in 1 .. Len(vals) : IsList(ss[k])
    BY <1>1, <1>2, <1>3
  <1>5. IsList(FlattenSeq(ss))
    BY <1>2, <1>4, FlattenIsList
  <1>6. QED
    BY <1>1, <1>5 DEF MeltRows

LEMMA UnpivotFits ==
  ASSUME NEW cols, Height(cols) \in Nat, NEW ids, IsList(ids), NEW vals, IsList(vals)
  PROVE  /\ FrameFits(Unpivot(cols, ids, vals))
         /\ Unpivot(cols, ids, vals) = nil \/ Len(Unpivot(cols, ids, vals).cols) = Len(ids) + 2
  <1>1. PICK rows, x : rows = MeltRows(cols, vals) /\ x = [k \in DOMAIN ids |-> Copied(cols[ids[k]], rows)]
    OBVIOUS
  <1>2. IsList(rows)
    BY <1>1, MeltRowsList
  <1>3. AllFit(x) /\ Len(x) = Len(ids)
    BY <1>1, <1>2, CopiedColumnsFit
  <1>4. PICK names, cells : names = MeltNames(cols, vals) /\ cells = MeltCells(cols, vals)
    OBVIOUS
  <1>5. PICK n : n = Len(rows)
    OBVIOUS
  <1>6. n \in Nat /\ DOMAIN rows = 1 .. n
    BY <1>2, <1>5 DEF IsList
  <1>7. DOMAIN names = 1 .. n /\ names = [k \in 1 .. n |-> names[k]]
    BY <1>1, <1>4, <1>6 DEF MeltNames
  <1>8. DOMAIN cells = 1 .. n /\ cells = [k \in 1 .. n |-> cells[k]]
    BY <1>1, <1>4, <1>6 DEF MeltCells
  <1>9. PICK s, r : s = NewString(<<"variable">>, names) /\ r = Build(<<"value">>, MeltType(cols, vals), cells)
    OBVIOUS
  <1>10. BitmapsFit(s) /\ BitmapsFit(r)
    BY <1>6, <1>7, <1>8, <1>9, BuildFits
  <1>11. PICK y : y = <<s, r>>
    OBVIOUS
  <1>12. AllFit(y) /\ Len(y) = 2
    BY <1>10, <1>11, TwoFit
  <1>13. PICK z : z = x \o y
    OBVIOUS
  <1>14. AllFit(z) /\ Len(z) = Len(ids) + 2
    BY <1>3, <1>12, <1>13, FitTogether
  <1>15. Unpivot(cols, ids, vals) = New(z)
    BY <1>1, <1>4, <1>9, <1>11, <1>13, UnpivotUnfolds
  <1>16. QED
    BY <1>14, <1>15, NewFits, NewKeepsColumns

(* Transpose: a column for every row                                       *)
TransposeType(cols) == IF CommonType(cols) = "Int64" THEN "Float64" ELSE CommonType(cols)
TransposeBuilt(cols) == IF TransposeType(cols) \in Buildable THEN TransposeType(cols) ELSE "Int64"
TurnedCells(cols, i) == [c \in DOMAIN cols |-> CellAs(cols[c], i, TransposeBuilt(cols))]
TurnedRow(cols, i) == Build(<<"column", i>>, TransposeBuilt(cols), TurnedCells(cols, i))
TurnedNames(cols) == NewString(<<"column">>, [c \in DOMAIN cols |-> cols[c].name])
Turned(cols) == <<TurnedNames(cols)>> \o [k \in 1 .. Height(cols) |-> TurnedRow(cols, k - 1)]

LEMMA TransposeUnfolds ==
  ASSUME NEW cols
  PROVE  \/ Height(cols) = 0 /\ Transpose(cols) = New(<<NewString(<<"column">>, <<>>)>>)
         \/ Height(cols) # 0 /\ Transpose(cols) = nil
         \/ Height(cols) # 0 /\ Transpose(cols) = New(Turned(cols))
  <1>1. CASE Height(cols) = 0
    BY <1>1 DEF Transpose
  <1>2. CASE Height(cols) # 0
    BY <1>2 DEF Transpose, Turned, TurnedNames, TurnedRow, TurnedCells, TransposeBuilt, TransposeType
  <1>3. QED
    BY <1>1, <1>2

LEMMA TransposeFits ==
  ASSUME NEW cols, IsList(cols), Height(cols) \in Nat
  PROVE  FrameFits(Transpose(cols))
  <1>1. PICK n, h : n = Len(cols) /\ h = Height(cols)
    OBVIOUS
  <1>2. n \in Nat /\ h \in Nat /\ DOMAIN cols = 1 .. n
    BY <1>1 DEF IsList
  <1>3. BitmapsFit(TurnedNames(cols))
    <2>1. PICK names : names = [c \in DOMAIN cols |-> cols[c].name]
      OBVIOUS
    <2>2. DOMAIN names = 1 .. n /\ names = [k \in 1 .. n |-> names[k]]
      BY <1>2, <2>1
    <2>3. BitmapsFit(NewString(<<"column">>, names))
      BY <1>2, <2>2, BuildFits
    <2>4. QED
      BY <2>1, <2>3 DEF TurnedNames
  <1>4. ASSUME NEW i PROVE BitmapsFit(TurnedRow(cols, i))
    <2>1. PICK cells : cells = TurnedCells(cols, i)
      OBVIOUS
    <2>2. DOMAIN cells = 1 .. n /\ cells = [k \in 1 .. n |-> cells[k]]
      BY <1>2, <2>1 DEF TurnedCells
    <2>3. BitmapsFit(Build(<<"column", i>>, TransposeBuilt(cols), cells))
      BY <1>2, <2>2, BuildFits
    <2>4. QED
      BY <2>1, <2>3 DEF TurnedRow
  <1>5. FrameFits(New(Turned(cols)))
    <2>1. PICK x, y, z : x = <<TurnedNames(cols)>> /\ y = [k \in 1 .. h |-> TurnedRow(cols, k - 1)] /\ z = x \o y
      OBVIOUS
    <2>2. AllFit(x)
      BY <1>3, <2>1, OneFits
    <2>3. AllFit(y)
      <3>1. DOMAIN y = 1 .. h /\ y = [k \in 1 .. h |-> y[k]] /\ \A k \in 1 .. h : BitmapsFit(y[k])
        BY <1>4, <2>1
      <3>2. QED
        BY <1>2, <3>1, FitEach
    <2>4. AllFit(z)
      BY <2>1, <2>2, <2>3, FitTogether
    <2>5. Turned(cols) = z
      BY <1>1, <2>1 DEF Turned
    <2>6. QED
      BY <2>4, <2>5, NewFits
  <1>6. FrameFits(New(<<NewString(<<"column">>, <<>>)>>))
    <2>1. PICK e : e = <<>>
      OBVIOUS
    <2>2. 0 \in Nat /\ DOMAIN e = 1 .. 0 /\ e = [k \in 1 .. 0 |-> e[k]]
      BY <2>1
    <2>3. BitmapsFit(NewString(<<"column">>, e))
      BY <2>2, BuildFits
    <2>4. QED
      BY <2>1, <2>3, OneFits, NewFits
  <1>7. FrameFits(nil)
    BY DEF FrameFits
  <1>8. QED
    BY <1>5, <1>6, <1>7, TransposeUnfolds

-----------------------------------------------------------------------------
(* The texts of a column, and the grid Pivot makes of them                 *)

NextText(s, acc, i) == IF TextOf(s, i) \in ToSet(acc) THEN acc ELSE Append(acc, TextOf(s, i))

AllRows(s) == [k \in 1 .. s.arr.length |-> k - 1]

IsTexts(f, s) ==
  f = [t \in SUBSET (DOMAIN AllRows(s)) |->
         IF t = {} THEN <<>> ELSE NextText(s, f[t \ {Max(t)}], AllRows(s)[Max(t)])]

LEMMA TextListUnfolds ==
  ASSUME NEW s
  PROVE  TextsInOrder(s) = (CHOOSE f : IsTexts(f, s))[DOMAIN AllRows(s)]
  BY DEF TextsInOrder, FoldLeft, MapThenFoldSet, IsTexts, NextText, AllRows

(* The texts after each row, from the first one to the last                *)
LEMMA TextSteps ==
  ASSUME NEW s, NEW n \in Nat, s.arr.length = n
  PROVE  \E f : /\ f[{}] = <<>> /\ TextsInOrder(s) = f[1 .. n]
                /\ \A k \in 1 .. n : f[1 .. k] = NextText(s, f[1 .. k - 1], k - 1)
                /\ \A k \in 0 .. n : f[1 .. k] \in Seq({TextOf(s, i) : i \in 0 .. n - 1})
  <1>1. PICK T, S : T = {TextOf(s, i) : i \in 0 .. n - 1} /\ S = Seq(T)
    OBVIOUS
  <1>2. PICK step : step = [k \in 1 .. n |-> [t \in S |-> NextText(s, t, k - 1)]]
    OBVIOUS
  <1>3. ASSUME NEW k \in 1 .. n, NEW t \in S PROVE NextText(s, t, k - 1) \in S
    <2>1. k - 1 \in 0 .. n - 1
      OBVIOUS
    <2>2. TextOf(s, k - 1) \in T
      BY <1>1, <2>1
    <2>3. Append(t, TextOf(s, k - 1)) \in S
      BY <1>1, <2>2
    <2>4. QED
      BY <2>3 DEF NextText
  <1>4. <<>> \in S
    BY <1>1
  <1>5. \A k \in 1 .. n : \A t \in S : step[k][t] = NextText(s, t, k - 1) /\ step[k][t] \in S
    BY <1>2, <1>3
  <1>6. PICK g : IsFold(g, <<>>, step, SUBSET (1 .. n)) /\ \A t \in SUBSET (1 .. n) : g[t] \in S
    BY <1>4, <1>5, FoldExists
  <1>7. DOMAIN AllRows(s) = 1 .. n /\ \A k \in 1 .. n : AllRows(s)[k] = k - 1
    BY DEF AllRows
  <1>8. IsTexts(g, s)
    <2>1. ASSUME NEW t \in SUBSET (1 .. n)
          PROVE  g[t] = IF t = {} THEN <<>> ELSE NextText(s, g[t \ {Max(t)}], AllRows(s)[Max(t)])
      <3>1. CASE t = {}
        BY <1>6, <3>1 DEF IsFold
      <3>2. CASE t # {}
        <4>1. Max(t) \in 1 .. n /\ t \ {Max(t)} \in SUBSET (1 .. n)
          BY <3>2, LastOfPositions
        <4>2. g[t] = step[Max(t)][g[t \ {Max(t)}]]
          BY <1>6, <3>2 DEF IsFold
        <4>3. AllRows(s)[Max(t)] = Max(t) - 1 /\ g[t \ {Max(t)}] \in S
          BY <1>6, <1>7, <4>1
        <4>4. QED
          BY <1>5, <3>2, <4>1, <4>2, <4>3
      <3>3. QED
        BY <3>1, <3>2
    <2>2. g = [t \in SUBSET (1 .. n) |-> g[t]]
      BY <1>6 DEF IsFold
    <2>3. QED
      BY <1>7, <2>1, <2>2 DEF IsTexts
  <1>9. PICK f : f = CHOOSE h : IsTexts(h, s)
    OBVIOUS
  <1>10. IsTexts(f, s)
    BY <1>8, <1>9
  <1>11. f[{}] = <<>>
    BY <1>10 DEF IsTexts
  <1>12. ASSUME NEW k \in 1 .. n PROVE f[1 .. k] = NextText(s, f[1 .. k - 1], k - 1)
    <2>1. 1 .. k \in SUBSET (1 .. n) /\ 1 .. k # {} /\ Max(1 .. k) = k /\ (1 .. k) \ {k} = 1 .. k - 1
      BY FirstPositions
    <2>2. f[1 .. k] = NextText(s, f[(1 .. k) \ {Max(1 .. k)}], AllRows(s)[Max(1 .. k)])
      BY <1>7, <1>10, <2>1 DEF IsTexts
    <2>3. QED
      BY <1>7, <2>1, <2>2
  <1>13. \A k \in 0 .. n : f[1 .. k] \in S
    <2> DEFINE P == {k \in 0 .. n : f[1 .. k] \in S}
    <2>1. 0 \in P
      <3>1. 1 .. 0 = {}
        OBVIOUS
      <3>2. QED
        BY <1>4, <1>11, <3>1
    <2>2. ASSUME NEW k \in P, k < n PROVE k + 1 \in P
      <3>1. k + 1 \in 1 .. n /\ (k + 1) - 1 = k /\ k + 1 \in 0 .. n
        BY <2>2
      <3>2. f[1 .. k + 1] = NextText(s, f[1 .. (k + 1) - 1], (k + 1) - 1)
        BY <1>12, <3>1
      <3>3. f[1 .. k + 1] = NextText(s, f[1 .. k], (k + 1) - 1)
        BY <3>1, <3>2
      <3>4. f[1 .. k + 1] \in S
        BY <1>3, <3>1, <3>3
      <3>5. QED
        BY <3>1, <3>4
    <2>3. 0 \in Int /\ n \in Int /\ 0 .. n # {}
      OBVIOUS
    <2> HIDE DEF P
    <2>4. 0 .. n \subseteq P
      <3>1. \A k \in P : k < n => k + 1 \in P
        BY <2>2
      <3>2. 0 \in P /\ n \in Nat
        BY <2>1
      <3>3. P \subseteq 0 .. n
        BY DEF P
      <3>4. QED
        BY <2>3, <3>1, <3>2, <3>3, IntervalInduction
    <2>5. QED
      BY <2>4 DEF P
  <1>14. TextsInOrder(s) = f[1 .. n]
    BY <1>7, <1>9, TextListUnfolds
  <1>15. QED
    BY <1>1, <1>11, <1>12, <1>13, <1>14

LEMMA TextsList ==
  ASSUME NEW s, s.arr.length \in Nat
  PROVE  IsList(TextsInOrder(s))
  <1>1. PICK n : n = s.arr.length
    OBVIOUS
  <1>2. PICK f : /\ TextsInOrder(s) = f[1 .. n]
                 /\ \A k \in 0 .. n : f[1 .. k] \in Seq({TextOf(s, i) : i \in 0 .. n - 1})
    BY <1>1, TextSteps
  <1>3. n \in 0 .. n
    BY <1>1
  <1>4. QED
    BY <1>2, <1>3, SeqIsList

GridRows(cols, index, columns, r, c) ==
  {i \in 0 .. Height(cols) - 1 : TextOf(cols[index], i) = r /\ TextOf(cols[columns], i) = c}

GridCell(cols, index, columns, values, r, c) ==
  IF GridRows(cols, index, columns, r, c) = {} \/ cols[values].dtype \notin Buildable THEN Null
  ELSE Cell(cols[values], FirstOf(GridRows(cols, index, columns, r, c)))

GridColumn(cols, index, columns, values, c) ==
  Build(c, TypeBuilt(cols[values].dtype),
        [k \in DOMAIN TextsInOrder(cols[index]) |->
           GridCell(cols, index, columns, values, TextsInOrder(cols[index])[k], c)])

Grid(cols, index, columns, values) ==
  <<NewString(cols[index].name, TextsInOrder(cols[index]))>>
  \o [k \in DOMAIN TextsInOrder(cols[columns]) |->
        GridColumn(cols, index, columns, values, TextsInOrder(cols[columns])[k])]

LEMMA PivotUnfolds ==
  ASSUME NEW cols, NEW index, NEW columns, NEW values
  PROVE  Pivot(cols, index, columns, values) = New(Grid(cols, index, columns, values))
  BY Zenon DEF Pivot, Grid, GridColumn, GridCell, GridRows

LEMMA PivotFits ==
  ASSUME NEW cols, NEW index, NEW columns, NEW values,
         cols[index].arr.length \in Nat, cols[columns].arr.length \in Nat
  PROVE  FrameFits(Pivot(cols, index, columns, values))
  <1>1. PICK t, u : t = TextsInOrder(cols[index]) /\ u = TextsInOrder(cols[columns])
    OBVIOUS
  <1>2. IsList(t) /\ IsList(u)
    BY <1>1, TextsList
  <1>3. PICK n, m : n = Len(t) /\ m = Len(u)
    OBVIOUS
  <1>4. /\ n \in Nat /\ DOMAIN t = 1 .. n /\ t = [k \in 1 .. n |-> t[k]]
        /\ m \in Nat /\ DOMAIN u = 1 .. m
    BY <1>2, <1>3 DEF IsList
  <1>5. PICK x : x = NewString(cols[index].name, t)
    OBVIOUS
  <1>6. BitmapsFit(x)
    BY <1>4, <1>5, BuildFits
  <1>7. ASSUME NEW c PROVE BitmapsFit(GridColumn(cols, index, columns, values, c))
    <2>1. PICK cells : cells = [k \in DOMAIN t |-> GridCell(cols, index, columns, values, t[k], c)]
      OBVIOUS
    <2>2. DOMAIN cells = 1 .. n /\ cells = [k \in 1 .. n |-> cells[k]]
      BY <1>4, <2>1
    <2>3. BitmapsFit(Build(c, TypeBuilt(cols[values].dtype), cells))
      BY <1>4, <2>2, BuildFits
    <2>4. QED
      BY <1>1, <2>1, <2>3 DEF GridColumn
  <1>8. PICK y : y = [k \in DOMAIN u |-> GridColumn(cols, index, columns, values, u[k])]
    OBVIOUS
  <1>9. AllFit(y)
    <2>1. DOMAIN y = 1 .. m /\ y = [k \in 1 .. m |-> y[k]] /\ \A k \in 1 .. m : BitmapsFit(y[k])
      BY <1>4, <1>7, <1>8
    <2>2. QED
      BY <1>4, <2>1, FitEach
  <1>10. PICK w : w = <<x>>
    OBVIOUS
  <1>11. AllFit(w)
    BY <1>6, <1>10, OneFits
  <1>12. AllFit(w \o y)
    BY <1>9, <1>11, FitTogether
  <1>13. Grid(cols, index, columns, values) = w \o y
    BY <1>1, <1>5, <1>8, <1>10 DEF Grid
  <1>14. QED
    BY <1>12, <1>13, NewFits, PivotUnfolds

-----------------------------------------------------------------------------
(* Pieces of texts                                                         *)

LEMMA TextCellList ==
  ASSUME NEW s, IsSeries(s), s.dtype = "String", NEW i \in 0 .. s.arr.length - 1, Cell(s, i) # Null
  PROVE  IsList(Cell(s, i))
  <1>1. PICK a, o : a = s.arr /\ o = a.offsets
    OBVIOUS
  <1>2. IsString(a) /\ a.length \in Nat
    BY <1>1 DEF IsSeries, IsArray
  <1>3. i \in 0 .. a.length /\ i + 1 \in 0 .. a.length /\ i \in 0 .. a.length - 1
    BY <1>1, <1>2
  <1>4. o \in [0 .. a.length -> Nat] /\ \A k \in 0 .. a.length - 1 : o[k] <= o[k + 1]
    BY <1>1, <1>2 DEF IsString
  <1>5. o[i] \in Nat /\ o[i + 1] \in Nat /\ o[i] <= o[i + 1]
    BY <1>3, <1>4
  <1>6. PICK m, t : m = o[i + 1] - o[i] /\ t = BytesOf(a, i)
    OBVIOUS
  <1>7. m \in Nat
    BY <1>5, <1>6
  <1>8. t = [k \in 1 .. m |-> a.bytes[o[i] + k - 1]]
    BY <1>1, <1>6 DEF BytesOf
  <1>9. DOMAIN t = 1 .. m /\ t = [k \in 1 .. m |-> t[k]]
    BY <1>8
  <1>10. IsList(t)
    BY <1>7, <1>9, ListOf
  <1>11. Cell(s, i) = t
    BY <1>1, <1>6 DEF Cell, Value
  <1>12. QED
    BY <1>10, <1>11

Commas(text) == {k \in DOMAIN text : text[k] = Comma}
Cuts(text) == <<0>> \o RowList(Commas(text)) \o <<Len(text) + 1>>

LEMMA CutsList ==
  ASSUME NEW text, IsList(text)
  PROVE  /\ IsList(Cuts(text)) /\ Len(Cuts(text)) = Cardinality(Commas(text)) + 2
         /\ Cardinality(Commas(text)) \in Nat
  <1>1. PICK S, l, x, y : S = Commas(text) /\ l = RowList(S) /\ x = <<0>> /\ y = <<Len(text) + 1>>
    OBVIOUS
  <1>2. Len(text) \in Nat /\ DOMAIN text = 1 .. Len(text)
    BY DEF IsList
  <1>3. S \subseteq 1 .. Len(text) /\ S \subseteq Int
    BY <1>1, <1>2 DEF Commas
  <1>4. IsFiniteSet(S)
    <2>1. IsFiniteSet(1 .. Len(text))
      BY <1>2, FS_Interval
    <2>2. QED
      BY <1>3, <2>1, FS_Subset
  <1>5. l \in Seq(S) /\ Len(l) = Cardinality(S) /\ Cardinality(S) \in Nat
    BY <1>1, <1>3, <1>4, RowListAscends
  <1>6. IsList(l)
    BY <1>5, SeqIsList
  <1>7. IsList(x) /\ Len(x) = 1 /\ IsList(y) /\ Len(y) = 1
    <2>1. x \in Seq(Int) /\ y \in Seq(Int) /\ Len(x) = 1 /\ Len(y) = 1
      BY <1>1, <1>2
    <2>2. QED
      BY <2>1, SeqIsList
  <1>8. PICK z : z = x \o l
    OBVIOUS
  <1>9. IsList(z) /\ Len(z) = 1 + Cardinality(S)
    <2>1. IsList(x \o l) /\ Len(x \o l) = Len(x) + Len(l)
      BY <1>6, <1>7, ListsConcat
    <2>2. QED
      BY <1>5, <1>7, <1>8, <2>1
  <1>10. IsList(z \o y) /\ Len(z \o y) = 1 + Cardinality(S) + 1
    <2>1. IsList(z \o y) /\ Len(z \o y) = Len(z) + Len(y)
      BY <1>7, <1>9, ListsConcat
    <2>2. QED
      BY <1>7, <1>9, <2>1
  <1>11. Cuts(text) = z \o y
    BY <1>1, <1>8 DEF Cuts
  <1>12. QED
    BY <1>1, <1>5, <1>10, <1>11

LEMMA SplitUnfolds ==
  ASSUME NEW text
  PROVE  Split(text) = [k \in 1 .. Len(Cuts(text)) - 1 |-> SubSeq(text, Cuts(text)[k] + 1, Cuts(text)[k + 1] - 1)]
  BY DEF Split, Cuts, Commas

LEMMA PiecesList ==
  ASSUME NEW s, IsSeries(s), s.dtype = "String", NEW i \in 0 .. s.arr.length - 1
  PROVE  IsList(Pieces(s, i))
  <1>1. CASE Cell(s, i) = Null
    <2>1. Pieces(s, i) = <<Null>>
      BY <1>1 DEF Pieces
    <2>2. <<Null>> \in Seq({Null})
      OBVIOUS
    <2>3. QED
      BY <2>1, <2>2, SeqIsList
  <1>2. CASE Cell(s, i) # Null
    <2>1. PICK text, n : text = Cell(s, i) /\ n = Cardinality(Commas(text)) + 1
      OBVIOUS
    <2>2. IsList(text)
      BY <1>2, <2>1, TextCellList
    <2>3. n \in Nat /\ Len(Cuts(text)) - 1 = n
      BY <2>1, <2>2, CutsList
    <2>4. PICK p : p = Split(text)
      OBVIOUS
    <2>5. DOMAIN p = 1 .. n
      BY <2>3, <2>4, SplitUnfolds
    <2>6. PICK t : t = Pieces(s, i)
      OBVIOUS
    <2>7. t = [k \in DOMAIN p |-> trimSpaces(p[k])]
      BY <1>2, <2>1, <2>4, <2>6 DEF Pieces
    <2>8. DOMAIN t = 1 .. n /\ t = [k \in 1 .. n |-> t[k]]
      BY <2>5, <2>7
    <2>9. QED
      BY <2>3, <2>6, <2>8, ListOf
  <1>3. QED
    BY <1>1, <1>2

(* The rows Explode copies, and the pieces next to them                    *)
ExplodedRows(cols, col) ==
  FlattenSeq([r \in 1 .. Height(cols) |-> [k \in DOMAIN Pieces(cols[col], r - 1) |-> r - 1]])
AllPieces(cols, col) == FlattenSeq([r \in 1 .. Height(cols) |-> Pieces(cols[col], r - 1)])

LEMMA ExplodeUnfolds ==
  ASSUME NEW cols, NEW col
  PROVE  Explode(cols, col)
         = IF cols[col].dtype # "String" THEN nil
           ELSE New([c \in DOMAIN cols |-> IF c = col THEN Build(cols[c].name, "String", AllPieces(cols, col))
                                           ELSE Copied(cols[c], ExplodedRows(cols, col))])
  BY DEF Explode, AllPieces, ExplodedRows

LEMMA ExplodedLists ==
  ASSUME NEW cols, NEW col, Height(cols) \in Nat, cols[col].dtype = "String",
         IsSeries(cols[col]), cols[col].arr.length = Height(cols)
  PROVE  IsList(ExplodedRows(cols, col)) /\ IsList(AllPieces(cols, col))
  <1>1. PICK h, s, x, y : /\ h = Height(cols) /\ s = cols[col]
                          /\ x = [r \in 1 .. h |-> [k \in DOMAIN Pieces(s, r - 1) |-> r - 1]]
                          /\ y = [r \in 1 .. h |-> Pieces(s, r - 1)]
    OBVIOUS
  <1>2. ASSUME NEW r \in 1 .. h PROVE IsList(x[r]) /\ IsList(y[r])
    <2>1. r - 1 \in 0 .. s.arr.length - 1
      BY <1>1
    <2>2. PICK p : p = Pieces(s, r - 1)
      OBVIOUS
    <2>3. IsList(p)
      BY <1>1, <2>1, <2>2, PiecesList
    <2>4. Len(p) \in Nat /\ DOMAIN p = 1 .. Len(p)
      BY <2>3 DEF IsList
    <2>5. PICK q : q = [k \in DOMAIN p |-> r - 1]
      OBVIOUS
    <2>6. DOMAIN q = 1 .. Len(p) /\ q = [k \in 1 .. Len(p) |-> q[k]]
      BY <2>4, <2>5
    <2>7. IsList(q)
      BY <2>4, <2>6, ListOf
    <2>8. x[r] = q /\ y[r] = p
      BY <1>1, <2>2, <2>5
    <2>9. QED
      BY <2>3, <2>7, <2>8
  <1>3. DOMAIN x = 1 .. h /\ x = [r \in 1 .. h |-> x[r]] /\ DOMAIN y = 1 .. h /\ y = [r \in 1 .. h |-> y[r]]
    BY <1>1
  <1>4. h \in Nat
    BY <1>1
  <1>5. IsList(FlattenSeq(x)) /\ IsList(FlattenSeq(y))
    BY <1>2, <1>3, <1>4, FlattenIsList
  <1>6. ExplodedRows(cols, col) = FlattenSeq(x) /\ AllPieces(cols, col) = FlattenSeq(y)
    BY <1>1 DEF ExplodedRows, AllPieces
  <1>7. QED
    BY <1>5, <1>6

LEMMA ExplodeFits ==
  ASSUME NEW cols, IsFrame(cols), NEW col \in DOMAIN cols
  PROVE  FrameFits(Explode(cols, col))
  <1>1. PICK n : n = Len(cols)
    OBVIOUS
  <1>2. n \in Nat /\ DOMAIN cols = 1 .. n
    BY <1>1 DEF IsFrame
  <1>3. CASE cols[col].dtype # "String"
    BY <1>3, ExplodeUnfolds DEF FrameFits
  <1>4. CASE cols[col].dtype = "String"
    <2>1. PICK rows, pieces : rows = ExplodedRows(cols, col) /\ pieces = AllPieces(cols, col)
      OBVIOUS
    <2>2. IsSeries(cols[col]) /\ cols[col].arr.length = Height(cols) /\ Height(cols) \in Nat
      BY HeightIs DEF IsFrame
    <2>3. IsList(rows) /\ IsList(pieces)
      BY <1>4, <2>1, <2>2, ExplodedLists
    <2>4. PICK z : z = [c \in DOMAIN cols |-> IF c = col THEN Build(cols[c].name, "String", pieces)
                                              ELSE Copied(cols[c], rows)]
      OBVIOUS
    <2>5. ASSUME NEW c \in 1 .. n PROVE BitmapsFit(z[c])
      <3>1. BitmapsFit(Copied(cols[c], rows))
        BY <2>3, CopiedFits
      <3>2. BitmapsFit(Build(cols[c].name, "String", pieces))
        BY <2>3, BuildFits DEF IsList
      <3>3. QED
        BY <1>2, <2>4, <3>1, <3>2
    <2>6. DOMAIN z = 1 .. n /\ z = [c \in 1 .. n |-> z[c]]
      BY <1>2, <2>4
    <2>7. AllFit(z)
      BY <1>2, <2>5, <2>6, FitEach
    <2>8. Explode(cols, col) = New(z)
      BY <1>4, <2>1, <2>4, ExplodeUnfolds
    <2>9. QED
      BY <2>7, <2>8, NewFits
  <1>5. QED
    BY <1>3, <1>4

-----------------------------------------------------------------------------
(* What the other operations return                                        *)

LEMMA FrameIsFit ==
  ASSUME NEW cols, IsFrame(cols)
  PROVE  AllFit(cols)
  <1>1. Len(cols) \in Nat /\ cols = [c \in 1 .. Len(cols) |-> cols[c]]
    BY DEF IsFrame
  <1>2. DOMAIN cols = 1 .. Len(cols)
    BY <1>1
  <1>3. \A c \in 1 .. Len(cols) : BitmapsFit(cols[c])
    BY <1>2, SeriesFits DEF IsFrame
  <1>4. QED
    BY <1>1, <1>2, <1>3, FitEach

LEMMA RolledFits ==
  ASSUME NEW s, NEW fn, NEW window, s.arr.length \in Nat
  PROVE  FrameFits(Rolled(s, fn, window))
  <1>1. PICK n, bad, w, b, t, u :
          /\ n = s.arr.length /\ bad = InvalidRows(s.arr, window) /\ w = RolledValues(s, fn, window)
          /\ b = ClearAll(NewBitmap(n), bad)
          /\ t = Series(s.name, "Float64", TypedArray(w, b))
          /\ u = Series(s.name, "Float64", TypedArray([i \in 0 .. n - 1 |-> 0], nil))
    OBVIOUS
  <1>2. rollingAgg(s, fn, window) = IF window <= 0 \/ n = 0 THEN u
                                    ELSE IF s.dtype \notin {"Int64", "Float64"} THEN nil ELSE t
    <2>1. CASE window <= 0 \/ n = 0
      BY <1>1, <2>1 DEF rollingAgg
    <2>2. CASE ~(window <= 0 \/ n = 0)
      <3>1. rollingAgg(s, fn, window)
            = IF s.dtype \notin {"Int64", "Float64"} THEN nil
              ELSE Series(s.name, "Float64",
                          TypedArray(RolledValues(s, fn, window),
                                     ClearAll(NewBitmap(s.arr.length), InvalidRows(s.arr, window))))
        BY <1>1, <2>2 DEF rollingAgg, RolledValues, InvalidRows, NullsOf, Rolling1
      <3>2. QED
        BY <1>1, <2>2, <3>1
    <2>3. QED
      BY <2>1, <2>2
  <1>3. Cardinality(0 .. n - 1) = n /\ n \in Nat
    BY <1>1, RowCount
  <1>4. IsBitmapOf(b, n)
    <2>1. PICK c : c = NewBitmap(n) /\ IsBitmap(c) /\ c.len = n
      BY <1>3, NewBits DEF IsBitmapOf
    <2>2. bad \subseteq 0 .. c.len - 1
      BY <1>1, <2>1 DEF InvalidRows
    <2>3. IsBitmapOf(ClearAll(c, bad), c.len)
      BY <2>1, <2>2, BitsCleared
    <2>4. QED
      BY <1>1, <2>1, <2>3
  <1>5. DOMAIN w = 0 .. n - 1
    BY <1>1 DEF RolledValues
  <1>6. t.dtype = "Float64" /\ t.arr.length = n /\ t.arr.validity = b
    BY <1>1, <1>3, <1>5 DEF Series, TypedArray
  <1>7. u.dtype = "Float64" /\ u.arr.length = n /\ u.arr.validity = nil
    <2>1. PICK z : z = [i \in 0 .. n - 1 |-> 0]
      OBVIOUS
    <2>2. DOMAIN z = 0 .. n - 1
      BY <2>1
    <2>3. QED
      BY <1>1, <1>3, <2>1, <2>2 DEF Series, TypedArray
  <1>8. BitmapsFit(t) /\ BitmapsFit(u)
    BY <1>3, <1>4, <1>6, <1>7 DEF BitmapsFit
  <1>9. PICK r : r = rollingAgg(s, fn, window)
    OBVIOUS
  <1>10. CASE r = nil
    BY <1>9, <1>10 DEF Rolled, FrameFits
  <1>11. CASE r # nil
    <2>1. r = t \/ r = u
      BY <1>2, <1>9, <1>11
    <2>2. Rolled(s, fn, window) = New(<<r>>)
      BY <1>9, <1>11 DEF Rolled
    <2>3. AllFit(<<r>>)
      BY <1>8, <2>1, OneFits
    <2>4. QED
      BY <2>2, <2>3, NewFits
  <1>12. QED
    BY <1>10, <1>11

-----------------------------------------------------------------------------
(* Cells that are moved                                                    *)

LEMMA CellsFit ==
  ASSUME NEW s, IsSeries(s), NEW i \in 0 .. s.arr.length - 1
  PROVE  CellFits(s.dtype, Cell(s, i))
  <1>1. CASE Cell(s, i) = Null
    BY <1>1 DEF CellFits
  <1>2. CASE s.dtype = "String"
    BY <1>1, <1>2, TextCellList DEF CellFits
  <1>3. CASE s.dtype = "Boolean" /\ Cell(s, i) # Null
    <2>1. IsBoolean(s.arr) /\ s.arr.length \in Nat
      BY <1>3 DEF IsSeries, IsArray
    <2>2. InRange(s.arr.data, i)
      BY <2>1 DEF IsBoolean, IsBitmapOf, InRange
    <2>3. IsSet(s.arr.data, i) \in BOOLEAN
      BY <2>2 DEF IsSet
    <2>4. Cell(s, i) = IsSet(s.arr.data, i)
      BY <1>3 DEF Cell, Value
    <2>5. QED
      BY <1>3, <2>3, <2>4 DEF CellFits
  <1>4. CASE s.dtype \notin {"String", "Boolean"}
    BY <1>4 DEF CellFits
  <1>5. QED
    BY <1>1, <1>2, <1>3, <1>4

(* A column of this type keeps the cells of s.                             *)
Promotable(s, dtype) == s.dtype = dtype \/ (s.dtype = "Int64" /\ dtype = "Float64")

LEMMA PromotedCell ==
  ASSUME NEW s, NEW dtype, Promotable(s, dtype), NEW i
  PROVE  CellAs(s, i, dtype) = Cell(s, i)
  BY DEF Promotable, CellAs

LEMMA PromotedFits ==
  ASSUME NEW s, IsSeries(s), NEW dtype, Promotable(s, dtype), NEW i \in 0 .. s.arr.length - 1
  PROVE  CellFits(dtype, Cell(s, i))
  BY CellsFit DEF Promotable, CellFits

(* Transpose of columns of types that can be built                         *)
LEMMA TurnedCell ==
  ASSUME NEW cols, IsFrame(cols), \A c \in DOMAIN cols : Promotable(cols[c], TransposeBuilt(cols)),
         NEW i \in 0 .. Height(cols) - 1, NEW c \in DOMAIN cols
  PROVE  Cell(TurnedRow(cols, i), c - 1) = Cell(cols[c], i)
  <1>1. PICK n, dtype, cells : n = Len(cols) /\ dtype = TransposeBuilt(cols) /\ cells = TurnedCells(cols, i)
    OBVIOUS
  <1>2. n \in Nat /\ DOMAIN cols = 1 .. n
    BY <1>1 DEF IsFrame
  <1>3. DOMAIN cells = 1 .. n /\ cells = [k \in 1 .. n |-> cells[k]]
    BY <1>1, <1>2 DEF TurnedCells
  <1>4. Len(cells) = n
    BY <1>2, <1>3, ListOf
  <1>5. ASSUME NEW k \in 1 .. n PROVE cells[k] = Cell(cols[k], i) /\ CellFits(dtype, cells[k])
    <2>1. IsSeries(cols[k]) /\ i \in 0 .. cols[k].arr.length - 1
      BY <1>2, ColumnOfFrame
    <2>2. cells[k] = CellAs(cols[k], i, dtype)
      BY <1>1, <1>2 DEF TurnedCells
    <2>3. Promotable(cols[k], dtype)
      BY <1>1, <1>2
    <2>4. QED
      BY <2>1, <2>2, <2>3, PromotedCell, PromotedFits
  <1>6. PICK s : s = Build(<<"column", i>>, dtype, cells)
    OBVIOUS
  <1>7. \A k \in 1 .. n : Cell(Build(<<"column", i>>, dtype, cells), k - 1) = cells[k]
    BY <1>2, <1>4, <1>5, BuiltCells
  <1>8. TurnedRow(cols, i) = s
    BY <1>1, <1>6 DEF TurnedRow
  <1>9. c \in 1 .. n
    BY <1>2
  <1>10. QED
    BY <1>5, <1>6, <1>7, <1>8, <1>9

TransposePromotes(cols) == \A c \in DOMAIN cols : Promotable(cols[c], TransposeType(cols))

LEMMA TransposeIs ==
  ASSUME NEW cols, Height(cols) # 0, Transpose(cols) # nil
  PROVE  TransposePromotes(cols) /\ Transpose(cols) = New(Turned(cols))
  <1>1. Transpose(cols) = IF ~TransposePromotes(cols) THEN nil ELSE New(Turned(cols))
    BY DEF Transpose, Turned, TurnedNames, TurnedRow, TurnedCells, TransposeBuilt, TransposeType,
           TransposePromotes, Promotable
  <1>2. QED
    BY <1>1

LEMMA TransposeTurns ==
  ASSUME NEW cols, IsFrame(cols), \A c \in DOMAIN cols : cols[c].dtype \in Buildable,
         NEW f, f = Transpose(cols), f # nil
  PROVE  /\ Len(f.cols) = Height(cols) + 1
         /\ \A i \in 0 .. Height(cols) - 1 : \A c \in DOMAIN cols : Cell(f.cols[i + 2], c - 1) = Cell(cols[c], i)
  <1>1. PICK h : h = Height(cols)
    OBVIOUS
  <1>2. h \in Nat
    BY <1>1, HeightIs
  <1>3. CASE h = 0
    <2>1. PICK s : s = NewString(<<"column">>, <<>>)
      OBVIOUS
    <2>2. f = New(<<s>>)
      BY <1>1, <1>3, <2>1, TransposeUnfolds
    <2>3. f.cols = <<s>>
      BY <2>2, NewKeepsColumns
    <2>4. Len(f.cols) = 1
      BY <2>3
    <2>5. QED
      BY <1>1, <1>3, <2>4
  <1>4. CASE h # 0
    <2>1. TransposePromotes(cols) /\ f = New(Turned(cols))
      BY <1>1, <1>4, TransposeIs
    <2>2. 1 \in DOMAIN cols
      BY DEF IsFrame
    <2>3. TransposeType(cols) \in Buildable
      <3>1. Promotable(cols[1], TransposeType(cols)) /\ cols[1].dtype \in Buildable
        BY <2>1, <2>2 DEF TransposePromotes
      <3>2. QED
        BY <3>1 DEF Promotable, Buildable
    <2>4. TransposeBuilt(cols) = TransposeType(cols)
      BY <2>3 DEF TransposeBuilt
    <2>5. PICK x, y, z : x = <<TurnedNames(cols)>> /\ y = [k \in 1 .. h |-> TurnedRow(cols, k - 1)] /\ z = x \o y
      OBVIOUS
    <2>6. IsList(x) /\ Len(x) = 1
      <3>1. x \in Seq({TurnedNames(cols)}) /\ Len(x) = 1
        BY <2>5
      <3>2. QED
        BY <3>1, SeqIsList
    <2>7. IsList(y) /\ Len(y) = h
      <3>1. DOMAIN y = 1 .. h /\ y = [k \in 1 .. h |-> y[k]]
        BY <2>5
      <3>2. QED
        BY <1>2, <3>1, ListOf
    <2>8. Len(z) = 1 + h /\ \A k \in 1 .. h : z[1 + k] = y[k]
      <3>1. IsList(x) /\ IsList(y)
        BY <2>6, <2>7
      <3>2. /\ IsList(x \o y) /\ Len(x \o y) = Len(x) + Len(y)
            /\ \A k \in 1 .. Len(x) : (x \o y)[k] = x[k]
            /\ \A k \in 1 .. Len(y) : (x \o y)[Len(x) + k] = y[k]
        BY <3>1, ListsConcat
      <3>3. QED
        BY <2>5, <2>6, <2>7, <3>2
    <2>9. f.cols = z
      <3>1. Turned(cols) = z
        BY <1>1, <2>5 DEF Turned
      <3>2. QED
        BY <2>1, <3>1, NewKeepsColumns
    <2>10. ASSUME NEW i \in 0 .. h - 1, NEW c \in DOMAIN cols PROVE Cell(f.cols[i + 2], c - 1) = Cell(cols[c], i)
      <3>1. i + 1 \in 1 .. h /\ 1 + (i + 1) = i + 2 /\ (i + 1) - 1 = i
        BY <1>2
      <3>2. f.cols[i + 2] = TurnedRow(cols, i)
        BY <2>5, <2>8, <2>9, <3>1
      <3>3. \A k \in DOMAIN cols : Promotable(cols[k], TransposeBuilt(cols))
        BY <2>1, <2>4 DEF TransposePromotes
      <3>4. QED
        BY <1>1, <3>2, <3>3, TurnedCell
    <2>11. QED
      BY <1>1, <1>2, <2>8, <2>9, <2>10
  <1>5. QED
    BY <1>3, <1>4

-----------------------------------------------------------------------------
(* The texts of a column are those of the rows that have one first         *)

FirstRows(s, n) == {i \in 0 .. n - 1 : \A j \in 0 .. i - 1 : TextOf(s, j) # TextOf(s, i)}

(* Every row has the text of a first one, and two first ones have not one. *)
LEMMA FirstRowOf ==
  ASSUME NEW s, NEW n \in Nat, NEW i \in 0 .. n - 1
  PROVE  \E j \in FirstRows(s, n) : j <= i /\ TextOf(s, j) = TextOf(s, i)
  <1>1. PICK T : T = {j \in Nat : TextOf(s, j) = TextOf(s, i)}
    OBVIOUS
  <1>2. T \in SUBSET Nat /\ i \in T
    BY <1>1
  <1>3. PICK m \in T : \A k \in T : m <= k
    BY <1>2, Least
  <1>4. m \in Nat /\ m <= i /\ TextOf(s, m) = TextOf(s, i)
    BY <1>1, <1>2, <1>3
  <1>5. ASSUME NEW k \in 0 .. m - 1 PROVE TextOf(s, k) # TextOf(s, m)
    <2>1. k \in Nat /\ k < m
      BY <1>4
    <2>2. k \notin T
      BY <1>3, <1>4, <2>1
    <2>3. QED
      BY <1>1, <1>4, <2>1, <2>2
  <1>6. m \in FirstRows(s, n)
    BY <1>4, <1>5 DEF FirstRows
  <1>7. QED
    BY <1>4, <1>6

LEMMA FirstRowsDiffer ==
  ASSUME NEW s, NEW n \in Nat, NEW i \in FirstRows(s, n), NEW j \in FirstRows(s, n), TextOf(s, i) = TextOf(s, j)
  PROVE  i = j
  <1>1. i \in Nat /\ j \in Nat
    BY DEF FirstRows
  <1>2. ~(i < j) /\ ~(j < i)
    BY <1>1 DEF FirstRows
  <1>3. QED
    BY <1>1, <1>2

LEMMA FirstRowsFinite ==
  ASSUME NEW s, NEW n \in Nat
  PROVE  /\ IsFiniteSet(FirstRows(s, n)) /\ \A x \in FirstRows(s, n) : x \in Int
         /\ Cardinality(FirstRows(s, n)) \in Nat
  <1>1. IsFiniteSet(0 .. n - 1)
    <2>1. 0 \in Int /\ n - 1 \in Int
      OBVIOUS
    <2>2. QED
      BY <2>1, FS_Interval
  <1>2. FirstRows(s, n) \subseteq 0 .. n - 1
    BY DEF FirstRows
  <1>3. IsFiniteSet(FirstRows(s, n))
    BY <1>1, <1>2, FS_Subset
  <1>4. QED
    BY <1>2, <1>3, FS_CardinalityType

(* list has the texts of the first rows among the first n.                 *)
TextsOf(list, s, n) ==
  /\ IsList(list) /\ Len(list) = Cardinality(FirstRows(s, n))
  /\ \A k \in 1 .. Cardinality(FirstRows(s, n)) : list[k] = TextOf(s, RowList(FirstRows(s, n))[k])

LEMMA TextsAreKnown ==
  ASSUME NEW s, NEW n \in Nat, NEW list, TextsOf(list, s, n)
  PROVE  TextOf(s, n) \in ToSet(list) <=> n \notin FirstRows(s, n + 1)
  <1>1. PICK F, c, rows : F = FirstRows(s, n) /\ c = Cardinality(F) /\ rows = RowList(F)
    OBVIOUS
  <1>2. c \in Nat /\ IsFiniteSet(F) /\ \A x \in F : x \in Int
    BY <1>1, FirstRowsFinite
  <1>3. DOMAIN rows = 1 .. c /\ ToSet(rows) = F
    BY <1>1, <1>2, RowListAscends
  <1>4. ToSet(list) = {TextOf(s, j) : j \in F}
    <2>1. DOMAIN list = 1 .. c /\ \A k \in 1 .. c : list[k] = TextOf(s, rows[k])
      BY <1>1 DEF TextsOf, IsList
    <2>2. ToSet(list) = {list[k] : k \in 1 .. c} /\ ToSet(rows) = {rows[k] : k \in 1 .. c}
      BY <1>3, <2>1 DEF ToSet
    <2>3. QED
      BY <1>3, <2>1, <2>2
  <1>5. ASSUME TextOf(s, n) \in ToSet(list) PROVE n \notin FirstRows(s, n + 1)
    <2>1. PICK j \in F : TextOf(s, n) = TextOf(s, j)
      BY <1>4, <1>5
    <2>2. j \in 0 .. n - 1
      BY <1>1 DEF FirstRows
    <2>3. QED
      BY <2>1, <2>2 DEF FirstRows
  <1>6. ASSUME TextOf(s, n) \notin ToSet(list) PROVE n \in FirstRows(s, n + 1)
    <2>1. ASSUME NEW i \in 0 .. n - 1 PROVE TextOf(s, i) # TextOf(s, n)
      <3>1. PICK j \in F : TextOf(s, j) = TextOf(s, i)
        BY <1>1, FirstRowOf
      <3>2. QED
        BY <1>4, <1>6, <3>1
    <2>2. n \in 0 .. (n + 1) - 1
      OBVIOUS
    <2>3. QED
      BY <2>1, <2>2 DEF FirstRows
  <1>7. QED
    BY <1>5, <1>6

LEMMA OneMoreText ==
  ASSUME NEW s, NEW n \in Nat, NEW list, TextsOf(list, s, n)
  PROVE  TextsOf(NextText(s, list, n), s, n + 1)
  <1>1. PICK F, G : F = FirstRows(s, n) /\ G = FirstRows(s, n + 1)
    OBVIOUS
  <1>2. G \ {n} = F
    BY <1>1 DEF FirstRows
  <1>3. TextOf(s, n) \in ToSet(list) <=> n \notin G
    BY <1>1, TextsAreKnown
  <1>4. CASE n \notin G
    <2>1. NextText(s, list, n) = list
      BY <1>3, <1>4 DEF NextText
    <2>2. F = G
      BY <1>2, <1>4
    <2>3. QED
      BY <1>1, <2>1, <2>2 DEF TextsOf
  <1>5. CASE n \in G
    <2>1. NextText(s, list, n) = Append(list, TextOf(s, n))
      BY <1>3, <1>5 DEF NextText
    <2>2. IsFiniteSet(G) /\ (\A x \in G : x \in Int) /\ IsFiniteSet(F)
      BY <1>1, FirstRowsFinite, n + 1 \in Nat
    <2>3. F \in SUBSET G /\ G \ F = {n} /\ \A x \in F : \A y \in G \ F : x < y
      <3>1. F \in SUBSET G /\ G \ F = {n}
        BY <1>2, <1>5
      <3>2. \A x \in F : x \in Int /\ x < n
        BY <1>1 DEF FirstRows
      <3>3. QED
        BY <3>1, <3>2
    <2>4. PICK c : c = Cardinality(F)
      OBVIOUS
    <2>5. /\ c \in Nat /\ Cardinality(G) = c + Cardinality(G \ F)
          /\ \A k \in 1 .. c : RowList(G)[k] = RowList(F)[k]
          /\ \A k \in 1 .. Cardinality(G \ F) : RowList(G)[c + k] = RowList(G \ F)[k]
      <3>1. /\ Cardinality(F) \in Nat /\ Cardinality(G \ F) \in Nat
            /\ Cardinality(G) = Cardinality(F) + Cardinality(G \ F)
            /\ \A k \in 1 .. Cardinality(F) : RowList(G)[k] = RowList(F)[k]
            /\ \A k \in 1 .. Cardinality(G \ F) : RowList(G)[Cardinality(F) + k] = RowList(G \ F)[k]
        BY <2>2, <2>3, RowListJoins
      <3>2. QED
        BY <2>4, <3>1
    <2>6. Cardinality({n}) = 1 /\ RowList({n})[1] = n
      <3>1. IsFiniteSet({n}) /\ Cardinality({n}) = 1
        BY FS_Singleton
      <3>2. \A x \in {n} : x \in Int
        OBVIOUS
      <3>3. RowList({n}) \in Seq({n}) /\ Len(RowList({n})) = 1
        BY <3>1, <3>2, RowListAscends
      <3>4. QED
        BY <3>1, <3>3
    <2>7. Cardinality(G) = c + 1 /\ RowList(G)[c + 1] = n
      BY <2>3, <2>5, <2>6
    <2>8. PICK z : z = Append(list, TextOf(s, n))
      OBVIOUS
    <2>9. IsList(list) /\ Len(list) = c /\ \A k \in 1 .. c : list[k] = TextOf(s, RowList(F)[k])
      BY <1>1, <2>4 DEF TextsOf
    <2>10. Len(z) = c + 1 /\ z[c + 1] = TextOf(s, n) /\ \A k \in 1 .. c : z[k] = list[k]
      <3>1. PICK T : T = ElementsOf(list) \cup {TextOf(s, n)}
        OBVIOUS
      <3>2. list \in Seq(T) /\ TextOf(s, n) \in T
        BY <2>9, <3>1, ListIsSeq
      <3>3. QED
        BY <2>8, <2>9, <3>2
    <2>12. IsList(z)
      <3>1. PICK T : T = ElementsOf(list) \cup {TextOf(s, n)}
        OBVIOUS
      <3>2. list \in Seq(T) /\ TextOf(s, n) \in T
        BY <2>9, <3>1, ListIsSeq
      <3>3. z \in Seq(T)
        BY <2>8, <3>2
      <3>4. QED
        BY <3>3, SeqIsList
    <2>13. ASSUME NEW k \in 1 .. c + 1 PROVE z[k] = TextOf(s, RowList(G)[k])
      <3>1. CASE k = c + 1
        BY <2>5, <2>7, <2>10, <3>1
      <3>2. CASE k # c + 1
        <4>1. k \in 1 .. c
          BY <2>5, <3>2
        <4>2. QED
          BY <2>5, <2>9, <2>10, <4>1
      <3>3. QED
        BY <3>1, <3>2
    <2>14. QED
      BY <1>1, <2>1, <2>7, <2>8, <2>10, <2>12, <2>13 DEF TextsOf
  <1>6. QED
    BY <1>4, <1>5

LEMMA TextsOfFirsts ==
  ASSUME NEW s, NEW n \in Nat, s.arr.length = n
  PROVE  TextsOf(TextsInOrder(s), s, n)
  <1>1. PICK f : /\ f[{}] = <<>> /\ TextsInOrder(s) = f[1 .. n]
                 /\ \A k \in 1 .. n : f[1 .. k] = NextText(s, f[1 .. k - 1], k - 1)
    BY TextSteps
  <1> DEFINE P == {k \in 0 .. n : TextsOf(f[1 .. k], s, k)}
  <1>2. 0 \in P
    <2>1. 1 .. 0 = {} /\ FirstRows(s, 0) = {} /\ Cardinality({}) = 0
      BY FS_EmptySet DEF FirstRows
    <2>2. IsList(<<>>) /\ Len(<<>>) = 0
      BY DEF IsList
    <2>3. f[1 .. 0] = <<>>
      BY <1>1, <2>1
    <2>4. TextsOf(f[1 .. 0], s, 0)
      BY <2>1, <2>2, <2>3 DEF TextsOf
    <2>5. QED
      BY <2>4
  <1>3. ASSUME NEW k \in 0 .. n - 1, k \in P PROVE k + 1 \in P
    <2>1. k + 1 \in 1 .. n /\ (k + 1) - 1 = k /\ k + 1 \in 0 .. n /\ k \in Nat
      OBVIOUS
    <2>2. f[1 .. k + 1] = NextText(s, f[1 .. (k + 1) - 1], (k + 1) - 1)
      BY <1>1, <2>1
    <2>3. f[1 .. k + 1] = NextText(s, f[1 .. k], k)
      BY <2>1, <2>2
    <2>4. TextsOf(f[1 .. k + 1], s, k + 1)
      BY <1>3, <2>1, <2>3, OneMoreText
    <2>5. QED
      BY <2>1, <2>4
  <1>4. 0 .. n \subseteq P
    <2> HIDE DEF P
    <2>1. 0 \in Int /\ n \in Int /\ (0 <= n => 0 \in P)
      BY <1>2
    <2>2. \A k \in 0 .. n - 1 : k \in P => k + 1 \in P
      BY <1>3
    <2>3. QED
      BY <2>1, <2>2, IntervalInduction
  <1>5. n \in P
    BY <1>4
  <1>6. QED
    BY <1>1, <1>5

-----------------------------------------------------------------------------
(* The common type of columns                                              *)

IsTypes(f, cols) ==
  f = [t \in SUBSET (DOMAIN Tail(cols)) |->
         IF t = {} THEN cols[1].dtype ELSE promoteType(f[t \ {Max(t)}], Tail(cols)[Max(t)].dtype)]

LEMMA CommonTypeUnfolds ==
  ASSUME NEW cols
  PROVE  CommonType(cols) = (CHOOSE f : IsTypes(f, cols))[DOMAIN Tail(cols)]
  BY DEF CommonType, FoldLeft, MapThenFoldSet, IsTypes

(* The type so far, after each column                                      *)
LEMMA TypeSteps ==
  ASSUME NEW cols, IsList(cols), NEW n \in Nat, Len(cols) = n + 1
  PROVE  \E f : /\ f[{}] = cols[1].dtype /\ CommonType(cols) = f[1 .. n]
                /\ \A k \in 1 .. n : f[1 .. k] = promoteType(f[1 .. k - 1], cols[k + 1].dtype)
  <1>1. PICK S : S = {cols[k].dtype : k \in 1 .. n + 1} \cup {"Float64"}
    OBVIOUS
  <1>2. PICK step : step = [k \in 1 .. n |-> [t \in S |-> promoteType(t, cols[k + 1].dtype)]]
    OBVIOUS
  <1>3. ASSUME NEW k \in 1 .. n, NEW t \in S
        PROVE  step[k][t] = promoteType(t, cols[k + 1].dtype) /\ step[k][t] \in S
    BY <1>1, <1>2 DEF promoteType
  <1>4. cols[1].dtype \in S
    BY <1>1
  <1>5. PICK g : IsFold(g, cols[1].dtype, step, SUBSET (1 .. n)) /\ \A t \in SUBSET (1 .. n) : g[t] \in S
    <2>1. \A k \in 1 .. n : \A t \in S : step[k][t] \in S
      BY <1>3
    <2>2. QED
      BY <1>4, <2>1, FoldExists
  <1>6. DOMAIN Tail(cols) = 1 .. n /\ \A k \in 1 .. n : Tail(cols)[k] = cols[k + 1]
    <2>1. cols \in Seq(ElementsOf(cols))
      BY ListIsSeq
    <2>2. QED
      BY <2>1
  <1>7. IsTypes(g, cols)
    <2>1. ASSUME NEW t \in SUBSET (1 .. n)
          PROVE  g[t] = IF t = {} THEN cols[1].dtype
                        ELSE promoteType(g[t \ {Max(t)}], Tail(cols)[Max(t)].dtype)
      <3>1. CASE t = {}
        BY <1>5, <3>1 DEF IsFold
      <3>2. CASE t # {}
        <4>1. Max(t) \in 1 .. n /\ t \ {Max(t)} \in SUBSET (1 .. n)
          BY <3>2, LastOfPositions
        <4>2. g[t] = step[Max(t)][g[t \ {Max(t)}]]
          BY <1>5, <3>2 DEF IsFold
        <4>3. Tail(cols)[Max(t)] = cols[Max(t) + 1] /\ g[t \ {Max(t)}] \in S
          BY <1>5, <1>6, <4>1
        <4>4. QED
          BY <1>3, <3>2, <4>1, <4>2, <4>3
      <3>3. QED
        BY <3>1, <3>2
    <2>2. g = [t \in SUBSET (1 .. n) |-> g[t]]
      BY <1>5 DEF IsFold
    <2>3. QED
      BY <1>6, <2>1, <2>2 DEF IsTypes
  <1>8. PICK f : f = CHOOSE h : IsTypes(h, cols)
    OBVIOUS
  <1>9. IsTypes(f, cols)
    BY <1>7, <1>8
  <1>10. f[{}] = cols[1].dtype
    BY <1>9 DEF IsTypes
  <1>11. ASSUME NEW k \in 1 .. n PROVE f[1 .. k] = promoteType(f[1 .. k - 1], cols[k + 1].dtype)
    <2>1. 1 .. k \in SUBSET (1 .. n) /\ 1 .. k # {} /\ Max(1 .. k) = k /\ (1 .. k) \ {k} = 1 .. k - 1
      BY FirstPositions
    <2>2. f[1 .. k] = promoteType(f[(1 .. k) \ {Max(1 .. k)}], Tail(cols)[Max(1 .. k)].dtype)
      BY <1>6, <1>9, <2>1 DEF IsTypes
    <2>3. QED
      BY <1>6, <2>1, <2>2
  <1>12. CommonType(cols) = f[1 .. n]
    BY <1>6, <1>8, CommonTypeUnfolds
  <1>13. QED
    BY <1>10, <1>11, <1>12

(* Types that are one, or integers and floats                              *)
OfOneKind(cols) ==
  \A k, l \in DOMAIN cols :
    cols[k].dtype = cols[l].dtype \/ {cols[k].dtype, cols[l].dtype} = {"Int64", "Float64"}

(* All of the first k columns can be promoted to the type, that of one.    *)
TypeOfFirst(cols, k, type) ==
  /\ \E l \in 1 .. k : type = cols[l].dtype
  /\ \A l \in 1 .. k : Promotable(cols[l], type)

LEMMA OneMoreType ==
  ASSUME NEW cols, OfOneKind(cols), NEW n \in Nat, DOMAIN cols = 1 .. n, NEW k \in 1 .. n - 1, NEW type,
         TypeOfFirst(cols, k, type)
  PROVE  TypeOfFirst(cols, k + 1, promoteType(type, cols[k + 1].dtype))
  <1>1. PICK d, new : d = cols[k + 1].dtype /\ new = promoteType(type, d)
    OBVIOUS
  <1>2. PICK m \in 1 .. k : type = cols[m].dtype
    BY DEF TypeOfFirst
  <1>3. type = d \/ {type, d} = {"Int64", "Float64"}
    <2>1. m \in DOMAIN cols /\ k + 1 \in DOMAIN cols
      OBVIOUS
    <2>2. QED
      BY <1>1, <1>2, <2>1 DEF OfOneKind
  <1>4. CASE type = d
    <2>1. {type, d} # {"Int64", "Float64"}
      BY <1>4
    <2>2. new = type
      BY <1>1, <2>1 DEF promoteType
    <2>3. ASSUME NEW l \in 1 .. k + 1 PROVE Promotable(cols[l], type)
      <3>1. CASE l = k + 1
        BY <1>1, <1>4, <3>1 DEF Promotable
      <3>2. CASE l # k + 1
        <4>1. l \in 1 .. k
          BY <3>2
        <4>2. QED
          BY <4>1 DEF TypeOfFirst
      <3>3. QED
        BY <3>1, <3>2
    <2>4. m \in 1 .. k + 1
      OBVIOUS
    <2>5. QED
      BY <1>1, <1>2, <2>2, <2>3, <2>4 DEF TypeOfFirst
  <1>5. CASE {type, d} = {"Int64", "Float64"}
    <2>1. new = "Float64" /\ (type = "Float64" \/ d = "Float64")
          /\ type \in {"Int64", "Float64"} /\ d \in {"Int64", "Float64"}
      BY <1>1, <1>5 DEF promoteType
    <2>2. ASSUME NEW l \in 1 .. k + 1 PROVE Promotable(cols[l], "Float64")
      <3>1. CASE l = k + 1
        BY <1>1, <2>1, <3>1 DEF Promotable
      <3>2. CASE l # k + 1
        <4>1. l \in 1 .. k
          BY <3>2
        <4>2. Promotable(cols[l], type)
          BY <4>1 DEF TypeOfFirst
        <4>3. QED
          BY <2>1, <4>2 DEF Promotable
      <3>3. QED
        BY <3>1, <3>2
    <2>3. \E l \in 1 .. k + 1 : "Float64" = cols[l].dtype
      <3>1. m \in 1 .. k + 1 /\ k + 1 \in 1 .. k + 1
        OBVIOUS
      <3>2. QED
        BY <1>1, <1>2, <2>1, <3>1
    <2>4. QED
      BY <1>1, <2>1, <2>2, <2>3 DEF TypeOfFirst
  <1>6. QED
    BY <1>3, <1>4, <1>5

LEMMA CommonTypePromotes ==
  ASSUME NEW cols, IsList(cols), OfOneKind(cols), NEW n \in Nat \ {0}, Len(cols) = n
  PROVE  TypeOfFirst(cols, n, CommonType(cols))
  <1>1. n - 1 \in Nat /\ (n - 1) + 1 = n /\ DOMAIN cols = 1 .. n
    BY DEF IsList
  <1>2. PICK f : /\ f[{}] = cols[1].dtype /\ CommonType(cols) = f[1 .. n - 1]
                 /\ \A k \in 1 .. n - 1 : f[1 .. k] = promoteType(f[1 .. k - 1], cols[k + 1].dtype)
    BY <1>1, TypeSteps
  <1> DEFINE P == {k \in 1 .. n : TypeOfFirst(cols, k, f[1 .. k - 1])}
  <1>3. 1 \in P
    <2>1. 1 .. 1 - 1 = {} /\ 1 \in 1 .. n
      OBVIOUS
    <2>2. f[1 .. 1 - 1] = cols[1].dtype
      BY <1>2, <2>1
    <2>3. TypeOfFirst(cols, 1, f[1 .. 1 - 1])
      BY <2>2 DEF TypeOfFirst, Promotable
    <2>4. QED
      BY <2>1, <2>3
  <1>4. ASSUME NEW k \in 1 .. n - 1, k \in P PROVE k + 1 \in P
    <2>1. k + 1 \in 1 .. n /\ (k + 1) - 1 = k
      OBVIOUS
    <2>2. TypeOfFirst(cols, k, f[1 .. k - 1])
      BY <1>4
    <2>3. TypeOfFirst(cols, k + 1, promoteType(f[1 .. k - 1], cols[k + 1].dtype))
      BY <1>1, <2>2, OneMoreType
    <2>4. f[1 .. (k + 1) - 1] = promoteType(f[1 .. k - 1], cols[k + 1].dtype)
      BY <1>2, <2>1
    <2>5. QED
      BY <2>1, <2>3, <2>4
  <1>5. 1 .. n \subseteq P
    <2> HIDE DEF P
    <2>1. 1 \in Int /\ n \in Int /\ (1 <= n => 1 \in P)
      BY <1>3
    <2>2. \A k \in 1 .. n - 1 : k \in P => k + 1 \in P
      BY <1>4
    <2>3. QED
      BY <2>1, <2>2, IntervalInduction
  <1>6. n \in P
    BY <1>5
  <1>7. QED
    BY <1>2, <1>6

-----------------------------------------------------------------------------
(* Rows that are there once for every value column: row r of copy a is at  *)
(* place a * h + r.                                                        *)

LEMMA CopyOfPlace ==
  ASSUME NEW h \in Nat \ {0}, NEW a \in Nat, NEW r \in 0 .. h - 1
  PROVE  a * h + r \in Nat /\ (a * h + r) \div h = a
  <1>1. a * h \in Nat
    BY ProductGrows
  <1>2. PICK x : x = a * h + r
    OBVIOUS
  <1>3. x \in Nat
    BY <1>1, <1>2
  <1>4. PICK b \in Nat, q \in 0 .. h - 1 : x = h * b + q /\ x \div h = b
    BY <1>3, DivMod
  <1>5. h * b = b * h /\ b * h \in Nat
    BY <1>4, ProductGrows
  <1>6. ~(a < b)
    <2>1. a < b => a * h + h <= b * h
      BY <1>4, ProductGrows
    <2>2. QED
      BY <1>1, <1>2, <1>4, <1>5, <2>1
  <1>7. ~(b < a)
    <2>1. b < a => b * h + h <= a * h
      BY <1>4, ProductGrows
    <2>2. QED
      BY <1>1, <1>2, <1>4, <1>5, <2>1
  <1>8. a = b
    BY <1>4, <1>6, <1>7
  <1>9. QED
    BY <1>2, <1>3, <1>4, <1>8

LEMMA PlaceInCopies ==
  ASSUME NEW h \in Nat \ {0}, NEW m \in Nat, NEW a \in 0 .. m - 1, NEW r \in 0 .. h - 1
  PROVE  m * h \in Nat /\ a * h \in Nat /\ a * h + r \in 0 .. m * h - 1
  <1>1. a * h + h <= m * h /\ m * h \in Nat /\ a * h \in Nat
    BY ProductGrows
  <1>2. QED
    BY <1>1

LEMMA PlaceOfCopy ==
  ASSUME NEW h \in Nat \ {0}, NEW m \in Nat, NEW i \in 0 .. m * h - 1
  PROVE  \E a \in 0 .. m - 1 : \E r \in 0 .. h - 1 : i = a * h + r
  <1>1. m * h \in Nat
    BY ProductGrows
  <1>2. i \in Nat /\ i < m * h
    BY <1>1
  <1>3. PICK a \in Nat, r \in 0 .. h - 1 : i = h * a + r
    BY <1>2, Quotient
  <1>4. h * a = a * h /\ a * h \in Nat
    BY <1>3, ProductGrows
  <1>5. m <= a => m * h <= a * h
    BY <1>3, ProductGrows
  <1>6. a < m
    BY <1>1, <1>2, <1>3, <1>4, <1>5
  <1>7. a \in 0 .. m - 1 /\ i = a * h + r
    BY <1>3, <1>4, <1>6
  <1>8. QED
    BY <1>7

(* rows are m copies of 0, 1, ..., h - 1.                                  *)
Copies(rows, m, h) ==
  /\ IsList(rows) /\ Len(rows) = m * h
  /\ \A a \in 0 .. m - 1 : \A r \in 0 .. h - 1 : rows[a * h + r + 1] = r

LEMMA MeltRowAt ==
  ASSUME NEW cols, NEW h \in Nat \ {0}, Height(cols) = h, NEW vals, IsList(vals), NEW m \in Nat, Len(vals) = m
  PROVE  Copies(MeltRows(cols, vals), m, h)
  <1>1. PICK rows, ss : rows = RowNumbers(cols) /\ ss = [k \in DOMAIN vals |-> RowNumbers(cols)]
    OBVIOUS
  <1>2. DOMAIN rows = 1 .. h /\ rows = [k \in 1 .. h |-> rows[k]] /\ \A k \in 1 .. h : rows[k] = k - 1
    BY <1>1 DEF RowNumbers
  <1>3. IsList(rows) /\ Len(rows) = h
    BY <1>2, ListOf
  <1>4. DOMAIN ss = 1 .. m /\ ss = [k \in 1 .. m |-> ss[k]] /\ \A k \in 1 .. m : ss[k] = rows
    BY <1>1 DEF IsList
  <1>5. PICK off : off = [k \in 0 .. m |-> k * h]
    OBVIOUS
  <1>6. off[0] = 0
    BY <1>5
  <1>7. ASSUME NEW k \in 1 .. m PROVE off[k] = off[k - 1] + h /\ off[k - 1] = (k - 1) * h
    <2>1. k - 1 \in Nat /\ k \in 0 .. m /\ k - 1 \in 0 .. m
      OBVIOUS
    <2>2. ((k - 1) + 1) * h = (k - 1) * h + h
      BY <2>1, ProductGrows
    <2>3. (k - 1) + 1 = k
      OBVIOUS
    <2>4. QED
      BY <1>5, <2>1, <2>2, <2>3
  <1>8. ListsAt(ss, m, off)
    BY <1>3, <1>4, <1>6, <1>7 DEF ListsAt
  <1>9. PICK t : t = FlattenSeq(ss)
    OBVIOUS
  <1>10. Flattened(t, ss, off, m)
    BY <1>8, <1>9, FlattenPlaces
  <1>11. off[m] = m * h
    BY <1>5
  <1>12. ASSUME NEW a \in 0 .. m - 1, NEW r \in 0 .. h - 1 PROVE t[a * h + r + 1] = r
    <2>1. a + 1 \in 1 .. m /\ (a + 1) - 1 = a /\ r + 1 \in 1 .. h /\ (r + 1) - 1 = r /\ a \in Nat
      OBVIOUS
    <2>2. t[off[(a + 1) - 1] + (r + 1)] = ss[a + 1][r + 1]
      BY <1>3, <1>4, <1>10, <2>1 DEF Flattened
    <2>3. off[(a + 1) - 1] = a * h
      BY <1>7, <2>1
    <2>4. a * h \in Nat
      BY <2>1, ProductGrows
    <2>5. a * h + (r + 1) = a * h + r + 1
      BY <2>4
    <2>6. ss[a + 1][r + 1] = r
      BY <1>2, <1>4, <2>1
    <2>7. QED
      BY <2>2, <2>3, <2>5, <2>6
  <1>13. MeltRows(cols, vals) = t
    BY <1>1, <1>9 DEF MeltRows
  <1>14. QED
    BY <1>10, <1>11, <1>12, <1>13 DEF Flattened, Copies

LEMMA CopiedCells ==
  ASSUME NEW s, IsSeries(s), s.dtype \in Buildable, NEW rows, IsList(rows), NEW n \in Nat, Len(rows) = n,
         \A k \in 1 .. n : rows[k] \in 0 .. s.arr.length - 1
  PROVE  /\ Copied(s, rows).name = s.name /\ Copied(s, rows).dtype = s.dtype
         /\ Copied(s, rows).arr.length = n
         /\ \A k \in 1 .. n : Cell(Copied(s, rows), k - 1) = Cell(s, rows[k])
  <1>1. PICK d, cells : d = s.dtype /\ cells = [k \in DOMAIN rows |-> CellAs(s, rows[k], TypeBuilt(s.dtype))]
    OBVIOUS
  <1>2. TypeBuilt(s.dtype) = d /\ Promotable(s, d)
    BY <1>1 DEF TypeBuilt, Promotable
  <1>3. DOMAIN cells = 1 .. n /\ cells = [k \in 1 .. n |-> cells[k]]
    BY <1>1 DEF IsList
  <1>4. Len(cells) = n
    BY <1>3, ListOf
  <1>5. ASSUME NEW k \in 1 .. n PROVE cells[k] = Cell(s, rows[k]) /\ CellFits(d, cells[k])
    <2>1. cells[k] = CellAs(s, rows[k], d)
      BY <1>1, <1>2, <1>3
    <2>2. rows[k] \in 0 .. s.arr.length - 1
      OBVIOUS
    <2>3. QED
      BY <1>2, <2>1, <2>2, PromotedCell, PromotedFits
  <1>6. Copied(s, rows) = Build(s.name, d, cells)
    BY <1>1, <1>2 DEF Copied
  <1>7. /\ Build(s.name, d, cells).name = s.name /\ Build(s.name, d, cells).dtype = d
        /\ Build(s.name, d, cells).arr.length = n
    BY <1>4, BuiltFits
  <1>8. \A k \in 1 .. n : Cell(Build(s.name, d, cells), k - 1) = cells[k]
    BY <1>4, <1>5, BuiltCells
  <1>9. QED
    BY <1>1, <1>5, <1>6, <1>7, <1>8

(* A column of texts that has no null                                      *)
LEMMA NewStringCells ==
  ASSUME NEW name, NEW texts, NEW n \in Nat, Len(texts) = n,
         \A k \in 1 .. n : IsList(texts[k]) /\ texts[k] # Null
  PROVE  \A k \in 1 .. n : Cell(NewString(name, texts), k - 1) = texts[k]
  <1>1. PICK s, v : s = NewString(name, texts) /\ v = BuiltValidity(texts)
    OBVIOUS
  <1>2. /\ s.dtype = "String" /\ s.arr.validity = nil
        /\ s.arr.bytes = Build(name, "String", texts).arr.bytes
        /\ s.arr.offsets = Build(name, "String", texts).arr.offsets
    BY <1>1, NewStringFits
  <1>3. PICK a : a = StringArray(BuiltBytes("String", texts), BuiltEnds("String", texts), v)
    OBVIOUS
  <1>4. \A k \in 1 .. n : CellFits("String", texts[k])
    BY DEF CellFits
  <1>5. \A k \in 1 .. n : BytesOf(a, k - 1) = ValueAs("String", texts, k - 1)
    BY <1>3, <1>4, BuiltText
  <1>6. Build(name, "String", texts).arr = a
    <2>1. Build(name, "String", texts) = Series(name, "String", BuiltArray("String", texts))
      BY BuildUnfolds
    <2>2. BuiltArray("String", texts) = a
      BY <1>1, <1>3 DEF BuiltArray
    <2>3. QED
      BY <2>1, <2>2 DEF Series
  <1>7. ASSUME NEW k \in 1 .. n PROVE Cell(s, k - 1) = texts[k]
    <2>1. Cell(s, k - 1) = BytesOf(s.arr, k - 1)
      BY <1>2 DEF Cell, IsNull, Value
    <2>2. BytesOf(s.arr, k - 1) = BytesOf(a, k - 1)
      BY <1>2, <1>6 DEF BytesOf
    <2>3. ValueAs("String", texts, k - 1) = texts[k]
      <3>1. (k - 1) + 1 = k
        OBVIOUS
      <3>2. QED
        BY <3>1 DEF ValueAs
    <2>4. QED
      BY <1>5, <2>1, <2>2, <2>3
  <1>8. QED
    BY <1>1, <1>7

-----------------------------------------------------------------------------
(* What Unpivot returns of columns of one kind                             *)

Meltable(cols, id, vals, h, m) ==
  /\ IsFrame(cols) /\ h \in Nat \ {0} /\ Height(cols) = h
  /\ IsList(vals) /\ Len(vals) = m /\ m \in Nat \ {0}
  /\ id \in DOMAIN cols /\ cols[id].dtype \in Buildable
  /\ \A v \in 1 .. m : /\ vals[v] \in DOMAIN cols /\ cols[vals[v]].dtype \in Buildable
                       /\ IsList(cols[vals[v]].name) /\ cols[vals[v]].name # Null
  /\ OfOneKind([v \in DOMAIN vals |-> cols[vals[v]]])

MeltedAt(index, variable, value, cols, id, vals, h, place, a, r) ==
  /\ TextOf(index, place) = TextOf(cols[id], r)
  /\ TextOf(variable, place) = cols[vals[a + 1]].name
  /\ Cell(value, place) = Cell(cols[vals[a + 1]], r)
  /\ CellFits(value.dtype, Cell(value, place))

Molten(index, variable, value, cols, id, vals, h, m) ==
  /\ index.arr.length = m * h /\ index.name = cols[id].name
  /\ variable.arr.length = m * h /\ value.dtype \in Buildable
  /\ \A a \in 0 .. m - 1 : \A r \in 0 .. h - 1 :
       MeltedAt(index, variable, value, cols, id, vals, h, a * h + r, a, r)

LEMMA MeltedSource ==
  ASSUME NEW cols, NEW id, NEW vals, NEW h, NEW m, Meltable(cols, id, vals, h, m),
         NEW a \in 0 .. m - 1, NEW r \in 0 .. h - 1
  PROVE  /\ MeltSource(cols, vals, a * h + r + 1) = cols[vals[a + 1]]
         /\ a + 1 \in 1 .. m /\ a * h + r + 1 \in 1 .. m * h /\ m * h \in Nat
         /\ (a * h + r + 1) - 1 = a * h + r
  <1>1. h \in Nat \ {0} /\ Height(cols) = h /\ m \in Nat \ {0} /\ a \in Nat /\ DOMAIN vals = 1 .. m
    BY DEF Meltable, IsList
  <1>2. a * h + r \in Nat /\ (a * h + r) \div h = a
    BY <1>1, CopyOfPlace
  <1>3. m * h \in Nat /\ a * h \in Nat /\ a * h + r \in 0 .. m * h - 1
    BY <1>1, PlaceInCopies
  <1>4. a + 1 \in 1 .. m /\ (a * h + r + 1) - 1 = a * h + r /\ a * h + r + 1 \in 1 .. m * h
    BY <1>1, <1>3
  <1>5. MeltSource(cols, vals, a * h + r + 1)
        = [i \in DOMAIN vals |-> cols[vals[i]]][(((a * h + r + 1) - 1) \div Height(cols)) + 1]
    BY DEF MeltSource
  <1>6. (((a * h + r + 1) - 1) \div Height(cols)) + 1 = a + 1
    BY <1>1, <1>2, <1>4
  <1>7. QED
    BY <1>1, <1>3, <1>4, <1>5, <1>6

LEMMA MeltedIndex ==
  ASSUME NEW cols, NEW id, NEW vals, NEW h, NEW m, Meltable(cols, id, vals, h, m),
         NEW index, index = Copied(cols[id], MeltRows(cols, vals))
  PROVE  /\ index.arr.length = m * h /\ index.name = cols[id].name
         /\ \A a \in 0 .. m - 1 : \A r \in 0 .. h - 1 : TextOf(index, a * h + r) = TextOf(cols[id], r)
  <1>1. /\ h \in Nat \ {0} /\ Height(cols) = h /\ m \in Nat \ {0} /\ IsList(vals) /\ Len(vals) = m
        /\ IsFrame(cols) /\ id \in DOMAIN cols /\ cols[id].dtype \in Buildable
    BY DEF Meltable
  <1>2. PICK rows, s : rows = MeltRows(cols, vals) /\ s = cols[id]
    OBVIOUS
  <1>3. /\ IsList(rows) /\ Len(rows) = m * h
        /\ \A a \in 0 .. m - 1 : \A r \in 0 .. h - 1 : rows[a * h + r + 1] = r
    <2>1. Copies(rows, m, h)
      BY <1>1, <1>2, MeltRowAt
    <2>2. QED
      BY <2>1 DEF Copies
  <1>4. IsSeries(s) /\ s.arr.length = h
    BY <1>1, <1>2 DEF IsFrame
  <1>5. PICK n : n = m * h
    OBVIOUS
  <1>6. n \in Nat
    BY <1>1, <1>5, ProductGrows
  <1>7. ASSUME NEW k \in 1 .. n PROVE rows[k] \in 0 .. s.arr.length - 1
    <2>1. k - 1 \in 0 .. m * h - 1
      BY <1>5, <1>6
    <2>2. PICK a \in 0 .. m - 1, r \in 0 .. h - 1 : k - 1 = a * h + r
      BY <1>1, <2>1, PlaceOfCopy
    <2>3. a * h + r + 1 = k
      <3>1. a * h \in Nat
        BY <1>1, <2>2, ProductGrows
      <3>2. QED
        BY <2>2, <3>1
    <2>4. rows[k] = r
      BY <1>3, <2>3
    <2>5. QED
      BY <1>4, <2>4
  <1>8. /\ index.name = s.name /\ index.dtype = s.dtype /\ index.arr.length = n
        /\ \A k \in 1 .. n : Cell(index, k - 1) = Cell(s, rows[k])
    <2>1. IsList(rows) /\ Len(rows) = n /\ s.dtype \in Buildable
      BY <1>1, <1>2, <1>3, <1>5
    <2>2. /\ Copied(s, rows).name = s.name /\ Copied(s, rows).dtype = s.dtype
          /\ Copied(s, rows).arr.length = n
          /\ \A k \in 1 .. n : Cell(Copied(s, rows), k - 1) = Cell(s, rows[k])
      BY <1>4, <1>6, <1>7, <2>1, CopiedCells
    <2>3. QED
      BY <1>2, <2>2
  <1>9. ASSUME NEW a \in 0 .. m - 1, NEW r \in 0 .. h - 1 PROVE TextOf(index, a * h + r) = TextOf(s, r)
    <2>1. a * h + r + 1 \in 1 .. n /\ (a * h + r + 1) - 1 = a * h + r
      BY <1>5, MeltedSource
    <2>2. Cell(index, (a * h + r + 1) - 1) = Cell(s, rows[a * h + r + 1])
      BY <1>8, <2>1
    <2>3. Cell(index, a * h + r) = Cell(s, r)
      BY <1>3, <2>1, <2>2
    <2>4. QED
      BY <1>8, <2>3 DEF TextOf
  <1>10. QED
    BY <1>2, <1>5, <1>8, <1>9

LEMMA MeltedVariable ==
  ASSUME NEW cols, NEW id, NEW vals, NEW h, NEW m, Meltable(cols, id, vals, h, m),
         NEW variable, variable = NewString(<<"variable">>, MeltNames(cols, vals))
  PROVE  /\ variable.arr.length = m * h
         /\ \A a \in 0 .. m - 1 : \A r \in 0 .. h - 1 : TextOf(variable, a * h + r) = cols[vals[a + 1]].name
  <1>1. /\ h \in Nat \ {0} /\ Height(cols) = h /\ m \in Nat \ {0} /\ IsList(vals) /\ Len(vals) = m
    BY DEF Meltable
  <1>2. PICK rows, names, n : rows = MeltRows(cols, vals) /\ names = MeltNames(cols, vals) /\ n = m * h
    OBVIOUS
  <1>3. n \in Nat
    BY <1>1, <1>2, ProductGrows
  <1>4. DOMAIN rows = 1 .. n
    <2>1. Copies(rows, m, h)
      BY <1>1, <1>2, MeltRowAt
    <2>2. QED
      BY <1>2, <2>1 DEF Copies, IsList
  <1>5. /\ DOMAIN names = 1 .. n /\ names = [k \in 1 .. n |-> names[k]]
        /\ \A k \in 1 .. n : names[k] = MeltSource(cols, vals, k).name
    BY <1>2, <1>4 DEF MeltNames
  <1>6. Len(names) = n
    BY <1>3, <1>5, ListOf
  <1>7. ASSUME NEW a \in 0 .. m - 1, NEW r \in 0 .. h - 1
        PROVE  /\ a * h + r + 1 \in 1 .. n /\ (a * h + r + 1) - 1 = a * h + r
               /\ names[a * h + r + 1] = cols[vals[a + 1]].name
               /\ IsList(cols[vals[a + 1]].name) /\ cols[vals[a + 1]].name # Null
    <2>1. /\ MeltSource(cols, vals, a * h + r + 1) = cols[vals[a + 1]]
          /\ a + 1 \in 1 .. m /\ a * h + r + 1 \in 1 .. n /\ (a * h + r + 1) - 1 = a * h + r
      BY <1>2, MeltedSource
    <2>2. QED
      BY <1>5, <2>1 DEF Meltable
  <1>8. ASSUME NEW k \in 1 .. n PROVE IsList(names[k]) /\ names[k] # Null
    <2>1. k - 1 \in 0 .. m * h - 1
      BY <1>2, <1>3
    <2>2. PICK a \in 0 .. m - 1, r \in 0 .. h - 1 : k - 1 = a * h + r
      BY <1>1, <2>1, PlaceOfCopy
    <2>3. a * h + r + 1 = k
      <3>1. a * h \in Nat
        BY <1>1, <2>2, ProductGrows
      <3>2. QED
        BY <2>2, <3>1
    <2>4. QED
      BY <1>7, <2>3
  <1>9. \A k \in 1 .. n : Cell(NewString(<<"variable">>, names), k - 1) = names[k]
    BY <1>3, <1>6, <1>8, NewStringCells
  <1>10. variable.dtype = "String" /\ variable.arr.length = n
    BY <1>2, <1>3, <1>6, NewStringFits
  <1>11. ASSUME NEW a \in 0 .. m - 1, NEW r \in 0 .. h - 1
         PROVE  TextOf(variable, a * h + r) = cols[vals[a + 1]].name
    <2>1. Cell(variable, (a * h + r + 1) - 1) = names[a * h + r + 1]
      BY <1>2, <1>7, <1>9
    <2>2. Cell(variable, a * h + r) = cols[vals[a + 1]].name /\ cols[vals[a + 1]].name # Null
      BY <1>7, <2>1
    <2>3. variable.dtype \in Buildable
      BY <1>10 DEF Buildable
    <2>4. QED
      BY <1>10, <2>2, <2>3 DEF TextOf
  <1>12. QED
    BY <1>2, <1>10, <1>11

LEMMA MeltedValue ==
  ASSUME NEW cols, NEW id, NEW vals, NEW h, NEW m, Meltable(cols, id, vals, h, m),
         NEW value, value = Build(<<"value">>, MeltType(cols, vals), MeltCells(cols, vals))
  PROVE  /\ value.dtype \in Buildable
         /\ \A a \in 0 .. m - 1 : \A r \in 0 .. h - 1 :
              /\ Cell(value, a * h + r) = Cell(cols[vals[a + 1]], r)
              /\ CellFits(value.dtype, Cell(value, a * h + r))
  <1>1. /\ h \in Nat \ {0} /\ Height(cols) = h /\ m \in Nat \ {0} /\ IsList(vals) /\ Len(vals) = m
        /\ IsFrame(cols) /\ DOMAIN vals = 1 .. m
    BY DEF Meltable, IsList
  <1>2. PICK rows, cells, n : rows = MeltRows(cols, vals) /\ cells = MeltCells(cols, vals) /\ n = m * h
    OBVIOUS
  <1>3. n \in Nat
    BY <1>1, <1>2, ProductGrows
  <1>4. PICK melted, type : melted = [v \in DOMAIN vals |-> cols[vals[v]]] /\ type = MeltType(cols, vals)
    OBVIOUS
  <1>5. type \in Buildable /\ \A v \in 1 .. m : Promotable(cols[vals[v]], type)
    <2>1. DOMAIN melted = 1 .. m /\ melted = [v \in 1 .. m |-> melted[v]]
          /\ \A v \in 1 .. m : melted[v] = cols[vals[v]]
      BY <1>1, <1>4
    <2>2. IsList(melted) /\ Len(melted) = m
      BY <1>1, <2>1, ListOf
    <2>3. OfOneKind(melted)
      BY <1>4 DEF Meltable
    <2>4. TypeOfFirst(melted, m, CommonType(melted))
      BY <1>1, <2>2, <2>3, CommonTypePromotes
    <2>5. CommonType(melted) \in Buildable
      <3>1. PICK v \in 1 .. m : CommonType(melted) = melted[v].dtype
        BY <2>4 DEF TypeOfFirst
      <3>2. QED
        BY <2>1, <3>1 DEF Meltable
    <2>6. type = CommonType(melted)
      BY <1>4, <2>5 DEF MeltType, TypeBuilt
    <2>7. QED
      BY <2>1, <2>4, <2>5, <2>6 DEF TypeOfFirst
  <1>6. DOMAIN rows = 1 .. n /\ \A a \in 0 .. m - 1 : \A r \in 0 .. h - 1 : rows[a * h + r + 1] = r
    <2>1. Copies(rows, m, h)
      BY <1>1, <1>2, MeltRowAt
    <2>2. QED
      BY <1>2, <2>1 DEF Copies, IsList
  <1>7. /\ DOMAIN cells = 1 .. n /\ cells = [k \in 1 .. n |-> cells[k]]
        /\ \A k \in 1 .. n : cells[k] = CellAs(MeltSource(cols, vals, k), rows[k], type)
    BY <1>2, <1>4, <1>6 DEF MeltCells
  <1>8. Len(cells) = n
    BY <1>3, <1>7, ListOf
  <1>9. ASSUME NEW a \in 0 .. m - 1, NEW r \in 0 .. h - 1
        PROVE  /\ a * h + r + 1 \in 1 .. n /\ (a * h + r + 1) - 1 = a * h + r
               /\ cells[a * h + r + 1] = Cell(cols[vals[a + 1]], r)
               /\ CellFits(type, Cell(cols[vals[a + 1]], r))
    <2>1. /\ MeltSource(cols, vals, a * h + r + 1) = cols[vals[a + 1]]
          /\ a + 1 \in 1 .. m /\ a * h + r + 1 \in 1 .. n /\ (a * h + r + 1) - 1 = a * h + r
      BY <1>2, MeltedSource
    <2>2. cells[a * h + r + 1] = CellAs(cols[vals[a + 1]], r, type)
      BY <1>6, <1>7, <2>1
    <2>3. vals[a + 1] \in DOMAIN cols
      BY <2>1 DEF Meltable
    <2>4. IsSeries(cols[vals[a + 1]]) /\ cols[vals[a + 1]].arr.length = h
      BY <1>1, <2>3 DEF IsFrame
    <2>5. Promotable(cols[vals[a + 1]], type)
      BY <1>5, <2>1
    <2>6. r \in 0 .. cols[vals[a + 1]].arr.length - 1
      BY <2>4
    <2>7. QED
      BY <2>1, <2>2, <2>4, <2>5, <2>6, PromotedCell, PromotedFits
  <1>10. ASSUME NEW k \in 1 .. n PROVE CellFits(type, cells[k])
    <2>1. k - 1 \in 0 .. m * h - 1
      BY <1>2, <1>3
    <2>2. PICK a \in 0 .. m - 1, r \in 0 .. h - 1 : k - 1 = a * h + r
      BY <1>1, <2>1, PlaceOfCopy
    <2>3. a * h + r + 1 = k
      <3>1. a * h \in Nat
        BY <1>1, <2>2, ProductGrows
      <3>2. QED
        BY <2>2, <3>1
    <2>4. QED
      BY <1>9, <2>3
  <1>11. \A k \in 1 .. n : Cell(Build(<<"value">>, type, cells), k - 1) = cells[k]
    BY <1>3, <1>8, <1>10, BuiltCells
  <1>12. value.dtype = type
    BY <1>2, <1>3, <1>4, <1>8, BuiltFits
  <1>13. ASSUME NEW a \in 0 .. m - 1, NEW r \in 0 .. h - 1
         PROVE  Cell(value, a * h + r) = Cell(cols[vals[a + 1]], r)
    <2>1. Cell(value, (a * h + r + 1) - 1) = cells[a * h + r + 1]
      BY <1>2, <1>4, <1>9, <1>11
    <2>2. QED
      BY <1>9, <2>1
  <1>14. QED
    BY <1>5, <1>9, <1>12, <1>13

LEMMA UnpivotMelts ==
  ASSUME NEW cols, NEW ids, IsList(ids), NEW p \in Nat \ {0}, Len(ids) = p, NEW vals, NEW h, NEW m,
         Meltable(cols, ids[1], vals, h, m), NEW f, f = Unpivot(cols, ids, vals), f # nil
  PROVE  /\ Molten(f.cols[1], f.cols[p + 1], f.cols[p + 2], cols, ids[1], vals, h, m)
         /\ Height(f.cols) = m * h
  <1>1. PICK rows, x : rows = MeltRows(cols, vals) /\ x = [k \in DOMAIN ids |-> Copied(cols[ids[k]], rows)]
    OBVIOUS
  <1>2. PICK s, t : /\ s = NewString(<<"variable">>, MeltNames(cols, vals))
                    /\ t = Build(<<"value">>, MeltType(cols, vals), MeltCells(cols, vals))
    OBVIOUS
  <1>3. PICK y, z : y = <<s, t>> /\ z = x \o y
    OBVIOUS
  <1>4. f.cols = z
    <2>1. f = New(z)
      BY <1>1, <1>2, <1>3, UnpivotUnfolds
    <2>2. QED
      BY <2>1, NewKeepsColumns
  <1>5. IsList(x) /\ Len(x) = p /\ x[1] = Copied(cols[ids[1]], rows)
    <2>1. DOMAIN x = 1 .. p /\ x = [k \in 1 .. p |-> x[k]] /\ x[1] = Copied(cols[ids[1]], rows)
      BY <1>1 DEF IsList
    <2>2. QED
      BY <2>1, ListOf
  <1>6. IsList(y) /\ Len(y) = 2
    <2>1. y \in Seq({s, t}) /\ Len(y) = 2
      BY <1>3
    <2>2. QED
      BY <2>1, SeqIsList
  <1>7. z[1] = x[1] /\ z[p + 1] = s /\ z[p + 2] = t
    <2>1. IsList(x) /\ IsList(y)
      BY <1>5, <1>6
    <2>2. /\ \A k \in 1 .. Len(x) : (x \o y)[k] = x[k]
          /\ \A k \in 1 .. Len(y) : (x \o y)[Len(x) + k] = y[k]
      BY <2>1, ListsConcat
    <2>3. 1 \in 1 .. p /\ 1 \in 1 .. 2 /\ 2 \in 1 .. 2 /\ y[1] = s /\ y[2] = t
      BY <1>3
    <2>4. QED
      BY <1>3, <1>5, <1>6, <2>2, <2>3
  <1>8. Molten(z[1], z[p + 1], z[p + 2], cols, ids[1], vals, h, m)
    <2>1. /\ x[1].arr.length = m * h /\ x[1].name = cols[ids[1]].name
          /\ \A a \in 0 .. m - 1 : \A r \in 0 .. h - 1 : TextOf(x[1], a * h + r) = TextOf(cols[ids[1]], r)
      BY <1>1, <1>5, MeltedIndex
    <2>2. /\ s.arr.length = m * h
          /\ \A a \in 0 .. m - 1 : \A r \in 0 .. h - 1 : TextOf(s, a * h + r) = cols[vals[a + 1]].name
      BY <1>2, MeltedVariable
    <2>3. /\ t.dtype \in Buildable
          /\ \A a \in 0 .. m - 1 : \A r \in 0 .. h - 1 :
               /\ Cell(t, a * h + r) = Cell(cols[vals[a + 1]], r)
               /\ CellFits(t.dtype, Cell(t, a * h + r))
      BY <1>2, MeltedValue
    <2>4. ASSUME NEW a \in 0 .. m - 1, NEW r \in 0 .. h - 1
          PROVE  MeltedAt(x[1], s, t, cols, ids[1], vals, h, a * h + r, a, r)
      BY <2>1, <2>2, <2>3 DEF MeltedAt
    <2>5. QED
      BY <1>7, <2>1, <2>2, <2>3, <2>4 DEF Molten
  <1>9. Height(f.cols) = m * h
    BY <1>4, <1>8 DEF Molten, Height
  <1>10. QED
    BY <1>4, <1>8, <1>9

-----------------------------------------------------------------------------
(* Pivot of what Unpivot returned                                          *)

LEMMA TextIsList ==
  ASSUME NEW s, IsSeries(s), NEW i \in 0 .. s.arr.length - 1
  PROVE  IsList(TextOf(s, i)) /\ TextOf(s, i) # Null
  <1>1. PICK T : T = Int \cup BOOLEAN \cup {Null}
    OBVIOUS
  <1>2. Null \notin Seq(T)
    BY <1>1, CellAssumption
  <1>3. ASSUME NEW x \in T PROVE IsList(<<x>>) /\ <<x>> # Null
    <2>1. <<x>> \in Seq(T)
      OBVIOUS
    <2>2. QED
      BY <1>2, <2>1, SeqIsList
  <1>4. CASE s.dtype \notin Buildable \/ Cell(s, i) = Null
    <2>1. TextOf(s, i) = <<Null>>
      BY <1>4 DEF TextOf
    <2>2. QED
      BY <1>1, <1>3, <2>1
  <1>5. CASE s.dtype \in Buildable /\ Cell(s, i) # Null /\ s.dtype = "String"
    <2>1. TextOf(s, i) = Cell(s, i)
      BY <1>5 DEF TextOf
    <2>2. QED
      BY <1>5, <2>1, TextCellList
  <1>6. CASE s.dtype \in Buildable /\ Cell(s, i) # Null /\ s.dtype # "String"
    <2>1. TextOf(s, i) = <<Cell(s, i)>>
      BY <1>6 DEF TextOf
    <2>2. Cell(s, i) \in T
      <3>1. CASE s.dtype = "Boolean"
        <4>1. CellFits(s.dtype, Cell(s, i))
          BY CellsFit
        <4>2. QED
          BY <1>1, <1>6, <3>1, <4>1 DEF CellFits
      <3>2. CASE s.dtype # "Boolean"
        <4>1. IsTyped(s.arr)
          BY <1>6, <3>2 DEF IsSeries, IsArray
        <4>2. s.arr.values[i] \in Int
          BY <4>1 DEF IsTyped
        <4>3. Cell(s, i) = s.arr.values[i]
          BY <1>6, <3>2 DEF Cell, Value
        <4>4. QED
          BY <1>1, <4>2, <4>3
      <3>3. QED
        BY <3>1, <3>2
    <2>3. QED
      BY <1>3, <2>1, <2>2
  <1>7. QED
    BY <1>4, <1>5, <1>6

LEMMA MeltedPlace ==
  ASSUME NEW index, NEW variable, NEW value, NEW cols, NEW id, NEW vals, NEW h, NEW m,
         Meltable(cols, id, vals, h, m), Molten(index, variable, value, cols, id, vals, h, m),
         NEW i \in 0 .. m * h - 1
  PROVE  \E a \in 0 .. m - 1 : \E r \in 0 .. h - 1 :
           /\ i = a * h + r /\ a * h \in Nat /\ (a = 0 => i = r) /\ (a # 0 => r < i)
           /\ MeltedAt(index, variable, value, cols, id, vals, h, i, a, r)
  <1>1. h \in Nat \ {0} /\ m \in Nat \ {0}
    BY DEF Meltable
  <1>2. PICK a \in 0 .. m - 1, r \in 0 .. h - 1 : i = a * h + r
    BY <1>1, PlaceOfCopy
  <1>3. a * h \in Nat /\ 0 * h + h = (0 + 1) * h /\ (0 < a => 0 * h + h <= a * h) /\ (a = 0 => a * h = 0)
    BY <1>1, <1>2, ProductGrows
  <1>4. 0 * h = 0
    BY <1>1
  <1>5. (a = 0 => i = r) /\ (a # 0 => r < i)
    BY <1>1, <1>2, <1>3, <1>4
  <1>6. MeltedAt(index, variable, value, cols, id, vals, h, i, a, r)
    BY <1>2 DEF Molten
  <1>7. QED
    BY <1>2, <1>3, <1>5, <1>6

(* The first copy                                                          *)
LEMMA FirstCopy ==
  ASSUME NEW index, NEW variable, NEW value, NEW cols, NEW id, NEW vals, NEW h, NEW m,
         Meltable(cols, id, vals, h, m), Molten(index, variable, value, cols, id, vals, h, m),
         NEW r \in 0 .. h - 1
  PROVE  r \in 0 .. m * h - 1 /\ TextOf(index, r) = TextOf(cols[id], r)
  <1>1. h \in Nat \ {0} /\ m \in Nat \ {0} /\ 0 \in 0 .. m - 1
    BY DEF Meltable
  <1>2. 0 * h + r = r
    BY <1>1
  <1>3. 0 * h + r \in 0 .. m * h - 1
    BY <1>1, PlaceInCopies
  <1>4. MeltedAt(index, variable, value, cols, id, vals, h, 0 * h + r, 0, r)
    BY <1>1 DEF Molten
  <1>5. QED
    BY <1>2, <1>3, <1>4 DEF MeltedAt

LEMMA IndexFirsts ==
  ASSUME NEW index, NEW variable, NEW value, NEW cols, NEW id, NEW vals, NEW h, NEW m,
         Meltable(cols, id, vals, h, m), Molten(index, variable, value, cols, id, vals, h, m)
  PROVE  FirstRows(index, m * h) = FirstRows(cols[id], h)
  <1>1. h \in Nat \ {0} /\ m \in Nat \ {0}
    BY DEF Meltable
  <1>2. \A r \in 0 .. h - 1 : r \in 0 .. m * h - 1 /\ TextOf(index, r) = TextOf(cols[id], r)
    BY FirstCopy
  <1>3. PICK n : n = m * h
    OBVIOUS
  <1>4. ASSUME NEW i \in FirstRows(index, n) PROVE i \in FirstRows(cols[id], h)
    <2>1. i \in 0 .. n - 1 /\ \A j \in 0 .. i - 1 : TextOf(index, j) # TextOf(index, i)
      BY DEF FirstRows
    <2>2. PICK a \in 0 .. m - 1, r \in 0 .. h - 1 :
            /\ (a = 0 => i = r) /\ (a # 0 => r < i)
            /\ MeltedAt(index, variable, value, cols, id, vals, h, i, a, r)
      BY <1>3, <2>1, MeltedPlace
    <2>3. TextOf(index, i) = TextOf(index, r)
      BY <1>2, <2>2 DEF MeltedAt
    <2>4. ~(r < i)
      BY <1>1, <2>1, <2>3
    <2>5. i = r
      BY <2>2, <2>4
    <2>6. ASSUME NEW j \in 0 .. i - 1 PROVE TextOf(cols[id], j) # TextOf(cols[id], i)
      <3>1. j \in 0 .. h - 1
        BY <1>1, <2>5
      <3>2. QED
        BY <1>2, <2>1, <2>5, <3>1
    <2>7. QED
      BY <2>5, <2>6 DEF FirstRows
  <1>5. ASSUME NEW i \in FirstRows(cols[id], h) PROVE i \in FirstRows(index, n)
    <2>1. i \in 0 .. h - 1 /\ \A j \in 0 .. i - 1 : TextOf(cols[id], j) # TextOf(cols[id], i)
      BY DEF FirstRows
    <2>2. ASSUME NEW j \in 0 .. i - 1 PROVE TextOf(index, j) # TextOf(index, i)
      <3>1. j \in 0 .. h - 1
        BY <1>1, <2>1
      <3>2. QED
        BY <1>2, <2>1, <3>1
    <2>3. i \in 0 .. n - 1
      BY <1>2, <1>3, <2>1
    <2>4. QED
      BY <2>2, <2>3 DEF FirstRows
  <1>6. QED
    BY <1>3, <1>4, <1>5

(* The value columns have different names.                                 *)
NamesApart(cols, vals, m) ==
  \A a, b \in 0 .. m - 1 : cols[vals[a + 1]].name = cols[vals[b + 1]].name => a = b

LEMMA VariableFirsts ==
  ASSUME NEW index, NEW variable, NEW value, NEW cols, NEW id, NEW vals, NEW h, NEW m,
         Meltable(cols, id, vals, h, m), Molten(index, variable, value, cols, id, vals, h, m),
         NamesApart(cols, vals, m)
  PROVE  FirstRows(variable, m * h) = {a * h : a \in 0 .. m - 1}
  <1>1. h \in Nat \ {0} /\ m \in Nat \ {0}
    BY DEF Meltable
  <1>2. PICK n : n = m * h
    OBVIOUS
  <1>3. ASSUME NEW i \in FirstRows(variable, n) PROVE i \in {a * h : a \in 0 .. m - 1}
    <2>1. i \in 0 .. n - 1 /\ \A j \in 0 .. i - 1 : TextOf(variable, j) # TextOf(variable, i)
      BY DEF FirstRows
    <2>2. PICK a \in 0 .. m - 1, r \in 0 .. h - 1 :
            /\ i = a * h + r /\ a * h \in Nat
            /\ MeltedAt(index, variable, value, cols, id, vals, h, i, a, r)
      BY <1>2, <2>1, MeltedPlace
    <2>3. MeltedAt(index, variable, value, cols, id, vals, h, a * h + 0, a, 0)
      <3>1. 0 \in 0 .. h - 1
        BY <1>1
      <3>2. QED
        BY <2>2, <3>1 DEF Molten
    <2>4. a * h + 0 = a * h
      BY <2>2
    <2>5. TextOf(variable, a * h) = TextOf(variable, i)
      BY <2>2, <2>3, <2>4 DEF MeltedAt
    <2>6. ~(a * h < i)
      <3>1. a * h < i => a * h \in 0 .. i - 1
        BY <2>1, <2>2
      <3>2. QED
        BY <2>1, <2>5, <3>1
    <2>7. i = a * h
      BY <2>2, <2>6
    <2>8. QED
      BY <2>7
  <1>4. ASSUME NEW a \in 0 .. m - 1 PROVE a * h \in FirstRows(variable, n)
    <2>1. 0 \in 0 .. h - 1 /\ a \in Nat
      BY <1>1
    <2>2. a * h \in Nat /\ a * h + 0 \in 0 .. m * h - 1 /\ m * h \in Nat
      BY <1>1, <2>1, PlaceInCopies
    <2>3. a * h + 0 = a * h
      BY <2>2
    <2>4. MeltedAt(index, variable, value, cols, id, vals, h, a * h + 0, a, 0)
      BY <2>1 DEF Molten
    <2>5. ASSUME NEW j \in 0 .. a * h - 1, TextOf(variable, j) = TextOf(variable, a * h) PROVE FALSE
      <3>1. j \in 0 .. m * h - 1
        BY <2>2, <2>3
      <3>2. PICK b \in 0 .. m - 1, q \in 0 .. h - 1 :
              /\ j = b * h + q /\ b * h \in Nat
              /\ MeltedAt(index, variable, value, cols, id, vals, h, j, b, q)
        BY <3>1, MeltedPlace
      <3>3. cols[vals[b + 1]].name = cols[vals[a + 1]].name
        BY <2>3, <2>4, <2>5, <3>2 DEF MeltedAt
      <3>4. a = b
        BY <3>3 DEF NamesApart
      <3>5. QED
        BY <2>2, <3>2, <3>4
    <2>6. a * h \in 0 .. n - 1
      BY <1>2, <2>2, <2>3
    <2>7. \A j \in 0 .. a * h - 1 : TextOf(variable, j) # TextOf(variable, a * h)
      BY <2>5
    <2>8. QED
      BY <2>6, <2>7 DEF FirstRows
  <1>5. QED
    BY <1>2, <1>3, <1>4

(* The texts of the grid: one row a text of the identifier, one column a value column *)
GridTexts(index, variable, cols, id, vals, h, m) ==
  LET F == FirstRows(cols[id], h) IN
  /\ IsList(TextsInOrder(index)) /\ Len(TextsInOrder(index)) = Cardinality(F)
  /\ \A k \in 1 .. Cardinality(F) : TextsInOrder(index)[k] = TextOf(cols[id], RowList(F)[k])
  /\ IsList(TextsInOrder(variable)) /\ Len(TextsInOrder(variable)) = m
  /\ \A a \in 0 .. m - 1 : TextsInOrder(variable)[a + 1] = cols[vals[a + 1]].name

LEMMA MoltenTexts ==
  ASSUME NEW index, NEW variable, NEW value, NEW cols, NEW id, NEW vals, NEW h, NEW m,
         Meltable(cols, id, vals, h, m), Molten(index, variable, value, cols, id, vals, h, m),
         NamesApart(cols, vals, m)
  PROVE  GridTexts(index, variable, cols, id, vals, h, m)
  <1>1. h \in Nat \ {0} /\ m \in Nat \ {0} /\ m * h \in Nat
    BY ProductGrows DEF Meltable
  <1>2. PICK n, F : n = m * h /\ F = FirstRows(cols[id], h)
    OBVIOUS
  <1>3. PICK t, u : t = TextsInOrder(index) /\ u = TextsInOrder(variable)
    OBVIOUS
  <1>4. TextsOf(t, index, n) /\ TextsOf(u, variable, n)
    <2>1. n \in Nat /\ index.arr.length = n /\ variable.arr.length = n
      BY <1>1, <1>2 DEF Molten
    <2>2. QED
      BY <1>3, <2>1, TextsOfFirsts
  <1>5. FirstRows(index, n) = F
    BY <1>2, IndexFirsts
  <1>6. IsList(t) /\ Len(t) = Cardinality(F) /\ \A k \in 1 .. Cardinality(F) : t[k] = TextOf(index, RowList(F)[k])
    BY <1>4, <1>5 DEF TextsOf
  <1>7. ASSUME NEW k \in 1 .. Cardinality(F) PROVE t[k] = TextOf(cols[id], RowList(F)[k])
    <2>1. RowList(F)[k] \in F
      <3>1. IsFiniteSet(F) /\ \A x \in F : x \in Int
        BY <1>1, <1>2, FirstRowsFinite
      <3>2. RowList(F) \in Seq(F) /\ Len(RowList(F)) = Cardinality(F) /\ Cardinality(F) \in Nat
        BY <3>1, RowListAscends
      <3>3. QED
        BY <3>2
    <2>2. RowList(F)[k] \in 0 .. h - 1
      BY <1>2, <2>1 DEF FirstRows
    <2>3. TextOf(index, RowList(F)[k]) = TextOf(cols[id], RowList(F)[k])
      BY <2>2, FirstCopy
    <2>4. QED
      BY <1>6, <2>3
  <1>8. PICK G, s : G = FirstRows(variable, n) /\ s = [k \in 1 .. m |-> (k - 1) * h]
    OBVIOUS
  <1>9. ASSUME NEW k \in 1 .. m PROVE s[k] = (k - 1) * h /\ (k - 1) * h \in Nat
    <2>1. k - 1 \in Nat
      OBVIOUS
    <2>2. QED
      BY <1>1, <1>8, <2>1, ProductGrows
  <1>10. s \in Seq(Int) /\ Len(s) = m
    <2>1. DOMAIN s = 1 .. m /\ s = [k \in 1 .. m |-> s[k]]
      BY <1>8
    <2>2. \A k \in 1 .. m : s[k] \in Int
      BY <1>9
    <2>3. m \in Nat
      BY <1>1
    <2>4. QED
      BY <2>1, <2>2, <2>3, SequenceOf
  <1>11. Ascending(s)
    <2>1. ASSUME NEW k \in 1 .. m, NEW l \in 1 .. m, k < l PROVE s[k] < s[l]
      <3>1. k - 1 \in Nat /\ l - 1 \in Nat /\ k - 1 < l - 1
        BY <2>1
      <3>2. (k - 1) * h + h <= (l - 1) * h
        BY <1>1, <3>1, ProductGrows
      <3>3. QED
        BY <1>1, <1>9, <3>2
    <2>2. DOMAIN s = 1 .. m
      BY <1>8
    <2>3. QED
      BY <2>1, <2>2 DEF Ascending
  <1>12. ToSet(s) = G
    <2>1. G = {a * h : a \in 0 .. m - 1}
      BY <1>2, <1>8, VariableFirsts
    <2>2. ToSet(s) = {s[k] : k \in 1 .. m}
      BY <1>8 DEF ToSet
    <2>3. ASSUME NEW x \in G PROVE x \in ToSet(s)
      <3>1. PICK a \in 0 .. m - 1 : x = a * h
        BY <2>1
      <3>2. a + 1 \in 1 .. m /\ (a + 1) - 1 = a
        BY <1>1
      <3>3. s[a + 1] = ((a + 1) - 1) * h
        BY <1>9, <3>2
      <3>4. s[a + 1] = x
        BY <3>1, <3>2, <3>3
      <3>5. QED
        BY <2>2, <3>2, <3>4
    <2>4. ASSUME NEW x \in ToSet(s) PROVE x \in G
      <3>1. PICK k \in 1 .. m : x = s[k]
        BY <2>2
      <3>2. k - 1 \in 0 .. m - 1
        BY <1>1
      <3>3. x = (k - 1) * h
        BY <1>9, <3>1
      <3>4. QED
        BY <2>1, <3>2, <3>3
    <2>5. QED
      BY <2>3, <2>4
  <1>13. RowList(G) = s /\ Cardinality(G) = m
    BY <1>10, <1>11, <1>12, AscendingIsRowList
  <1>14. IsList(u) /\ Len(u) = m /\ \A k \in 1 .. m : u[k] = TextOf(variable, s[k])
    BY <1>4, <1>8, <1>13 DEF TextsOf
  <1>15. ASSUME NEW a \in 0 .. m - 1 PROVE u[a + 1] = cols[vals[a + 1]].name
    <2>1. a + 1 \in 1 .. m /\ (a + 1) - 1 = a /\ 0 \in 0 .. h - 1
      BY <1>1
    <2>2. s[a + 1] = ((a + 1) - 1) * h /\ ((a + 1) - 1) * h \in Nat
      BY <1>9, <2>1
    <2>3. s[a + 1] = a * h + 0
      BY <2>1, <2>2
    <2>4. MeltedAt(index, variable, value, cols, id, vals, h, a * h + 0, a, 0)
      BY <2>1 DEF Molten
    <2>5. QED
      BY <1>14, <2>1, <2>3, <2>4 DEF MeltedAt
  <1>16. QED
    BY <1>2, <1>3, <1>6, <1>7, <1>14, <1>15 DEF GridTexts

(* The rows the cell of a text and a column is looked for in, and the first of them *)
LEMMA MoltenGridRows ==
  ASSUME NEW long, NEW p, NEW cols, NEW id, NEW vals, NEW h, NEW m,
         Meltable(cols, id, vals, h, m), Molten(long[1], long[p + 1], long[p + 2], cols, id, vals, h, m),
         NamesApart(cols, vals, m), NEW first \in FirstRows(cols[id], h), NEW a \in 0 .. m - 1
  PROVE  LET rows == GridRows(long, 1, p + 1, TextOf(cols[id], first), cols[vals[a + 1]].name)
         IN a * h + first \in rows /\ FirstOf(rows) = a * h + first
  <1>1. h \in Nat \ {0} /\ m \in Nat \ {0} /\ a \in Nat
    BY DEF Meltable
  <1>2. PICK index, variable, value : index = long[1] /\ variable = long[p + 1] /\ value = long[p + 2]
    OBVIOUS
  <1>3. Molten(index, variable, value, cols, id, vals, h, m)
    BY <1>2
  <1>4. PICK rows, x : /\ rows = GridRows(long, 1, p + 1, TextOf(cols[id], first), cols[vals[a + 1]].name)
                       /\ x = a * h + first
    OBVIOUS
  <1>5. Height(long) = m * h
    BY <1>2, <1>3 DEF Height, Molten
  <1>6. first \in 0 .. h - 1 /\ \A j \in 0 .. first - 1 : TextOf(cols[id], j) # TextOf(cols[id], first)
    BY DEF FirstRows
  <1>7. x \in 0 .. m * h - 1 /\ a * h \in Nat
    BY <1>1, <1>4, <1>6, PlaceInCopies
  <1>8. MeltedAt(index, variable, value, cols, id, vals, h, x, a, first)
    BY <1>3, <1>4, <1>6 DEF Molten
  <1>9. x \in rows
    BY <1>2, <1>4, <1>5, <1>7, <1>8 DEF GridRows, MeltedAt
  <1>10. ASSUME NEW i \in rows PROVE i \in Int /\ x <= i
    <2>1. /\ i \in 0 .. m * h - 1 /\ TextOf(index, i) = TextOf(cols[id], first)
          /\ TextOf(variable, i) = cols[vals[a + 1]].name
      BY <1>2, <1>4, <1>5 DEF GridRows
    <2>2. PICK b \in 0 .. m - 1, q \in 0 .. h - 1 :
            /\ i = b * h + q /\ b * h \in Nat
            /\ MeltedAt(index, variable, value, cols, id, vals, h, i, b, q)
      BY <1>3, <2>1, MeltedPlace
    <2>3. b = a
      <3>1. cols[vals[b + 1]].name = cols[vals[a + 1]].name
        BY <2>1, <2>2 DEF MeltedAt
      <3>2. QED
        BY <3>1 DEF NamesApart
    <2>4. TextOf(cols[id], q) = TextOf(cols[id], first)
      BY <2>1, <2>2 DEF MeltedAt
    <2>5. ~(q < first)
      BY <1>1, <1>6, <2>4
    <2>6. b * h = a * h
      BY <2>3
    <2>7. QED
      BY <1>1, <1>4, <1>6, <1>7, <2>2, <2>5, <2>6
  <1>11. Min(rows) = x
    <2>1. rows \in SUBSET Int /\ IsLeast(x, rows)
      BY <1>9, <1>10 DEF IsLeast
    <2>2. QED
      BY <2>1, MinIs
  <1>12. QED
    BY <1>4, <1>9, <1>11 DEF FirstOf

-----------------------------------------------------------------------------
(* What Pivot makes of the melted columns                                  *)

Restored(z, cols, id, vals, h, m) ==
  LET F == FirstRows(cols[id], h) IN
  /\ DOMAIN z = 1 .. m + 1
  /\ \A c \in 1 .. m + 1 : z[c].arr.length = Cardinality(F)
  /\ z[1].name = cols[id].name
  /\ \A v \in 1 .. m : z[v + 1].name = cols[vals[v]].name
  /\ \A k \in 1 .. Cardinality(F) : Cell(z[1], k - 1) = TextOf(cols[id], RowList(F)[k])
  /\ \A v \in 1 .. m : \A k \in 1 .. Cardinality(F) :
       Cell(z[v + 1], k - 1) = Cell(cols[vals[v]], RowList(F)[k])

(* Everything that is known of the melted columns and where they are       *)
Grided(long, p, cols, id, vals, h, m) ==
  /\ Meltable(cols, id, vals, h, m) /\ NamesApart(cols, vals, m)
  /\ Molten(long[1], long[p + 1], long[p + 2], cols, id, vals, h, m)

LEMMA FirstAt ==
  ASSUME NEW s, NEW h \in Nat, NEW k \in 1 .. Cardinality(FirstRows(s, h))
  PROVE  RowList(FirstRows(s, h))[k] \in FirstRows(s, h)
  <1>1. PICK F, l : F = FirstRows(s, h) /\ l = RowList(F)
    OBVIOUS
  <1>2. IsFiniteSet(F) /\ \A x \in F : x \in Int
    BY <1>1, FirstRowsFinite
  <1>3. ToSet(l) = F /\ DOMAIN l = 1 .. Cardinality(F)
    BY <1>1, <1>2, RowListAscends
  <1>4. l[k] \in F
    BY <1>1, <1>3 DEF ToSet
  <1>5. QED
    BY <1>1, <1>4

LEMMA GridIndex ==
  ASSUME NEW long, NEW p, NEW cols, NEW id, NEW vals, NEW h, NEW m, Grided(long, p, cols, id, vals, h, m),
         NEW x, x = NewString(long[1].name, TextsInOrder(long[1]))
  PROVE  /\ x.arr.length = Cardinality(FirstRows(cols[id], h)) /\ x.name = cols[id].name
         /\ \A k \in 1 .. Cardinality(FirstRows(cols[id], h)) :
              Cell(x, k - 1) = TextOf(cols[id], RowList(FirstRows(cols[id], h))[k])
  <1>1. PICK t, F, n : t = TextsInOrder(long[1]) /\ F = FirstRows(cols[id], h) /\ n = Cardinality(F)
    OBVIOUS
  <1>2. /\ Meltable(cols, id, vals, h, m) /\ NamesApart(cols, vals, m)
        /\ Molten(long[1], long[p + 1], long[p + 2], cols, id, vals, h, m)
    BY DEF Grided
  <1>3. h \in Nat \ {0} /\ IsFrame(cols) /\ id \in DOMAIN cols /\ Height(cols) = h
    BY <1>2 DEF Meltable
  <1>4. GridTexts(long[1], long[p + 1], cols, id, vals, h, m)
    BY <1>2, MoltenTexts
  <1>5. Len(t) = n /\ \A k \in 1 .. n : t[k] = TextOf(cols[id], RowList(F)[k])
    BY <1>1, <1>4 DEF GridTexts
  <1>6. n \in Nat
    BY <1>1, <1>3, FirstRowsFinite
  <1>7. ASSUME NEW k \in 1 .. n PROVE IsList(t[k]) /\ t[k] # Null
    <2>1. RowList(F)[k] \in FirstRows(cols[id], h)
      BY <1>1, <1>3, FirstAt
    <2>2. IsSeries(cols[id]) /\ cols[id].arr.length = h
      BY <1>3 DEF IsFrame
    <2>3. RowList(F)[k] \in 0 .. cols[id].arr.length - 1
      BY <2>1, <2>2 DEF FirstRows
    <2>4. QED
      BY <1>5, <2>2, <2>3, TextIsList
  <1>8. \A k \in 1 .. n : Cell(x, k - 1) = t[k]
    BY <1>1, <1>5, <1>6, <1>7, NewStringCells
  <1>9. x.name = long[1].name /\ x.arr.length = n
    BY <1>1, <1>5, <1>6, NewStringFits
  <1>10. long[1].name = cols[id].name
    BY <1>2 DEF Molten
  <1>11. QED
    BY <1>1, <1>5, <1>8, <1>9, <1>10

LEMMA GridCellRestored ==
  ASSUME NEW long, NEW p, NEW cols, NEW id, NEW vals, NEW h, NEW m, Grided(long, p, cols, id, vals, h, m),
         NEW v \in 1 .. m, NEW k \in 1 .. Cardinality(FirstRows(cols[id], h)),
         NEW cell, cell = GridCell(long, 1, p + 1, p + 2, TextsInOrder(long[1])[k], cols[vals[v]].name)
  PROVE  /\ cell = Cell(cols[vals[v]], RowList(FirstRows(cols[id], h))[k])
         /\ CellFits(long[p + 2].dtype, cell)
  <1>1. PICK first : first = RowList(FirstRows(cols[id], h))[k]
    OBVIOUS
  <1>2. /\ Meltable(cols, id, vals, h, m) /\ NamesApart(cols, vals, m)
        /\ Molten(long[1], long[p + 1], long[p + 2], cols, id, vals, h, m)
    BY DEF Grided
  <1>3. h \in Nat \ {0} /\ m \in Nat \ {0}
    BY <1>2 DEF Meltable
  <1>4. first \in FirstRows(cols[id], h)
    BY <1>1, <1>3, FirstAt
  <1>5. PICK a \in 0 .. m - 1 : a = v - 1 /\ a + 1 = v
    BY <1>3
  <1>6. GridTexts(long[1], long[p + 1], cols, id, vals, h, m)
    BY <1>2, MoltenTexts
  <1>7. TextsInOrder(long[1])[k] = TextOf(cols[id], first)
    BY <1>1, <1>6 DEF GridTexts
  <1>8. PICK rows : rows = GridRows(long, 1, p + 1, TextOf(cols[id], first), cols[vals[a + 1]].name)
    OBVIOUS
  <1>9. a * h + first \in rows /\ FirstOf(rows) = a * h + first
    BY <1>2, <1>4, <1>8, MoltenGridRows
  <1>10. long[p + 2].dtype \in Buildable
    BY <1>2 DEF Molten
  <1>11. cell = Cell(long[p + 2], a * h + first)
    BY <1>5, <1>7, <1>8, <1>9, <1>10 DEF GridCell
  <1>12. first \in 0 .. h - 1
    BY <1>4 DEF FirstRows
  <1>13. MeltedAt(long[1], long[p + 1], long[p + 2], cols, id, vals, h, a * h + first, a, first)
    BY <1>2, <1>12 DEF Molten
  <1>14. QED
    BY <1>1, <1>5, <1>11, <1>13 DEF MeltedAt

LEMMA GridColumnRestored ==
  ASSUME NEW long, NEW p, NEW cols, NEW id, NEW vals, NEW h, NEW m, Grided(long, p, cols, id, vals, h, m),
         NEW v \in 1 .. m, NEW x, x = GridColumn(long, 1, p + 1, p + 2, cols[vals[v]].name)
  PROVE  /\ x.arr.length = Cardinality(FirstRows(cols[id], h)) /\ x.name = cols[vals[v]].name
         /\ \A k \in 1 .. Cardinality(FirstRows(cols[id], h)) :
              Cell(x, k - 1) = Cell(cols[vals[v]], RowList(FirstRows(cols[id], h))[k])
  <1>1. PICK t, n, name : /\ t = TextsInOrder(long[1]) /\ n = Cardinality(FirstRows(cols[id], h))
                          /\ name = cols[vals[v]].name
    OBVIOUS
  <1>2. /\ Meltable(cols, id, vals, h, m) /\ NamesApart(cols, vals, m)
        /\ Molten(long[1], long[p + 1], long[p + 2], cols, id, vals, h, m)
    BY DEF Grided
  <1>3. h \in Nat \ {0}
    BY <1>2 DEF Meltable
  <1>4. GridTexts(long[1], long[p + 1], cols, id, vals, h, m)
    BY <1>2, MoltenTexts
  <1>5. n \in Nat /\ DOMAIN t = 1 .. n
    BY <1>1, <1>3, <1>4, FirstRowsFinite DEF GridTexts, IsList
  <1>6. PICK dtype : dtype = long[p + 2].dtype
    OBVIOUS
  <1>7. TypeBuilt(dtype) = dtype
    BY <1>2, <1>6 DEF Molten, TypeBuilt
  <1>8. PICK cells : cells = [k \in DOMAIN t |-> GridCell(long, 1, p + 1, p + 2, t[k], name)]
    OBVIOUS
  <1>9. x = Build(name, dtype, cells)
    BY <1>1, <1>6, <1>7, <1>8 DEF GridColumn
  <1>10. DOMAIN cells = 1 .. n /\ cells = [k \in 1 .. n |-> cells[k]]
         /\ \A k \in 1 .. n : cells[k] = GridCell(long, 1, p + 1, p + 2, t[k], name)
    BY <1>5, <1>8
  <1>11. Len(cells) = n
    BY <1>5, <1>10, ListOf
  <1>12. ASSUME NEW k \in 1 .. n
         PROVE  /\ cells[k] = Cell(cols[vals[v]], RowList(FirstRows(cols[id], h))[k])
                /\ CellFits(dtype, cells[k])
    <2>1. cells[k] = GridCell(long, 1, p + 1, p + 2, TextsInOrder(long[1])[k], cols[vals[v]].name)
      BY <1>1, <1>10
    <2>2. k \in 1 .. Cardinality(FirstRows(cols[id], h))
      BY <1>1
    <2>3. QED
      BY <1>6, <2>1, <2>2, GridCellRestored
  <1>13. \A k \in 1 .. n : Cell(Build(name, dtype, cells), k - 1) = cells[k]
    BY <1>5, <1>11, <1>12, BuiltCells
  <1>14. x.name = name /\ x.arr.length = n
    BY <1>5, <1>9, <1>11, BuiltFits
  <1>15. QED
    BY <1>1, <1>9, <1>12, <1>13, <1>14

LEMMA GridRestores ==
  ASSUME NEW long, NEW p, NEW cols, NEW id, NEW vals, NEW h, NEW m, Grided(long, p, cols, id, vals, h, m),
         NEW z, z = Grid(long, 1, p + 1, p + 2)
  PROVE  Restored(z, cols, id, vals, h, m)
  <1>1. PICK u, n : u = TextsInOrder(long[p + 1]) /\ n = Cardinality(FirstRows(cols[id], h))
    OBVIOUS
  <1>2. /\ Meltable(cols, id, vals, h, m) /\ NamesApart(cols, vals, m)
        /\ Molten(long[1], long[p + 1], long[p + 2], cols, id, vals, h, m)
    BY DEF Grided
  <1>3. m \in Nat \ {0}
    BY <1>2 DEF Meltable
  <1>4. GridTexts(long[1], long[p + 1], cols, id, vals, h, m)
    BY <1>2, MoltenTexts
  <1>5. DOMAIN u = 1 .. m /\ \A v \in 1 .. m : u[v] = cols[vals[v]].name
    <2>1. IsList(u) /\ Len(u) = m /\ \A a \in 0 .. m - 1 : u[a + 1] = cols[vals[a + 1]].name
      BY <1>1, <1>4 DEF GridTexts
    <2>2. ASSUME NEW v \in 1 .. m PROVE u[v] = cols[vals[v]].name
      <3>1. v - 1 \in 0 .. m - 1 /\ (v - 1) + 1 = v
        BY <1>3
      <3>2. u[(v - 1) + 1] = cols[vals[(v - 1) + 1]].name
        BY <2>1, <3>1
      <3>3. QED
        BY <3>1, <3>2
    <2>3. QED
      BY <2>1, <2>2 DEF IsList
  <1>6. PICK s : s = NewString(long[1].name, TextsInOrder(long[1]))
    OBVIOUS
  <1>7. PICK x, y : /\ x = <<s>>
                    /\ y = [v \in DOMAIN u |-> GridColumn(long, 1, p + 1, p + 2, u[v])]
    OBVIOUS
  <1>8. z = x \o y
    BY <1>1, <1>6, <1>7 DEF Grid
  <1>9. IsList(x) /\ Len(x) = 1 /\ x[1] = s
    <2>1. x \in Seq({s}) /\ Len(x) = 1 /\ x[1] = s
      BY <1>7
    <2>2. QED
      BY <2>1, SeqIsList
  <1>10. IsList(y) /\ Len(y) = m
         /\ \A v \in 1 .. m : y[v] = GridColumn(long, 1, p + 1, p + 2, cols[vals[v]].name)
    <2>1. DOMAIN y = 1 .. m /\ y = [v \in 1 .. m |-> y[v]]
          /\ \A v \in 1 .. m : y[v] = GridColumn(long, 1, p + 1, p + 2, cols[vals[v]].name)
      BY <1>5, <1>7
    <2>2. QED
      BY <1>3, <2>1, ListOf
  <1>11. /\ DOMAIN z = 1 .. m + 1 /\ z[1] = s /\ \A v \in 1 .. m : z[v + 1] = y[v]
    <2>0. IsList(x) /\ IsList(y)
      BY <1>9, <1>10
    <2>1. /\ IsList(x \o y) /\ Len(x \o y) = Len(x) + Len(y)
          /\ \A k \in 1 .. Len(x) : (x \o y)[k] = x[k]
          /\ \A k \in 1 .. Len(y) : (x \o y)[Len(x) + k] = y[k]
      BY <2>0, ListsConcat
    <2>2. IsList(z) /\ Len(z) = 1 + m /\ z[1] = s /\ \A v \in 1 .. m : z[1 + v] = y[v]
      <3>1. IsList(z) /\ Len(z) = 1 + m
        BY <1>8, <1>9, <1>10, <2>1
      <3>2. z[1] = s
        <4>1. 1 \in 1 .. Len(x)
          BY <1>9
        <4>2. QED
          BY <1>8, <1>9, <2>1, <4>1
      <3>3. ASSUME NEW v \in 1 .. m PROVE z[1 + v] = y[v]
        BY <1>8, <1>9, <1>10, <2>1
      <3>4. QED
        BY <3>1, <3>2, <3>3
    <2>3. 1 + m = m + 1 /\ \A v \in 1 .. m : 1 + v = v + 1
      BY <1>3
    <2>4. DOMAIN z = 1 .. m + 1
      BY <2>2, <2>3 DEF IsList
    <2>5. \A v \in 1 .. m : z[v + 1] = y[v]
      BY <2>2, <2>3
    <2>6. QED
      BY <2>2, <2>4, <2>5
  <1>12. /\ s.arr.length = n /\ s.name = cols[id].name
         /\ \A k \in 1 .. n : Cell(s, k - 1) = TextOf(cols[id], RowList(FirstRows(cols[id], h))[k])
    BY <1>1, <1>6, GridIndex
  <1>13. ASSUME NEW v \in 1 .. m
         PROVE  /\ z[v + 1].arr.length = n /\ z[v + 1].name = cols[vals[v]].name
                /\ \A k \in 1 .. n : Cell(z[v + 1], k - 1) = Cell(cols[vals[v]], RowList(FirstRows(cols[id], h))[k])
    BY <1>1, <1>10, <1>11, GridColumnRestored
  <1>14. ASSUME NEW c \in 1 .. m + 1 PROVE z[c].arr.length = n
    <2>1. CASE c = 1
      BY <1>11, <1>12, <2>1
    <2>2. CASE c # 1
      <3>1. c - 1 \in 1 .. m /\ (c - 1) + 1 = c
        BY <1>3, <2>2
      <3>2. z[(c - 1) + 1].arr.length = n
        BY <1>13, <3>1
      <3>3. QED
        BY <3>1, <3>2
    <2>3. QED
      BY <2>1, <2>2
  <1>15. QED
    BY <1>1, <1>11, <1>12, <1>13, <1>14 DEF Restored
=============================================================================
