------------------------------- MODULE Concat -------------------------------
(***************************************************************************)
(* internal/dataframe/concat.go: data frames one below the other, copied   *)
(* in blocks, and side by side.                                            *)
(***************************************************************************)
EXTENDS Columns

Height(cols) == cols[1].arr.length

\* Columns of one length and distinct names
IsFrame(cols) ==
  /\ Len(cols) \in Nat \ {0} /\ cols = [c \in 1 .. Len(cols) |-> cols[c]]
  /\ \A c \in DOMAIN cols : IsSeries(cols[c]) /\ cols[c].arr.length = Height(cols)
  /\ \A c, d \in DOMAIN cols : cols[c].name = cols[d].name => c = d

\* New: columns of one length and distinct names; any other ones are an error, nil
New(cols) ==
  IF \A c, d \in DOMAIN cols :
       cols[c].arr.length = cols[d].arr.length /\ (cols[c].name = cols[d].name => c = d)
    THEN [cols |-> cols, height |-> Height(cols)] ELSE nil

Schema(cols) == [c \in DOMAIN cols |-> <<cols[c].name, cols[c].dtype>>]

\* How many rows the first k arrays have
RowsBefore(arrs, k) == MapThenSumSet(LAMBDA l : arrs[l].length, 1 .. k - 1)
TotalHeight(arrs) == RowsBefore(arrs, Len(arrs) + 1)

-----------------------------------------------------------------------------
(* Bits, which the source has in words from bit 0 on, go to any bit of the *)
(* target.                                                                 *)

\* Mutant: what does not fit into a word is dropped
PutBitsInOneWord(dst, word, bit, bits, chunk) ==
  [dst EXCEPT ![word] = (@ \ ShiftLeft(LowBits(chunk), bit)) \cup ShiftLeft(bits, bit)]

\* The lowest chunk bits of a source word into a target word from a bit on, what
\* does not fit there into the next one
PutBits(dst, word, bit, bits, chunk) ==
  LET avail == wordSize - bit
  IN IF chunk <= avail
       THEN [dst EXCEPT ![word] = (@ \ ShiftLeft(LowBits(chunk), bit)) \cup ShiftLeft(bits, bit)]
       ELSE [dst EXCEPT ![word] = (@ \cap LowBits(bit)) \cup ShiftLeft(bits, bit),
                        ![word + 1] = (@ \ LowBits(chunk - avail))
                                      \cup (ShiftRight(bits, avail) \cap LowBits(chunk - avail))]

copyBitmapBits(dst, offset, src, n) ==
  LET chunk(wi) == IF n - wi * wordSize < wordSize THEN n - wi * wordSize ELSE wordSize
      put(acc, wi) == PutBits(acc, (offset + wi * wordSize) \div wordSize, offset % wordSize,
                              src[wi] \cap LowBits(chunk(wi)), chunk(wi))
  IN FoldLeft(put, dst, [k \in 1 .. wordsNeeded(n) |-> k - 1])

\* Bitmaps one after the other over a first one; where there is nil it stays
CopyBitmaps(start, bitmaps, arrs) ==
  FoldLeft(LAMBDA b, k : IF bitmaps[k] = nil THEN b
                         ELSE [b EXCEPT !.data = copyBitmapBits(@, RowsBefore(arrs, k),
                                                                bitmaps[k].data, arrs[k].length)],
           start, [k \in DOMAIN arrs |-> k])

concatBitmaps(arrs) ==
  IF \A k \in DOMAIN arrs : arrs[k].validity = nil THEN nil
  ELSE CopyBitmaps(NewBitmap(TotalHeight(arrs)), [k \in DOMAIN arrs |-> arrs[k].validity], arrs)

-----------------------------------------------------------------------------
(* The arrays of one column in all data frames                             *)

\* The place of row i of the whole column: its array and its row there
PlaceOf(arrs, i) ==
  LET k == CHOOSE k \in DOMAIN arrs : RowsBefore(arrs, k) <= i /\ i < RowsBefore(arrs, k + 1)
  IN <<k, i - RowsBefore(arrs, k)>>

concatTypedColumn(arrs) ==
  TypedArray([i \in 0 .. TotalHeight(arrs) - 1 |->
                arrs[PlaceOf(arrs, i)[1]].values[PlaceOf(arrs, i)[2]]],
             concatBitmaps(arrs))

concatBoolColumn(arrs) ==
  BooleanArray(CopyBitmaps(NewEmpty(TotalHeight(arrs)), [k \in DOMAIN arrs |-> arrs[k].data], arrs),
               concatBitmaps(arrs))

\* All bytes of an array, and the offsets of its rows after those of the arrays before
concatStringColumn(arrs) ==
  LET bytes(k) == Cardinality(DOMAIN arrs[k].bytes)
      base(k) == MapThenSumSet(bytes, 1 .. k - 1)
      holder(p) == CHOOSE k \in DOMAIN arrs : base(k) <= p /\ p < base(k + 1)
      end(i) == LET at == PlaceOf(arrs, i) IN arrs[at[1]].offsets[at[2] + 1] + base(at[1])
  IN StringArray([p \in 0 .. base(Len(arrs) + 1) - 1 |-> arrs[holder(p)].bytes[p - base(holder(p))]],
                 [i \in 0 .. TotalHeight(arrs) |-> IF i = 0 THEN 0 ELSE end(i - 1)],
                 concatBitmaps(arrs))

concatColumn(dtype, arrs) ==
  CASE dtype = "Boolean" -> concatBoolColumn(arrs)
    [] dtype = "String" -> concatStringColumn(arrs)
    [] OTHER -> concatTypedColumn(arrs)

\* Concat of at least one data frame
ConcatFrames(dfs) ==
  IF Len(dfs) = 1 THEN New(dfs[1])
  ELSE IF \E k \in DOMAIN dfs : Schema(dfs[k]) # Schema(dfs[1]) THEN nil
  ELSE New([c \in DOMAIN dfs[1] |->
              [dfs[1][c] EXCEPT !.arr = concatColumn(dfs[1][c].dtype, [k \in DOMAIN dfs |-> dfs[k][c].arr])]])

ConcatHorizontal(dfs) == New(FlattenSeq(dfs))
=============================================================================
