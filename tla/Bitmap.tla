------------------------------- MODULE Bitmap -------------------------------
(***************************************************************************)
(* internal/bitmap: a bitset in words of wordSize bits (64 in the code).   *)
(* A word is the set of the positions of its set bits, so | & &^ ^ are the *)
(* set operations and a shift moves positions and drops those that leave   *)
(* the word.  Bit i of a bitmap is bit i % wordSize of word i \div         *)
(* wordSize.  Bits of the last word at or past len must stay clear: PopCount *)
(* and the kernels read whole words.                                       *)
(*                                                                         *)
(* A call the code answers with a panic has no value here.                 *)
(***************************************************************************)
EXTENDS Integers, FiniteSetsExt

CONSTANT wordSize

ASSUME WordSizeAssumption == wordSize \in Nat \ {0}

Positions == 0 .. wordSize - 1
AllOnes == Positions

wordsNeeded(n) == IF n <= 0 THEN 0 ELSE (n + wordSize - 1) \div wordSize
WordIndexes(n) == 0 .. wordsNeeded(n) - 1

\* (1 << rem) - 1
LowBits(rem) == 0 .. rem - 1

ShiftRight(w, d) == {p - d : p \in {q \in w : q >= d}}
ShiftLeft(w, d) == {p + d : p \in {q \in w : q + d < wordSize}}

clearTrailingBits(b) ==
  LET rem == b.len % wordSize
  IN IF b.len = 0 \/ rem = 0 THEN b
     ELSE [b EXCEPT !.data[wordsNeeded(b.len) - 1] = @ \cap LowBits(rem)]

NewBitmap(length) ==
  clearTrailingBits([data |-> [wi \in WordIndexes(length) |-> AllOnes], len |-> length])
NewEmpty(length) == [data |-> [wi \in WordIndexes(length) |-> {}], len |-> length]

InRange(b, i) == i >= 0 /\ i < b.len
IsSet(b, i) == CASE InRange(b, i) -> (i % wordSize) \in b.data[i \div wordSize]
Set(b, i) == CASE InRange(b, i) -> [b EXCEPT !.data[i \div wordSize] = @ \cup {i % wordSize}]
Clear(b, i) == CASE InRange(b, i) -> [b EXCEPT !.data[i \div wordSize] = @ \ {i % wordSize}]
SetWord(b, wi, w) == CASE wi \in DOMAIN b.data -> [b EXCEPT !.data[wi] = w]

\* Set and Clear in a loop over the bits of S
BitsIn(S, wi) == {p \in Positions : wi * wordSize + p \in S}
SetAll(b, S) ==
  CASE \A i \in S : InRange(b, i) ->
    [b EXCEPT !.data = [wi \in DOMAIN b.data |-> @[wi] \cup BitsIn(S, wi)]]
ClearAll(b, S) ==
  CASE \A i \in S : InRange(b, i) ->
    [b EXCEPT !.data = [wi \in DOMAIN b.data |-> @[wi] \ BitsIn(S, wi)]]

And(a, b) == CASE a.len = b.len -> [a EXCEPT !.data = [wi \in DOMAIN a.data |-> @[wi] \cap b.data[wi]]]
Or(a, b) == CASE a.len = b.len -> [a EXCEPT !.data = [wi \in DOMAIN a.data |-> @[wi] \cup b.data[wi]]]
\* Mutant: the bits past the length are inverted too
NotKeepsSlack(b) == [b EXCEPT !.data = [wi \in DOMAIN b.data |-> AllOnes \ @[wi]]]

Not(b) == clearTrailingBits([b EXCEPT !.data = [wi \in DOMAIN b.data |-> AllOnes \ @[wi]]])

\* The set bits of every word, those past the length included
PopCount(b) ==
  LET ones == [wi \in DOMAIN b.data |-> Cardinality(b.data[wi])]
  IN MapThenSumSet(LAMBDA wi : ones[wi], DOMAIN b.data)
NullCount(b) == b.len - PopCount(b)

\* Slice, start at the first bit of a word: words are copied
AlignedSlice(b, start, newLen) ==
  LET from == start \div wordSize
      nWords == newLen \div wordSize
  IN [data |-> [wi \in WordIndexes(newLen) |->
                  IF wi < nWords THEN b.data[from + wi]
                  ELSE b.data[from + wi] \cap LowBits(newLen % wordSize)],
      len |-> newLen]

\* Slice, start inside a word: each word is made of two shifted ones
ShiftedSlice(b, start, newLen) ==
  LET from == start \div wordSize
      rshift == start % wordSize
      lo(wi) == ShiftRight(b.data[from + wi], rshift)
      hi(wi) == IF from + wi + 1 \in DOMAIN b.data
                  THEN ShiftLeft(b.data[from + wi + 1], wordSize - rshift) ELSE {}
  IN clearTrailingBits([data |-> [wi \in WordIndexes(newLen) |-> lo(wi) \cup hi(wi)],
                        len |-> newLen])

SliceBitmap(b, start, end) ==
  CASE 0 <= start /\ start <= end /\ end <= b.len ->
    IF start = end THEN NewEmpty(0)
    ELSE IF start % wordSize = 0 THEN AlignedSlice(b, start, end - start)
    ELSE ShiftedSlice(b, start, end - start)

(***************************************************************************)
(* What readers of whole words rely on.                                    *)
(***************************************************************************)
SlackClear(b) == \A wi \in DOMAIN b.data : \A p \in b.data[wi] : wi * wordSize + p < b.len

\* A bitmap as NewBitmap and NewEmpty make it, and Set and Clear keep it
IsBitmap(b) ==
  /\ b = [data |-> b.data, len |-> b.len]
  /\ b.len \in Nat
  /\ b.data \in [WordIndexes(b.len) -> SUBSET Positions]
  /\ SlackClear(b)
=============================================================================
