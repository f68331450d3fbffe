------------------------------ MODULE Columns ------------------------------
(***************************************************************************)
(* internal/array and internal/series: how a column is stored, sliced,     *)
(* taken from and filtered.                                                *)
(*                                                                         *)
(*   typed    the values, one a row; also for dates and times              *)
(*   boolean  a bitmap with one data bit a row                             *)
(*   string   all bytes in one block, offsets[i] .. offsets[i+1]-1 are     *)
(*            those of row i                                               *)
(*                                                                         *)
(* and with each a validity bitmap, nil in a column without nulls.  A null *)
(* row still has a value, a data bit or bytes.  Rows, bytes and words are  *)
(* counted from 0.                                                         *)
(***************************************************************************)
EXTENDS Bitmap, SequencesExt

CONSTANT Null   \* the cell of a null row

\* A cell is a number, a boolean or a text; a text is a sequence, of Null for a null
ASSUME CellAssumption ==
  Null \notin Int \cup BOOLEAN \cup Seq(Int \cup BOOLEAN \cup {Null}) \cup Seq(STRING)

\* No bitmap, no data frame: a value without fields
nil == <<>>

TypedArray(values, validity) ==
  [values |-> values, validity |-> validity, length |-> Cardinality(DOMAIN values)]
BooleanArray(data, validity) ==
  [data |-> data, validity |-> validity, length |-> data.len]
StringArray(bytes, offsets, validity) ==
  [bytes |-> bytes, offsets |-> offsets, validity |-> validity,
   length |-> Cardinality(DOMAIN offsets) - 1]

Series(name, dtype, arr) == [name |-> name, dtype |-> dtype, arr |-> arr]

IsNull(a, i) == a.validity # nil /\ ~IsSet(a.validity, i)
HasNulls(a) == a.validity # nil /\ \E i \in 0 .. a.length - 1 : IsNull(a, i)

BytesOf(a, i) == [k \in 1 .. a.offsets[i + 1] - a.offsets[i] |-> a.bytes[a.offsets[i] + k - 1]]

Value(s, i) == CASE s.dtype = "Boolean" -> IsSet(s.arr.data, i)
                 [] s.dtype = "String" -> BytesOf(s.arr, i)
                 [] OTHER -> s.arr.values[i]

Cell(s, i) == IF IsNull(s.arr, i) THEN Null ELSE Value(s, i)

SliceValidity(v, start, end) == IF v = nil THEN nil ELSE SliceBitmap(v, start, end)

SliceArray(dtype, a, start, end) ==
  LET v == SliceValidity(a.validity, start, end)
      byteStart == a.offsets[start]
  IN CASE dtype = "Boolean" -> BooleanArray(SliceBitmap(a.data, start, end), v)
       [] dtype = "String" ->
            StringArray([p \in 0 .. a.offsets[end] - byteStart - 1 |-> a.bytes[byteStart + p]],
                        [k \in 0 .. end - start |-> a.offsets[start + k] - byteStart], v)
       [] OTHER -> TypedArray([k \in 0 .. end - start - 1 |-> a.values[start + k]], v)

SliceSeries(s, start, end) == [s EXCEPT !.arr = SliceArray(s.dtype, @, start, end)]

mergeValidity(va, vb) ==
  IF va = nil THEN vb ELSE IF vb = nil THEN va ELSE And(va, vb)

(***************************************************************************)
(* Gathering rows, a sequence of row numbers, from an array.               *)
(***************************************************************************)
\* f with g of the k-th row at place at + k - 1
Put(f, at, rows, g(_)) ==
  [p \in DOMAIN f |-> IF p - at + 1 \in DOMAIN rows THEN g(rows[p - at + 1]) ELSE f[p]]

\* validity.Clear for every null among the rows, the k-th row at place at + k - 1
ClearNulls(v, a, rows, at) ==
  IF a.validity = nil THEN v
  ELSE ClearAll(v, {at + k - 1 : k \in {k \in DOMAIN rows : IsNull(a, rows[k])}})

NewValidity(a, n) == IF a.validity = nil THEN nil ELSE NewBitmap(n)

\* ends[k] is where the bytes of the k-th row end when they are written from pos on
Ends(a, rows, pos) ==
  LET ends[k \in 0 .. Len(rows)] ==
        IF k = 0 THEN pos
        ELSE ends[k - 1] + a.offsets[rows[k] + 1] - a.offsets[rows[k]]
  IN ends

\* The bytes of the rows, one row after the other, from ends[0] on
CopyBytes(dst, a, rows, ends) ==
  LET rowAt(p) == CHOOSE k \in DOMAIN rows : ends[k - 1] <= p /\ p < ends[k]
  IN [p \in DOMAIN dst |->
        IF ends[0] <= p /\ p < ends[Len(rows)]
          THEN a.bytes[a.offsets[rows[rowAt(p)]] + p - ends[rowAt(p) - 1]] ELSE dst[p]]

TakeTyped(a, indices) ==
  LET n == Len(indices)
  IN TypedArray([k \in 0 .. n - 1 |-> a.values[indices[k + 1]]],
                ClearNulls(NewValidity(a, n), a, indices, 0))

TakeString(a, indices) ==
  LET n == Len(indices)
      ends == Ends(a, indices, 0)
  IN StringArray(CopyBytes([p \in 0 .. ends[n] - 1 |-> 0], a, indices, ends), ends,
                 ClearNulls(NewValidity(a, n), a, indices, 0))

\* The data types Series.Take and Series.Filter have a case for.  A series of
\* another type is returned as it is.
Takeable == {"Int64", "Int32", "Float64", "Float32", "String"}
Filterable == Takeable \cup {"Boolean"}

TakeSeries(s, indices) ==
  IF s.dtype \notin Takeable THEN s
  ELSE [s EXCEPT !.arr = IF s.dtype = "String" THEN TakeString(@, indices)
                                               ELSE TakeTyped(@, indices)]

(***************************************************************************)
(* The arrays the constructors of internal/array make.                     *)
(***************************************************************************)
IsBitmapOf(b, n) == IsBitmap(b) /\ b.len = n

IsTyped(a) ==
  /\ a = [values |-> a.values, validity |-> a.validity, length |-> a.length]
  /\ a.values \in [0 .. a.length - 1 -> Int]

IsBoolean(a) ==
  /\ a = [data |-> a.data, validity |-> a.validity, length |-> a.length]
  /\ IsBitmapOf(a.data, a.length)

IsString(a) ==
  /\ a = [bytes |-> a.bytes, offsets |-> a.offsets, validity |-> a.validity, length |-> a.length]
  /\ a.offsets \in [0 .. a.length -> Nat]
  /\ a.offsets[0] = 0
  /\ \A i \in 0 .. a.length - 1 : a.offsets[i] <= a.offsets[i + 1]
  /\ DOMAIN a.bytes = 0 .. a.offsets[a.length] - 1
  /\ a.bytes = [p \in DOMAIN a.bytes |-> a.bytes[p]]

IsArray(dtype, a) ==
  /\ a.length \in Nat
  /\ a.validity = nil \/ IsBitmapOf(a.validity, a.length)
  /\ CASE dtype = "Boolean" -> IsBoolean(a)
       [] dtype = "String" -> IsString(a)
       [] OTHER -> IsTyped(a)

IsSeries(s) == s = Series(s.name, s.dtype, s.arr) /\ IsArray(s.dtype, s.arr)
=============================================================================
