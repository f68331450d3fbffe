------------------------------- MODULE Reshape -------------------------------
(***************************************************************************)
(* internal/dataframe/reshape.go: Pivot, Unpivot, Transpose and Explode.   *)
(* The columns they make are built from cells.  Columns are named by their *)
(* places here.  A text, and a name, is a sequence: bytes, or what stands  *)
(* for the text of a number.                                               *)
(***************************************************************************)
EXTENDS Concat, RowLists

CONSTANTS Comma, Space   \* bytes Explode looks for

\* The data types that are read from and built; columns of others become texts
\* without a letter.
Buildable == {"Int64", "Float64", "Boolean", "String"}
TypeBuilt(dtype) == IF dtype \in Buildable THEN dtype ELSE "String"

Zero(dtype) == CASE dtype = "Boolean" -> FALSE [] dtype = "String" -> <<>> [] OTHER -> 0

\* New...WithValidity: a validity even when no cell, of 1 and on, is null
Build(name, dtype, cells) ==
  LET n == Len(cells)
      nulls == {k - 1 : k \in {k \in 1 .. n : cells[k] = Null}}
      value(i) == IF cells[i + 1] = Null THEN Zero(dtype) ELSE cells[i + 1]
      ends[k \in 0 .. n] == IF k = 0 THEN 0 ELSE ends[k - 1] + Len(value(k - 1))
      bytes == FlattenSeq([k \in 1 .. n |-> value(k - 1)])
      validity == ClearAll(NewBitmap(n), nulls)
  IN Series(name, dtype,
            CASE dtype = "Boolean" ->
                   BooleanArray(SetAll(NewEmpty(n), {i \in 0 .. n - 1 : value(i)}), validity)
              [] dtype = "String" ->
                   StringArray([p \in 0 .. Len(bytes) - 1 |-> bytes[p + 1]], ends, validity)
              [] OTHER -> TypedArray([i \in 0 .. n - 1 |-> value(i)], validity))

\* NewString: no cell is null, and there is no validity
NewString(name, texts) == [Build(name, "String", texts) EXCEPT !.arr.validity = nil]

\* Mutant: an integer is no float
CellAsSameType(s, i, dtype) ==
  IF Cell(s, i) = Null THEN Null ELSE IF s.dtype = dtype THEN Cell(s, i) ELSE Zero(dtype)

\* A cell as a column of the data type gets it: a value of another type is its zero,
\* and not null, but an integer is also a float
CellAs(s, i, dtype) ==
  IF Cell(s, i) = Null THEN Null
  ELSE IF s.dtype = dtype \/ (s.dtype = "Int64" /\ dtype = "Float64") THEN Cell(s, i)
  ELSE Zero(dtype)

promoteType(a, b) == IF {a, b} = {"Int64", "Float64"} THEN "Float64" ELSE a
CommonType(cols) == FoldLeft(LAMBDA t, c : promoteType(t, c.dtype), cols[1].dtype, Tail(cols))

\* Rows 0, 1, ... of a data frame as a sequence
RowNumbers(cols) == [k \in 1 .. Height(cols) |-> k - 1]

\* The cells of the given rows; repeatColumn and expandColumn
Copied(s, rows) == Build(s.name, TypeBuilt(s.dtype),
                         [k \in DOMAIN rows |-> CellAs(s, rows[k], TypeBuilt(s.dtype))])

-----------------------------------------------------------------------------
\* getAny and anyToString: a null, or a value of no such type, has one text
TextOf(s, i) ==
  IF s.dtype \notin Buildable \/ Cell(s, i) = Null THEN <<Null>>
  ELSE IF s.dtype = "String" THEN Cell(s, i) ELSE <<Cell(s, i)>>

\* The texts of a column, each where it appears first
TextsInOrder(s) ==
  FoldLeft(LAMBDA acc, i : IF TextOf(s, i) \in ToSet(acc) THEN acc ELSE Append(acc, TextOf(s, i)),
           <<>>, [k \in 1 .. s.arr.length |-> k - 1])

\* Mutant: a later value takes the cell
LastOf(rows) == Max(rows)

\* The row whose value a cell of the grid keeps
FirstOf(rows) == Min(rows)

Pivot(cols, indexCol, columnsCol, valuesCol) ==
  LET index == cols[indexCol]
      s == cols[valuesCol]
      rowsOf(r, c) == {i \in 0 .. Height(cols) - 1 : TextOf(index, i) = r /\ TextOf(cols[columnsCol], i) = c}
      cell(r, c) == IF rowsOf(r, c) = {} \/ s.dtype \notin Buildable THEN Null
                    ELSE Cell(s, FirstOf(rowsOf(r, c)))
      column(c) == Build(c, TypeBuilt(s.dtype),
                         [k \in DOMAIN TextsInOrder(index) |-> cell(TextsInOrder(index)[k], c)])
  IN New(<<NewString(index.name, TextsInOrder(index))>>
         \o [k \in DOMAIN TextsInOrder(cols[columnsCol]) |-> column(TextsInOrder(cols[columnsCol])[k])])

\* idCols, valueCols: sequences of places, the second one not empty
Unpivot(cols, idCols, valueCols) ==
  LET rows == FlattenSeq([k \in DOMAIN valueCols |-> RowNumbers(cols)])
      melted == [k \in DOMAIN valueCols |-> cols[valueCols[k]]]
      dtype == TypeBuilt(CommonType(melted))
      source(k) == melted[((k - 1) \div Height(cols)) + 1]
  IN New([k \in DOMAIN idCols |-> Copied(cols[idCols[k]], rows)]
         \o <<NewString(<<"variable">>, [k \in DOMAIN rows |-> source(k).name]),
              Build(<<"value">>, dtype, [k \in DOMAIN rows |-> CellAs(source(k), rows[k], dtype)])>>)

\* Integers become floats, and a column of a type that does not become the common one
\* is an error.
Transpose(cols) ==
  LET common == CommonType(cols)
      dtype == IF common = "Int64" THEN "Float64" ELSE common
      promotable(c) == c.dtype = dtype \/ (c.dtype = "Int64" /\ dtype = "Float64")
      built == IF dtype \in Buildable THEN dtype ELSE "Int64"
      row(i) == Build(<<"column", i>>, built, [c \in DOMAIN cols |-> CellAs(cols[c], i, built)])
  IN IF Height(cols) = 0 THEN New(<<NewString(<<"column">>, <<>>)>>)
     ELSE IF \E c \in DOMAIN cols : ~promotable(cols[c]) THEN nil
     ELSE New(<<NewString(<<"column">>, [c \in DOMAIN cols |-> cols[c].name])>>
              \o [k \in 1 .. Height(cols) |-> row(k - 1)])

-----------------------------------------------------------------------------
\* splitByComma: what is between one comma, or end, and the next
Split(text) ==
  LET commas == RowList({k \in DOMAIN text : text[k] = Comma})
      cuts == <<0>> \o commas \o <<Len(text) + 1>>
  IN [k \in 1 .. Len(cuts) - 1 |-> SubSeq(text, cuts[k] + 1, cuts[k + 1] - 1)]

\* Mutant: the last byte is dropped
trimOneTooMany(text) ==
  LET letters == {k \in DOMAIN text : text[k] # Space}
  IN IF letters = {} THEN <<>> ELSE SubSeq(text, Min(letters), Max(letters) - 1)

trimSpaces(text) ==
  LET letters == {k \in DOMAIN text : text[k] # Space}
  IN IF letters = {} THEN <<>> ELSE SubSeq(text, Min(letters), Max(letters))

\* The pieces a row has in the result; a null row has one, the null
Pieces(s, i) ==
  IF Cell(s, i) = Null THEN <<Null>>
  ELSE [k \in DOMAIN Split(Cell(s, i)) |-> trimSpaces(Split(Cell(s, i))[k])]

Explode(cols, col) ==
  LET rows == FlattenSeq([r \in 1 .. Height(cols) |->
                            [k \in DOMAIN Pieces(cols[col], r - 1) |-> r - 1]])
      pieces == FlattenSeq([r \in 1 .. Height(cols) |-> Pieces(cols[col], r - 1)])
  IN IF cols[col].dtype # "String" THEN nil
     ELSE New([c \in DOMAIN cols |-> IF c = col THEN Build(cols[c].name, "String", pieces)
                                                ELSE Copied(cols[c], rows)])
=============================================================================
