--------------------------- MODULE MCFilterColumns ---------------------------
(* Values for FilterColumns.cfg and TakeColumns.cfg: words of two bits.     *)
EXTENDS FilterColumns

Whole == {-1}   \* no validity
Validity(n, nulls) == IF nulls = Whole THEN nil ELSE ClearAll(NewBitmap(n), nulls)

Ints(name, vals, nulls) ==
  Series(name, "Int64", TypedArray([i \in 0 .. Len(vals) - 1 |-> vals[i + 1]],
                                   Validity(Len(vals), nulls)))
Bools(name, n, trues, nulls) ==
  Series(name, "Boolean", BooleanArray(SetAll(NewEmpty(n), {i \in trues : i < n}),
                                       Validity(n, nulls)))
\* Strings of 2, 0, 1, 1, 0, ... bytes; no two bytes are equal.
Strings(name, n, nulls) ==
  LET len(i) == <<2, 0, 1, 1, 0, 2>>[i + 1]
      offset(i) == MapThenSumSet(len, 0 .. i - 1)
  IN Series(name, "String", StringArray([p \in 0 .. offset(n) - 1 |-> p + 1],
                                        [i \in 0 .. n |-> offset(i)], Validity(n, nulls)))

\* Three words, the last one of one bit, and every mask they can hold.
Mixed == {<<Ints(<<"num">>, vals, nulls), Bools(<<"flag">>, 5, {0, 3, 4}, flagNulls),
            Strings(<<"name">>, 5, {4})>> :
            vals \in [1 .. 5 -> {1, 2}], nulls \in {Whole, {1, 2}}, flagNulls \in {Whole, {0, 3}}}

\* Comparisons of two columns; the zero length; one column, no goroutine
TwoInts == {<<Ints(<<"num">>, vals, nulls), Ints(<<"key">>, <<2, 1, 3, 2>>, keyNulls),
              Bools(<<"flag">>, 4, {1, 2}, {1})>> :
              vals \in [1 .. 4 -> {1, 2}], nulls \in {Whole, {0}, {0, 1, 2, 3}}, keyNulls \in {Whole, {2}}}
Small == {<<Ints(<<"num">>, <<>>, Whole), Bools(<<"flag">>, 0, {}, {}), Strings(<<"name">>, 0, Whole)>>,
          <<Ints(<<"num">>, <<-1, -2, -1, 1>>, {0, 1})>>}

MCFilterFrames == Mixed \cup TwoInts \cup Small
MCSlices == {<<1, 5>>, <<2, 5>>, <<-1, 3>>, <<1, 4>>, <<7, 9>>}

Condition(left, op, right, logic, flag) ==
  [left |-> left, op |-> op, right |-> right, scalar |-> 1, logic |-> logic, flag |-> flag]
MCConditions ==
  {Condition(1, "eq", 0, "none", 0), Condition(1, "eq", 0, "not", 0),
   Condition(1, "eq", 0, "and", 2), Condition(1, "lte", 0, "or", 2),
   Condition(1, "lt", 2, "none", 0), Condition(1, "lt", 2, "or", 3)}

\* Columns of data types that Take has a case for
MCTakeFrames == {<<Ints(<<"num">>, <<1, 1, 2, 2>>, nulls), Strings(<<"name">>, 4, {2})>> :
                   nulls \in {Whole, {1, 2}}}

Int32s(name, vals) == [Ints(name, vals, Whole) EXCEPT !.dtype = "Int32"]
Floats(name, vals, nulls) == [Ints(name, vals, nulls) EXCEPT !.dtype = "Float64"]
Texts(name, texts) == Build(name, "String", texts)

\* Texts with commas and spaces, and two equal ones; all cuts of eight rows; columns
\* that have one type, two of one kind, or no common one; a column of another type
MCComma == 44
MCSpace == 32
MCTexts == <<<<1, 32, 44, 2>>, <<>>, Null, <<44, 32, 3, 32>>, <<1, 32, 44, 2>>>>
MCShapeFrames ==
  {<<Texts(<<"name">>, MCTexts), Ints(<<"num">>, <<2, -1, 3, 2, 1>>, nulls),
     Bools(<<"flag">>, 5, {0, 3, 4}, nulls)>> : nulls \in {Whole, {1, 3}}}
  \cup {<<Ints(<<"num">>, <<1, 2, 1, 3>>, nulls), Ints(<<"key">>, <<3, 3, 4, -5>>, {3}),
          Floats(<<"float">>, <<7, 6, 5, 6>>, nulls)>> : nulls \in {Whole, {0, 2}}}
  \cup {<<Bools(<<"flag">>, 8, {1, 2, 4, 7}, {0, 6}), Ints(<<"num">>, <<4, 5, 4, 3, 1, 2, 2, 0>>, {6})>>,
        <<Ints(<<"num">>, <<>>, Whole), Ints(<<"key">>, <<>>, Whole)>>,
        <<Int32s(<<"num">>, <<5, 6>>), Ints(<<"key">>, <<3, 4>>, {0})>>}
MCWindows == {0, 1, 2, 3, 9}
MCMelts == {<<<<1>>, <<2>>>>, <<<<1>>, <<2, 3>>>>, <<<<1, 3>>, <<2>>>>, <<<<1>>, <<1>>>>, <<<<3>>, <<1>>>>}

\* A column of a data type that Take has no case for
BoolFrames == {<<Ints(<<"num">>, <<2, 1, 3>>, Whole), Bools(<<"flag">>, 3, {0}, Whole)>>}
NoFrames == {}

\* Columns of a data type that columns are not built of
Int32Frames == {<<Texts(<<"name">>, MCTexts), Int32s(<<"num">>, <<2, -1, 3, 2, 1>>)>>, <<Int32s(<<"num">>, <<5, 6>>)>>}
NoSlices == {<<1, 3>>}
=============================================================================
