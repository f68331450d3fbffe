------------------------------- MODULE CsvText -------------------------------
(***************************************************************************)
(* internal/io/csv: the text of a file, how a line is split into fields    *)
(* (reader.go, two parsers), how a column's type is inferred and its cells *)
(* are parsed, and what the writer makes of a column (writer.go).          *)
(*                                                                         *)
(* A text is a sequence of atoms: a byte, or a whole word where no code    *)
(* looks inside it ("true", "NaN").  A Float64 cell counts tenths, so that *)
(* 1.7 is 17: texts with more digits after the point are left out.         *)
(***************************************************************************)
EXTENDS Frames

CONSTANT Wide   \* a character outside ASCII

NewLine == "\n"
CR == "\r"
Space == " "

\* Without one atom at the end, if it is there
Strip(text, atom) == IF text # <<>> /\ Last(text) = atom THEN Front(text) ELSE text

-----------------------------------------------------------------------------
(* Fields                                                                  *)

(* A doubled quote is one quote; a single one stays.                       *)
Unescape(s, quote) ==
  LET scan(acc, i) ==
        IF acc.skip THEN [acc EXCEPT !.skip = FALSE]
        ELSE [text |-> Append(acc.text, s[i]),
              skip |-> s[i] = quote /\ i < Len(s) /\ s[i+1] = quote]
  IN  FoldLeftDomain(scan, [text |-> <<>>, skip |-> FALSE], s).text

(* extractField: a field that had a quote loses the two around it          *)
ExtractField(s, quote, hasQuote) ==
  IF ~hasQuote THEN s
  ELSE Unescape(IF Len(s) >= 2 /\ s[1] = quote /\ Last(s) = quote
                  THEN SubSeq(s, 2, Len(s) - 1) ELSE s,
                quote)

(* parseLineASCII: one pass over the bytes; raw is line[start:i]           *)
ParseLineASCII(line, sep, quote) ==
  LET close(acc) == Append(acc.fields, ExtractField(acc.raw, quote, acc.hasQuote))
      scan(acc, i) ==
        LET b == line[i]
            doubled == acc.inQ /\ b = quote /\ i < Len(line) /\ line[i+1] = quote
        IN  IF acc.skip THEN [acc EXCEPT !.skip = FALSE, !.raw = Append(@, b)]
            ELSE IF b = sep /\ ~acc.inQ
              THEN [acc EXCEPT !.fields = close(acc), !.raw = <<>>, !.hasQuote = FALSE]
            ELSE [acc EXCEPT !.raw = Append(@, b),
                             !.skip = doubled,
                             !.hasQuote = @ \/ b = quote,
                             !.inQ = IF b = quote /\ ~doubled THEN ~@ ELSE @]
      start == [fields |-> <<>>, raw |-> <<>>, inQ |-> FALSE, hasQuote |-> FALSE, skip |-> FALSE]
  IN  close(FoldLeftDomain(scan, start, line))

(* parseLineRune: one pass over the runes, quotes never reach the field    *)
ParseLineRune(line, sep, quote) ==
  LET scan(acc, i) ==
        LET c == line[i]
            doubled == acc.inQ /\ c = quote /\ i < Len(line) /\ line[i+1] = quote
        IN  IF acc.skip THEN [acc EXCEPT !.skip = FALSE]
            ELSE IF c = sep /\ ~acc.inQ
              THEN [acc EXCEPT !.fields = Append(@, acc.field), !.field = <<>>]
            ELSE IF c = quote /\ ~doubled THEN [acc EXCEPT !.inQ = ~@]
            ELSE [acc EXCEPT !.field = Append(@, c), !.skip = doubled]
      start == [fields |-> <<>>, field |-> <<>>, inQ |-> FALSE, skip |-> FALSE]
      end == FoldLeftDomain(scan, start, line)
  IN  Append(end.fields, end.field)

(* parseLine: the faster parser is used when both the separator and the    *)
(* quote are ASCII                                                         *)
ParseLine(line, sep, quote) ==
  IF sep # Wide /\ quote # Wide THEN ParseLineASCII(line, sep, quote) ELSE ParseLineRune(line, sep, quote)

-----------------------------------------------------------------------------
(* Types and cells                                                         *)

(* trimSpaceFast, strings.TrimSpace                                        *)
Trim(v) ==
  LET ink == {i \in DOMAIN v : v[i] \notin {Space, CR, NewLine}}
  IN  IF ink = {} THEN <<>> ELSE SubSeq(v, Min(ink), Max(ink))

DigitText == <<"0", "1", "2", "3", "4", "5", "6", "7", "8", "9">>
DigitOf == [d \in ToSet(DigitText) |-> CHOOSE k \in 0..9 : DigitText[k+1] = d]
AllDigits(v) == \A i \in DOMAIN v : v[i] \in DOMAIN DigitOf
Decimal(v) == FoldLeft(LAMBDA n, d : 10 * n + DigitOf[d], 0, v)

\* strconv.ParseInt and ParseFloat: what they accept and what they return
IsInt(v) == v # <<>> /\ AllDigits(v)
Point(v) == Len(v) - 1
HasPoint(v) == Len(v) >= 2 /\ v[Point(v)] = "."
IsFloat(v) == IsInt(v) \/ (HasPoint(v) /\ AllDigits(RemoveAt(v, Point(v))))
Tenths(v) == IF HasPoint(v) THEN Decimal(RemoveAt(v, Point(v))) ELSE 10 * Decimal(v)

Truths == {<<"true">>, <<"1">>}
IsBool(v) == v \in Truths \cup {<<"false">>, <<"0">>}

\* Mutant: the last of the values is not looked at
ScannedButLast(values, maxScan) ==
  IF maxScan <= 0 \/ maxScan > Len(values) THEN Len(values) - 1 ELSE maxScan

(* How many values inference looks at: all of them when maxScan is not     *)
(* positive or past the end                                                *)
Scanned(values, maxScan) ==
  IF maxScan <= 0 \/ maxScan > Len(values) THEN Len(values) ELSE maxScan

(* inferType: the narrowest of Boolean, Int64 and Float64 that all values  *)
(* looked at fit, and String if none does or all are null                  *)
InferType(values, nulls, maxScan) ==
  LET seen == {Trim(values[i]) : i \in 1..Scanned(values, maxScan)} \ nulls
  IN  IF seen = {} THEN "String"
      ELSE IF \A v \in seen : IsBool(v) THEN "Boolean"
      ELSE IF \A v \in seen : IsInt(v) THEN "Int64"
      ELSE IF \A v \in seen : IsFloat(v) THEN "Float64"
      ELSE "String"

\* Values that a column of the type cannot hold; Boolean takes any for false
Unparsable(values, dtype, nulls) ==
  {i \in DOMAIN values :
     /\ Trim(values[i]) \notin nulls
     /\ \/ dtype = "Int64" /\ ~IsInt(Trim(values[i]))
        \/ dtype = "Float64" /\ ~IsFloat(Trim(values[i]))}

\* A column that is forced to any other data type is one of texts.
BuiltType(dtype) == IF dtype \in {"Int64", "Float64", "Boolean"} THEN dtype ELSE "String"

(* buildSeries: a null value is looked up with its spaces in a String      *)
(* column and without them in the others                                   *)
BuildSeries(name, values, dtype, nulls) ==
  LET parse(v) == CASE dtype = "Int64" -> Decimal(v)
                    [] dtype = "Float64" -> Tenths(v)
                    [] dtype = "Boolean" -> IF v \in Truths THEN 1 ELSE 0
                    [] OTHER -> v
      text(i) == IF BuiltType(dtype) = "String" THEN values[i] ELSE Trim(values[i])
  IN  IF Unparsable(values, dtype, nulls) # {} THEN Series(name, "None", <<>>)
      ELSE Series(name, BuiltType(dtype),
                  [i \in DOMAIN values |-> IF text(i) \in nulls THEN Null ELSE parse(text(i))])

-----------------------------------------------------------------------------
(* Writing                                                                 *)

Digits[n \in Nat] ==
  IF n < 10 THEN <<DigitText[n+1]>> ELSE Append(Digits[n \div 10], DigitText[(n % 10) + 1])

(* formatSeriesValue: %d, %g (no point when there is nothing after it, and *)
(* no exponent below a million)                                            *)
FormatCell(dtype, cell) ==
  CASE dtype = "Int64" -> Digits[cell]
    [] dtype = "Float64" ->
         Digits[cell \div 10] \o (IF cell % 10 = 0 THEN <<>> ELSE <<".">> \o Digits[cell % 10])
    [] dtype = "Boolean" -> IF cell = 1 THEN <<"true">> ELSE <<"false">>
    [] dtype = "String" -> cell
    [] OTHER -> <<>>

Quoted(s, quote) ==
  <<quote>> \o FlattenSeq([i \in DOMAIN s |-> IF s[i] = quote THEN <<quote, quote>> ELSE <<s[i]>>]) \o <<quote>>

\* Mutant: a carriage return is written bare
QuoteFieldBareCR(s, sep, quote) ==
  IF ToSet(s) \cap {sep, quote, NewLine} = {} THEN s ELSE Quoted(s, quote)

(* quoteField                                                              *)
QuoteField(s, sep, quote) ==
  IF ToSet(s) \cap {sep, quote, NewLine, CR} = {} THEN s ELSE Quoted(s, quote)

Line(fields, sep) ==
  FlattenSeq([i \in DOMAIN fields |-> IF i = 1 THEN fields[i] ELSE <<sep>> \o fields[i]]) \o <<NewLine>>

(* Write: the names and then the rows; a null is the text nullValue, never *)
(* quoted                                                                  *)
Write(cols, sep, quote, nullValue) ==
  LET field(c, r) == IF c.cells[r] = Null THEN nullValue
                     ELSE QuoteField(FormatCell(c.dtype, c.cells[r]), sep, quote)
      header == Line([k \in DOMAIN cols |-> QuoteField(cols[k].name, sep, quote)], sep)
      row(r) == Line([k \in DOMAIN cols |-> field(cols[k], r)], sep)
  IN  IF cols = <<>> THEN <<>>
      ELSE FlattenSeq(<<header>> \o [r \in DOMAIN cols[1].cells |-> row(r)])
=============================================================================
