-------------------------- MODULE CsvReaderProofs --------------------------
(***************************************************************************)
(* That Read reads every row, for every file, option, number of workers    *)
(* and order in which the workers finish; that a column whose type was     *)
(* inferred from all its values fits that type and says what its texts do; *)
(* and that Read gives back what Write has written.                        *)
(*                                                                         *)
(* The lines of a file are the positions they start at; a list of them in  *)
(* ascending order is determined by its set.  Dividing the lines into      *)
(* chunks, dropping blank lines, limiting their number and merging the     *)
(* chunks are therefore followed on sets of positions.                     *)
(*                                                                         *)
(* The two line parsers are folds over the atoms of a line; what each step *)
(* keeps is that the fields so far are texts.  A column is thus a list of  *)
(* texts, of which the type is inferred and the cells are parsed.          *)
(*                                                                         *)
(* For the round trip a line is the concatenation of its quoted fields,    *)
(* each at a place known from the lengths before it; the parsers are       *)
(* followed from the place of a field to the place of the next.  A file is *)
(* the same of lines.  Numbers are followed digit by digit.                *)
(***************************************************************************)
EXTENDS CsvReader, DataLemmas, SequenceTheorems

Starts(p) == {q \in p..Len(content) : q = p \/ content[q-1] = NewLine}

\* The rows among some lines, and what column c has for the row at q
RowsAt(Q) == {q \in Q : Kept(LineAt(q))}
Fields(q) == ParseLine(LineAt(q), options.sep, options.quote)
Place(c) == IF colIndices = nil THEN c ELSE colIndices[c]
CellsOf(c) == [q \in Int |-> FieldAt(Fields(q), Place(c))]

(* buildDataLineStarts finds the lines in the order of the file.           *)
LEMMA LinesAscend ==
  ASSUME NEW p \in Nat \ {0}, Len(content) \in Nat
  PROVE  /\ LinesFrom(p) \in Seq(Int) /\ Ascending(LinesFrom(p))
         /\ ToSet(LinesFrom(p)) = Starts(p) /\ LinesFrom(p) = RowList(Starts(p))
  <1>1. \A x \in Starts(p) : x \in Int
    BY DEF Starts
  <1>2. IsFiniteSet(Starts(p))
    <2>1. IsFiniteSet(p..Len(content))
      BY FS_Interval
    <2>2. QED
      BY <2>1, FS_Subset DEF Starts
  <1>3. LinesFrom(p) = RowList(Starts(p))
    BY DEF LinesFrom, Starts
  <1>4. /\ RowList(Starts(p)) \in Seq(Starts(p)) /\ ToSet(RowList(Starts(p))) = Starts(p)
        /\ \A k, l \in DOMAIN RowList(Starts(p)) :
             k < l => RowList(Starts(p))[k] < RowList(Starts(p))[l]
    BY <1>1, <1>2, RowListAscends
  <1>5. RowList(Starts(p)) \in Seq(Int)
    BY <1>1, <1>4
  <1>6. QED
    BY <1>3, <1>4, <1>5 DEF Ascending

(* Reading n lines leaves the lines after them.                            *)
LEMMA LinesAfter ==
  ASSUME NEW p \in Nat \ {0}, NEW n \in Nat, Len(content) \in Nat
  PROVE  /\ After(n, p) \in Nat \ {0}
         /\ LinesFrom(After(n, p)) = SubSeq(LinesFrom(p), 1 + n, Len(LinesFrom(p)))
  <1>1. PICK s : s = LinesFrom(p)
    OBVIOUS
  <1>2. /\ s \in Seq(Int) /\ Ascending(s) /\ ToSet(s) = Starts(p) /\ Len(s) \in Nat
        /\ DOMAIN s = 1..Len(s)
    BY <1>1, LinesAscend
  <1>3. SubSeq(s, 1 + n, Len(s)) = RowList({s[k] : k \in 1+n..Len(s)})
    <2>1. 1 + n \in Nat \ {0} /\ Len(s) <= Len(s)
      BY <1>2
    <2>2. SubSeq(s, 1 + n, Len(s)) = RowList(ElementsAt(s, 1 + n, Len(s)))
      BY <1>2, <2>1, RowListPart
    <2>3. QED
      BY <2>2 DEF ElementsAt
  <1>4. PICK a : a = After(n, p)
    OBVIOUS
  <1>5. CASE n >= Len(s)
    <2>1. a = Len(content) + 1 /\ a \in Nat \ {0}
      BY <1>1, <1>4, <1>5 DEF After
    <2>2. Starts(a) = {} /\ {s[k] : k \in 1+n..Len(s)} = {}
      BY <1>2, <1>5, <2>1 DEF Starts
    <2>3. LinesFrom(a) = RowList(Starts(a))
      BY <2>1, LinesAscend
    <2>4. QED
      BY <1>1, <1>3, <1>4, <2>1, <2>2, <2>3
  <1>6. CASE ~(n >= Len(s))
    <2>1. a = s[n+1] /\ n+1 \in 1..Len(s)
      BY <1>1, <1>2, <1>4, <1>6 DEF After
    <2>2. a \in Starts(p)
      BY <1>2, <2>1 DEF ToSet
    <2>3. a \in Nat \ {0} /\ a >= p
      BY <2>2 DEF Starts
    <2>4. ASSUME NEW k \in 1+n..Len(s) PROVE s[k] \in Starts(a)
      <3>1. k \in 1..Len(s) /\ s[k] \in Starts(p)
        BY <1>2 DEF ToSet
      <3>2. a <= s[k]
        <4>1. CASE k = n + 1
          BY <1>2, <2>1, <4>1
        <4>2. CASE k # n + 1
          <5>1. n + 1 < k
            BY <1>2, <4>2
          <5>2. s[n+1] < s[k] /\ s[k] \in Int
            BY <1>2, <2>1, <3>1, <5>1 DEF Ascending
          <5>3. QED
            BY <2>1, <2>3, <5>2
        <4>3. QED
          BY <4>1, <4>2
      <3>3. QED
        BY <2>3, <3>1, <3>2 DEF Starts
    <2>5. ASSUME NEW q \in Starts(a) PROVE \E k \in 1+n..Len(s) : s[k] = q
      <3>1. q \in Starts(p) /\ q >= a
        BY <2>2, <2>3 DEF Starts
      <3>2. PICK k \in 1..Len(s) : s[k] = q
        BY <1>2, <3>1 DEF ToSet
      <3>3. ~(k < n + 1)
        <4>1. k < n + 1 => s[k] < s[n+1]
          BY <1>2, <2>1 DEF Ascending
        <4>2. s[k] \in Int
          BY <1>2
        <4>3. QED
          BY <2>1, <2>3, <3>1, <3>2, <4>1, <4>2
      <3>4. k \in 1+n..Len(s)
        BY <3>3
      <3>5. QED
        BY <3>2, <3>4
    <2>6. {s[k] : k \in 1+n..Len(s)} = Starts(a)
      BY <2>4, <2>5
    <2>7. LinesFrom(a) = RowList(Starts(a))
      BY <2>3, LinesAscend
    <2>8. QED
      BY <1>1, <1>3, <1>4, <2>3, <2>6, <2>7
  <1>7. QED
    BY <1>2, <1>5, <1>6

(* The rows of some lines in order are the kept lines of their set.        *)
LEMMA RowsOfLines ==
  ASSUME NEW starts, starts \in Seq(Int), Ascending(starts), NEW Q, Q = ToSet(starts)
  PROVE  /\ \A x \in Q : x \in Int
         /\ IsFiniteSet(Q) /\ Cardinality(RowsAt(Q)) \in Nat /\ Len(starts) \in Nat
         /\ Cardinality(RowsAt(Q)) <= Len(starts)
         /\ Rows(starts) = [r \in 1..Cardinality(RowsAt(Q)) |-> Fields(RowList(RowsAt(Q))[r])]
  <1> DEFINE K == {i \in DOMAIN starts : Kept(LineAt(starts[i]))}
             n == Cardinality(K)
  <1>1. /\ Len(starts) \in Nat /\ DOMAIN starts = 1..Len(starts)
        /\ \A i \in DOMAIN starts : starts[i] \in Int
        /\ \A i, j \in DOMAIN starts : i < j => starts[i] < starts[j]
        /\ Q = {starts[i] : i \in DOMAIN starts}
    BY DEF Ascending, ToSet
  <1>2. IsFiniteSet(K) /\ \A i \in K : i \in Int
    <2>1. IsFiniteSet(1..Len(starts))
      BY <1>1, FS_Interval
    <2>2. QED
      BY <1>1, <2>1, FS_Subset
  <1>3. PICK kept : kept = RowList(K)
    OBVIOUS
  <1>4. /\ kept \in Seq(K) /\ DOMAIN kept = 1..n /\ n \in Nat /\ ToSet(kept) = K
        /\ \A k, l \in DOMAIN kept : k < l => kept[k] < kept[l]
    <2> HIDE DEF K
    <2>1. QED
      BY <1>2, <1>3, RowListAscends
  <1>5. PICK t : t = [r \in 1..n |-> starts[kept[r]]]
    OBVIOUS
  <1>6. /\ DOMAIN t = 1..n /\ \A r \in 1..n : t[r] = starts[kept[r]] /\ kept[r] \in K
    <2>1. \A r \in 1..n : kept[r] \in K
      <3> HIDE DEF K, n
      <3>1. QED
        BY <1>4
    <2> HIDE DEF K, n
    <2>2. QED
      BY <1>5, <2>1
  <1>7. \A r \in 1..n : t[r] \in Int
    BY <1>1, <1>6
  <1>8. t \in Seq(Int) /\ Len(t) = n
    <2>1. t = [r \in 1..n |-> t[r]]
      BY <1>5
    <2> HIDE DEF n
    <2>2. QED
      BY <1>4, <1>6, <1>7, <2>1, SequenceOf
  <1>9. Ascending(t)
    <2> SUFFICES ASSUME NEW k \in 1..n, NEW l \in 1..n, k < l PROVE t[k] < t[l]
      BY <1>6 DEF Ascending
    <2>1. kept[k] < kept[l] /\ kept[k] \in DOMAIN starts /\ kept[l] \in DOMAIN starts
      BY <1>4, <1>6
    <2>2. QED
      BY <1>1, <1>6, <2>1
  <1>10. ToSet(t) = RowsAt(Q)
    <2>1. ASSUME NEW r \in DOMAIN t PROVE t[r] \in RowsAt(Q)
      BY <1>1, <1>6 DEF RowsAt
    <2>2. ASSUME NEW q \in RowsAt(Q) PROVE \E r \in DOMAIN t : t[r] = q
      <3>1. PICK i \in DOMAIN starts : starts[i] = q
        BY <1>1 DEF RowsAt
      <3>2. i \in K
        BY <3>1 DEF RowsAt
      <3>3. PICK r \in 1..n : kept[r] = i
        BY <1>4, <3>2 DEF ToSet
      <3>4. QED
        BY <1>6, <3>1, <3>3
    <2>3. QED
      BY <2>1, <2>2 DEF ToSet
  <1>11. t = RowList(RowsAt(Q)) /\ Cardinality(RowsAt(Q)) = n
    BY <1>8, <1>9, <1>10, AscendingIsRowList
  <1>12. IsFiniteSet(Q) /\ n <= Len(starts)
    <2>1. IsFiniteSet(Q) /\ Cardinality(Q) = Len(starts)
      BY AscendingIsRowList
    <2>2. RowsAt(Q) \subseteq Q
      BY DEF RowsAt
    <2>3. Cardinality(RowsAt(Q)) <= Cardinality(Q)
      BY <2>1, <2>2, FS_Subset
    <2>4. QED
      BY <1>11, <2>1, <2>3
  <1>13. Rows(starts) = [r \in 1..n |-> Fields(t[r])]
    <2>1. Rows(starts) = [r \in DOMAIN kept |-> ParseLine(LineAt(starts[kept[r]]), options.sep, options.quote)]
      BY <1>3 DEF Rows
    <2>2. QED
      BY <1>4, <1>6, <2>1 DEF Fields
  <1>14. QED
    BY <1>1, <1>4, <1>11, <1>12, <1>13

(* Column c of these rows                                                  *)
LEMMA ColumnOfLines ==
  ASSUME NEW starts, starts \in Seq(Int), Ascending(starts), NEW Q, Q = ToSet(starts),
         NEW n, NEW c \in 1..n
  PROVE  Columns(Rows(starts), n)[c] = Image(CellsOf(c), RowList(RowsAt(Q)))
  <1>1. PICK m : m = Cardinality(RowsAt(Q))
    OBVIOUS
  <1>2. PICK t : t = RowList(RowsAt(Q))
    OBVIOUS
  <1>3. Rows(starts) = [r \in 1..m |-> Fields(t[r])]
    BY <1>1, <1>2, RowsOfLines
  <1>4. \A x \in RowsAt(Q) : x \in Int
    BY RowsOfLines DEF RowsAt
  <1>5. IsFiniteSet(RowsAt(Q))
    <2>1. IsFiniteSet(Q) /\ RowsAt(Q) \subseteq Q
      BY RowsOfLines DEF RowsAt
    <2>2. QED
      BY <2>1, FS_Subset
  <1>6. DOMAIN t = 1..m /\ t \in Seq(RowsAt(Q)) /\ m \in Nat
    BY <1>1, <1>2, <1>4, <1>5, RowListAscends
  <1>7. \A r \in 1..m : t[r] \in Int
    BY <1>4, <1>6
  <1>8. Columns(Rows(starts), n)[c] = [r \in 1..m |-> FieldAt(Fields(t[r]), Place(c))]
    BY <1>3 DEF Columns, Place
  <1>9. Image(CellsOf(c), t) = [r \in 1..m |-> FieldAt(Fields(t[r]), Place(c))]
    BY <1>6, <1>7 DEF Image, CellsOf
  <1>10. QED
    BY <1>2, <1>8, <1>9

(* NRows: the rows of the first lines are the first rows.                  *)
IsStartOf(taken, rows) ==
  /\ Len(taken) \in Nat /\ DOMAIN taken = 1..Len(taken)
  /\ Len(rows) \in Nat /\ DOMAIN rows = 1..Len(rows)
  /\ Len(taken) <= Len(rows)
  /\ \A r \in 1..Len(taken) : taken[r] = rows[r]

LEMMA RowsOfStart ==
  ASSUME NEW lines, lines \in Seq(Int), Ascending(lines), NEW b, b \in Nat, b <= Len(lines)
  PROVE  /\ IsStartOf(Rows(SubSeq(lines, 1, b)), Rows(lines))
         /\ Len(Rows(SubSeq(lines, 1, b))) <= b
  <1> DEFINE first == SubSeq(lines, 1, b)
             P == ToSet(first)
             Q == ToSet(lines)
  <1>3. /\ first \in Seq(Int) /\ Ascending(first) /\ ToSet(first) = ElementsAt(lines, 1, b)
        /\ Len(first) <= b
    <2>1. 1 \in Nat \ {0}
      OBVIOUS
    <2>2. QED
      BY <2>1, RowListPart
  <1> HIDE DEF first
  <1>4. Len(lines) \in Nat /\ DOMAIN lines = 1..Len(lines) /\ Q = {lines[k] : k \in 1..Len(lines)}
    BY DEF ToSet
  <1>5. P = {lines[k] : k \in 1..b} /\ \A k \in 1..b : k \in 1..Len(lines)
    BY <1>3, <1>4 DEF ElementsAt
  <1> HIDE DEF P, Q
  <1>6. \A x \in RowsAt(P) : \A y \in RowsAt(Q) \ RowsAt(P) : x < y
    <2> SUFFICES ASSUME NEW x \in RowsAt(P), NEW y \in RowsAt(Q) \ RowsAt(P) PROVE x < y
      OBVIOUS
    <2>1. PICK k \in 1..b : x = lines[k]
      BY <1>5 DEF RowsAt
    <2>2. PICK l \in 1..Len(lines) : y = lines[l]
      BY <1>4 DEF RowsAt
    <2>3. l \notin 1..b
      BY <1>5, <2>2 DEF RowsAt
    <2>4. k < l /\ k \in 1..Len(lines)
      BY <1>4, <1>5, <2>3
    <2>5. QED
      BY <1>4, <2>1, <2>2, <2>4 DEF Ascending
  <1>7. RowsAt(P) \subseteq RowsAt(Q)
    BY <1>4, <1>5 DEF RowsAt
  <1>8. PICK m, n : m = Cardinality(RowsAt(P)) /\ n = Cardinality(RowsAt(Q))
    OBVIOUS
  <1>9. /\ m \in Nat /\ m <= Len(first)
        /\ Rows(first) = [r \in 1..m |-> Fields(RowList(RowsAt(P))[r])]
    BY <1>3, <1>8, RowsOfLines DEF P
  <1>10. /\ n \in Nat /\ IsFiniteSet(Q) /\ \A x \in Q : x \in Int
         /\ Rows(lines) = [r \in 1..n |-> Fields(RowList(RowsAt(Q))[r])]
    BY <1>8, RowsOfLines DEF Q
  <1>11. IsFiniteSet(RowsAt(Q)) /\ \A x \in RowsAt(Q) : x \in Int
    BY <1>10, FS_Subset DEF RowsAt
  <1>12. m <= n /\ \A r \in 1..m : RowList(RowsAt(Q))[r] = RowList(RowsAt(P))[r]
    BY <1>6, <1>7, <1>8, <1>11, RowListSplits
  <1>13. Len(Rows(first)) = m /\ DOMAIN Rows(first) = 1..m
    <2>1. PICK f : f = Rows(first)
      OBVIOUS
    <2>2. /\ DOMAIN f = 1..m /\ f = [r \in 1..m |-> f[r]]
          /\ \A r \in 1..m : f[r] \in {f[k] : k \in 1..m}
      BY <1>9, <2>1
    <2>3. QED
      BY <1>9, <2>1, <2>2, SequenceOf
  <1>14. Len(Rows(lines)) = n /\ DOMAIN Rows(lines) = 1..n
    <2>1. PICK f : f = Rows(lines)
      OBVIOUS
    <2>2. /\ DOMAIN f = 1..n /\ f = [r \in 1..n |-> f[r]]
          /\ \A r \in 1..n : f[r] \in {f[k] : k \in 1..n}
      BY <1>10, <2>1
    <2>3. QED
      BY <1>10, <2>1, <2>2, SequenceOf
  <1>15. \A r \in 1..m : r \in 1..n /\ Rows(first)[r] = Rows(lines)[r]
    <2>1. \A r \in 1..m : r \in 1..n
      BY <1>9, <1>10, <1>12
    <2>2. QED
      BY <1>9, <1>10, <1>12, <2>1
  <1>16. m <= b
    <2>1. Len(first) \in Nat
      BY <1>3
    <2>2. QED
      BY <1>3, <1>9, <2>1
  <1>17. IsStartOf(Rows(first), Rows(lines))
    BY <1>9, <1>10, <1>12, <1>13, <1>14, <1>15 DEF IsStartOf
  <1>18. Len(Rows(first)) <= b
    BY <1>13, <1>16
  <1>19. QED
    <2>1. first = SubSeq(lines, 1, b)
      BY DEF first
    <2>2. QED
      BY <1>17, <1>18, <2>1

(* What the property asks of the columns, said of the rows                 *)
FieldsOf(data, n, rows) ==
  \A c \in 1..n :
    /\ IsPrefix(data[c], Columns(rows, n)[c])
    /\ options.nrows = 0 => Len(data[c]) = Len(rows)
    /\ options.nrows > 0 => Len(data[c]) <= options.nrows

LEMMA ColumnsOfStart ==
  ASSUME NEW taken, NEW rows, IsStartOf(taken, rows), options.nrows \in Int,
         options.nrows = 0 => Len(taken) = Len(rows),
         options.nrows > 0 => Len(taken) <= options.nrows,
         NEW data, NEW n, \A c \in 1..n : data[c] = Columns(taken, n)[c]
  PROVE  FieldsOf(data, n, rows)
  <1> SUFFICES ASSUME NEW c \in 1..n
               PROVE  /\ IsPrefix(data[c], Columns(rows, n)[c])
                      /\ Len(data[c]) = Len(taken)
    BY DEF FieldsOf
  <1>1. PICK d, e : d = data[c] /\ e = Columns(rows, n)[c]
    OBVIOUS
  <1>2. PICK a, b : a = Len(taken) /\ b = Len(rows)
    OBVIOUS
  <1>3. /\ a \in Nat /\ b \in Nat /\ a <= b /\ DOMAIN taken = 1..a /\ DOMAIN rows = 1..b
        /\ \A r \in 1..a : r \in 1..b /\ taken[r] = rows[r]
    <2>1. a \in Nat /\ b \in Nat /\ a <= b /\ DOMAIN taken = 1..a /\ DOMAIN rows = 1..b
      BY <1>2 DEF IsStartOf
    <2>2. \A r \in 1..a : r \in 1..b
      BY <2>1
    <2>3. \A r \in 1..a : taken[r] = rows[r]
      BY <1>2 DEF IsStartOf
    <2>4. QED
      BY <2>1, <2>2, <2>3
  <1>4. d = [r \in 1..a |-> FieldAt(taken[r], Place(c))]
    BY <1>1, <1>3 DEF Columns, Place
  <1>5. e = [r \in 1..b |-> FieldAt(rows[r], Place(c))]
    BY <1>1, <1>3 DEF Columns, Place
  <1>6. PICK V : V = {e[r] : r \in 1..b}
    OBVIOUS
  <1>7. e \in Seq(V) /\ Len(e) = b
    <2>1. DOMAIN e = 1..b /\ e = [r \in 1..b |-> e[r]]
      BY <1>5
    <2>2. \A r \in 1..b : e[r] \in V
      BY <1>6
    <2>3. QED
      BY <1>3, <2>1, <2>2, SequenceOf
  <1>8. \A r \in 1..a : d[r] = e[r]
    BY <1>3, <1>4, <1>5
  <1>9. d \in Seq(V) /\ Len(d) = a
    <2>1. DOMAIN d = 1..a /\ d = [r \in 1..a |-> d[r]]
      BY <1>4
    <2>2. \A r \in 1..a : d[r] \in V
      BY <1>3, <1>6, <1>8
    <2>3. QED
      BY <1>3, <2>1, <2>2, SequenceOf
  <1>10. SubSeq(d, 1, Len(d)) = SubSeq(e, 1, Len(d))
    BY <1>3, <1>7, <1>8, <1>9
  <1>11. QED
    BY <1>1, <1>2, <1>3, <1>7, <1>9, <1>10 DEF IsPrefix

(* The lines to read are the first ones, all of them unless NRows is set.  *)
LEMMA LinesToRead ==
  ASSUME NEW p \in Nat \ {0}, p = pos, Len(content) \in Nat, options.nrows \in Int
  PROVE  /\ DataLines \in Seq(Int) /\ Ascending(DataLines)
         /\ IsStartOf(Rows(DataLines), Rows(LinesFrom(pos)))
         /\ options.nrows = 0 => Len(Rows(DataLines)) = Len(Rows(LinesFrom(pos)))
         /\ options.nrows > 0 => Len(Rows(DataLines)) <= options.nrows
  <1> DEFINE lines == LinesFrom(p)
             n == options.nrows
  <1>1. lines \in Seq(Int) /\ Ascending(lines) /\ Len(lines) \in Nat
    BY LinesAscend
  <1>2. CASE n > 0 /\ Len(lines) > n
    <2>1. DataLines = SubSeq(lines, 1, n)
      BY <1>2 DEF DataLines
    <2> HIDE DEF lines
    <2>2. n \in Nat /\ n <= Len(lines) /\ 1 \in Nat \ {0}
      BY <1>1, <1>2
    <2>3. SubSeq(lines, 1, n) \in Seq(Int) /\ Ascending(SubSeq(lines, 1, n))
      BY <1>1, <2>2, RowListPart
    <2>4. /\ IsStartOf(Rows(SubSeq(lines, 1, n)), Rows(lines))
          /\ Len(Rows(SubSeq(lines, 1, n))) <= n
      BY <1>1, <2>2, RowsOfStart
    <2>5. QED
      BY <1>2, <2>1, <2>3, <2>4 DEF lines
  <1>3. CASE ~(n > 0 /\ Len(lines) > n)
    <2>1. DataLines = lines
      BY <1>3 DEF DataLines
    <2> HIDE DEF lines
    <2>2. PICK b : b = Len(lines)
      OBVIOUS
    <2>3. b \in Nat /\ b <= Len(lines) /\ 1 \in Nat \ {0}
      BY <1>1, <2>2
    <2>4. SubSeq(lines, 1, b) = lines
      BY <1>1, <2>2
    <2>5. IsStartOf(Rows(SubSeq(lines, 1, b)), Rows(lines)) /\ Len(Rows(SubSeq(lines, 1, b))) <= b
      BY <1>1, <2>3, RowsOfStart
    <2>6. IsStartOf(Rows(lines), Rows(lines)) /\ Len(Rows(lines)) <= b
      BY <2>4, <2>5
    <2>7. Len(Rows(lines)) \in Nat
      BY <2>6 DEF IsStartOf
    <2>8. n > 0 => Len(Rows(lines)) <= n
      BY <1>1, <1>3, <2>2, <2>6, <2>7
    <2>9. QED
      BY <1>1, <2>1, <2>6, <2>8 DEF lines
  <1>4. QED
    BY <1>2, <1>3

-----------------------------------------------------------------------------
(* Chunks                                                                  *)

(* Chunks of this size, as many as there are workers, cover all lines.     *)
LEMMA ChunksCover ==
  ASSUME NEW len \in Nat \ {0}, NEW n \in Nat \ {0}, NEW size, size = ChunkSize(len, n)
  PROVE  /\ size \in Nat \ {0}
         /\ \A j \in 1..len : \E k \in 1..n : (k - 1) * size + 1 <= j /\ j <= k * size
  <1>1. PICK a \in Nat, r \in 0..n-1 : len + n - 1 = n * a + r /\ (len + n - 1) \div n = a
    <2>1. len + n - 1 \in Nat
      OBVIOUS
    <2>2. QED
      BY <2>1, DivMod
  <1>2. size = a
    BY <1>1 DEF ChunkSize
  <1>3. n * a >= len
    <2>1. n * a \in Nat
      OBVIOUS
    <2>2. QED
      BY <1>1, <2>1
  <1>4. a # 0
    <2>1. a = 0 => n * a = 0
      OBVIOUS
    <2>2. QED
      BY <1>3, <2>1
  <1>5. ASSUME NEW j \in 1..len PROVE \E k \in 1..n : (k - 1) * a + 1 <= j /\ j <= k * a
    <2>1. j - 1 \in Nat /\ a \in Nat \ {0}
      BY <1>4
    <2>2. PICK q \in Nat, t \in 0..a-1 : j - 1 = a * q + t
      BY <2>1, DivMod
    <2>3. q < n
      <3>1. q >= n => n * a <= q * a
        BY <2>1, ProductGrows
      <3>2. q * a = a * q /\ q * a \in Nat /\ n * a \in Nat
        BY <2>1
      <3>3. QED
        BY <1>3, <2>2, <3>1, <3>2
    <2>4. (q + 1) * a = q * a + a /\ q * a \in Nat /\ q * a = a * q
      BY <2>1, ProductGrows
    <2>5. PICK k : k = q + 1
      OBVIOUS
    <2>6. k \in 1..n /\ k - 1 = q
      BY <2>3, <2>5
    <2>7. q * a + 1 <= j /\ j <= q * a + a
      BY <2>1, <2>2, <2>4
    <2>8. QED
      BY <2>4, <2>5, <2>6, <2>7
  <1>6. QED
    BY <1>2, <1>4, <1>5

\* The size of the chunks, and the last line of the chunk of worker k-1
Size == ChunkSize(Len(lineStarts), NumWorkers)
LastOf(k) == IF k * Size > Len(lineStarts) THEN Len(lineStarts) ELSE k * Size

HasChunks ==
  /\ lineStarts \in Seq(Int) /\ Ascending(lineStarts)
  /\ NumWorkers \in Nat \ {0} /\ Len(lineStarts) \in Nat \ {0}

LEMMA ChunkPart ==
  ASSUME HasChunks, NEW k \in 1..NumWorkers
  PROVE  /\ ChunkOf(k - 1) \in Seq(Int) /\ Ascending(ChunkOf(k - 1))
         /\ ToSet(ChunkOf(k - 1)) = ElementsAt(lineStarts, (k - 1) * Size + 1, LastOf(k))
  <1>1. Size \in Nat \ {0}
    BY ChunksCover DEF Size, HasChunks
  <1>2. PICK a, b : a = (k - 1) * Size + 1 /\ b = LastOf(k)
    OBVIOUS
  <1>3. NumWorkers \in Nat \ {0} /\ k \in Nat \ {0} /\ k - 1 \in Nat /\ (k - 1) + 1 = k
    BY DEF HasChunks
  <1>4. (k - 1) * Size \in Nat /\ k * Size \in Nat
    BY <1>1, <1>3
  <1>5. a \in Nat \ {0} /\ b \in Nat /\ b <= Len(lineStarts)
    BY <1>2, <1>4 DEF LastOf, HasChunks
  <1>6. ChunkOf(k - 1) = SubSeq(lineStarts, a, b)
    BY <1>2, <1>3 DEF ChunkOf, Size, LastOf
  <1>7. /\ SubSeq(lineStarts, a, b) \in Seq(Int) /\ Ascending(SubSeq(lineStarts, a, b))
        /\ ToSet(SubSeq(lineStarts, a, b)) = ElementsAt(lineStarts, a, b)
    BY <1>5, RowListPart DEF HasChunks
  <1>8. QED
    BY <1>2, <1>6, <1>7

(* Every line is in a chunk, and the chunks stand one after the other.     *)
LEMMA ChunksDivide ==
  ASSUME HasChunks, NumWorkers <= Len(lineStarts)
  PROVE  /\ ToSet(lineStarts) = UNION {ToSet(ChunkOf(k - 1)) : k \in 1..NumWorkers}
         /\ \A k, l \in 1..NumWorkers : k < l =>
              \A x \in ToSet(ChunkOf(k - 1)) : \A y \in ToSet(ChunkOf(l - 1)) : x < y
  <1> DEFINE len == Len(lineStarts)
             W == NumWorkers
  <1>1. /\ len \in Nat \ {0} /\ W \in Nat \ {0} /\ DOMAIN lineStarts = 1..len
        /\ ToSet(lineStarts) = {lineStarts[j] : j \in 1..len}
        /\ \A i, j \in 1..len : i < j => lineStarts[i] < lineStarts[j]
    BY DEF HasChunks, ToSet, Ascending
  <1>2. /\ Size \in Nat \ {0}
        /\ \A j \in 1..len : \E k \in 1..W : (k - 1) * Size + 1 <= j /\ j <= k * Size
    BY ChunksCover DEF Size, HasChunks
  <1>3. \A k \in 1..W : /\ k \in Nat \ {0} /\ k - 1 \in Nat
                        /\ k * Size \in Nat /\ (k - 1) * Size \in Nat
    BY <1>1, <1>2
  <1>4. \A k \in 1..W : LastOf(k) \in Nat /\ LastOf(k) <= len /\ LastOf(k) <= k * Size
    BY <1>1, <1>3 DEF LastOf
  <1>5. \A k \in 1..W : ToSet(ChunkOf(k - 1)) = {lineStarts[j] : j \in (k-1) * Size + 1..LastOf(k)}
    BY ChunkPart DEF ElementsAt
  <1>6. ASSUME NEW k \in 1..W, NEW j \in (k-1) * Size + 1..LastOf(k)
        PROVE  j \in 1..len /\ (k-1) * Size < j /\ j <= k * Size
    BY <1>1, <1>3, <1>4
  <1>7. ASSUME NEW j \in 1..len PROVE \E k \in 1..W : j \in (k-1) * Size + 1..LastOf(k)
    <2>1. PICK k \in 1..W : (k - 1) * Size + 1 <= j /\ j <= k * Size
      BY <1>2
    <2>2. j <= LastOf(k)
      BY <1>1, <2>1 DEF LastOf
    <2>3. j \in (k-1) * Size + 1..LastOf(k)
      BY <1>3, <1>4, <2>1, <2>2
    <2>4. QED
      BY <2>3
  <1>8. ASSUME NEW x \in ToSet(lineStarts)
        PROVE  \E k \in 1..W : x \in ToSet(ChunkOf(k - 1))
    <2>1. PICK j \in 1..len : x = lineStarts[j]
      BY <1>1
    <2>2. PICK k \in 1..W : j \in (k-1) * Size + 1..LastOf(k)
      BY <1>7
    <2>3. QED
      BY <1>5, <2>1, <2>2
  <1>9. ASSUME NEW k \in 1..W, NEW x \in ToSet(ChunkOf(k - 1)) PROVE x \in ToSet(lineStarts)
    <2>1. PICK j \in (k-1) * Size + 1..LastOf(k) : x = lineStarts[j]
      BY <1>5
    <2>2. j \in 1..len
      BY <1>6
    <2>3. QED
      BY <1>1, <2>1, <2>2
  <1>10. ToSet(lineStarts) = UNION {ToSet(ChunkOf(k - 1)) : k \in 1..W}
    BY <1>8, <1>9
  <1>11. ASSUME NEW k \in 1..W, NEW l \in 1..W, k < l,
                NEW x \in ToSet(ChunkOf(k - 1)), NEW y \in ToSet(ChunkOf(l - 1))
         PROVE  x < y
    <2>1. PICK i \in (k-1) * Size + 1..LastOf(k) : x = lineStarts[i]
      BY <1>5
    <2>2. PICK j \in (l-1) * Size + 1..LastOf(l) : y = lineStarts[j]
      BY <1>5
    <2>3. i \in 1..len /\ i <= k * Size
      BY <1>6
    <2>4. j \in 1..len /\ (l-1) * Size < j
      BY <1>6
    <2>5. k * Size <= (l - 1) * Size
      <3>1. PICK m : m = l - 1
        OBVIOUS
      <3>2. m \in Nat /\ k <= m /\ k \in Nat
        BY <1>3, <1>11, <3>1
      <3>3. QED
        BY <1>2, <3>1, <3>2, ProductGrows
    <2>6. i < j
      BY <1>3, <2>3, <2>4, <2>5
    <2>7. QED
      BY <1>1, <2>1, <2>2, <2>3, <2>4, <2>6
  <1>12. QED
    BY <1>10, <1>11

(* The merged column is that of all lines.                                 *)
LEMMA ChunksMerge ==
  ASSUME HasChunks, NumWorkers <= Len(lineStarts), NEW n, NEW c \in 1..n,
         NEW parts, parts = [k \in 1..NumWorkers |-> IF chunks[k-1] = nil THEN <<>> ELSE chunks[k-1][c]],
         \A k \in 1..NumWorkers : IF chunks[k-1] = nil THEN ChunkOf(k - 1) = <<>>
                                  ELSE chunks[k-1] = Columns(Rows(ChunkOf(k - 1)), n)
  PROVE  FlattenSeq(parts) = Columns(Rows(lineStarts), n)[c]
  <1> DEFINE W == NumWorkers
             m == CellsOf(c)
             V == {CellsOf(c)[x] : x \in Int}
             R == {p \in Int \X Int : p[1] < p[2]}
             Q(k) == RowsAt(ToSet(ChunkOf(k - 1)))
             S == RowsAt(ToSet(lineStarts))
             ss == [k \in 1..W |-> RowList(Q(k))]
  <1>1. W \in Nat /\ DOMAIN parts = 1..W /\ DOMAIN ss = 1..W
    BY DEF HasChunks
  <1>2. ASSUME NEW k \in 1..W
        PROVE  /\ RowList(Q(k)) \in Seq(Int) /\ ToSet(RowList(Q(k))) = Q(k)
               /\ OrderedBy(R, RowList(Q(k)))
    <2>1. PICK ch, P : ch = ChunkOf(k - 1) /\ P = ToSet(ch)
      OBVIOUS
    <2>2. ch \in Seq(Int) /\ Ascending(ch)
      BY <2>1, ChunkPart
    <2>3. IsFiniteSet(P) /\ \A x \in P : x \in Int
      BY <2>1, <2>2, RowsOfLines
    <2>4. IsFiniteSet(RowsAt(P)) /\ \A x \in RowsAt(P) : x \in Int
      BY <2>3, FS_Subset DEF RowsAt
    <2>5. PICK t : t = RowList(RowsAt(P))
      OBVIOUS
    <2>6. /\ t \in Seq(RowsAt(P)) /\ ToSet(t) = RowsAt(P)
          /\ \A i, j \in DOMAIN t : i < j => t[i] < t[j]
      BY <2>4, <2>5, RowListAscends
    <2>7. t \in Seq(Int)
      BY <2>4, <2>6
    <2>8. OrderedBy(R, t)
      <3>1. \A i \in DOMAIN t : t[i] \in Int
        BY <2>7
      <3>2. QED
        BY <2>6, <3>1 DEF OrderedBy
    <2>9. QED
      BY <2>1, <2>5, <2>6, <2>7, <2>8
  <1>3. ASSUME NEW k \in 1..W PROVE parts[k] = Image(m, RowList(Q(k)))
    <2>1. CASE chunks[k-1] = nil
      <3>1. parts[k] = <<>> /\ ChunkOf(k - 1) = <<>>
        BY <2>1
      <3>2. Q(k) = {}
        BY <3>1 DEF RowsAt, ToSet
      <3>3. RowList({}) = <<>>
        <4>1. <<>> \in Seq(Int) /\ Ascending(<<>>) /\ {} = ToSet(<<>>)
          BY DEF Ascending, ToSet
        <4>2. QED
          BY <4>1, AscendingIsRowList
      <3>4. Image(m, <<>>) = <<>>
        BY DEF Image
      <3>5. QED
        BY <3>1, <3>2, <3>3, <3>4
    <2>2. CASE chunks[k-1] # nil
      <3>1. parts[k] = Columns(Rows(ChunkOf(k - 1)), n)[c]
        BY <2>2
      <3>2. ChunkOf(k - 1) \in Seq(Int) /\ Ascending(ChunkOf(k - 1))
        BY ChunkPart
      <3>3. QED
        BY <3>1, <3>2, ColumnOfLines
    <2>3. QED
      BY <2>1, <2>2
  <1>4. OrderedParts(Int, R, W, ss)
    <2>1. ss \in [1..W -> Seq(Int)]
      BY <1>2
    <2>2. \A k \in 1..W : OrderedBy(R, ss[k])
      BY <1>2
    <2>3. ASSUME NEW k \in 1..W, NEW l \in 1..W, k < l, NEW x \in ToSet(ss[k]), NEW y \in ToSet(ss[l])
          PROVE  <<x, y>> \in R
      <3>1. x \in Q(k) /\ y \in Q(l)
        BY <1>2
      <3>2. x \in ToSet(ChunkOf(k - 1)) /\ y \in ToSet(ChunkOf(l - 1))
        BY <3>1 DEF RowsAt
      <3>3. x < y
        BY <2>3, <3>2, ChunksDivide
      <3>4. x \in Int /\ y \in Int
        <4>1. ChunkOf(k - 1) \in Seq(Int) /\ ChunkOf(l - 1) \in Seq(Int)
          BY ChunkPart
        <4>2. QED
          BY <3>2, <4>1 DEF ToSet
      <3>5. QED
        BY <3>3, <3>4
    <2> HIDE DEF R, ss
    <2>4. QED
      BY <1>1, <2>1, <2>2, <2>3 DEF OrderedParts
  <1>5. /\ FlattenSeq(ss) \in Seq(Int) /\ OrderedBy(R, FlattenSeq(ss))
        /\ ToSet(FlattenSeq(ss)) = UNION {ToSet(ss[k]) : k \in 1..W}
    <2> HIDE DEF R, ss, W
    <2>1. QED
      BY <1>4, FlattenOrdered
  <1>6. UNION {ToSet(ss[k]) : k \in 1..W} = S
    <2>1. ASSUME NEW x \in S PROVE \E k \in 1..W : x \in ToSet(ss[k])
      <3>1. PICK k \in 1..W : x \in ToSet(ChunkOf(k - 1))
        BY ChunksDivide DEF RowsAt
      <3>2. x \in Q(k)
        BY <3>1 DEF RowsAt
      <3>3. QED
        BY <1>2, <3>2
    <2>2. ASSUME NEW k \in 1..W, NEW x \in ToSet(ss[k]) PROVE x \in S
      <3>1. x \in Q(k)
        BY <1>2
      <3>2. QED
        BY <3>1, ChunksDivide DEF RowsAt
    <2> HIDE DEF S, ss
    <2>3. QED
      BY <2>1, <2>2
  <1>7. FlattenSeq(ss) = RowList(S)
    <2> HIDE DEF ss, S, W
    <2>1. PICK f : f = FlattenSeq(ss)
      OBVIOUS
    <2>2. Ascending(f)
      BY <1>5, <2>1 DEF OrderedBy, Ascending
    <2>3. QED
      BY <1>5, <1>6, <2>1, <2>2, AscendingIsRowList
  <1>8. FlattenSeq(parts) = Image(m, FlattenSeq(ss))
    <2>1. Into(m, Int, V)
      BY DEF Into, CellsOf
    <2>2. ss \in Seq(Seq(Int))
      <3>1. ss = [k \in 1..W |-> ss[k]] /\ \A k \in 1..W : ss[k] \in Seq(Int)
        BY <1>2
      <3> HIDE DEF ss, W
      <3>2. QED
        BY <1>1, <3>1, SequenceOf
    <2>3. \A k \in 1..W : parts[k] \in Seq(V)
      <3> SUFFICES ASSUME NEW k \in 1..W PROVE parts[k] \in Seq(V)
        OBVIOUS
      <3>1. PICK t, e : t = RowList(Q(k)) /\ e = parts[k]
        OBVIOUS
      <3>2. t \in Seq(Int) /\ e = Image(m, t)
        BY <1>2, <1>3, <3>1
      <3>3. Len(t) \in Nat /\ DOMAIN t = 1..Len(t) /\ \A i \in 1..Len(t) : t[i] \in Int
        BY <3>2
      <3>4. \A i \in 1..Len(t) : m[t[i]] \in V
        BY <3>3
      <3>5. DOMAIN e = 1..Len(t) /\ e = [i \in 1..Len(t) |-> e[i]] /\ \A i \in 1..Len(t) : e[i] = m[t[i]]
        BY <3>2, <3>3 DEF Image
      <3> HIDE DEF V, m
      <3>6. \A i \in 1..Len(t) : e[i] \in V
        BY <3>4, <3>5
      <3>7. QED
        BY <3>1, <3>3, <3>5, <3>6, SequenceOf
    <2> HIDE DEF V
    <2>4. parts \in Seq(Seq(V))
      <3>1. PICK w, U, ps : w = W /\ U = Seq(V) /\ ps = parts
        OBVIOUS
      <3>2. DOMAIN ps = 1..w /\ ps = [k \in 1..w |-> ps[k]] /\ w \in Nat
        BY <1>1, <3>1
      <3>3. \A k \in 1..w : ps[k] \in U
        BY <2>3, <3>1
      <3>4. ps \in Seq(U)
        BY <3>2, <3>3, SequenceOf
      <3>5. QED
        BY <3>1, <3>4
    <2>5. IsMapped(m, Int, ss, parts, W)
      BY <1>1, <1>2, <1>3 DEF IsMapped
    <2> HIDE DEF ss, W, m
    <2>6. QED
      BY <2>1, <2>2, <2>4, <2>5, FlattenMapped
  <1>9. Columns(Rows(lineStarts), n)[c] = Image(m, RowList(S))
    BY ColumnOfLines DEF HasChunks
  <1>10. QED
    BY <1>7, <1>8, <1>9

-----------------------------------------------------------------------------
(* Reading in one piece                                                    *)

LEMMA RowsAreSequence ==
  ASSUME NEW lines, lines \in Seq(Int), Ascending(lines)
  PROVE  IsStartOf(Rows(lines), Rows(lines))
  <1>1. PICK b : b = Len(lines)
    OBVIOUS
  <1>2. b \in Nat /\ b <= Len(lines) /\ SubSeq(lines, 1, b) = lines
    BY <1>1
  <1>3. IsStartOf(Rows(SubSeq(lines, 1, b)), Rows(lines))
    BY <1>2, RowsOfStart
  <1>4. QED
    BY <1>2, <1>3

(* The first n of some rows                                                *)
LEMMA FirstOfRows ==
  ASSUME NEW rows, IsStartOf(rows, rows), NEW n \in Nat, n <= Len(rows)
  PROVE  IsStartOf(SubSeq(rows, 1, n), rows) /\ Len(SubSeq(rows, 1, n)) = n
  <1>1. PICK V, b : V = {rows[r] : r \in DOMAIN rows} /\ b = Len(rows)
    OBVIOUS
  <1>2. b \in Nat /\ DOMAIN rows = 1..b /\ n <= b /\ \A r \in 1..b : rows[r] \in V
    BY <1>1 DEF IsStartOf
  <1>3. PICK t : t = SubSeq(rows, 1, n)
    OBVIOUS
  <1>4. t = [k \in 1..n |-> rows[k]]
    BY <1>2, <1>3
  <1>5. \A r \in 1..n : t[r] = rows[r] /\ t[r] \in V
    <2>1. \A r \in 1..n : r \in 1..b
      BY <1>2
    <2>2. QED
      BY <1>2, <1>4, <2>1
  <1>6. Len(t) = n /\ DOMAIN t = 1..n
    <2>1. DOMAIN t = 1..n /\ t = [k \in 1..n |-> t[k]]
      BY <1>4
    <2>2. QED
      BY <1>5, <2>1, SequenceOf
  <1>7. QED
    BY <1>1, <1>2, <1>3, <1>5, <1>6 DEF IsStartOf

(* The end of the end of a list                                            *)
LEMMA EndOfEnd ==
  ASSUME NEW T, NEW s \in Seq(T), NEW a \in Nat, NEW n \in Nat,
         NEW t, t = SubSeq(s, 1 + a, Len(s))
  PROVE  SubSeq(t, 1 + n, Len(t)) = SubSeq(s, 1 + (a + n), Len(s))
  <1>1. PICK l, i : l = Len(s) /\ i = 1 + a
    OBVIOUS
  <1>2. l \in Nat /\ i \in Nat /\ t = SubSeq(s, i, l)
    BY <1>1
  <1>3. \A k \in i..l : s[k] \in T
    BY <1>1
  <1>4. Len(t) = IF i <= l THEN l - i + 1 ELSE 0
    BY <1>2, <1>3, SubSeqProperties
  <1>5. CASE l < i + n
    <2>1. SubSeq(t, 1 + n, Len(t)) = <<>>
      <3>1. Len(t) < 1 + n /\ Len(t) \in Int /\ 1 + n \in Int
        BY <1>2, <1>4, <1>5
      <3>2. QED
        BY <3>1, SubSeqEmpty
    <2>2. SubSeq(s, i + n, l) = <<>>
      BY <1>2, <1>5, SubSeqEmpty
    <2>3. QED
      BY <1>1, <2>1, <2>2
  <1>6. CASE ~(l < i + n)
    <2>1. /\ i \in 1..Len(s) /\ l \in 1..Len(s) /\ Len(t) = l - i + 1
          /\ 1 + n \in 1..l-i+1 /\ Len(t) \in 1..l-i+1
      BY <1>1, <1>2, <1>4, <1>6
    <2>2. SubSeq(SubSeq(s, i, l), 1 + n, Len(t)) = SubSeq(s, i + (1 + n) - 1, i + Len(t) - 1)
      BY <2>1, SubSeqOfSubSeq
    <2>3. i + (1 + n) - 1 = 1 + (a + n) /\ i + Len(t) - 1 = Len(s)
      BY <1>1, <1>2, <2>1
    <2>4. QED
      BY <1>2, <2>2, <2>3
  <1>7. QED
    BY <1>5, <1>6

-----------------------------------------------------------------------------
(* The invariant                                                           *)

Lines == IF options.header THEN 1 ELSE 0

\* The lines that are left when the first n have been read
LinesLeft(n) == SubSeq(LinesFrom(1), 1 + n, Len(LinesFrom(1)))

Chunk(w) == Columns(Rows(ChunkOf(w)), numCols)

(* Up to the parsing pos has passed the lines skipped and the header.      *)
LineInv ==
  /\ options \in Options /\ procs \in Procs /\ Len(content) \in Nat /\ pos \in Nat \ {0}
  /\ pc = "skip" => pos = 1
  /\ pc = "header" => LinesFrom(pos) = LinesLeft(options.skip)
  /\ pc \in {"columns", "locate", "parse", "fallback"} =>
       LinesFrom(pos) = LinesLeft(options.skip + Lines + options.skipAfter)

(* A worker has stored nothing or the columns of its chunk.                *)
ChunkInv ==
  /\ DOMAIN chunks = 0..procs-1
  /\ pc \in {"skip", "header", "columns", "locate"} => \A w \in 0..procs-1 : chunks[w] = nil
  /\ pc = "parse" =>
       /\ lineStarts = DataLines /\ lineStarts # <<>> /\ numCols # 0
       /\ \A w \in 0..procs-1 : chunks[w] # nil => chunks[w] = Chunk(w)

(* The columns read are of the file's rows; there are none only if there   *)
(* are no names either.                                                    *)
FieldInv ==
  /\ pc = "fallback" => Len(colNames) = 0
  /\ pc = "names" /\ numCols = 0 => Len(colNames) = 0
  /\ pc \in {"names", "build"} => FieldsOf(colData, numCols, FileRows)

ReaderInv == LineInv /\ ChunkInv /\ FieldInv

-----------------------------------------------------------------------------
(* Steps that leave the file alone leave its lines and rows alone.         *)
LEMMA SameLines ==
  ASSUME UNCHANGED <<content, options>>
  PROVE  /\ \A p : LinesFrom(p)' = LinesFrom(p)
         /\ \A p : LineAt(p)' = LineAt(p)
         /\ \A x : Kept(x)' = Kept(x)
         /\ \A s : Rows(s)' = Rows(s)
         /\ FileRows' = FileRows
  <1>1. \A p : EndOfLine(p)' = EndOfLine(p)
    BY DEF EndOfLine
  <1>2. \A p : LinesFrom(p)' = LinesFrom(p)
    BY DEF LinesFrom
  <1>3. \A p : LineAt(p)' = LineAt(p)
    BY <1>1 DEF LineAt
  <1>4. \A x : Kept(x)' = Kept(x)
    BY DEF Kept
  <1>5. \A s : Rows(s)' = Rows(s)
    BY <1>3, <1>4 DEF Rows
  <1>6. FileRows' = FileRows
    BY <1>2, <1>5 DEF FileRows
  <1>7. QED
    BY <1>2, <1>3, <1>4, <1>5, <1>6

LEMMA SameChunks ==
  ASSUME UNCHANGED <<content, options, procs, pos, lineStarts, colIndices, numCols>>
  PROVE  DataLines' = DataLines /\ \A w : Chunk(w)' = Chunk(w)
  <1>1. \A p : LinesFrom(p)' = LinesFrom(p)
    BY SameLines
  <1>2. LinesFrom(pos)' = LinesFrom(pos)
    BY <1>1
  <1>3. DataLines' = DataLines
    BY <1>2 DEF DataLines
  <1>4. NumWorkers' = NumWorkers
    BY DEF NumWorkers
  <1>5. \A w : ChunkOf(w)' = ChunkOf(w)
    BY <1>4 DEF ChunkOf
  <1>6. \A w : Rows(ChunkOf(w))' = Rows(ChunkOf(w))
    BY <1>5, SameLines
  <1>7. \A w : Chunk(w)' = Chunk(w)
    BY <1>6 DEF Chunk, Columns
  <1>8. QED
    BY <1>3, <1>7

LEMMA SameFields ==
  ASSUME UNCHANGED <<content, options, colIndices, colData, numCols>>
  PROVE  FieldsOf(colData, numCols, FileRows)' = FieldsOf(colData, numCols, FileRows)
  <1>1. FileRows' = FileRows
    BY SameLines
  <1>2. QED
    BY <1>1 DEF FieldsOf, Columns

-----------------------------------------------------------------------------
(* The lines                                                               *)

LEMMA OptionTypes ==
  ASSUME LineInv
  PROVE  /\ options.skip \in Nat /\ options.skipAfter \in Nat /\ options.nrows \in Int
         /\ Lines \in Nat /\ procs \in Nat \ {0} /\ Len(content) \in Nat /\ pos \in Nat \ {0}
  BY ReaderAssumption DEF LineInv, Lines

LEMMA LineStart == Init => LineInv
  <1> SUFFICES ASSUME Init PROVE LineInv
    OBVIOUS
  <1>1. Len(content) \in Nat
    BY ReaderAssumption DEF Init
  <1>2. QED
    BY <1>1 DEF Init, LineInv

LEMMA LineStep == LineInv /\ [Next]_vars => LineInv'
  <1> SUFFICES ASSUME LineInv, [Next]_vars PROVE LineInv'
    OBVIOUS
  <1>0. UNCHANGED <<content, options, procs>>
    BY DEF Next, vars, SkipRows, Fail, ReadHeader, PickColumns, LocateLines, ParseSequentially,
           MergeChunks, ParseFallback, CancelledInFallback, ParseChunk, NameColumns, Return,
           BuildColumn, Finished
  <1>1. /\ options' \in Options /\ procs' \in Procs /\ Len(content)' \in Nat
        /\ options.skip' = options.skip /\ options.skipAfter' = options.skipAfter /\ Lines' = Lines
    BY <1>0 DEF LineInv, Lines
  <1>2. \A n : LinesLeft(n)' = LinesLeft(n)
    BY <1>0, SameLines DEF LinesLeft
  <1>3. \A p : LinesFrom(p)' = LinesFrom(p)
    BY <1>0, SameLines
  <1>4. (options.skip + Lines + options.skipAfter)' = options.skip + Lines + options.skipAfter
    BY <1>0, <1>1
  <1> DEFINE first == options.skip + Lines + options.skipAfter
  <1>5. ASSUME pos' = pos, \/ pc' = pc \/ pc' \notin {"skip", "header", "columns", "locate", "parse", "fallback"}
                           \/ /\ pc \in {"columns", "locate", "parse", "fallback"}
                              /\ pc' \in {"columns", "locate", "parse", "fallback"}
        PROVE  LineInv'
    <2>1. pc' \in {"columns", "locate", "parse", "fallback"} => LinesFrom(pos)' = LinesLeft(first)'
      <3>1. LinesFrom(pos)' = LinesFrom(pos)
        BY <1>3, <1>5
      <3>2. LinesLeft(first)' = LinesLeft(first)
        BY <1>2, <1>4
      <3>3. QED
        BY <1>5, <3>1, <3>2 DEF LineInv
    <2>2. pc' = "header" => LinesFrom(pos)' = LinesLeft(options.skip)'
      <3>1. LinesFrom(pos)' = LinesFrom(pos)
        BY <1>3, <1>5
      <3>2. LinesLeft(options.skip)' = LinesLeft(options.skip)
        BY <1>0, <1>2
      <3>3. QED
        BY <1>5, <3>1, <3>2 DEF LineInv
    <2>3. pc' = "skip" => pos' = 1
      BY <1>5 DEF LineInv
    <2>4. pos' \in Nat \ {0}
      BY <1>5 DEF LineInv
    <2>5. QED
      BY <1>1, <2>1, <2>2, <2>3, <2>4 DEF LineInv
  <1>6. CASE SkipRows
    <2>1. CASE Fail
      BY <1>5, <2>1 DEF Fail
    <2>2. CASE ~Fail
      <3>1. pc = "skip" /\ pc' = "header" /\ pos' = After(options.skip, 1)
        BY <1>6, <2>2 DEF SkipRows
      <3>2. 1 \in Nat \ {0} /\ options.skip \in Nat /\ Len(content) \in Nat
        BY OptionTypes
      <3>3. /\ After(options.skip, 1) \in Nat \ {0}
            /\ LinesFrom(After(options.skip, 1)) = LinesLeft(options.skip)
        BY <3>2, LinesAfter DEF LinesLeft
      <3>4. LinesFrom(pos)' = LinesFrom(After(options.skip, 1))
        BY <1>3, <3>1
      <3>5. LinesLeft(options.skip)' = LinesLeft(options.skip)
        BY <1>0, <1>2
      <3>6. QED
        BY <1>1, <3>1, <3>3, <3>4, <3>5 DEF LineInv
    <2>3. QED
      BY <2>1, <2>2
  <1>7. CASE ReadHeader
    <2>1. CASE Fail
      BY <1>5, <2>1 DEF Fail
    <2>2. CASE ~Fail
      <3>1. pc = "header" /\ pc' = "columns" /\ pos' = After(Lines + options.skipAfter, pos)
        BY <1>7, <2>2 DEF ReadHeader, Lines
      <3>2. PICK n : n = Lines + options.skipAfter
        OBVIOUS
      <3>3. n \in Nat /\ pos \in Nat \ {0} /\ Len(content) \in Nat /\ options.skip \in Nat
        BY <3>2, OptionTypes
      <3>4. /\ After(n, pos) \in Nat \ {0}
            /\ LinesFrom(After(n, pos)) = SubSeq(LinesFrom(pos), 1 + n, Len(LinesFrom(pos)))
        BY <3>3, LinesAfter
      <3>5. LinesFrom(pos) = SubSeq(LinesFrom(1), 1 + options.skip, Len(LinesFrom(1)))
        BY <3>1 DEF LineInv, LinesLeft
      <3>6. LinesFrom(1) \in Seq(Int)
        BY <3>3, LinesAscend
      <3>7. LinesFrom(After(n, pos)) = SubSeq(LinesFrom(1), 1 + (options.skip + n), Len(LinesFrom(1)))
        <4>1. PICK s, t, a : s = LinesFrom(1) /\ t = LinesFrom(pos) /\ a = options.skip
          OBVIOUS
        <4>2. s \in Seq(Int) /\ a \in Nat /\ t = SubSeq(s, 1 + a, Len(s))
          BY <3>3, <3>5, <3>6, <4>1
        <4>3. SubSeq(t, 1 + n, Len(t)) = SubSeq(s, 1 + (a + n), Len(s))
          BY <3>3, <4>2, EndOfEnd
        <4>4. QED
          BY <3>4, <4>1, <4>3
      <3>8. options.skip + n = options.skip + Lines + options.skipAfter
        BY <3>2, OptionTypes
      <3>9. LinesFrom(After(n, pos)) = LinesLeft(first)
        BY <3>7, <3>8 DEF LinesLeft
      <3>10. LinesFrom(pos)' = LinesFrom(After(n, pos))
        BY <1>3, <3>1, <3>2
      <3>11. LinesLeft(first)' = LinesLeft(first)
        BY <1>2, <1>4
      <3>12. QED
        BY <1>1, <3>1, <3>2, <3>4, <3>9, <3>10, <3>11 DEF LineInv
    <2>3. QED
      BY <2>1, <2>2
  <1>8. CASE PickColumns
    BY <1>5, <1>8 DEF PickColumns, Fail
  <1>9. CASE LocateLines
    BY <1>5, <1>9 DEF LocateLines
  <1>10. CASE ParseSequentially
    BY <1>5, <1>10 DEF ParseSequentially
  <1>11. CASE MergeChunks
    BY <1>5, <1>11 DEF MergeChunks
  <1>12. CASE ParseFallback
    BY <1>5, <1>12 DEF ParseFallback
  <1>13. CASE CancelledInFallback
    BY <1>5, <1>13 DEF CancelledInFallback
  <1>14. ASSUME NEW w \in 0..procs-1, ParseChunk(w) PROVE LineInv'
    BY <1>5, <1>14 DEF ParseChunk
  <1>15. CASE NameColumns
    BY <1>5, <1>15 DEF NameColumns
  <1>16. CASE Return
    BY <1>5, <1>16 DEF Return
  <1>17. ASSUME NEW c \in DOMAIN result, BuildColumn(c) PROVE LineInv'
    BY <1>5, <1>17 DEF BuildColumn
  <1>18. CASE UNCHANGED vars
    BY <1>5, <1>18 DEF vars
  <1>19. CASE Finished
    BY <1>18, <1>19 DEF Finished
  <1>20. QED
    BY <1>6, <1>7, <1>8, <1>9, <1>10, <1>11, <1>12, <1>13, <1>14, <1>15, <1>16, <1>17, <1>18, <1>19
    DEF Next

-----------------------------------------------------------------------------
(* The chunks                                                              *)

LEMMA ChunkStart == Init => ChunkInv
  BY DEF Init, ChunkInv

LEMMA ChunkStep == LineInv /\ ChunkInv /\ [Next]_vars => ChunkInv'
  <1> SUFFICES ASSUME LineInv, ChunkInv, [Next]_vars PROVE ChunkInv'
    OBVIOUS
  <1> DEFINE Early == {"skip", "header", "columns", "locate"}
  <1>1. ASSUME procs' = procs, chunks' = chunks, pc' \in Early => pc \in Early, pc' # "parse"
        PROVE  ChunkInv'
    BY <1>1 DEF ChunkInv
  <1>2. ASSUME UNCHANGED <<content, options, procs, pc, pos, lineStarts, colIndices, numCols, chunks>>
        PROVE  ChunkInv'
    <2>1. DataLines' = DataLines /\ \A w : Chunk(w)' = Chunk(w)
      BY <1>2, SameChunks
    <2>2. QED
      BY <1>2, <2>1 DEF ChunkInv
  <1>3. CASE Fail
    BY <1>1, <1>3 DEF Fail
  <1>4. CASE SkipRows /\ ~Fail
    BY <1>1, <1>4 DEF SkipRows
  <1>5. CASE ReadHeader /\ ~Fail
    BY <1>1, <1>5 DEF ReadHeader
  <1>6. CASE PickColumns /\ ~Fail
    BY <1>1, <1>6 DEF PickColumns
  <1>7. CASE LocateLines
    <2>1. CASE pc' = "parse"
      <3>1. /\ lineStarts' = DataLines /\ lineStarts' # <<>> /\ numCols' # 0
            /\ pc = "locate" /\ chunks' = chunks /\ procs' = procs
        BY <1>7, <2>1 DEF LocateLines
      <3>2. DataLines' = DataLines
        <4>1. UNCHANGED <<content, options, pos>>
          BY <1>7 DEF LocateLines
        <4>2. \A p : LinesFrom(p)' = LinesFrom(p)
          BY <4>1, SameLines
        <4>3. LinesFrom(pos)' = LinesFrom(pos)
          BY <4>1, <4>2
        <4>4. QED
          BY <4>1, <4>3 DEF DataLines
      <3>3. \A w \in 0..procs-1 : chunks'[w] = nil
        BY <3>1 DEF ChunkInv
      <3>4. QED
        BY <2>1, <3>1, <3>2, <3>3 DEF ChunkInv
    <2>2. CASE pc' # "parse"
      BY <1>1, <1>7, <2>2 DEF LocateLines
    <2>3. QED
      BY <2>1, <2>2
  <1>8. CASE ParseSequentially
    BY <1>1, <1>8 DEF ParseSequentially
  <1>9. CASE MergeChunks
    BY <1>1, <1>9 DEF MergeChunks
  <1>10. CASE ParseFallback
    BY <1>1, <1>10 DEF ParseFallback
  <1>11. CASE CancelledInFallback
    BY <1>1, <1>11 DEF CancelledInFallback
  <1>12. ASSUME NEW w \in 0..procs-1, ParseChunk(w) PROVE ChunkInv'
    <2>1. UNCHANGED <<content, options, procs, pc, pos, lineStarts, colIndices, numCols>> /\ pc = "parse"
      BY <1>12 DEF ParseChunk
    <2>2. DataLines' = DataLines /\ \A v : Chunk(v)' = Chunk(v)
      BY <2>1, SameChunks
    <2>3. chunks' = [chunks EXCEPT ![w] = Chunk(w)]
      BY <1>12 DEF ParseChunk, Chunk
    <2>4. \A v \in 0..procs-1 : chunks'[v] # nil => chunks'[v] = Chunk(v)
      BY <2>1, <2>3 DEF ChunkInv
    <2>5. QED
      BY <2>1, <2>2, <2>3, <2>4 DEF ChunkInv
  <1>13. CASE NameColumns
    BY <1>1, <1>13 DEF NameColumns
  <1>14. CASE Return
    BY <1>1, <1>14 DEF Return
  <1>15. ASSUME NEW c \in DOMAIN result, BuildColumn(c) PROVE ChunkInv'
    BY <1>2, <1>15 DEF BuildColumn
  <1>16. CASE UNCHANGED vars
    BY <1>2, <1>16 DEF vars
  <1>17. CASE Finished
    BY <1>16, <1>17 DEF Finished
  <1>18. QED
    BY <1>3, <1>4, <1>5, <1>6, <1>7, <1>8, <1>9, <1>10, <1>11, <1>12, <1>13, <1>14, <1>15, <1>16, <1>17
    DEF Next

-----------------------------------------------------------------------------
(* The fields                                                              *)

LEMMA RowsLeft ==
  ASSUME LineInv, pc \in {"locate", "parse", "fallback"}
  PROVE  Rows(LinesFrom(pos)) = FileRows
  <1>1. LinesFrom(pos) = LinesLeft(options.skip + Lines + options.skipAfter)
    BY DEF LineInv
  <1>2. 1 + (options.skip + Lines + options.skipAfter) = 1 + options.skip + Lines + options.skipAfter
    BY OptionTypes
  <1>3. QED
    BY <1>1, <1>2 DEF LinesLeft, Lines, FileRows

(* The columns of the lines to read are what the property asks for.        *)
LEMMA ReadFields ==
  ASSUME LineInv, pc \in {"locate", "parse"}, NEW data, NEW n,
         \A c \in 1..n : data[c] = Columns(Rows(DataLines), n)[c]
  PROVE  FieldsOf(data, n, FileRows)
  <1>1. /\ IsStartOf(Rows(DataLines), Rows(LinesFrom(pos))) /\ options.nrows \in Int
        /\ options.nrows = 0 => Len(Rows(DataLines)) = Len(Rows(LinesFrom(pos)))
        /\ options.nrows > 0 => Len(Rows(DataLines)) <= options.nrows
    BY OptionTypes, LinesToRead
  <1>2. Rows(LinesFrom(pos)) = FileRows
    BY RowsLeft
  <1>3. QED
    BY <1>1, <1>2, ColumnsOfStart

LEMMA NoLinesNoFields ==
  ASSUME NEW n, NEW c \in 1..n
  PROVE  Columns(Rows(<<>>), n)[c] = <<>>
  <1>1. <<>> \in Seq(Int) /\ Ascending(<<>>) /\ {} = ToSet(<<>>) /\ RowsAt({}) = {}
    BY DEF Ascending, ToSet, RowsAt
  <1>2. RowList({}) = <<>>
    BY <1>1, AscendingIsRowList
  <1>3. Columns(Rows(<<>>), n)[c] = Image(CellsOf(c), RowList(RowsAt({})))
    <2>1. PICK s, Q : s = <<>> /\ Q = {}
      OBVIOUS
    <2>2. s \in Seq(Int) /\ Ascending(s) /\ Q = ToSet(s)
      BY <1>1, <2>1
    <2>3. Columns(Rows(s), n)[c] = Image(CellsOf(c), RowList(RowsAt(Q)))
      BY <2>2, ColumnOfLines
    <2>4. QED
      BY <2>1, <2>3
  <1>4. Image(CellsOf(c), <<>>) = <<>>
    BY DEF Image
  <1>5. QED
    BY <1>1, <1>2, <1>3, <1>4

(* Merging gives what one worker would have read.                          *)
LEMMA MergedFields ==
  ASSUME LineInv, ChunkInv, MergeChunks
  PROVE  \A c \in 1..numCols : colData'[c] = Columns(Rows(DataLines), numCols)[c]
  <1>1. /\ pc = "parse" /\ NumWorkers > 1 /\ \A w \in Workers : chunks[w] # nil
        /\ colData' = [c \in 1..numCols |->
                         FlattenSeq([k \in 1..NumWorkers |-> IF chunks[k-1] = nil THEN <<>> ELSE chunks[k-1][c]])]
    BY DEF MergeChunks
  <1>2. /\ lineStarts = DataLines /\ lineStarts # <<>>
        /\ \A w \in 0..procs-1 : chunks[w] # nil => chunks[w] = Chunk(w)
    BY <1>1 DEF ChunkInv
  <1>3. lineStarts \in Seq(Int) /\ Ascending(lineStarts)
    BY <1>2, OptionTypes, LinesToRead
  <1>4. Len(lineStarts) \in Nat \ {0}
    BY <1>2, <1>3
  <1>5. NumWorkers \in Nat \ {0} /\ NumWorkers <= Len(lineStarts) /\ NumWorkers <= procs
    BY <1>4, OptionTypes DEF NumWorkers
  <1>6. HasChunks
    BY <1>3, <1>4, <1>5 DEF HasChunks
  <1>7. ASSUME NEW k \in 1..NumWorkers
        PROVE  IF chunks[k-1] = nil THEN ChunkOf(k - 1) = <<>>
               ELSE chunks[k-1] = Columns(Rows(ChunkOf(k - 1)), numCols)
    <2>1. k - 1 \in 0..NumWorkers-1 /\ k - 1 \in 0..procs-1
      BY <1>5, OptionTypes
    <2>2. CASE chunks[k-1] = nil
      <3>1. k - 1 \notin Workers
        BY <1>1, <2>2
      <3>2. QED
        BY <2>1, <2>2, <3>1 DEF Workers
    <2>3. CASE chunks[k-1] # nil
      BY <1>2, <2>1, <2>3 DEF Chunk
    <2>4. QED
      BY <2>2, <2>3
  <1>8. ASSUME NEW c \in 1..numCols
        PROVE  colData'[c] = Columns(Rows(DataLines), numCols)[c]
    <2>1. PICK parts : parts = [k \in 1..NumWorkers |-> IF chunks[k-1] = nil THEN <<>> ELSE chunks[k-1][c]]
      OBVIOUS
    <2>2. FlattenSeq(parts) = Columns(Rows(lineStarts), numCols)[c]
      BY <1>5, <1>6, <1>7, <2>1, ChunksMerge
    <2>3. colData'[c] = FlattenSeq(parts)
      BY <1>1, <2>1
    <2>4. QED
      BY <1>2, <2>2, <2>3
  <1>9. QED
    BY <1>8

(* The rows that are read one by one                                       *)
LEMMA FallbackFields ==
  ASSUME LineInv, ParseFallback
  PROVE  FieldsOf(colData', numCols', FileRows)
  <1>1. PICK rows, taken :
          /\ rows = Rows(LinesFrom(pos))
          /\ taken = IF options.nrows > 0 /\ Len(rows) > options.nrows
                       THEN SubSeq(rows, 1, options.nrows) ELSE rows
    OBVIOUS
  <1>2. pc = "fallback" /\ colData' = Columns(taken, numCols')
    BY <1>1 DEF ParseFallback
  <1>3. IsStartOf(rows, rows)
    <2>1. LinesFrom(pos) \in Seq(Int) /\ Ascending(LinesFrom(pos))
      BY OptionTypes, LinesAscend
    <2>2. QED
      BY <1>1, <2>1, RowsAreSequence
  <1>4. Len(rows) \in Nat /\ options.nrows \in Int
    BY <1>3, OptionTypes DEF IsStartOf
  <1>5. /\ IsStartOf(taken, rows)
        /\ options.nrows = 0 => Len(taken) = Len(rows)
        /\ options.nrows > 0 => Len(taken) <= options.nrows
    <2>1. CASE options.nrows > 0 /\ Len(rows) > options.nrows
      <3>1. PICK n : n = options.nrows
        OBVIOUS
      <3>2. n \in Nat /\ n <= Len(rows) /\ n # 0 /\ taken = SubSeq(rows, 1, n)
        BY <1>1, <1>4, <2>1, <3>1
      <3>3. IsStartOf(taken, rows) /\ Len(taken) = n
        BY <1>3, <3>2, FirstOfRows
      <3>4. QED
        BY <3>1, <3>2, <3>3
    <2>2. CASE ~(options.nrows > 0 /\ Len(rows) > options.nrows)
      <3>1. taken = rows
        BY <1>1, <2>2
      <3>2. options.nrows > 0 => Len(taken) <= options.nrows
        BY <1>4, <2>2, <3>1
      <3>3. QED
        BY <1>3, <3>1, <3>2
    <2>3. QED
      BY <2>1, <2>2
  <1>6. rows = FileRows
    BY <1>1, <1>2, RowsLeft
  <1>7. PICK data, n : data = colData' /\ n = numCols'
    OBVIOUS
  <1>8. \A c \in 1..n : data[c] = Columns(taken, n)[c]
    BY <1>2, <1>7
  <1>9. FieldsOf(data, n, rows)
    BY <1>4, <1>5, <1>8, ColumnsOfStart
  <1>10. QED
    BY <1>6, <1>7, <1>9

LEMMA FieldStart == Init => FieldInv
  BY DEF Init, FieldInv

LEMMA FieldStep == LineInv /\ ChunkInv /\ FieldInv /\ [Next]_vars => FieldInv'
  <1> SUFFICES ASSUME LineInv, ChunkInv, FieldInv, [Next]_vars PROVE FieldInv'
    OBVIOUS
  <1>1. ASSUME pc' \notin {"fallback", "names", "build"} PROVE FieldInv'
    BY <1>1 DEF FieldInv
  <1>2. ASSUME UNCHANGED <<content, options, pc, colNames, colIndices, numCols, colData>> PROVE FieldInv'
    BY <1>2, SameFields DEF FieldInv
  <1>3. ASSUME UNCHANGED <<content, options, colIndices>>, pc' = "names",
               numCols' = 0 => Len(colNames') = 0, FieldsOf(colData', numCols', FileRows)
        PROVE  FieldInv'
    <2>1. FileRows' = FileRows
      BY <1>3, SameLines
    <2>2. FieldsOf(colData, numCols, FileRows)'
      BY <1>3, <2>1 DEF FieldsOf, Columns
    <2>3. QED
      BY <1>3, <2>2 DEF FieldInv
  <1>4. CASE Fail
    BY <1>1, <1>4 DEF Fail
  <1>5. CASE SkipRows /\ ~Fail
    BY <1>1, <1>5 DEF SkipRows
  <1>6. CASE ReadHeader /\ ~Fail
    BY <1>1, <1>6 DEF ReadHeader
  <1>7. CASE PickColumns /\ ~Fail
    BY <1>1, <1>7 DEF PickColumns
  <1>8. CASE LocateLines
    <2>1. CASE ColumnsExpected = 0
      <3>1. pc' = "fallback" /\ colNames' = colNames
        BY <1>8, <2>1 DEF LocateLines
      <3>2. Len(colNames) = 0
        BY <2>1 DEF ColumnsExpected
      <3>3. QED
        BY <3>1, <3>2 DEF FieldInv
    <2>2. CASE ColumnsExpected # 0 /\ DataLines = <<>>
      <3>1. /\ UNCHANGED <<content, options, colIndices>> /\ pc' = "names" /\ pc = "locate"
            /\ numCols' = ColumnsExpected /\ colData' = [c \in 1..ColumnsExpected |-> <<>>]
        BY <1>8, <2>2 DEF LocateLines
      <3>2. \A c \in 1..numCols' : colData'[c] = Columns(Rows(DataLines), numCols')[c]
        BY <2>2, <3>1, NoLinesNoFields
      <3>3. FieldsOf(colData', numCols', FileRows)
        <4>1. PICK data, n : data = colData' /\ n = numCols'
          OBVIOUS
        <4>2. \A c \in 1..n : data[c] = Columns(Rows(DataLines), n)[c]
          BY <3>2, <4>1
        <4>3. FieldsOf(data, n, FileRows)
          BY <3>1, <4>2, ReadFields
        <4>4. QED
          BY <4>1, <4>3
      <3>4. QED
        BY <1>3, <2>2, <3>1, <3>3
    <2>3. CASE ColumnsExpected # 0 /\ DataLines # <<>>
      BY <1>1, <1>8, <2>3 DEF LocateLines
    <2>4. QED
      BY <2>1, <2>2, <2>3
  <1>9. CASE ParseSequentially
    <2>1. /\ UNCHANGED <<content, options, colIndices, numCols>> /\ pc' = "names" /\ pc = "parse"
          /\ colData' = Columns(Rows(lineStarts), numCols)
      BY <1>9 DEF ParseSequentially
    <2>2. lineStarts = DataLines /\ numCols # 0
      BY <2>1 DEF ChunkInv
    <2>3. FieldsOf(colData', numCols, FileRows)
      <3>1. PICK data : data = colData'
        OBVIOUS
      <3>2. \A c \in 1..numCols : data[c] = Columns(Rows(DataLines), numCols)[c]
        BY <2>1, <2>2, <3>1
      <3>3. FieldsOf(data, numCols, FileRows)
        BY <2>1, <3>2, ReadFields
      <3>4. QED
        BY <3>1, <3>3
    <2>4. QED
      BY <1>3, <2>1, <2>2, <2>3
  <1>10. CASE MergeChunks
    <2>1. UNCHANGED <<content, options, colIndices, numCols>> /\ pc' = "names" /\ pc = "parse"
      BY <1>10 DEF MergeChunks
    <2>2. numCols # 0
      BY <2>1 DEF ChunkInv
    <2>3. FieldsOf(colData', numCols, FileRows)
      <3>1. PICK data : data = colData'
        OBVIOUS
      <3>2. \A c \in 1..numCols : data[c] = Columns(Rows(DataLines), numCols)[c]
        BY <1>10, <3>1, MergedFields
      <3>3. FieldsOf(data, numCols, FileRows)
        BY <2>1, <3>2, ReadFields
      <3>4. QED
        BY <3>1, <3>3
    <2>4. QED
      BY <1>3, <2>1, <2>2, <2>3
  <1>11. CASE ParseFallback
    <2>1. UNCHANGED <<content, options, colIndices, colNames>> /\ pc' = "names" /\ pc = "fallback"
      BY <1>11 DEF ParseFallback
    <2>2. Len(colNames) = 0
      BY <2>1 DEF FieldInv
    <2>3. FieldsOf(colData', numCols', FileRows)
      BY <1>11, FallbackFields
    <2>4. QED
      BY <1>3, <2>1, <2>2, <2>3
  <1>12. CASE CancelledInFallback
    BY <1>1, <1>12 DEF CancelledInFallback
  <1>13. ASSUME NEW w \in 0..procs-1, ParseChunk(w) PROVE FieldInv'
    <2>1. pc' = "parse"
      BY <1>13 DEF ParseChunk
    <2>2. QED
      BY <1>1, <2>1
  <1>14. CASE NameColumns
    <2>1. /\ UNCHANGED <<content, options, colIndices, colData>> /\ pc = "names" /\ pc' = "build"
          /\ colNames' = IF options.header THEN colNames
                         ELSE [k \in 1..numCols |-> <<"column_", ToString(k-1)>>]
          /\ numCols' = IF numCols = 0 THEN Len(colNames') ELSE numCols
      BY <1>14 DEF NameColumns
    <2>2. FieldsOf(colData, numCols, FileRows)
      BY <2>1 DEF FieldInv
    <2>3. FileRows' = FileRows
      BY <2>1, SameLines
    <2>4. CASE numCols = 0
      <3>1. Len(colNames') = 0
        <4>1. CASE options.header
          BY <2>1, <2>4, <4>1 DEF FieldInv
        <4>2. CASE ~options.header
          <5>1. colNames' = <<>>
            BY <2>1, <2>4, <4>2
          <5>2. QED
            BY <5>1
        <4>3. QED
          BY <4>1, <4>2
      <3>2. 1..numCols' = {}
        BY <2>1, <2>4, <3>1
      <3>3. FieldsOf(colData, numCols, FileRows)'
        BY <3>2 DEF FieldsOf
      <3>4. QED
        BY <2>1, <3>3 DEF FieldInv
    <2>5. CASE numCols # 0
      <3>1. numCols' = numCols
        BY <2>1, <2>5
      <3>2. FieldsOf(colData, numCols, FileRows)'
        BY <2>1, <2>2, <3>1, SameFields
      <3>3. QED
        BY <2>1, <3>2 DEF FieldInv
    <2>6. QED
      BY <2>4, <2>5
  <1>15. CASE Return
    BY <1>1, <1>15 DEF Return
  <1>16. ASSUME NEW c \in DOMAIN result, BuildColumn(c) PROVE FieldInv'
    BY <1>2, <1>16 DEF BuildColumn
  <1>17. CASE UNCHANGED vars
    BY <1>2, <1>17 DEF vars
  <1>18. CASE Finished
    BY <1>17, <1>18 DEF Finished
  <1>19. QED
    BY <1>4, <1>5, <1>6, <1>7, <1>8, <1>9, <1>10, <1>11, <1>12, <1>13, <1>14, <1>15, <1>16, <1>17, <1>18
    DEF Next

-----------------------------------------------------------------------------
(* What any step finds: how far the lines are read, what the workers have  *)
(* stored, and that columns once put together are those of the file's      *)
(* rows.                                                                   *)
THEOREM ReaderInvariant == Spec => []ReaderInv
  <1>1. Init => ReaderInv
    BY LineStart, ChunkStart, FieldStart DEF ReaderInv
  <1>2. ReaderInv /\ [Next]_vars => ReaderInv'
    BY LineStep, ChunkStep, FieldStep DEF ReaderInv
  <1>3. QED
    BY <1>1, <1>2, PTL DEF Spec

(* Read reads every row (parallelParseDataLines and the loop of Read):     *)
(* whatever the file, the options, the number of workers and the order in  *)
(* which they store their chunks, the columns have the fields of the       *)
(* file's rows, in order, all of them or the first NRows.                  *)
THEOREM EveryRowIsRead == Spec => []ReadsEveryRow
  <1>1. ReaderInv => ReadsEveryRow
    BY DEF ReaderInv, FieldInv, FieldsOf, ReadsEveryRow
  <1>2. QED
    BY <1>1, ReaderInvariant, PTL

-----------------------------------------------------------------------------
(* The fields of a line are texts                                          *)

Places(s) == [i \in DOMAIN s |-> i]

(* Unescape, one atom after the other                                      *)
UnescapeNext(s, quote, acc, i) ==
  IF acc.skip THEN [acc EXCEPT !.skip = FALSE]
  ELSE [text |-> Append(acc.text, s[i]), skip |-> s[i] = quote /\ i < Len(s) /\ s[i+1] = quote]

IsUnescape(f, s, quote) ==
  f = [t \in SUBSET (DOMAIN Places(s)) |->
         IF t = {} THEN [text |-> <<>>, skip |-> FALSE]
         ELSE UnescapeNext(s, quote, f[t \ {Max(t)}], Places(s)[Max(t)])]

LEMMA UnescapeUnfolds ==
  ASSUME NEW s, NEW quote
  PROVE  Unescape(s, quote) = (CHOOSE f : IsUnescape(f, s, quote))[DOMAIN Places(s)].text
  BY DEF Unescape, FoldLeftDomain, FoldLeft, MapThenFoldSet, IsUnescape, UnescapeNext, Places

LEMMA UnescapeRun ==
  ASSUME NEW A, NEW s \in Seq(A), NEW quote
  PROVE  \E run :
           /\ run[0] = [text |-> <<>>, skip |-> FALSE]
           /\ \A k \in 1 .. Len(s) : run[k] = UnescapeNext(s, quote, run[k-1], k)
           /\ \A k \in 0 .. Len(s) : run[k] \in [text : Seq(A), skip : BOOLEAN]
           /\ Unescape(s, quote) = run[Len(s)].text
  <1>1. PICK n : n = Len(s)
    OBVIOUS
  <1>2. n \in Nat /\ DOMAIN s = 1 .. n /\ \A k \in 1 .. n : s[k] \in A
    BY <1>1
  <1>3. DOMAIN Places(s) = 1 .. n /\ \A k \in 1 .. n : Places(s)[k] = k
    BY <1>2 DEF Places
  <1>4. PICK S : S = [text : Seq(A), skip : BOOLEAN]
    OBVIOUS
  <1>5. ASSUME NEW k \in 1 .. n, NEW x \in S PROVE UnescapeNext(s, quote, x, k) \in S
    <2>1. x.text \in Seq(A) /\ x.skip \in BOOLEAN /\ x = [text |-> x.text, skip |-> x.skip]
      BY <1>4
    <2>2. CASE x.skip
      <3>1. UnescapeNext(s, quote, x, k) = [text |-> x.text, skip |-> FALSE]
        BY <1>4, <2>2 DEF UnescapeNext
      <3>2. QED
        BY <1>4, <2>1, <3>1
    <2>3. CASE ~x.skip
      <3>1. PICK b \in BOOLEAN : b = (s[k] = quote /\ k < Len(s) /\ s[k+1] = quote)
        OBVIOUS
      <3>2. UnescapeNext(s, quote, x, k) = [text |-> Append(x.text, s[k]), skip |-> b]
        BY <2>3, <3>1 DEF UnescapeNext
      <3>3. Append(x.text, s[k]) \in Seq(A)
        BY <1>2, <2>1
      <3>4. QED
        BY <1>4, <3>2, <3>3
    <2>4. QED
      BY <2>2, <2>3
  <1>6. PICK a : a = [text |-> <<>>, skip |-> FALSE]
    OBVIOUS
  <1>7. a \in S
    <2>1. <<>> \in Seq(A)
      OBVIOUS
    <2>2. QED
      BY <1>4, <1>6, <2>1
  <1>8. PICK step : step = [k \in 1 .. n |-> [x \in S |-> UnescapeNext(s, quote, x, k)]]
    OBVIOUS
  <1>9. \A k \in 1 .. n : \A x \in S : step[k][x] = UnescapeNext(s, quote, x, k) /\ step[k][x] \in S
    BY <1>5, <1>8
  <1>10. PICK g : IsFold(g, a, step, SUBSET (1 .. n)) /\ \A t \in SUBSET (1 .. n) : g[t] \in S
    BY <1>2, <1>7, <1>9, FoldExists
  <1>11. IsUnescape(g, s, quote)
    <2>1. ASSUME NEW t \in SUBSET (1 .. n)
          PROVE  g[t] = IF t = {} THEN a ELSE UnescapeNext(s, quote, g[t \ {Max(t)}], Places(s)[Max(t)])
      <3>1. CASE t = {}
        BY <1>10, <3>1 DEF IsFold
      <3>2. CASE t # {}
        <4>1. Max(t) \in 1 .. n /\ t \ {Max(t)} \in SUBSET (1 .. n)
          BY <1>2, <3>2, LastOfPositions
        <4>2. g[t] = step[Max(t)][g[t \ {Max(t)}]] /\ g[t \ {Max(t)}] \in S
          BY <1>10, <3>2, <4>1 DEF IsFold
        <4>3. QED
          BY <1>3, <1>9, <3>2, <4>1, <4>2
      <3>3. QED
        BY <3>1, <3>2
    <2>2. g = [t \in SUBSET (1 .. n) |-> g[t]]
      BY <1>10 DEF IsFold
    <2>3. QED
      BY <1>3, <1>6, <2>1, <2>2 DEF IsUnescape
  <1>12. PICK f : f = CHOOSE h : IsUnescape(h, s, quote)
    OBVIOUS
  <1>13. IsUnescape(f, s, quote)
    BY <1>11, <1>12
  <1>14. f[{}] \in S
    BY <1>6, <1>7, <1>13 DEF IsUnescape
  <1>15. ASSUME NEW k \in 1 .. n, f[1 .. k - 1] \in S PROVE f[1 .. k] = step[k][f[1 .. k - 1]]
    <2>1. 1 .. k \in SUBSET (1 .. n) /\ 1 .. k # {} /\ Max(1 .. k) = k /\ (1 .. k) \ {k} = 1 .. k - 1
      BY <1>2, FirstPositions
    <2>2. f[1 .. k] = UnescapeNext(s, quote, f[(1 .. k) \ {Max(1 .. k)}], Places(s)[Max(1 .. k)])
      BY <1>3, <1>13, <2>1 DEF IsUnescape
    <2>3. f[1 .. k] = UnescapeNext(s, quote, f[1 .. k - 1], k)
      BY <1>3, <2>1, <2>2
    <2>4. PICK x \in S : x = f[1 .. k - 1]
      BY <1>15
    <2>5. QED
      BY <1>9, <2>3, <2>4
  <1>16. \A k \in 0 .. n : f[1 .. k] \in S
    <2>1. \A k \in 1 .. n : \A x \in S : step[k][x] \in S
      BY <1>9
    <2>2. QED
      BY <1>2, <1>14, <1>15, <2>1, FoldStays
  <1>17. PICK run : run = [k \in 0 .. n |-> f[1 .. k]]
    OBVIOUS
  <1>18. run[0] = a
    <2>1. f[1 .. 0] = f[{}] /\ f[{}] = a /\ 0 \in 0 .. n
      BY <1>2, <1>6, <1>13 DEF IsUnescape
    <2>2. QED
      BY <1>17, <2>1
  <1>19. ASSUME NEW k \in 1 .. n PROVE run[k] = UnescapeNext(s, quote, run[k-1], k)
    <2>1. k \in 0 .. n /\ k - 1 \in 0 .. n
      BY <1>2
    <2>2. run[k] = f[1 .. k] /\ run[k-1] = f[1 .. k - 1]
      BY <1>17, <2>1
    <2>3. f[1 .. k - 1] \in S
      BY <1>16, <2>1
    <2>4. f[1 .. k] = step[k][f[1 .. k - 1]]
      BY <1>15, <2>3
    <2>5. PICK x \in S : x = f[1 .. k - 1]
      BY <2>3
    <2>6. QED
      BY <1>9, <2>2, <2>4, <2>5
  <1>20. \A k \in 0 .. n : run[k] \in S
    BY <1>16, <1>17
  <1>21. Unescape(s, quote) = run[n].text
    <2>1. Unescape(s, quote) = f[1 .. n].text
      BY <1>3, <1>12, UnescapeUnfolds
    <2>2. run[n] = f[1 .. n]
      BY <1>2, <1>17
    <2>3. QED
      BY <2>1, <2>2
  <1>22. QED
    BY <1>1, <1>4, <1>6, <1>18, <1>19, <1>20, <1>21

LEMMA UnescapedText ==
  ASSUME NEW A, NEW s \in Seq(A), NEW quote
  PROVE  Unescape(s, quote) \in Seq(A)
  <1>1. PICK run :
          /\ \A k \in 0 .. Len(s) : run[k] \in [text : Seq(A), skip : BOOLEAN]
          /\ Unescape(s, quote) = run[Len(s)].text
    BY UnescapeRun
  <1>2. run[Len(s)] \in [text : Seq(A), skip : BOOLEAN]
    BY <1>1
  <1>3. QED
    BY <1>1, <1>2

LEMMA ExtractedText ==
  ASSUME NEW A, NEW s \in Seq(A), NEW quote, NEW b
  PROVE  ExtractField(s, quote, b) \in Seq(A)
  <1>1. SubSeq(s, 2, Len(s) - 1) \in Seq(A)
    OBVIOUS
  <1>2. PICK t : t = IF Len(s) >= 2 /\ s[1] = quote /\ Last(s) = quote THEN SubSeq(s, 2, Len(s) - 1) ELSE s
    OBVIOUS
  <1>3. t \in Seq(A)
    BY <1>1, <1>2
  <1>4. Unescape(t, quote) \in Seq(A)
    BY <1>3, UnescapedText
  <1>5. QED
    BY <1>2, <1>4 DEF ExtractField

(* parseLineASCII, one byte after the other                                *)
Closed(quote, acc) == Append(acc.fields, ExtractField(acc.raw, quote, acc.hasQuote))

AsciiNext(line, sep, quote, acc, i) ==
  LET b == line[i]
      doubled == acc.inQ /\ b = quote /\ i < Len(line) /\ line[i+1] = quote
  IN  IF acc.skip THEN [acc EXCEPT !.skip = FALSE, !.raw = Append(@, b)]
      ELSE IF b = sep /\ ~acc.inQ
        THEN [acc EXCEPT !.fields = Closed(quote, acc), !.raw = <<>>, !.hasQuote = FALSE]
      ELSE [acc EXCEPT !.raw = Append(@, b),
                       !.skip = doubled,
                       !.hasQuote = @ \/ b = quote,
                       !.inQ = IF b = quote /\ ~doubled THEN ~@ ELSE @]

AsciiStart == [fields |-> <<>>, raw |-> <<>>, inQ |-> FALSE, hasQuote |-> FALSE, skip |-> FALSE]

IsAscii(f, line, sep, quote) ==
  f = [t \in SUBSET (DOMAIN Places(line)) |->
         IF t = {} THEN AsciiStart
         ELSE AsciiNext(line, sep, quote, f[t \ {Max(t)}], Places(line)[Max(t)])]

LEMMA AsciiUnfolds ==
  ASSUME NEW line, NEW sep, NEW quote
  PROVE  ParseLineASCII(line, sep, quote) =
           Closed(quote, (CHOOSE f : IsAscii(f, line, sep, quote))[DOMAIN Places(line)])
  BY DEF ParseLineASCII, FoldLeftDomain, FoldLeft, MapThenFoldSet, IsAscii, AsciiNext, AsciiStart,
         Closed, Places

AsciiStates(A) ==
  [fields : Seq(Seq(A)), raw : Seq(A), inQ : BOOLEAN, hasQuote : BOOLEAN, skip : BOOLEAN]

LEMMA AsciiStep ==
  ASSUME NEW A, NEW line, NEW sep, NEW quote, NEW i, line[i] \in A, NEW x \in AsciiStates(A)
  PROVE  /\ AsciiNext(line, sep, quote, x, i) \in AsciiStates(A)
         /\ Closed(quote, x) \in Seq(Seq(A))
  <1>1. /\ x.fields \in Seq(Seq(A)) /\ x.raw \in Seq(A)
        /\ x.inQ \in BOOLEAN /\ x.hasQuote \in BOOLEAN /\ x.skip \in BOOLEAN
        /\ x = [fields |-> x.fields, raw |-> x.raw, inQ |-> x.inQ, hasQuote |-> x.hasQuote, skip |-> x.skip]
    BY DEF AsciiStates
  <1>2. PICK T : T = Seq(A)
    OBVIOUS
  <1>3. PICK raw : raw = Append(x.raw, line[i])
    OBVIOUS
  <1>4. raw \in T
    BY <1>1, <1>2, <1>3
  <1>5. PICK field : field = ExtractField(x.raw, quote, x.hasQuote)
    OBVIOUS
  <1>6. field \in T
    BY <1>1, <1>2, <1>5, ExtractedText
  <1>7. PICK fields : fields = Append(x.fields, field)
    OBVIOUS
  <1>8. fields \in Seq(T) /\ Closed(quote, x) = fields
    BY <1>1, <1>2, <1>5, <1>6, <1>7 DEF Closed
  <1>9. <<>> \in T
    BY <1>2
  <1>10. PICK F : F = Seq(T)
    OBVIOUS
  <1>11. PICK doubled \in BOOLEAN :
           doubled = (x.inQ /\ line[i] = quote /\ i < Len(line) /\ line[i+1] = quote)
    BY <1>1
  <1>12. AsciiStates(A) = [fields : F, raw : T, inQ : BOOLEAN, hasQuote : BOOLEAN, skip : BOOLEAN]
    BY <1>2, <1>10 DEF AsciiStates
  <1>13. CASE x.skip
    <2>1. AsciiNext(line, sep, quote, x, i) = [x EXCEPT !.skip = FALSE, !.raw = Append(@, line[i])]
      BY <1>13 DEF AsciiNext
    <2>2. AsciiNext(line, sep, quote, x, i) =
            [fields |-> x.fields, raw |-> raw, inQ |-> x.inQ, hasQuote |-> x.hasQuote, skip |-> FALSE]
      BY <1>1, <1>3, <2>1
    <2>3. QED
      BY <1>1, <1>2, <1>4, <1>8, <1>10, <1>12, <2>2
  <1>14. CASE ~x.skip /\ line[i] = sep /\ ~x.inQ
    <2>1. AsciiNext(line, sep, quote, x, i) =
            [x EXCEPT !.fields = Closed(quote, x), !.raw = <<>>, !.hasQuote = FALSE]
      BY <1>14 DEF AsciiNext
    <2>2. AsciiNext(line, sep, quote, x, i) =
            [fields |-> fields, raw |-> <<>>, inQ |-> x.inQ, hasQuote |-> FALSE, skip |-> x.skip]
      BY <1>1, <1>8, <2>1
    <2>3. QED
      BY <1>1, <1>2, <1>8, <1>9, <1>10, <1>12, <2>2
  <1>15. CASE ~x.skip /\ ~(line[i] = sep /\ ~x.inQ)
    <2>1. PICK inQ \in BOOLEAN : inQ = IF line[i] = quote /\ ~doubled THEN ~x.inQ ELSE x.inQ
      BY <1>1
    <2>2. PICK hasQuote \in BOOLEAN : hasQuote = (x.hasQuote \/ line[i] = quote)
      BY <1>1
    <2>3. AsciiNext(line, sep, quote, x, i) =
            [x EXCEPT !.raw = Append(@, line[i]), !.skip = doubled, !.hasQuote = @ \/ line[i] = quote,
                      !.inQ = IF line[i] = quote /\ ~doubled THEN ~@ ELSE @]
      BY <1>11, <1>15 DEF AsciiNext
    <2>4. AsciiNext(line, sep, quote, x, i) =
            [fields |-> x.fields, raw |-> raw, inQ |-> inQ, hasQuote |-> hasQuote, skip |-> doubled]
      BY <1>1, <1>3, <2>1, <2>2, <2>3
    <2>5. QED
      BY <1>1, <1>2, <1>4, <1>8, <1>10, <1>12, <2>4
  <1>16. QED
    BY <1>13, <1>14, <1>15

IsAsciiRun(run, line, sep, quote) ==
  /\ run[0] = AsciiStart
  /\ \A k \in 1 .. Len(line) : run[k] = AsciiNext(line, sep, quote, run[k-1], k)
  /\ ParseLineASCII(line, sep, quote) = Closed(quote, run[Len(line)])

LEMMA AsciiRun ==
  ASSUME NEW A, NEW line \in Seq(A), NEW sep, NEW quote
  PROVE  \E run : /\ IsAsciiRun(run, line, sep, quote)
                  /\ \A k \in 0 .. Len(line) : run[k] \in AsciiStates(A)
  <1>1. PICK n : n = Len(line)
    OBVIOUS
  <1>2. n \in Nat /\ DOMAIN line = 1 .. n /\ \A k \in 1 .. n : line[k] \in A
    BY <1>1
  <1>3. DOMAIN Places(line) = 1 .. n /\ \A k \in 1 .. n : Places(line)[k] = k
    BY <1>2 DEF Places
  <1>4. PICK S : S = AsciiStates(A)
    OBVIOUS
  <1>5. \A k \in 1 .. n : \A x \in S : AsciiNext(line, sep, quote, x, k) \in S
    BY <1>2, <1>4, AsciiStep
  <1>6. PICK a : a = AsciiStart
    OBVIOUS
  <1>7. a \in S
    <2>1. PICK T, F : T = Seq(A) /\ F = Seq(Seq(A))
      OBVIOUS
    <2>2. <<>> \in T
      BY <2>1
    <2>3. <<>> \in F
      BY <2>1
    <2>4. QED
      BY <1>4, <1>6, <2>1, <2>2, <2>3 DEF AsciiStart, AsciiStates
  <1>8. PICK step : step = [k \in 1 .. n |-> [x \in S |-> AsciiNext(line, sep, quote, x, k)]]
    OBVIOUS
  <1>9. \A k \in 1 .. n : \A x \in S :
          step[k][x] = AsciiNext(line, sep, quote, x, k) /\ step[k][x] \in S
    BY <1>5, <1>8
  <1>10. PICK g : IsFold(g, a, step, SUBSET (1 .. n)) /\ \A t \in SUBSET (1 .. n) : g[t] \in S
    BY <1>2, <1>7, <1>9, FoldExists
  <1>11. IsAscii(g, line, sep, quote)
    <2>1. ASSUME NEW t \in SUBSET (1 .. n)
          PROVE  g[t] = IF t = {} THEN a
                        ELSE AsciiNext(line, sep, quote, g[t \ {Max(t)}], Places(line)[Max(t)])
      <3>1. CASE t = {}
        BY <1>10, <3>1 DEF IsFold
      <3>2. CASE t # {}
        <4>1. Max(t) \in 1 .. n /\ t \ {Max(t)} \in SUBSET (1 .. n)
          BY <1>2, <3>2, LastOfPositions
        <4>2. g[t] = step[Max(t)][g[t \ {Max(t)}]] /\ g[t \ {Max(t)}] \in S
          BY <1>10, <3>2, <4>1 DEF IsFold
        <4>3. QED
          BY <1>3, <1>9, <3>2, <4>1, <4>2
      <3>3. QED
        BY <3>1, <3>2
    <2>2. g = [t \in SUBSET (1 .. n) |-> g[t]]
      BY <1>10 DEF IsFold
    <2>3. QED
      BY <1>3, <1>6, <2>1, <2>2 DEF IsAscii
  <1>12. PICK f : f = CHOOSE h : IsAscii(h, line, sep, quote)
    OBVIOUS
  <1>13. IsAscii(f, line, sep, quote)
    BY <1>11, <1>12
  <1>14. f[{}] \in S
    BY <1>6, <1>7, <1>13 DEF IsAscii
  <1>15. ASSUME NEW k \in 1 .. n, f[1 .. k - 1] \in S PROVE f[1 .. k] = step[k][f[1 .. k - 1]]
    <2>1. 1 .. k \in SUBSET (1 .. n) /\ 1 .. k # {} /\ Max(1 .. k) = k /\ (1 .. k) \ {k} = 1 .. k - 1
      BY <1>2, FirstPositions
    <2>2. f[1 .. k] = AsciiNext(line, sep, quote, f[(1 .. k) \ {Max(1 .. k)}], Places(line)[Max(1 .. k)])
      BY <1>3, <1>13, <2>1 DEF IsAscii
    <2>3. f[1 .. k] = AsciiNext(line, sep, quote, f[1 .. k - 1], k)
      BY <1>3, <2>1, <2>2
    <2>4. PICK x \in S : x = f[1 .. k - 1]
      BY <1>15
    <2>5. QED
      BY <1>9, <2>3, <2>4
  <1>16. \A k \in 0 .. n : f[1 .. k] \in S
    <2>1. \A k \in 1 .. n : \A x \in S : step[k][x] \in S
      BY <1>9
    <2>2. QED
      BY <1>2, <1>14, <1>15, <2>1, FoldStays
  <1>17. PICK run : run = [k \in 0 .. n |-> f[1 .. k]]
    OBVIOUS
  <1>18. run[0] = a
    <2>1. f[1 .. 0] = f[{}] /\ f[{}] = a /\ 0 \in 0 .. n
      BY <1>2, <1>6, <1>13 DEF IsAscii
    <2>2. QED
      BY <1>17, <2>1
  <1>19. ASSUME NEW k \in 1 .. n PROVE run[k] = AsciiNext(line, sep, quote, run[k-1], k)
    <2>1. k \in 0 .. n /\ k - 1 \in 0 .. n
      BY <1>2
    <2>2. run[k] = f[1 .. k] /\ run[k-1] = f[1 .. k - 1]
      BY <1>17, <2>1
    <2>3. f[1 .. k - 1] \in S
      BY <1>16, <2>1
    <2>4. f[1 .. k] = step[k][f[1 .. k - 1]]
      BY <1>15, <2>3
    <2>5. PICK x \in S : x = f[1 .. k - 1]
      BY <2>3
    <2>6. QED
      BY <1>9, <2>2, <2>4, <2>5
  <1>20. \A k \in 0 .. n : run[k] \in S
    BY <1>16, <1>17
  <1>21. ParseLineASCII(line, sep, quote) = Closed(quote, run[n])
    <2>1. ParseLineASCII(line, sep, quote) = Closed(quote, f[1 .. n])
      BY <1>3, <1>12, AsciiUnfolds
    <2>2. run[n] = f[1 .. n]
      BY <1>2, <1>17
    <2>3. QED
      BY <2>1, <2>2
  <1>22. QED
    BY <1>1, <1>4, <1>6, <1>18, <1>19, <1>20, <1>21 DEF IsAsciiRun

LEMMA AsciiFields ==
  ASSUME NEW A, NEW line \in Seq(A), NEW sep, NEW quote
  PROVE  ParseLineASCII(line, sep, quote) \in Seq(Seq(A))
  <1>1. PICK run : /\ IsAsciiRun(run, line, sep, quote)
                   /\ \A k \in 0 .. Len(line) : run[k] \in AsciiStates(A)
    BY AsciiRun
  <1>2. PICK x \in AsciiStates(A) : x = run[Len(line)]
    BY <1>1
  <1>3. x.fields \in Seq(Seq(A)) /\ x.raw \in Seq(A)
    BY DEF AsciiStates
  <1>4. ExtractField(x.raw, quote, x.hasQuote) \in Seq(A)
    BY <1>3, ExtractedText
  <1>5. Closed(quote, x) \in Seq(Seq(A))
    BY <1>3, <1>4 DEF Closed
  <1>6. QED
    BY <1>1, <1>2, <1>5 DEF IsAsciiRun

(* parseLineRune, one rune after the other                                 *)
RuneNext(line, sep, quote, acc, i) ==
  LET c == line[i]
      doubled == acc.inQ /\ c = quote /\ i < Len(line) /\ line[i+1] = quote
  IN  IF acc.skip THEN [acc EXCEPT !.skip = FALSE]
      ELSE IF c = sep /\ ~acc.inQ
        THEN [acc EXCEPT !.fields = Append(@, acc.field), !.field = <<>>]
      ELSE IF c = quote /\ ~doubled THEN [acc EXCEPT !.inQ = ~@]
      ELSE [acc EXCEPT !.field = Append(@, c), !.skip = doubled]

RuneStart == [fields |-> <<>>, field |-> <<>>, inQ |-> FALSE, skip |-> FALSE]

IsRune(f, line, sep, quote) ==
  f = [t \in SUBSET (DOMAIN Places(line)) |->
         IF t = {} THEN RuneStart
         ELSE RuneNext(line, sep, quote, f[t \ {Max(t)}], Places(line)[Max(t)])]

LEMMA RuneUnfolds ==
  ASSUME NEW line, NEW sep, NEW quote
  PROVE  ParseLineRune(line, sep, quote) =
           Append((CHOOSE f : IsRune(f, line, sep, quote))[DOMAIN Places(line)].fields,
                  (CHOOSE f : IsRune(f, line, sep, quote))[DOMAIN Places(line)].field)
  BY DEF ParseLineRune, FoldLeftDomain, FoldLeft, MapThenFoldSet, IsRune, RuneNext, RuneStart, Places

RuneStates(A) == [fields : Seq(Seq(A)), field : Seq(A), inQ : BOOLEAN, skip : BOOLEAN]

LEMMA RuneStep ==
  ASSUME NEW A, NEW line, NEW sep, NEW quote, NEW i, line[i] \in A, NEW x \in RuneStates(A)
  PROVE  RuneNext(line, sep, quote, x, i) \in RuneStates(A)
  <1>1. /\ x.fields \in Seq(Seq(A)) /\ x.field \in Seq(A) /\ x.inQ \in BOOLEAN /\ x.skip \in BOOLEAN
        /\ x = [fields |-> x.fields, field |-> x.field, inQ |-> x.inQ, skip |-> x.skip]
    BY DEF RuneStates
  <1>2. PICK T : T = Seq(A)
    OBVIOUS
  <1>3. PICK field : field = Append(x.field, line[i])
    OBVIOUS
  <1>4. field \in T
    BY <1>1, <1>2, <1>3
  <1>5. PICK fields : fields = Append(x.fields, x.field)
    OBVIOUS
  <1>6. fields \in Seq(T)
    BY <1>1, <1>2, <1>5
  <1>7. <<>> \in T
    BY <1>2
  <1>8. PICK F : F = Seq(T)
    OBVIOUS
  <1>9. PICK doubled \in BOOLEAN :
          doubled = (x.inQ /\ line[i] = quote /\ i < Len(line) /\ line[i+1] = quote)
    BY <1>1
  <1>10. RuneStates(A) = [fields : F, field : T, inQ : BOOLEAN, skip : BOOLEAN]
    BY <1>2, <1>8 DEF RuneStates
  <1>11. CASE x.skip
    <2>1. RuneNext(line, sep, quote, x, i) = [x EXCEPT !.skip = FALSE]
      BY <1>11 DEF RuneNext
    <2>2. RuneNext(line, sep, quote, x, i) =
            [fields |-> x.fields, field |-> x.field, inQ |-> x.inQ, skip |-> FALSE]
      BY <1>1, <2>1
    <2>3. QED
      BY <1>1, <1>2, <1>8, <1>10, <2>2
  <1>12. CASE ~x.skip /\ line[i] = sep /\ ~x.inQ
    <2>1. RuneNext(line, sep, quote, x, i) = [x EXCEPT !.fields = Append(@, x.field), !.field = <<>>]
      BY <1>12 DEF RuneNext
    <2>2. RuneNext(line, sep, quote, x, i) =
            [fields |-> fields, field |-> <<>>, inQ |-> x.inQ, skip |-> x.skip]
      BY <1>1, <1>5, <2>1
    <2>3. QED
      BY <1>1, <1>6, <1>7, <1>8, <1>10, <2>2
  <1>13. CASE ~x.skip /\ ~(line[i] = sep /\ ~x.inQ) /\ line[i] = quote /\ ~doubled
    <2>1. RuneNext(line, sep, quote, x, i) = [x EXCEPT !.inQ = ~@]
      BY <1>9, <1>13 DEF RuneNext
    <2>2. PICK inQ \in BOOLEAN : inQ = ~x.inQ
      BY <1>1
    <2>3. RuneNext(line, sep, quote, x, i) =
            [fields |-> x.fields, field |-> x.field, inQ |-> inQ, skip |-> x.skip]
      BY <1>1, <2>1, <2>2
    <2>4. QED
      BY <1>1, <1>2, <1>8, <1>10, <2>3
  <1>14. CASE ~x.skip /\ ~(line[i] = sep /\ ~x.inQ) /\ ~(line[i] = quote /\ ~doubled)
    <2>1. RuneNext(line, sep, quote, x, i) = [x EXCEPT !.field = Append(@, line[i]), !.skip = doubled]
      BY <1>9, <1>14 DEF RuneNext
    <2>2. RuneNext(line, sep, quote, x, i) =
            [fields |-> x.fields, field |-> field, inQ |-> x.inQ, skip |-> doubled]
      BY <1>1, <1>3, <2>1
    <2>3. QED
      BY <1>1, <1>2, <1>4, <1>8, <1>10, <2>2
  <1>15. QED
    BY <1>11, <1>12, <1>13, <1>14

IsRuneRun(run, line, sep, quote) ==
  /\ run[0] = RuneStart
  /\ \A k \in 1 .. Len(line) : run[k] = RuneNext(line, sep, quote, run[k-1], k)
  /\ ParseLineRune(line, sep, quote) = Append(run[Len(line)].fields, run[Len(line)].field)

LEMMA RuneRun ==
  ASSUME NEW A, NEW line \in Seq(A), NEW sep, NEW quote
  PROVE  \E run : /\ IsRuneRun(run, line, sep, quote)
                  /\ \A k \in 0 .. Len(line) : run[k] \in RuneStates(A)
  <1>1. PICK n : n = Len(line)
    OBVIOUS
  <1>2. n \in Nat /\ DOMAIN line = 1 .. n /\ \A k \in 1 .. n : line[k] \in A
    BY <1>1
  <1>3. DOMAIN Places(line) = 1 .. n /\ \A k \in 1 .. n : Places(line)[k] = k
    BY <1>2 DEF Places
  <1>4. PICK S : S = RuneStates(A)
    OBVIOUS
  <1>5. \A k \in 1 .. n : \A x \in S : RuneNext(line, sep, quote, x, k) \in S
    BY <1>2, <1>4, RuneStep
  <1>6. PICK a : a = RuneStart
    OBVIOUS
  <1>7. a \in S
    <2>1. PICK T, F : T = Seq(A) /\ F = Seq(Seq(A))
      OBVIOUS
    <2>2. <<>> \in T
      BY <2>1
    <2>3. <<>> \in F
      BY <2>1
    <2>4. QED
      BY <1>4, <1>6, <2>1, <2>2, <2>3 DEF RuneStart, RuneStates
  <1>8. PICK step : step = [k \in 1 .. n |-> [x \in S |-> RuneNext(line, sep, quote, x, k)]]
    OBVIOUS
  <1>9. \A k \in 1 .. n : \A x \in S :
          step[k][x] = RuneNext(line, sep, quote, x, k) /\ step[k][x] \in S
    BY <1>5, <1>8
  <1>10. PICK g : IsFold(g, a, step, SUBSET (1 .. n)) /\ \A t \in SUBSET (1 .. n) : g[t] \in S
    BY <1>2, <1>7, <1>9, FoldExists
  <1>11. IsRune(g, line, sep, quote)
    <2>1. ASSUME NEW t \in SUBSET (1 .. n)
          PROVE  g[t] = IF t = {} THEN a
                        ELSE RuneNext(line, sep, quote, g[t \ {Max(t)}], Places(line)[Max(t)])
      <3>1. CASE t = {}
        BY <1>10, <3>1 DEF IsFold
      <3>2. CASE t # {}
        <4>1. Max(t) \in 1 .. n /\ t \ {Max(t)} \in SUBSET (1 .. n)
          BY <1>2, <3>2, LastOfPositions
        <4>2. g[t] = step[Max(t)][g[t \ {Max(t)}]] /\ g[t \ {Max(t)}] \in S
          BY <1>10, <3>2, <4>1 DEF IsFold
        <4>3. QED
          BY <1>3, <1>9, <3>2, <4>1, <4>2
      <3>3. QED
        BY <3>1, <3>2
    <2>2. g = [t \in SUBSET (1 .. n) |-> g[t]]
      BY <1>10 DEF IsFold
    <2>3. QED
      BY <1>3, <1>6, <2>1, <2>2 DEF IsRune
  <1>12. PICK f : f = CHOOSE h : IsRune(h, line, sep, quote)
    OBVIOUS
  <1>13. IsRune(f, line, sep, quote)
    BY <1>11, <1>12
  <1>14. f[{}] \in S
    BY <1>6, <1>7, <1>13 DEF IsRune
  <1>15. ASSUME NEW k \in 1 .. n, f[1 .. k - 1] \in S PROVE f[1 .. k] = step[k][f[1 .. k - 1]]
    <2>1. 1 .. k \in SUBSET (1 .. n) /\ 1 .. k # {} /\ Max(1 .. k) = k /\ (1 .. k) \ {k} = 1 .. k - 1
      BY <1>2, FirstPositions
    <2>2. f[1 .. k] = RuneNext(line, sep, quote, f[(1 .. k) \ {Max(1 .. k)}], Places(line)[Max(1 .. k)])
      BY <1>3, <1>13, <2>1 DEF IsRune
    <2>3. f[1 .. k] = RuneNext(line, sep, quote, f[1 .. k - 1], k)
      BY <1>3, <2>1, <2>2
    <2>4. PICK x \in S : x = f[1 .. k - 1]
      BY <1>15
    <2>5. QED
      BY <1>9, <2>3, <2>4
  <1>16. \A k \in 0 .. n : f[1 .. k] \in S
    <2>1. \A k \in 1 .. n : \A x \in S : step[k][x] \in S
      BY <1>9
    <2>2. QED
      BY <1>2, <1>14, <1>15, <2>1, FoldStays
  <1>17. PICK run : run = [k \in 0 .. n |-> f[1 .. k]]
    OBVIOUS
  <1>18. run[0] = a
    <2>1. f[1 .. 0] = f[{}] /\ f[{}] = a /\ 0 \in 0 .. n
      BY <1>2, <1>6, <1>13 DEF IsRune
    <2>2. QED
      BY <1>17, <2>1
  <1>19. ASSUME NEW k \in 1 .. n PROVE run[k] = RuneNext(line, sep, quote, run[k-1], k)
    <2>1. k \in 0 .. n /\ k - 1 \in 0 .. n
      BY <1>2
    <2>2. run[k] = f[1 .. k] /\ run[k-1] = f[1 .. k - 1]
      BY <1>17, <2>1
    <2>3. f[1 .. k - 1] \in S
      BY <1>16, <2>1
    <2>4. f[1 .. k] = step[k][f[1 .. k - 1]]
      BY <1>15, <2>3
    <2>5. PICK x \in S : x = f[1 .. k - 1]
      BY <2>3
    <2>6. QED
      BY <1>9, <2>2, <2>4, <2>5
  <1>20. \A k \in 0 .. n : run[k] \in S
    BY <1>16, <1>17
  <1>21. ParseLineRune(line, sep, quote) = Append(run[n].fields, run[n].field)
    <2>1. ParseLineRune(line, sep, quote) = Append(f[1 .. n].fields, f[1 .. n].field)
      BY <1>3, <1>12, RuneUnfolds
    <2>2. run[n] = f[1 .. n]
      BY <1>2, <1>17
    <2>3. QED
      BY <2>1, <2>2
  <1>22. QED
    BY <1>1, <1>4, <1>6, <1>18, <1>19, <1>20, <1>21 DEF IsRuneRun

LEMMA RuneFields ==
  ASSUME NEW A, NEW line \in Seq(A), NEW sep, NEW quote
  PROVE  ParseLineRune(line, sep, quote) \in Seq(Seq(A))
  <1>1. PICK run : /\ IsRuneRun(run, line, sep, quote)
                   /\ \A k \in 0 .. Len(line) : run[k] \in RuneStates(A)
    BY RuneRun
  <1>2. PICK x \in RuneStates(A) : x = run[Len(line)]
    BY <1>1
  <1>3. x.fields \in Seq(Seq(A)) /\ x.field \in Seq(A)
    BY DEF RuneStates
  <1>4. QED
    BY <1>1, <1>2, <1>3 DEF IsRuneRun

(* Whichever of the two parsers is used, the fields are texts of the       *)
(* line's atoms.                                                           *)
LEMMA FieldsOfLine ==
  ASSUME NEW A, NEW line \in Seq(A), NEW sep, NEW quote
  PROVE  ParseLine(line, sep, quote) \in Seq(Seq(A))
  BY AsciiFields, RuneFields DEF ParseLine

-----------------------------------------------------------------------------
(* The cells of a column are texts of the file's atoms                     *)

Atoms == {content[q] : q \in 1..Len(content)}
Texts == Seq(Atoms)

(* A line, of which Strip leaves the beginning                             *)
LEMMA LineIsText ==
  ASSUME Len(content) \in Nat, NEW p \in Nat \ {0}, p <= Len(content)
  PROVE  LineAt(p) \in Texts
  <1>1. PICK E : E = {q \in p..Len(content) : content[q] = NewLine}
    OBVIOUS
  <1>2. E # {} => Min(E) \in E
    <2>1. IsFiniteSet(p..Len(content))
      BY FS_Interval
    <2>2. IsFiniteSet(E) /\ E \in SUBSET Int
      BY <1>1, <2>1, FS_Subset
    <2>3. QED
      BY <2>2, Extremes DEF IsLeast
  <1>3. PICK e : e = EndOfLine(p)
    OBVIOUS
  <1>4. e \in Int /\ e - 1 <= Len(content)
    <2>1. e = IF E = {} THEN Len(content) + 1 ELSE Min(E)
      BY <1>1, <1>3 DEF EndOfLine
    <2>2. QED
      BY <1>1, <1>2, <2>1
  <1>5. PICK line : line = SubSeq(content, p, e - 1)
    OBVIOUS
  <1>6. line \in Texts
    <2>1. \A i \in p..e - 1 : content[i] \in Atoms
      BY <1>4 DEF Atoms
    <2>2. QED
      BY <1>4, <1>5, <2>1, SubSeqProperties DEF Texts
  <1>7. Front(line) \in Texts
    <2>1. SubSeq(line, 1, Len(line) - 1) \in Seq(Atoms)
      BY <1>6 DEF Texts
    <2>2. QED
      BY <2>1 DEF Front, Texts
  <1>8. QED
    BY <1>3, <1>5, <1>6, <1>7 DEF LineAt, Strip

(* Rows of texts, and column c of them                                     *)
AreRows(rows) == Len(rows) \in Nat /\ DOMAIN rows = 1..Len(rows) /\ \A r \in 1..Len(rows) : rows[r] \in Seq(Texts)

LEMMA ColumnIsTexts ==
  ASSUME NEW rows, AreRows(rows), NEW n, NEW c \in 1..n, Place(c) \in Nat \ {0}
  PROVE  Columns(rows, n)[c] \in Seq(Texts)
  <1>1. Columns(rows, n)[c] = [r \in DOMAIN rows |-> FieldAt(rows[r], Place(c))]
    BY DEF Columns, Place
  <1>2. ASSUME NEW r \in 1..Len(rows) PROVE FieldAt(rows[r], Place(c)) \in Texts
    <2>1. PICK fields, k : fields = rows[r] /\ k = Place(c)
      OBVIOUS
    <2>2. PICK T : T = Texts
      OBVIOUS
    <2>3. fields \in Seq(T) /\ k \in Nat \ {0}
      BY <2>1, <2>2 DEF AreRows
    <2>4. k <= Len(fields) => fields[k] \in T
      BY <2>3
    <2>5. <<>> \in T
      BY <2>2 DEF Texts
    <2>6. QED
      BY <2>1, <2>2, <2>4, <2>5 DEF FieldAt
  <1>3. PICK s : s = Columns(rows, n)[c]
    OBVIOUS
  <1>4. PICK T, m : T = Texts /\ m = Len(rows)
    OBVIOUS
  <1>5. m \in Nat /\ s \in [1..m -> T]
    BY <1>1, <1>2, <1>3, <1>4 DEF AreRows
  <1>6. s \in Seq(T)
    BY <1>5
  <1>7. QED
    BY <1>3, <1>4, <1>6

LEMMA RowsOfTexts ==
  ASSUME Len(content) \in Nat, NEW p \in Nat \ {0}
  PROVE  AreRows(Rows(LinesFrom(p)))
  <1>1. PICK lines : lines = LinesFrom(p)
    OBVIOUS
  <1>2. lines \in Seq(Int) /\ Ascending(lines) /\ ToSet(lines) = Starts(p)
    BY <1>1, LinesAscend
  <1>3. PICK Q : Q = ToSet(lines)
    OBVIOUS
  <1>4. PICK n : n = Cardinality(RowsAt(Q))
    OBVIOUS
  <1>5. /\ IsFiniteSet(Q) /\ n \in Nat /\ \A x \in Q : x \in Int
        /\ Rows(lines) = [r \in 1..n |-> Fields(RowList(RowsAt(Q))[r])]
    <2>1. /\ IsFiniteSet(Q) /\ Cardinality(RowsAt(Q)) \in Nat /\ \A x \in Q : x \in Int
          /\ Rows(lines) = [r \in 1..Cardinality(RowsAt(Q)) |-> Fields(RowList(RowsAt(Q))[r])]
      BY <1>2, <1>3, RowsOfLines
    <2>2. QED
      BY <1>4, <2>1
  <1>6. ASSUME NEW r \in 1..n PROVE RowList(RowsAt(Q))[r] \in RowsAt(Q)
    <2>1. PICK R : R = RowsAt(Q)
      OBVIOUS
    <2>2. IsFiniteSet(R) /\ \A x \in R : x \in Int
      BY <1>5, <2>1, FS_Subset DEF RowsAt
    <2>3. RowList(R) \in Seq(R) /\ Len(RowList(R)) = Cardinality(R)
      BY <2>2, RowListAscends
    <2>4. PICK t : t = RowList(R)
      OBVIOUS
    <2>5. t \in Seq(R) /\ r \in 1..Len(t)
      BY <1>4, <2>1, <2>3, <2>4
    <2>6. t[r] \in R
      BY <2>5, ElementOfSeq
    <2>7. QED
      BY <2>1, <2>4, <2>6
  <1>7. ASSUME NEW r \in 1..n PROVE Fields(RowList(RowsAt(Q))[r]) \in Seq(Texts)
    <2>1. PICK q : q = RowList(RowsAt(Q))[r]
      OBVIOUS
    <2>2. q \in Starts(p)
      BY <1>2, <1>3, <1>6, <2>1 DEF RowsAt
    <2>3. q \in Nat \ {0} /\ q <= Len(content)
      BY <2>2 DEF Starts
    <2>4. LineAt(q) \in Seq(Atoms)
      BY <2>3, LineIsText DEF Texts
    <2>5. Fields(q) \in Seq(Seq(Atoms))
      BY <2>4, FieldsOfLine DEF Fields
    <2>6. QED
      BY <2>1, <2>5 DEF Texts
  <1>8. PICK rows : rows = Rows(lines)
    OBVIOUS
  <1>9. DOMAIN rows = 1..n /\ \A r \in 1..n : rows[r] \in Seq(Texts)
    BY <1>5, <1>7, <1>8
  <1>10. Len(rows) = n
    BY <1>5, <1>9
  <1>11. QED
    BY <1>1, <1>5, <1>8, <1>9, <1>10 DEF AreRows

(* Rows that begin others                                                  *)
LEMMA FirstRowsOfTexts ==
  ASSUME NEW rows, AreRows(rows), NEW taken, IsStartOf(taken, rows)
  PROVE  AreRows(taken)
  BY DEF AreRows, IsStartOf

-----------------------------------------------------------------------------
(* The type that all values of a column fit                                *)

LEMMA TrimmedText ==
  ASSUME NEW A, NEW v \in Seq(A)
  PROVE  Trim(v) \in Seq(A)
  <1>1. PICK ink : ink = {i \in DOMAIN v : v[i] \notin {Space, CR, NewLine}}
    OBVIOUS
  <1>2. CASE ink = {}
    <2>1. <<>> \in Seq(A)
      OBVIOUS
    <2>2. QED
      BY <1>1, <1>2, <2>1 DEF Trim
  <1>3. CASE ink # {}
    <2>1. PICK n : n = Len(v) /\ n \in Nat /\ DOMAIN v = 1..n
      OBVIOUS
    <2>2. IsFiniteSet(1..n)
      BY <2>1, FS_Interval
    <2>3. IsFiniteSet(ink) /\ ink \in SUBSET Int
      BY <1>1, <2>1, <2>2, FS_Subset
    <2>4. Min(ink) \in ink /\ Max(ink) \in ink
      BY <1>3, <2>3, Extremes DEF IsLeast, IsGreatest
    <2>5. PICK a, b : a = Min(ink) /\ b = Max(ink)
      OBVIOUS
    <2>6. a \in 1..n /\ b \in 1..n
      BY <1>1, <2>1, <2>4, <2>5
    <2>7. \A i \in a..b : v[i] \in A
      BY <2>1, <2>6
    <2>8. SubSeq(v, a, b) \in Seq(A)
      BY <2>6, <2>7, SubSeqProperties
    <2>9. QED
      BY <1>1, <1>3, <2>5, <2>8 DEF Trim
  <1>4. QED
    BY <1>2, <1>3

(* The ten digits                                                          *)
LEMMA TenDigits == ToSet(DigitText) = {"0", "1", "2", "3", "4", "5", "6", "7", "8", "9"}
  <1>1. DOMAIN DigitText = 1..10
    BY DEF DigitText
  <1>2. ToSet(DigitText) = {DigitText[1], DigitText[2], DigitText[3], DigitText[4], DigitText[5],
                            DigitText[6], DigitText[7], DigitText[8], DigitText[9], DigitText[10]}
    BY <1>1 DEF ToSet
  <1>3. QED
    BY <1>2 DEF DigitText

LEMMA DigitsDiffer ==
  ASSUME NEW k \in 1..10, NEW l \in 1..10, DigitText[k] = DigitText[l]
  PROVE  k = l
  <1>1. k \in {1, 2, 3, 4, 5, 6, 7, 8, 9, 10} /\ l \in {1, 2, 3, 4, 5, 6, 7, 8, 9, 10}
    OBVIOUS
  <1>2. QED
    BY <1>1 DEF DigitText

LEMMA DigitRead ==
  ASSUME NEW k \in 0..9
  PROVE  /\ DigitText[k+1] \in ToSet(DigitText) /\ DigitOf[DigitText[k+1]] = k
  <1>1. k + 1 \in 1..10 /\ DOMAIN DigitText = 1..10
    BY DEF DigitText
  <1>2. DigitText[k+1] \in ToSet(DigitText)
    BY <1>1 DEF ToSet
  <1>3. \A l \in 0..9 : DigitText[l+1] = DigitText[k+1] => l = k
    <2> TAKE l \in 0..9
    <2>1. l + 1 \in 1..10
      OBVIOUS
    <2>2. DigitText[l+1] = DigitText[k+1] => l + 1 = k + 1
      BY <1>1, <2>1, DigitsDiffer
    <2>3. QED
      BY <2>2
  <1>4. (CHOOSE l \in 0..9 : DigitText[l+1] = DigitText[k+1]) = k
    BY <1>3
  <1>5. QED
    BY <1>2, <1>4 DEF DigitOf

(* A text of digits has no point.                                          *)
LEMMA DigitsHaveNoPoint ==
  ASSUME NEW A, NEW v \in Seq(A), IsInt(v)
  PROVE  Tenths(v) = 10 * Decimal(v)
  <1>1. ASSUME HasPoint(v) PROVE FALSE
    <2>1. Len(v) - 1 \in DOMAIN v /\ v[Len(v) - 1] = "."
      BY <1>1 DEF HasPoint, Point
    <2>2. DOMAIN DigitOf = ToSet(DigitText)
      BY DEF DigitOf
    <2>3. "." \in ToSet(DigitText)
      BY <2>1, <2>2 DEF IsInt, AllDigits
    <2>4. QED
      BY <2>3, TenDigits
  <1>2. QED
    BY <1>1 DEF Tenths

(* A cell is what the value says, or null for a null value.                *)
CellFits(dtype, cell, value, nulls) ==
  LET v == IF dtype = "String" THEN value ELSE Trim(value)
  IN  IF v \in nulls THEN cell = Null ELSE Means(dtype, cell, v)

LEMMA BuiltAsInferred ==
  ASSUME NEW dtype, dtype \in {"String", "Boolean", "Int64", "Float64"}
  PROVE  BuiltType(dtype) = dtype
  BY DEF BuiltType

LEMMA InferredSeries ==
  ASSUME NEW A, NEW values \in Seq(Seq(A)), NEW nulls, NEW maxScan \in Int,
         maxScan <= 0 \/ maxScan >= Len(values), NEW name,
         NEW dtype, dtype = InferType(values, nulls, maxScan),
         NEW s, s = BuildSeries(name, values, dtype, nulls)
  PROVE  s.dtype # "None" /\ \A r \in DOMAIN values : CellFits(s.dtype, s.cells[r], values[r], nulls)
  <1>1. PICK n : n = Len(values) /\ n \in Nat /\ DOMAIN values = 1..n
    OBVIOUS
  <1>2. \A r \in 1..n : Trim(values[r]) \in Seq(A)
    <2>1. PICK T : T = Seq(A)
      OBVIOUS
    <2>2. \A r \in 1..n : values[r] \in T
      BY <1>1, <2>1
    <2>3. QED
      BY <2>1, <2>2, TrimmedText
  <1>3. Scanned(values, maxScan) = n
    BY <1>1 DEF Scanned
  <1>4. PICK seen : seen = {Trim(values[i]) : i \in 1..n} \ nulls
    OBVIOUS
  <1>5. /\ dtype = IF seen = {} THEN "String"
                   ELSE IF \A v \in seen : IsBool(v) THEN "Boolean"
                   ELSE IF \A v \in seen : IsInt(v) THEN "Int64"
                   ELSE IF \A v \in seen : IsFloat(v) THEN "Float64"
                   ELSE "String"
    BY <1>3, <1>4 DEF InferType
  <1>6. /\ dtype \in {"String", "Boolean", "Int64", "Float64"}
        /\ \A r \in 1..n : Trim(values[r]) \notin nulls =>
             /\ dtype = "Boolean" => IsBool(Trim(values[r]))
             /\ dtype = "Int64" => IsInt(Trim(values[r]))
             /\ dtype = "Float64" => IsFloat(Trim(values[r]))
    BY <1>4, <1>5
  <1>7. Unparsable(values, dtype, nulls) = {}
    BY <1>1, <1>6 DEF Unparsable
  <1> DEFINE text(i) == IF dtype = "String" THEN values[i] ELSE Trim(values[i])
             parse(v) == CASE dtype = "Int64" -> Decimal(v)
                           [] dtype = "Float64" -> Tenths(v)
                           [] dtype = "Boolean" -> IF v \in Truths THEN 1 ELSE 0
                           [] OTHER -> v
  <1>8. s = Series(name, dtype, [i \in DOMAIN values |-> IF text(i) \in nulls THEN Null ELSE parse(text(i))])
    <2>1. dtype \in {"String", "Boolean", "Int64", "Float64"}
      BY <1>6
    <2>2. BuiltType(dtype) = dtype
      BY <2>1, BuiltAsInferred
    <2>3. QED
      BY <1>7, <2>2 DEF BuildSeries
  <1>9. s.dtype = dtype /\ \A r \in 1..n : s.cells[r] = IF text(r) \in nulls THEN Null ELSE parse(text(r))
    <2> HIDE DEF text, parse
    <2>1. QED
      BY <1>1, <1>8 DEF Series
  <1>10. ASSUME NEW r \in 1..n PROVE CellFits(dtype, s.cells[r], values[r], nulls)
    <2>1. PICK v : v = text(r)
      OBVIOUS
    <2>2. s.cells[r] = IF v \in nulls THEN Null ELSE parse(v)
      BY <1>9, <2>1
    <2>3. v \in nulls \/ Means(dtype, s.cells[r], v)
      <3> SUFFICES ASSUME v \notin nulls PROVE Means(dtype, s.cells[r], v)
        OBVIOUS
      <3>1. s.cells[r] = parse(v)
        BY <2>2
      <3>2. CASE dtype = "String"
        BY <3>1, <3>2 DEF Means
      <3>3. CASE dtype = "Boolean"
        <4>1. IsBool(v)
          BY <1>6, <2>1, <3>3
        <4>2. s.cells[r] = IF v \in Truths THEN 1 ELSE 0
          BY <3>1, <3>3
        <4>3. QED
          BY <3>3, <4>1, <4>2 DEF Means
      <3>4. CASE dtype = "Int64"
        <4>1. IsInt(v) /\ v \in Seq(A)
          BY <1>2, <1>6, <2>1, <3>4
        <4>2. s.cells[r] = Decimal(v)
          BY <3>1, <3>4
        <4>3. Tenths(v) = 10 * s.cells[r]
          BY <4>1, <4>2, DigitsHaveNoPoint
        <4>4. QED
          BY <3>4, <4>1, <4>3 DEF Means
      <3>5. CASE dtype = "Float64"
        <4>1. IsFloat(v)
          BY <1>6, <2>1, <3>5
        <4>2. s.cells[r] = Tenths(v)
          BY <3>1, <3>5
        <4>3. QED
          BY <3>5, <4>1, <4>2 DEF Means
      <3>6. QED
        BY <1>6, <3>2, <3>3, <3>4, <3>5
    <2>4. v = IF dtype = "String" THEN values[r] ELSE Trim(values[r])
      BY <2>1
    <2> HIDE DEF text, parse
    <2>5. QED
      BY <2>2, <2>3, <2>4 DEF CellFits
  <1>11. QED
    BY <1>1, <1>6, <1>9, <1>10

-----------------------------------------------------------------------------
(* Where a column is in its rows                                           *)

PlaceInv ==
  /\ pc \in {"skip", "header", "columns"} => colIndices = nil
  /\ pc = "columns" /\ options.header => colNames \in Seq(Texts)
  /\ pc = "locate" /\ colIndices # nil =>
       Len(colNames) # 0 /\ colNames # <<>> /\ \A c \in 1..Len(colNames) : colIndices[c] \in Nat \ {0}
  /\ pc = "fallback" => colIndices = nil
  /\ pc \in {"parse", "names", "build"} => \A c \in 1..numCols : Place(c) \in Nat \ {0}

LEMMA PlaceStart == Init => PlaceInv
  BY DEF Init, PlaceInv

(* The last of the columns of a name                                       *)
LEMMA PlaceOfName ==
  ASSUME NEW A, colNames \in Seq(A), NEW name \in ToSet(colNames)
  PROVE  IndexOf(name) \in Nat \ {0}
  <1>1. PICK n : n = Len(colNames) /\ n \in Nat /\ DOMAIN colNames = 1..n
    OBVIOUS
  <1>2. PICK K : K = {k \in DOMAIN colNames : colNames[k] = name}
    OBVIOUS
  <1>3. K # {}
    BY <1>2 DEF ToSet
  <1>4. IsFiniteSet(1..n)
    BY <1>1, FS_Interval
  <1>5. IsFiniteSet(K) /\ K \in SUBSET Int
    BY <1>1, <1>2, <1>4, FS_Subset
  <1>6. Max(K) \in K
    BY <1>3, <1>5, Extremes DEF IsGreatest
  <1>7. Max(K) \in 1..n
    BY <1>1, <1>2, <1>6
  <1>8. QED
    BY <1>1, <1>2, <1>7 DEF IndexOf

LEMMA PlaceStep == LineInv /\ FieldInv /\ PlaceInv /\ [Next]_vars => PlaceInv'
  <1> SUFFICES ASSUME LineInv, FieldInv, PlaceInv, [Next]_vars PROVE PlaceInv'
    OBVIOUS
  <1>1. CASE pc' = "done"
    BY <1>1 DEF PlaceInv
  <1>2. ASSUME UNCHANGED <<options, content, pc, colNames, colIndices, numCols>> PROVE PlaceInv'
    BY <1>2 DEF PlaceInv, Place, Texts, Atoms
  <1>3. CASE SkipRows
    <2>1. pc' = "done" \/ (pc = "skip" /\ pc' = "header" /\ UNCHANGED colIndices)
      BY <1>3 DEF SkipRows, Fail
    <2>2. QED
      BY <1>1, <2>1 DEF PlaceInv
  <1>4. CASE ReadHeader
    <2>1. CASE Fail
      BY <1>1, <2>1 DEF Fail
    <2>2. CASE ~Fail
      <3>1. /\ pc = "header" /\ pc' = "columns" /\ UNCHANGED <<colIndices, options, content>>
            /\ ~(options.header /\ pos > Len(content))
            /\ colNames' = IF options.header THEN ParseLine(LineAt(pos), options.sep, options.quote)
                                             ELSE colNames
        BY <1>4, <2>2 DEF ReadHeader
      <3>2. options.header => colNames' \in Seq(Texts)
        <4>1. SUFFICES ASSUME options.header PROVE colNames' \in Seq(Texts)
          OBVIOUS
        <4>2. pos \in Nat \ {0} /\ Len(content) \in Nat /\ pos <= Len(content)
          BY <3>1, <4>1 DEF LineInv
        <4>3. LineAt(pos) \in Seq(Atoms)
          <5>1. PICK p : p = pos
            OBVIOUS
          <5>2. LineAt(p) \in Texts
            BY <4>2, <5>1, LineIsText
          <5>3. QED
            BY <5>1, <5>2 DEF Texts
        <4>4. PICK line, A : line = LineAt(pos) /\ A = Atoms
          OBVIOUS
        <4>5. line \in Seq(A)
          BY <4>3, <4>4
        <4>6. ParseLine(line, options.sep, options.quote) \in Seq(Seq(A))
          BY <4>5, FieldsOfLine
        <4>7. QED
          BY <3>1, <4>1, <4>4, <4>6 DEF Texts
      <3>3. Seq(Texts)' = Seq(Texts)
        BY <3>1 DEF Texts, Atoms
      <3>4. options.header' = options.header /\ colNames' \in Seq(Texts)' <=> colNames' \in Seq(Texts)
        BY <3>1, <3>3
      <3>5. pc' = "columns" /\ options'.header => colNames' \in Seq(Texts)'
        BY <3>1, <3>2, <3>3
      <3>6. QED
        BY <3>1, <3>5 DEF PlaceInv
    <2>3. QED
      BY <2>1, <2>2
  <1>5. CASE PickColumns
    <2>1. CASE options.columns = nil \/ ~options.header
      <3>1. pc = "columns" /\ pc' = "locate" /\ UNCHANGED colIndices
        BY <1>5, <2>1 DEF PickColumns
      <3>2. QED
        BY <3>1 DEF PlaceInv
    <2>2. CASE ~(options.columns = nil \/ ~options.header) /\ ~(ToSet(options.columns) \subseteq ToSet(colNames))
      <3>1. Fail
        BY <1>5, <2>2 DEF PickColumns
      <3>2. QED
        BY <1>1, <3>1 DEF Fail
    <2>3. CASE ~(options.columns = nil \/ ~options.header) /\ ToSet(options.columns) \subseteq ToSet(colNames)
      <3>1. /\ colIndices' = [k \in DOMAIN options.columns |-> IndexOf(options.columns[k])]
            /\ colNames' = options.columns /\ pc' = "locate" /\ pc = "columns"
        BY <1>5, <2>3 DEF PickColumns
      <3>2. PICK cols : cols = options.columns
        OBVIOUS
      <3>3. cols \in Seq(ToSet(cols)) /\ cols # <<>>
        BY <2>3, <3>2, ReaderAssumption DEF LineInv
      <3>4. PICK n : n = Len(cols) /\ n \in Nat \ {0} /\ DOMAIN cols = 1..n
        BY <3>3
      <3>5. colNames \in Seq(Texts)
        BY <2>3, <3>1 DEF PlaceInv
      <3>6. ASSUME NEW c \in 1..n PROVE colIndices'[c] \in Nat \ {0}
        <4>1. cols[c] \in ToSet(colNames)
          BY <2>3, <3>2, <3>4 DEF ToSet
        <4>2. IndexOf(cols[c]) \in Nat \ {0}
          BY <3>5, <4>1, PlaceOfName
        <4>3. QED
          BY <3>1, <3>2, <3>4, <4>2
      <3>7. QED
        BY <3>1, <3>2, <3>3, <3>4, <3>6 DEF PlaceInv
    <2>4. QED
      BY <2>1, <2>2, <2>3
  <1>6. CASE LocateLines
    <2>1. /\ pc = "locate" /\ numCols' = ColumnsExpected /\ UNCHANGED <<colNames, colIndices>>
          /\ \/ ColumnsExpected = 0 /\ pc' = "fallback"
             \/ pc' \in {"names", "parse"}
      BY <1>6 DEF LocateLines
    <2>2. CASE colIndices = nil
      <3>1. colIndices' = nil
        BY <2>1, <2>2
      <3>2. \A c \in 1..numCols' : Place(c)' \in Nat \ {0}
        BY <3>1 DEF Place
      <3>3. QED
        BY <2>1, <3>1, <3>2 DEF PlaceInv
    <2>3. CASE colIndices # nil
      <3>1. Len(colNames) # 0 /\ colNames # <<>> /\ \A c \in 1..Len(colNames) : colIndices[c] \in Nat \ {0}
        BY <2>1, <2>3 DEF PlaceInv
      <3>2. ColumnsExpected = Len(colNames)
        BY <3>1 DEF ColumnsExpected
      <3>3. \A c \in 1..numCols' : Place(c)' \in Nat \ {0}
        BY <2>1, <2>3, <3>1, <3>2 DEF Place
      <3>4. pc' # "fallback"
        BY <2>1, <3>1, <3>2
      <3>5. QED
        BY <2>1, <3>3, <3>4 DEF PlaceInv
    <2>4. QED
      BY <2>2, <2>3
  <1>7. CASE ParseSequentially \/ MergeChunks
    <2>1. pc = "parse" /\ pc' = "names" /\ UNCHANGED <<colIndices, numCols>>
      BY <1>7 DEF ParseSequentially, MergeChunks
    <2>2. \A c \in 1..numCols : Place(c) \in Nat \ {0}
      BY <2>1 DEF PlaceInv
    <2>3. \A c \in 1..numCols' : Place(c)' \in Nat \ {0}
      BY <2>1, <2>2 DEF Place
    <2>4. QED
      BY <2>1, <2>3 DEF PlaceInv
  <1>8. CASE ParseFallback
    <2>1. pc = "fallback" /\ pc' = "names" /\ UNCHANGED colIndices
      BY <1>8 DEF ParseFallback
    <2>2. colIndices' = nil
      BY <2>1 DEF PlaceInv
    <2>3. \A c \in 1..numCols' : Place(c)' \in Nat \ {0}
      BY <2>2 DEF Place
    <2>4. QED
      BY <2>1, <2>3 DEF PlaceInv
  <1>9. CASE CancelledInFallback
    BY <1>1, <1>9 DEF CancelledInFallback
  <1>10. ASSUME NEW w \in 0..procs-1, ParseChunk(w) PROVE PlaceInv'
    BY <1>2, <1>10 DEF ParseChunk
  <1>11. CASE NameColumns
    <2>1. /\ UNCHANGED colIndices /\ pc = "names" /\ pc' = "build"
          /\ colNames' = IF options.header THEN colNames
                         ELSE [k \in 1..numCols |-> <<"column_", ToString(k-1)>>]
          /\ numCols' = IF numCols = 0 THEN Len(colNames') ELSE numCols
      BY <1>11 DEF NameColumns
    <2>2. numCols = 0 => 1..numCols' = {}
      <3>1. SUFFICES ASSUME numCols = 0 PROVE Len(colNames') = 0
        BY <2>1
      <3>2. CASE options.header
        BY <2>1, <3>1, <3>2 DEF FieldInv
      <3>3. CASE ~options.header
        <4>1. colNames' = <<>>
          BY <2>1, <3>1, <3>3
        <4>2. QED
          BY <4>1
      <3>4. QED
        BY <3>2, <3>3
    <2>3. \A c \in 1..numCols : Place(c) \in Nat \ {0}
      BY <2>1 DEF PlaceInv
    <2>4. \A c \in 1..numCols' : Place(c)' \in Nat \ {0}
      BY <2>1, <2>2, <2>3 DEF Place
    <2>5. QED
      BY <2>1, <2>4 DEF PlaceInv
  <1>12. CASE Return
    BY <1>1, <1>12 DEF Return
  <1>13. ASSUME NEW c \in DOMAIN result, BuildColumn(c) PROVE PlaceInv'
    BY <1>2, <1>13 DEF BuildColumn
  <1>14. CASE Finished \/ UNCHANGED vars
    BY <1>2, <1>14 DEF Finished, vars
  <1>15. QED
    BY <1>3, <1>4, <1>5, <1>6, <1>7, <1>8, <1>9, <1>10, <1>11, <1>12, <1>13, <1>14 DEF Next

-----------------------------------------------------------------------------
(* The columns and their series                                            *)

Built(c) == BuildSeries(colNames[c], colData[c], TypeOf(c), options.nulls)

DataInv ==
  pc \in {"names", "build"} \/ result # <<>> => \A c \in 1..numCols : colData[c] \in Seq(Texts)

BuildInv ==
  /\ pc \notin {"build", "done"} => result = <<>>
  /\ pc # "done" => outcome = "running"
  /\ pc = "build" \/ result # <<>> =>
       /\ DOMAIN result = 1..numCols
       /\ \A c \in 1..numCols : result[c] = nil \/ result[c] = Built(c)
  /\ outcome \in {"ok", "error"} /\ result # <<>> => \A c \in 1..numCols : result[c] # nil

LEMMA DataStart == Init => DataInv
  BY DEF Init, DataInv

LEMMA BuildStart == Init => BuildInv
  BY DEF Init, BuildInv

(* The fields of any lines that are read are texts.                        *)
LEMMA RowsToRead ==
  ASSUME LineInv
  PROVE  AreRows(Rows(LinesFrom(pos))) /\ AreRows(Rows(DataLines))
  <1>1. PICK p : p = pos
    OBVIOUS
  <1>2. p \in Nat \ {0} /\ Len(content) \in Nat /\ options.nrows \in Int
    BY <1>1, OptionTypes
  <1>3. AreRows(Rows(LinesFrom(p)))
    BY <1>2, RowsOfTexts
  <1>4. IsStartOf(Rows(DataLines), Rows(LinesFrom(pos)))
    BY <1>1, <1>2, LinesToRead
  <1>5. AreRows(Rows(DataLines))
    <2>1. PICK rows, taken : rows = Rows(LinesFrom(pos)) /\ taken = Rows(DataLines)
      OBVIOUS
    <2>2. AreRows(rows) /\ IsStartOf(taken, rows)
      BY <1>1, <1>3, <1>4, <2>1
    <2>3. AreRows(taken)
      BY <2>2, FirstRowsOfTexts
    <2>4. QED
      BY <2>1, <2>3
  <1>6. QED
    BY <1>1, <1>3, <1>5

LEMMA DataStep == LineInv /\ ChunkInv /\ FieldInv /\ PlaceInv /\ DataInv /\ BuildInv /\ [Next]_vars => DataInv'
  <1> SUFFICES ASSUME LineInv, ChunkInv, FieldInv, PlaceInv, DataInv, BuildInv, [Next]_vars PROVE DataInv'
    OBVIOUS
  <1>0. UNCHANGED content
    BY DEF Next, vars, SkipRows, Fail, ReadHeader, PickColumns, LocateLines, ParseSequentially,
           MergeChunks, ParseFallback, CancelledInFallback, ParseChunk, NameColumns, Return,
           BuildColumn, Finished
  <1>1. Texts' = Texts
    BY <1>0 DEF Texts, Atoms
  <1>2. CASE pc' \notin {"names", "build"} /\ result' = <<>>
    BY <1>2 DEF DataInv
  <1>3. CASE UNCHANGED <<colData, numCols>> /\ (pc \in {"names", "build"} \/ result # <<>>)
    <2>1. \A c \in 1..numCols : colData[c] \in Seq(Texts)
      BY <1>3 DEF DataInv
    <2>2. \A c \in 1..numCols' : colData'[c] \in Seq(Texts')
      BY <1>1, <1>3, <2>1
    <2>3. QED
      BY <2>2 DEF DataInv
  <1>4. CASE SkipRows \/ ReadHeader \/ PickColumns \/ CancelledInFallback
    <2>1. pc \notin {"build", "done"} /\ pc' \notin {"names", "build"} /\ UNCHANGED result
      BY <1>4 DEF SkipRows, Fail, ReadHeader, PickColumns, CancelledInFallback
    <2>2. QED
      BY <1>2, <2>1 DEF BuildInv
  <1>5. CASE LocateLines
    <2>1. pc = "locate" /\ UNCHANGED result
          /\ \/ pc' \notin {"names", "build"}
             \/ /\ pc' = "names" /\ numCols' = ColumnsExpected
                /\ colData' = [c \in 1..ColumnsExpected |-> <<>>]
      BY <1>5 DEF LocateLines
    <2>2. result' = <<>>
      BY <2>1 DEF BuildInv
    <2>3. CASE pc' \notin {"names", "build"}
      BY <1>2, <2>2, <2>3
    <2>4. CASE numCols' = ColumnsExpected /\ colData' = [c \in 1..ColumnsExpected |-> <<>>]
      <3>1. PICK T : T = Texts
        OBVIOUS
      <3>2. <<>> \in Seq(T)
        OBVIOUS
      <3>3. \A c \in 1..numCols' : colData'[c] \in Seq(Texts')
        BY <1>1, <2>4, <3>1, <3>2
      <3>4. QED
        BY <3>3 DEF DataInv
    <2>5. QED
      BY <2>1, <2>3, <2>4
  <1>6. ASSUME NEW rows, AreRows(rows), NEW n, n = numCols', UNCHANGED colIndices,
               \A c \in 1..n : Place(c) \in Nat \ {0},
               \A c \in 1..n : colData'[c] = Columns(rows, n)[c]
        PROVE  DataInv'
    <2>1. \A c \in 1..n : Columns(rows, n)[c] \in Seq(Texts)
      BY <1>6, ColumnIsTexts
    <2>2. \A c \in 1..numCols' : colData'[c] \in Seq(Texts')
      BY <1>1, <1>6, <2>1
    <2>3. QED
      BY <2>2 DEF DataInv
  <1>7. CASE ParseSequentially
    <2>1. /\ pc = "parse" /\ UNCHANGED <<numCols, colIndices>>
          /\ colData' = Columns(Rows(lineStarts), numCols)
      BY <1>7 DEF ParseSequentially
    <2>2. lineStarts = DataLines /\ \A c \in 1..numCols : Place(c) \in Nat \ {0}
      BY <2>1 DEF ChunkInv, PlaceInv
    <2>3. PICK rows, n : rows = Rows(DataLines) /\ n = numCols'
      OBVIOUS
    <2>4. AreRows(rows)
      BY <2>3, RowsToRead
    <2>5. \A c \in 1..n : colData'[c] = Columns(rows, n)[c]
      BY <2>1, <2>2, <2>3
    <2>6. \A c \in 1..n : Place(c) \in Nat \ {0}
      BY <2>1, <2>2, <2>3
    <2>7. QED
      BY <1>6, <2>1, <2>3, <2>4, <2>5, <2>6
  <1>8. CASE MergeChunks
    <2>1. pc = "parse" /\ UNCHANGED <<numCols, colIndices>>
      BY <1>8 DEF MergeChunks
    <2>2. \A c \in 1..numCols : Place(c) \in Nat \ {0}
      BY <2>1 DEF PlaceInv
    <2>3. PICK rows, n : rows = Rows(DataLines) /\ n = numCols'
      OBVIOUS
    <2>4. AreRows(rows)
      BY <2>3, RowsToRead
    <2>5. \A c \in 1..numCols : colData'[c] = Columns(Rows(DataLines), numCols)[c]
      BY <1>8, MergedFields
    <2>6. \A c \in 1..n : colData'[c] = Columns(rows, n)[c]
      BY <2>1, <2>3, <2>5
    <2>7. \A c \in 1..n : Place(c) \in Nat \ {0}
      BY <2>1, <2>2, <2>3
    <2>8. QED
      BY <1>6, <2>1, <2>3, <2>4, <2>6, <2>7
  <1>9. CASE ParseFallback
    <2>1. PICK rows : rows = Rows(LinesFrom(pos))
      OBVIOUS
    <2>2. PICK taken : taken = IF options.nrows > 0 /\ Len(rows) > options.nrows
                                 THEN SubSeq(rows, 1, options.nrows) ELSE rows
      OBVIOUS
    <2>3. PICK n : n = IF taken = <<>> THEN 0 ELSE Len(taken[1])
      OBVIOUS
    <2>4. /\ pc = "fallback" /\ UNCHANGED colIndices
          /\ numCols' = n /\ colData' = Columns(taken, n)
      BY <1>9, <2>1, <2>2, <2>3 DEF ParseFallback
    <2>5. \A c \in 1..n : Place(c) \in Nat \ {0}
      <3>1. colIndices = nil
        BY <2>4 DEF PlaceInv
      <3>2. QED
        BY <3>1 DEF Place
    <2>6. AreRows(rows)
      BY <2>1, RowsToRead
    <2>7. AreRows(taken)
      <3>1. CASE options.nrows > 0 /\ Len(rows) > options.nrows
        <4>1. PICK m : m = options.nrows
          OBVIOUS
        <4>2. m \in Int
          BY <4>1, OptionTypes
        <4>3. m \in Nat /\ m <= Len(rows) /\ Len(rows) \in Nat
          BY <2>6, <3>1, <4>1, <4>2 DEF AreRows
        <4>4. IsStartOf(rows, rows)
          BY <2>6 DEF AreRows, IsStartOf
        <4>5. IsStartOf(SubSeq(rows, 1, m), rows)
          BY <4>3, <4>4, FirstOfRows
        <4>6. taken = SubSeq(rows, 1, m)
          BY <2>2, <3>1, <4>1
        <4>7. IsStartOf(taken, rows)
          BY <4>5, <4>6
        <4>8. QED
          BY <2>6, <4>7, FirstRowsOfTexts
      <3>2. CASE ~(options.nrows > 0 /\ Len(rows) > options.nrows)
        BY <2>2, <2>6, <3>2
      <3>3. QED
        BY <3>1, <3>2
    <2>8. QED
      BY <1>6, <2>4, <2>5, <2>7
  <1>10. ASSUME NEW w \in 0..procs-1, ParseChunk(w) PROVE DataInv'
    <2>1. pc = "parse" /\ pc' = "parse" /\ UNCHANGED result
      BY <1>10 DEF ParseChunk
    <2>2. QED
      BY <1>2, <2>1 DEF BuildInv
  <1>11. CASE NameColumns
    <2>1. /\ UNCHANGED colData /\ pc = "names"
          /\ colNames' = IF options.header THEN colNames
                         ELSE [k \in 1..numCols |-> <<"column_", ToString(k-1)>>]
          /\ numCols' = IF numCols = 0 THEN Len(colNames') ELSE numCols
      BY <1>11 DEF NameColumns
    <2>2. numCols = 0 => numCols' = 0
      <3>1. SUFFICES ASSUME numCols = 0 PROVE Len(colNames') = 0
        BY <2>1
      <3>2. CASE options.header
        BY <2>1, <3>1, <3>2 DEF FieldInv
      <3>3. CASE ~options.header
        <4>1. colNames' = <<>>
          BY <2>1, <3>1, <3>3
        <4>2. QED
          BY <4>1
      <3>4. QED
        BY <3>2, <3>3
    <2>3. numCols' = numCols
      BY <2>1, <2>2
    <2>4. QED
      BY <1>3, <2>1, <2>3
  <1>12. CASE Return
    BY <1>3, <1>12 DEF Return
  <1>13. ASSUME NEW c \in DOMAIN result, BuildColumn(c) PROVE DataInv'
    BY <1>3, <1>13 DEF BuildColumn
  <1>14. CASE Finished \/ UNCHANGED vars
    <2>1. UNCHANGED <<pc, result, colData, numCols>>
      BY <1>14 DEF Finished, vars
    <2>2. QED
      BY <1>2, <1>3, <2>1
  <1>15. QED
    BY <1>4, <1>5, <1>7, <1>8, <1>9, <1>10, <1>11, <1>12, <1>13, <1>14 DEF Next

LEMMA BuildStep == BuildInv /\ [Next]_vars => BuildInv'
  <1> SUFFICES ASSUME BuildInv, [Next]_vars PROVE BuildInv'
    OBVIOUS
  <1>1. CASE pc \notin {"build", "done"} /\ pc' # "build" /\ UNCHANGED result /\ (pc' # "done" => UNCHANGED outcome)
    <2>1. result' = <<>> /\ outcome = "running"
      BY <1>1 DEF BuildInv
    <2>2. QED
      BY <1>1, <2>1 DEF BuildInv
  <1>2. CASE SkipRows \/ ReadHeader \/ PickColumns \/ CancelledInFallback
    BY <1>1, <1>2 DEF SkipRows, Fail, ReadHeader, PickColumns, CancelledInFallback
  <1>3. CASE LocateLines \/ ParseSequentially \/ MergeChunks \/ ParseFallback
    BY <1>1, <1>3 DEF LocateLines, ParseSequentially, MergeChunks, ParseFallback
  <1>4. ASSUME NEW w \in 0..procs-1, ParseChunk(w) PROVE BuildInv'
    BY <1>1, <1>4 DEF ParseChunk
  <1>5. CASE NameColumns
    <2>1. /\ pc = "names" /\ pc' = "build" /\ UNCHANGED outcome
          /\ result' = [c \in 1..numCols' |-> nil]
      BY <1>5 DEF NameColumns
    <2>2. outcome' = "running"
      BY <2>1 DEF BuildInv
    <2>3. DOMAIN result' = 1..numCols' /\ \A c \in 1..numCols' : result'[c] = nil
      BY <2>1
    <2>4. QED
      BY <2>1, <2>2, <2>3 DEF BuildInv
  <1>6. CASE Return
    <2>1. /\ pc = "build" /\ pc' = "done" /\ UNCHANGED <<result, numCols, colNames, colData, options>>
          /\ \A c \in 1..numCols : result[c] # nil
      BY <1>6 DEF Return
    <2>2. \A c : Built(c)' = Built(c)
      BY <2>1 DEF Built, TypeOf
    <2>3. DOMAIN result = 1..numCols /\ \A c \in 1..numCols : result[c] = nil \/ result[c] = Built(c)
      BY <2>1 DEF BuildInv
    <2>4. DOMAIN result' = 1..numCols' /\ \A c \in 1..numCols' : result'[c] = nil \/ result'[c] = Built(c)'
      BY <2>1, <2>2, <2>3
    <2>5. \A c \in 1..numCols' : result'[c] # nil
      BY <2>1
    <2>6. QED
      BY <2>1, <2>4, <2>5 DEF BuildInv
  <1>7. ASSUME NEW c \in DOMAIN result, BuildColumn(c) PROVE BuildInv'
    <2>1. /\ pc = "build" /\ UNCHANGED <<pc, outcome, numCols, colNames, colData, options>>
          /\ result' = [result EXCEPT ![c] = Built(c)]
      BY <1>7 DEF BuildColumn, Built
    <2>2. \A d : Built(d)' = Built(d)
      BY <2>1 DEF Built, TypeOf
    <2>3. DOMAIN result = 1..numCols /\ \A d \in 1..numCols : result[d] = nil \/ result[d] = Built(d)
      BY <2>1 DEF BuildInv
    <2>4. DOMAIN result' = 1..numCols /\ \A d \in 1..numCols : result'[d] = nil \/ result'[d] = Built(d)
      BY <2>1, <2>3
    <2>5. DOMAIN result' = 1..numCols' /\ \A d \in 1..numCols' : result'[d] = nil \/ result'[d] = Built(d)'
      BY <2>1, <2>2, <2>4
    <2>6. outcome' = "running"
      BY <2>1 DEF BuildInv
    <2>7. QED
      BY <2>1, <2>5, <2>6 DEF BuildInv
  <1>8. CASE Finished \/ UNCHANGED vars
    <2>1. UNCHANGED <<pc, outcome, result, numCols, colNames, colData, options>>
      BY <1>8 DEF Finished, vars
    <2>2. \A d : Built(d)' = Built(d)
      BY <2>1 DEF Built, TypeOf
    <2>3. QED
      BY <2>1, <2>2 DEF BuildInv
  <1>9. QED
    BY <1>2, <1>3, <1>4, <1>5, <1>6, <1>7, <1>8 DEF Next

(* Where the columns are in the rows, that they are put together of texts, *)
(* and that each series is the one built from its column.                  *)
SeriesInv == ReaderInv /\ PlaceInv /\ DataInv /\ BuildInv

THEOREM SeriesInvariant == Spec => []SeriesInv
  <1>1. Init => SeriesInv
    BY LineStart, ChunkStart, FieldStart, PlaceStart, DataStart, BuildStart DEF SeriesInv, ReaderInv
  <1>2. SeriesInv /\ [Next]_vars => SeriesInv'
    BY LineStep, ChunkStep, FieldStep, PlaceStep, DataStep, BuildStep DEF SeriesInv, ReaderInv
  <1>3. QED
    BY <1>1, <1>2, PTL DEF Spec

(* A column whose type is inferred from all its values can be built, and   *)
(* each of its cells is null for a null value and otherwise stands for     *)
(* what its text says, for every file, options and number of workers       *)
(* (inferType, buildSeries).                                               *)
THEOREM InferredTypesFit == Spec => []InferredTypeFits
  <1>1. SeriesInv => InferredTypeFits
    <2> SUFFICES ASSUME SeriesInv, outcome \in {"ok", "error"}, result # <<>>, NEW c \in 1..numCols, SawAll(c)
                 PROVE  /\ result[c].dtype # "None"
                        /\ \A r \in DOMAIN colData[c] :
                             CellFits(result[c].dtype, result[c].cells[r], colData[c][r], options.nulls)
      BY Zenon DEF InferredTypeFits, CellFits
    <2>1. result[c] = Built(c) /\ colData[c] \in Seq(Texts) /\ options.infer \in Int
      BY ReaderAssumption DEF SeriesInv, BuildInv, DataInv, ReaderInv, LineInv
    <2>2. TypeOf(c) = InferType(colData[c], options.nulls, options.infer)
      BY DEF SawAll, TypeOf
    <2>3. PICK values, nulls, maxScan, name, A, dtype, s :
            /\ values = colData[c] /\ nulls = options.nulls /\ maxScan = options.infer
            /\ name = colNames[c] /\ A = Atoms /\ dtype = TypeOf(c) /\ s = result[c]
      OBVIOUS
    <2>4. /\ values \in Seq(Seq(A)) /\ maxScan \in Int /\ (maxScan <= 0 \/ maxScan >= Len(values))
          /\ dtype = InferType(values, nulls, maxScan) /\ s = BuildSeries(name, values, dtype, nulls)
      BY <2>1, <2>2, <2>3 DEF Built, SawAll, Texts
    <2>5. s.dtype # "None" /\ \A r \in DOMAIN values : CellFits(s.dtype, s.cells[r], values[r], nulls)
      BY <2>4, InferredSeries
    <2>6. QED
      BY <2>3, <2>5
  <1>2. QED
    BY <1>1, SeriesInvariant, PTL

-----------------------------------------------------------------------------
(* A field that is quoted and read again                                   *)

\* The first k elements
Begin(s, k) == [i \in 1..k |-> s[i]]

LEMMA BeginGrows ==
  ASSUME NEW s, IsList(s)
  PROVE  /\ Begin(s, 0) = <<>> /\ Begin(s, Len(s)) = s
         /\ \A k \in 1..Len(s) : Append(Begin(s, k - 1), s[k]) = Begin(s, k)
  <1>1. Begin(s, 0) = <<>> /\ Begin(s, Len(s)) = s
    BY DEF Begin, IsList
  <1>2. ASSUME NEW k \in 1..Len(s) PROVE Append(Begin(s, k - 1), s[k]) = Begin(s, k)
    <2>1. PICK T : T = ElementsOf(s)
      OBVIOUS
    <2>2. k \in Nat \ {0} /\ \A i \in 1..k : s[i] \in T
      BY <2>1 DEF ElementsOf, IsList
    <2>3. Begin(s, k - 1) \in [1..k-1 -> T]
      BY <2>2 DEF Begin
    <2>4. Begin(s, k - 1) \in Seq(T) /\ Len(Begin(s, k - 1)) = k - 1
      BY <2>2, <2>3
    <2>5. PICK t : t = Begin(s, k - 1)
      OBVIOUS
    <2>6. Append(t, s[k]) = [i \in 1..k |-> IF i = k THEN s[k] ELSE t[i]]
      BY <2>2, <2>4, <2>5
    <2>7. \A i \in 1..k : (IF i = k THEN s[k] ELSE t[i]) = s[i]
      BY <2>2, <2>5 DEF Begin
    <2>8. QED
      BY <2>5, <2>6, <2>7 DEF Begin
  <1>3. QED
    BY <1>1, <1>2

Escaped(s, quote) == [i \in DOMAIN s |-> IF s[i] = quote THEN <<quote, quote>> ELSE <<s[i]>>]

\* Where the atoms of a text are once its quotes are doubled
IsEscaped(flat, s, quote, off) ==
  /\ IsList(flat) /\ IsList(s)
  /\ off[0] = 0 /\ off[Len(s)] = Len(flat)
  /\ \A i \in 0..Len(s) : off[i] \in 0..Len(flat)
  /\ \A i \in 1..Len(s) :
       /\ s[i] # quote => off[i] = off[i-1] + 1 /\ flat[off[i-1] + 1] = s[i]
       /\ s[i] = quote => /\ off[i] = off[i-1] + 2
                          /\ flat[off[i-1] + 1] = quote /\ flat[off[i-1] + 2] = quote

LEMMA EscapedPlaces ==
  ASSUME NEW s, IsList(s), NEW quote
  PROVE  \E off : IsEscaped(FlattenSeq(Escaped(s, quote)), s, quote, off)
  <1>1. PICK ss, n : ss = Escaped(s, quote) /\ n = Len(s)
    OBVIOUS
  <1>2. n \in Nat /\ DOMAIN s = 1..n
    BY <1>1 DEF IsList
  <1>3. DOMAIN ss = 1..n /\ ss = [k \in 1..n |-> ss[k]]
    BY <1>1, <1>2 DEF Escaped
  <1>4. \A k \in 1..n : ss[k] = IF s[k] = quote THEN <<quote, quote>> ELSE <<s[k]>>
    BY <1>1, <1>2 DEF Escaped
  <1>5. ASSUME NEW k \in 1..n
        PROVE  /\ IsList(ss[k])
               /\ s[k] = quote => Len(ss[k]) = 2 /\ ss[k][1] = quote /\ ss[k][2] = quote
               /\ s[k] # quote => Len(ss[k]) = 1 /\ ss[k][1] = s[k]
    <2>1. CASE s[k] = quote
      <3>1. ss[k] = <<quote, quote>>
        BY <1>4, <2>1
      <3>2. PICK t, T : t = <<quote, quote>> /\ T = {quote}
        OBVIOUS
      <3>3. t \in Seq(T) /\ Len(t) = 2 /\ t[1] = quote /\ t[2] = quote
        BY <3>2
      <3>4. IsList(t)
        BY <3>3, SeqIsList
      <3>5. QED
        BY <2>1, <3>1, <3>2, <3>3, <3>4
    <2>2. CASE s[k] # quote
      <3>1. ss[k] = <<s[k]>>
        BY <1>4, <2>2
      <3>2. PICK t, T : t = <<s[k]>> /\ T = {s[k]}
        OBVIOUS
      <3>3. t \in Seq(T) /\ Len(t) = 1 /\ t[1] = s[k]
        BY <3>2
      <3>4. IsList(t)
        BY <3>3, SeqIsList
      <3>5. QED
        BY <2>2, <3>1, <3>2, <3>3, <3>4
    <2>3. QED
      BY <2>1, <2>2
  <1>6. PICK off : ListsAt(ss, n, off)
    BY <1>2, <1>3, <1>5, LengthsAdd
  <1>7. PICK flat : flat = FlattenSeq(ss)
    OBVIOUS
  <1>8. Flattened(flat, ss, off, n)
    BY <1>6, <1>7, FlattenPlaces
  <1>9. \A k \in 1..n : off[k] = off[k-1] + Len(ss[k])
    BY <1>6 DEF ListsAt
  <1>10. \A k \in 1..n : \A j \in 1..Len(ss[k]) : flat[off[k-1] + j] = ss[k][j]
    BY <1>8 DEF Flattened
  <1>11. \A k \in 0..n : off[k] \in 0..Len(flat)
    <2>1. n \in 0..n
      BY <1>2
    <2>2. QED
      BY <1>8, <2>1 DEF Flattened
  <1>12. IsList(flat) /\ off[n] = Len(flat) /\ off[0] = 0
    BY <1>6, <1>8 DEF Flattened, ListsAt
  <1>13. ASSUME NEW i \in 1..n
         PROVE  /\ s[i] # quote => off[i] = off[i-1] + 1 /\ flat[off[i-1] + 1] = s[i]
                /\ s[i] = quote => /\ off[i] = off[i-1] + 2
                                   /\ flat[off[i-1] + 1] = quote /\ flat[off[i-1] + 2] = quote
    <2>1. off[i] = off[i-1] + Len(ss[i]) /\ \A j \in 1..Len(ss[i]) : flat[off[i-1] + j] = ss[i][j]
      BY <1>9, <1>10
    <2>2. QED
      BY <1>5, <2>1
  <1>14. IsEscaped(flat, s, quote, off)
    BY <1>1, <1>11, <1>12, <1>13 DEF IsEscaped
  <1>15. QED
    BY <1>1, <1>7, <1>14

At(t, skip) == [text |-> t, skip |-> skip]

LEMMA UnescapeSkips ==
  ASSUME NEW s, NEW quote, NEW t, NEW i
  PROVE  UnescapeNext(s, quote, At(t, TRUE), i) = At(t, FALSE)
  BY DEF UnescapeNext, At

LEMMA UnescapeAny ==
  ASSUME NEW s, NEW quote, NEW t, NEW i, s[i] # quote
  PROVE  UnescapeNext(s, quote, At(t, FALSE), i) = At(Append(t, s[i]), FALSE)
  <1>1. PICK x : x = At(t, FALSE)
    OBVIOUS
  <1>2. x.skip = FALSE /\ x.text = t
    BY <1>1 DEF At
  <1>3. PICK b \in BOOLEAN : b = (s[i] = quote /\ i < Len(s) /\ s[i+1] = quote)
    OBVIOUS
  <1>4. UnescapeNext(s, quote, x, i) = [text |-> Append(t, s[i]), skip |-> b]
    BY <1>2, <1>3 DEF UnescapeNext
  <1>5. QED
    BY <1>1, <1>3, <1>4 DEF At

LEMMA UnescapeQuote ==
  ASSUME NEW s, NEW quote, NEW t, NEW i, s[i] = quote, i < Len(s), s[i+1] = quote
  PROVE  UnescapeNext(s, quote, At(t, FALSE), i) = At(Append(t, s[i]), TRUE)
  <1>1. PICK x : x = At(t, FALSE)
    OBVIOUS
  <1>2. x.skip = FALSE /\ x.text = t
    BY <1>1 DEF At
  <1>3. PICK b \in BOOLEAN : b = (s[i] = quote /\ i < Len(s) /\ s[i+1] = quote)
    OBVIOUS
  <1>4. UnescapeNext(s, quote, x, i) = [text |-> Append(t, s[i]), skip |-> b]
    BY <1>2, <1>3 DEF UnescapeNext
  <1>5. QED
    BY <1>1, <1>3, <1>4 DEF At

(* Unescape takes the doubling of the quotes back.                         *)
LEMMA UnescapeEscaped ==
  ASSUME NEW s, NEW quote, NEW flat, NEW off, IsEscaped(flat, s, quote, off)
  PROVE  Unescape(flat, quote) = s
  <1>1. PICK n, m, A : n = Len(s) /\ m = Len(flat) /\ A = ElementsOf(flat)
    OBVIOUS
  <1>2. n \in Nat /\ m \in Nat /\ IsList(flat) /\ IsList(s)
    BY <1>1 DEF IsEscaped, IsList
  <1>3. flat \in Seq(A)
    BY <1>1, <1>2, ListIsSeq
  <1>4. PICK run :
          /\ run[0] = At(<<>>, FALSE)
          /\ \A k \in 1 .. m : run[k] = UnescapeNext(flat, quote, run[k-1], k)
          /\ Unescape(flat, quote) = run[m].text
    <2>1. \E run :
           /\ run[0] = At(<<>>, FALSE)
           /\ \A k \in 1 .. Len(flat) : run[k] = UnescapeNext(flat, quote, run[k-1], k)
           /\ \A k \in 0 .. Len(flat) : run[k] \in [text : Seq(A), skip : BOOLEAN]
           /\ Unescape(flat, quote) = run[Len(flat)].text
      BY <1>3, UnescapeRun DEF At
    <2>2. QED
      BY <1>1, <2>1
  <1> DEFINE S == {i \in 0..n : run[off[i]] = At(Begin(s, i), FALSE)}
  <1>5. 0 \in S
    <2>1. off[0] = 0 /\ 0 \in 0..n
      BY <1>2 DEF IsEscaped
    <2>2. Begin(s, 0) = <<>>
      BY <1>2, BeginGrows
    <2>3. QED
      BY <1>4, <2>1, <2>2
  <1>6. ASSUME NEW i \in 0..n-1, i \in S PROVE i+1 \in S
    <2>1. PICK a, k : a = off[i] /\ k = i + 1
      OBVIOUS
    <2>2. k \in 1..n /\ k - 1 = i /\ a \in 0..m /\ off[k] \in 0..m
      BY <1>1, <2>1, <1>2 DEF IsEscaped
    <2>3. PICK t, u, b, done : /\ t = Begin(s, k - 1) /\ u = Begin(s, k) /\ b = a + 1
                               /\ done = At(u, FALSE)
      OBVIOUS
    <2>4. run[a] = At(t, FALSE)
      BY <1>6, <2>1, <2>2, <2>3
    <2>5. Append(t, s[k]) = u
      <3>1. Append(Begin(s, k - 1), s[k]) = Begin(s, k)
        BY <1>1, <1>2, <2>2, BeginGrows
      <3>2. QED
        BY <2>3, <3>1
    <2>6. ASSUME s[k] # quote PROVE run[off[k]] = done
      <3>1. off[k] = b /\ flat[b] = s[k]
        BY <1>1, <2>1, <2>2, <2>3, <2>6 DEF IsEscaped
      <3>2. b \in 1..m /\ b - 1 = a
        BY <2>2, <2>3, <3>1
      <3>3. run[b] = UnescapeNext(flat, quote, run[a], b)
        BY <1>4, <3>2
      <3>4. UnescapeNext(flat, quote, At(t, FALSE), b) = At(Append(t, flat[b]), FALSE)
        <4>1. flat[b] # quote
          BY <2>6, <3>1
        <4>2. QED
          BY <4>1, UnescapeAny
      <3>5. QED
        BY <2>3, <2>4, <2>5, <3>1, <3>3, <3>4
    <2>7. ASSUME s[k] = quote PROVE run[off[k]] = done
      <3>1. PICK c : c = b + 1
        OBVIOUS
      <3>2. off[k] = c /\ flat[b] = quote /\ flat[c] = quote
        <4>1. off[k] = a + 2 /\ flat[a + 1] = quote /\ flat[a + 2] = quote
          BY <1>1, <2>1, <2>2, <2>7 DEF IsEscaped
        <4>2. c = a + 2
          BY <2>2, <2>3, <3>1
        <4>3. QED
          BY <2>3, <4>1, <4>2
      <3>3. b \in 1..m /\ b - 1 = a /\ c \in 1..m /\ c - 1 = b /\ b < m
        BY <1>2, <2>2, <2>3, <3>1, <3>2
      <3>4. run[b] = UnescapeNext(flat, quote, run[a], b) /\ run[c] = UnescapeNext(flat, quote, run[b], c)
        BY <1>4, <3>3
      <3>5. flat[b] = quote /\ b < Len(flat) /\ flat[b+1] = quote
        BY <1>1, <3>1, <3>2, <3>3
      <3>6. UnescapeNext(flat, quote, At(t, FALSE), b) = At(Append(t, flat[b]), TRUE)
        BY <3>5, UnescapeQuote
      <3>7. PICK full : full = At(u, TRUE)
        OBVIOUS
      <3>8. run[b] = full
        BY <2>4, <2>5, <2>7, <3>4, <3>5, <3>6, <3>7
      <3>9. UnescapeNext(flat, quote, At(u, TRUE), c) = At(u, FALSE)
        BY UnescapeSkips
      <3>10. QED
        BY <2>3, <3>2, <3>4, <3>7, <3>8, <3>9
    <2>8. run[off[k]] = done
      BY <2>6, <2>7
    <2>9. i+1 \in 0..n /\ run[off[i+1]] = At(Begin(s, i+1), FALSE)
      BY <2>1, <2>2, <2>3, <2>8
    <2>10. QED
      BY <2>9
  <1>7. n \in S
    <2> HIDE DEF S
    <2>1. 0..n \subseteq S
      BY <1>2, <1>5, <1>6, IntervalInduction
    <2>2. QED
      BY <1>2, <2>1
  <1>8. run[m] = At(Begin(s, n), FALSE)
    BY <1>1, <1>7 DEF IsEscaped
  <1>9. run[m].text = s
    BY <1>1, <1>2, <1>8, BeginGrows DEF At
  <1>10. QED
    BY <1>4, <1>9

(* A quoted text: the quotes around it and the atoms between them          *)
IsQuoted(enc, flat, quote) ==
  /\ IsList(enc) /\ IsList(flat) /\ Len(flat) \in Nat /\ Len(enc) = Len(flat) + 2
  /\ enc[1] = quote /\ enc[Len(flat) + 2] = quote
  /\ \A j \in 1..Len(flat) : enc[j + 1] = flat[j]

LEMMA QuotedAtoms ==
  ASSUME NEW s, IsList(s), NEW quote
  PROVE  IsQuoted(Quoted(s, quote), FlattenSeq(Escaped(s, quote)), quote)
  <1>1. PICK q, flat, enc : /\ q = <<quote>> /\ flat = FlattenSeq(Escaped(s, quote))
                            /\ enc = Quoted(s, quote)
    OBVIOUS
  <1>2. enc = (q \o flat) \o q
    BY <1>1 DEF Quoted, Escaped
  <1>3. IsList(flat)
    <2>1. PICK off : IsEscaped(flat, s, quote, off)
      BY <1>1, EscapedPlaces
    <2>2. QED
      BY <2>1 DEF IsEscaped
  <1>4. IsList(q) /\ Len(q) = 1 /\ q[1] = quote
    <2>1. q \in Seq({quote}) /\ Len(q) = 1 /\ q[1] = quote
      BY <1>1
    <2>2. PICK T : T = {quote}
      OBVIOUS
    <2>3. IsList(q)
      BY <2>1, <2>2, SeqIsList
    <2>4. QED
      BY <2>1, <2>3
  <1>5. PICK a, n : a = q \o flat /\ n = Len(flat)
    OBVIOUS
  <1>6. n \in Nat
    BY <1>3, <1>5 DEF IsList
  <1>7. IsList(a) /\ Len(a) = 1 + n /\ a[1] = quote /\ \A j \in 1..n : a[1 + j] = flat[j]
    <2> IsList(q) /\ IsList(flat)
      BY <1>3, <1>4
    <2>1. /\ IsList(q \o flat) /\ Len(q \o flat) = Len(q) + Len(flat)
          /\ \A k \in 1..Len(q) : (q \o flat)[k] = q[k]
          /\ \A k \in 1..Len(flat) : (q \o flat)[Len(q) + k] = flat[k]
      BY ListsConcat
    <2>2. QED
      BY <1>4, <1>5, <2>1
  <1>8. /\ IsList(enc) /\ Len(enc) = Len(a) + Len(q)
        /\ \A k \in 1..Len(a) : enc[k] = a[k]
        /\ \A k \in 1..Len(q) : enc[Len(a) + k] = q[k]
    <2> IsList(a) /\ IsList(q)
      BY <1>4, <1>7
    <2>1. /\ IsList(a \o q) /\ Len(a \o q) = Len(a) + Len(q)
          /\ \A k \in 1..Len(a) : (a \o q)[k] = a[k]
          /\ \A k \in 1..Len(q) : (a \o q)[Len(a) + k] = q[k]
      BY ListsConcat
    <2>2. enc = a \o q
      BY <1>2, <1>5
    <2>3. QED
      BY <2>1, <2>2
  <1>9. Len(enc) = n + 2 /\ enc[1] = quote /\ enc[n + 2] = quote
    BY <1>4, <1>6, <1>7, <1>8
  <1>10. ASSUME NEW j \in 1..n PROVE enc[j + 1] = flat[j]
    <2>1. j + 1 \in 1..Len(a) /\ 1 + j = j + 1
      BY <1>6, <1>7
    <2>2. QED
      BY <1>7, <1>8, <2>1
  <1>11. IsQuoted(enc, flat, quote)
    BY <1>3, <1>5, <1>6, <1>8, <1>9, <1>10 DEF IsQuoted
  <1>12. QED
    BY <1>1, <1>11

(* What extractField makes of a quoted text                                *)
LEMMA ExtractQuoted ==
  ASSUME NEW s, IsList(s), NEW quote
  PROVE  ExtractField(Quoted(s, quote), quote, TRUE) = s
  <1>1. PICK enc, flat, n : /\ enc = Quoted(s, quote) /\ flat = FlattenSeq(Escaped(s, quote))
                            /\ n = Len(flat)
    OBVIOUS
  <1>2. IsQuoted(enc, flat, quote)
    BY <1>1, QuotedAtoms
  <1>3. /\ n \in Nat /\ Len(enc) = n + 2 /\ enc[1] = quote /\ enc[n+2] = quote
        /\ \A j \in 1..n : enc[j + 1] = flat[j]
        /\ flat = [j \in 1..n |-> flat[j]]
    BY <1>1, <1>2 DEF IsQuoted, IsList
  <1>4. SubSeq(enc, 2, Len(enc) - 1) = flat
    <2>1. SubSeq(enc, 2, n + 1) = [j \in 1..n |-> enc[j + 1]]
      BY <1>3
    <2>2. [j \in 1..n |-> enc[j + 1]] = [j \in 1..n |-> flat[j]]
      BY <1>3
    <2>3. Len(enc) - 1 = n + 1
      BY <1>3
    <2>4. QED
      BY <1>3, <2>1, <2>2, <2>3
  <1>5. Len(enc) >= 2 /\ enc[1] = quote /\ Last(enc) = quote
    BY <1>3 DEF Last
  <1>6. Unescape(flat, quote) = s
    <2>1. PICK off : IsEscaped(FlattenSeq(Escaped(s, quote)), s, quote, off)
      BY EscapedPlaces
    <2>2. IsEscaped(flat, s, quote, off)
      BY <1>1, <2>1
    <2>3. QED
      BY <2>2, UnescapeEscaped
  <1>7. ExtractField(enc, quote, TRUE) = Unescape(SubSeq(enc, 2, Len(enc) - 1), quote)
    BY <1>5 DEF ExtractField
  <1>8. QED
    BY <1>1, <1>4, <1>6, <1>7

\* What an atom is to the two parsers
IsBare(line, i, sep, quote) == line[i] # sep /\ line[i] # quote
IsOpening(line, i, sep, quote) == sep # quote /\ line[i] = quote
IsDouble(line, i, quote) == line[i] = quote /\ i < Len(line) /\ line[i+1] = quote
IsClosing(line, i, quote) == line[i] = quote /\ (i < Len(line) => line[i+1] # quote)

(* The states parseLineASCII goes through: outside quotes, inside them,    *)
(* and before the second of two quotes                                     *)
AsciiOut(fs, raw) == [fields |-> fs, raw |-> raw, inQ |-> FALSE, hasQuote |-> FALSE, skip |-> FALSE]
AsciiShut(fs, raw) == [fields |-> fs, raw |-> raw, inQ |-> FALSE, hasQuote |-> TRUE, skip |-> FALSE]
AsciiIn(fs, raw) == [fields |-> fs, raw |-> raw, inQ |-> TRUE, hasQuote |-> TRUE, skip |-> FALSE]
AsciiTwice(fs, raw) == [fields |-> fs, raw |-> raw, inQ |-> TRUE, hasQuote |-> TRUE, skip |-> TRUE]

LEMMA AsciiTakes ==
  ASSUME NEW line, NEW sep, NEW quote, NEW i, NEW fs, NEW raw, IsBare(line, i, sep, quote)
  PROVE  AsciiNext(line, sep, quote, AsciiOut(fs, raw), i) =
           AsciiOut(fs, Append(raw, line[i]))
  BY DEF IsBare, AsciiNext, AsciiOut

LEMMA AsciiOpens ==
  ASSUME NEW line, NEW sep, NEW quote, NEW i, NEW fs, NEW raw, IsOpening(line, i, sep, quote)
  PROVE  AsciiNext(line, sep, quote, AsciiOut(fs, raw), i) = AsciiIn(fs, Append(raw, line[i]))
  BY DEF IsOpening, AsciiNext, AsciiOut, AsciiIn

LEMMA AsciiCopies ==
  ASSUME NEW line, NEW sep, NEW quote, NEW i, NEW fs, NEW raw, line[i] # quote
  PROVE  AsciiNext(line, sep, quote, AsciiIn(fs, raw), i) = AsciiIn(fs, Append(raw, line[i]))
  BY DEF AsciiNext, AsciiIn

LEMMA AsciiSeesTwo ==
  ASSUME NEW line, NEW sep, NEW quote, NEW i, NEW fs, NEW raw, IsDouble(line, i, quote)
  PROVE  AsciiNext(line, sep, quote, AsciiIn(fs, raw), i) = AsciiTwice(fs, Append(raw, line[i]))
  BY DEF IsDouble, AsciiNext, AsciiIn, AsciiTwice

LEMMA AsciiSkips ==
  ASSUME NEW line, NEW sep, NEW quote, NEW i, NEW fs, NEW raw
  PROVE  AsciiNext(line, sep, quote, AsciiTwice(fs, raw), i) = AsciiIn(fs, Append(raw, line[i]))
  BY DEF AsciiNext, AsciiIn, AsciiTwice

LEMMA AsciiCloses ==
  ASSUME NEW line, NEW sep, NEW quote, NEW i, NEW fs, NEW raw, IsClosing(line, i, quote)
  PROVE  AsciiNext(line, sep, quote, AsciiIn(fs, raw), i) = AsciiShut(fs, Append(raw, line[i]))
  BY DEF IsClosing, AsciiNext, AsciiIn, AsciiShut

\* The next field, and what is made of a quoted one
AsciiFresh(fs) == AsciiOut(fs, <<>>)
Extracted(raw, quote) == ExtractField(raw, quote, TRUE)

LEMMA AsciiEnds ==
  ASSUME NEW line, NEW sep, NEW quote, NEW i, NEW fs, NEW raw, line[i] = sep
  PROVE  AsciiNext(line, sep, quote, AsciiOut(fs, raw), i) = AsciiFresh(Append(fs, raw))
  BY DEF AsciiNext, AsciiOut, AsciiFresh, Closed, ExtractField

LEMMA AsciiEndsQuoted ==
  ASSUME NEW line, NEW sep, NEW quote, NEW i, NEW fs, NEW raw, line[i] = sep
  PROVE  AsciiNext(line, sep, quote, AsciiShut(fs, raw), i) = AsciiFresh(Append(fs, Extracted(raw, quote)))
  BY DEF AsciiNext, AsciiOut, AsciiShut, AsciiFresh, Closed, Extracted

(* and those parseLineRune goes through                                    *)
RuneOut(fs, field) == [fields |-> fs, field |-> field, inQ |-> FALSE, skip |-> FALSE]
RuneFresh(fs) == RuneOut(fs, <<>>)
RuneIn(fs, field) == [fields |-> fs, field |-> field, inQ |-> TRUE, skip |-> FALSE]
RuneTwice(fs, field) == [fields |-> fs, field |-> field, inQ |-> TRUE, skip |-> TRUE]

LEMMA RuneTakes ==
  ASSUME NEW line, NEW sep, NEW quote, NEW i, NEW fs, NEW f, IsBare(line, i, sep, quote)
  PROVE  RuneNext(line, sep, quote, RuneOut(fs, f), i) = RuneOut(fs, Append(f, line[i]))
  BY DEF IsBare, RuneNext, RuneOut

LEMMA RuneOpens ==
  ASSUME NEW line, NEW sep, NEW quote, NEW i, NEW fs, NEW f, IsOpening(line, i, sep, quote)
  PROVE  RuneNext(line, sep, quote, RuneOut(fs, f), i) = RuneIn(fs, f)
  BY DEF IsOpening, RuneNext, RuneOut, RuneIn

LEMMA RuneCopies ==
  ASSUME NEW line, NEW sep, NEW quote, NEW i, NEW fs, NEW f, line[i] # quote
  PROVE  RuneNext(line, sep, quote, RuneIn(fs, f), i) = RuneIn(fs, Append(f, line[i]))
  BY DEF RuneNext, RuneIn

LEMMA RuneSeesTwo ==
  ASSUME NEW line, NEW sep, NEW quote, NEW i, NEW fs, NEW f, IsDouble(line, i, quote)
  PROVE  RuneNext(line, sep, quote, RuneIn(fs, f), i) = RuneTwice(fs, Append(f, line[i]))
  BY DEF IsDouble, RuneNext, RuneIn, RuneTwice

LEMMA RuneSkips ==
  ASSUME NEW line, NEW sep, NEW quote, NEW i, NEW fs, NEW f
  PROVE  RuneNext(line, sep, quote, RuneTwice(fs, f), i) = RuneIn(fs, f)
  BY DEF RuneNext, RuneIn, RuneTwice

LEMMA RuneCloses ==
  ASSUME NEW line, NEW sep, NEW quote, NEW i, NEW fs, NEW f, IsClosing(line, i, quote)
  PROVE  RuneNext(line, sep, quote, RuneIn(fs, f), i) = RuneOut(fs, f)
  BY DEF IsClosing, RuneNext, RuneIn, RuneOut

LEMMA RuneEnds ==
  ASSUME NEW line, NEW sep, NEW quote, NEW i, NEW fs, NEW f, line[i] = sep
  PROVE  RuneNext(line, sep, quote, RuneOut(fs, f), i) = RuneFresh(Append(fs, f))
  BY DEF RuneNext, RuneOut, RuneFresh

(* A field somewhere in a line, of which the next one does not begin with  *)
(* a quote                                                                 *)
FieldIsAt(line, p, enc, quote) ==
  /\ IsList(line) /\ IsList(enc) /\ p \in Nat /\ p + Len(enc) <= Len(line)
  /\ \A j \in 1..Len(enc) : line[p + j] = enc[j]
  /\ p + Len(enc) < Len(line) => line[p + Len(enc) + 1] # quote

LEMMA AsciiBare ==
  ASSUME NEW line, NEW sep, NEW quote, NEW p, NEW enc, FieldIsAt(line, p, enc, quote),
         NEW run, IsAsciiRun(run, line, sep, quote), NEW fs, run[p] = AsciiOut(fs, <<>>),
         \A j \in 1..Len(enc) : enc[j] # sep /\ enc[j] # quote
  PROVE  run[p + Len(enc)] = AsciiOut(fs, enc)
  <1>1. PICK n, r : n = Len(enc) /\ r = [e \in 0..n |-> run[p + e]]
    OBVIOUS
  <1>2. n \in Nat /\ IsList(enc) /\ p \in Nat /\ p + n <= Len(line) /\ Len(line) \in Nat
    BY <1>1 DEF FieldIsAt, IsList
  <1> DEFINE S == {e \in 0..n : r[e] = AsciiOut(fs, Begin(enc, e))}
  <1>3. 0 \in S
    <2>1. p + 0 = p /\ 0 \in 0..n
      BY <1>2
    <2>2. r[0] = run[p]
      BY <1>1, <2>1
    <2>3. Begin(enc, 0) = <<>>
      BY <1>2, BeginGrows
    <2>4. QED
      BY <2>1, <2>2, <2>3
  <1>4. ASSUME NEW j \in 0..n-1, j \in S PROVE j+1 \in S
    <2>1. PICK e, t, u, b : e = j + 1 /\ t = Begin(enc, j) /\ u = Begin(enc, e) /\ b = p + e
      OBVIOUS
    <2>2. e \in 1..n /\ e - 1 = j /\ b \in 1..Len(line) /\ b - 1 = p + j /\ e \in 0..n
      BY <1>2, <2>1
    <2>3. run[b] = AsciiNext(line, sep, quote, run[b-1], b)
      BY <2>2 DEF IsAsciiRun
    <2>4. r[j] = run[b-1] /\ r[e] = run[b]
      BY <1>1, <2>1, <2>2
    <2>5. line[b] = enc[e]
      BY <1>1, <2>1, <2>2 DEF FieldIsAt
    <2>6. IsBare(line, b, sep, quote)
      BY <1>1, <2>2, <2>5 DEF IsBare
    <2>7. Append(t, enc[e]) = u
      <3>1. Append(Begin(enc, e - 1), enc[e]) = Begin(enc, e)
        BY <1>1, <1>2, <2>2, BeginGrows
      <3>2. QED
        BY <2>1, <2>2, <3>1
    <2>8. AsciiNext(line, sep, quote, AsciiOut(fs, t), b) = AsciiOut(fs, Append(t, line[b]))
      BY <2>6, AsciiTakes
    <2>9. r[j] = AsciiOut(fs, t)
      BY <1>4, <2>1
    <2>10. r[e] = AsciiOut(fs, u)
      BY <2>3, <2>4, <2>5, <2>7, <2>8, <2>9
    <2>11. j + 1 \in 0..n /\ r[j + 1] = AsciiOut(fs, Begin(enc, j + 1))
      BY <2>1, <2>2, <2>10
    <2>12. QED
      BY <2>11
  <1>5. n \in S
    <2> HIDE DEF S
    <2>1. n \in Int /\ n \in 0..n
      BY <1>2
    <2>2. 0..n \subseteq S
      BY <2>1, <1>3, <1>4, IntervalInduction
    <2>3. QED
      BY <2>1, <2>2
  <1>6. r[n] = run[p + n] /\ r[n] = AsciiOut(fs, Begin(enc, n))
    BY <1>1, <1>2, <1>5
  <1>7. Begin(enc, n) = enc
    BY <1>1, <1>2, BeginGrows
  <1>8. QED
    BY <1>1, <1>6, <1>7

LEMMA AsciiQuoted ==
  ASSUME NEW line, NEW sep, NEW quote, sep # quote, NEW p, NEW s, IsList(s),
         NEW enc, enc = Quoted(s, quote), FieldIsAt(line, p, enc, quote),
         NEW run, IsAsciiRun(run, line, sep, quote), NEW fs, run[p] = AsciiOut(fs, <<>>)
  PROVE  run[p + Len(enc)] = AsciiShut(fs, enc)
  <1>1. PICK n, flat, m : n = Len(s) /\ flat = FlattenSeq(Escaped(s, quote)) /\ m = Len(flat)
    OBVIOUS
  <1>2. PICK off : IsEscaped(flat, s, quote, off)
    <2>1. PICK off : IsEscaped(FlattenSeq(Escaped(s, quote)), s, quote, off)
      BY EscapedPlaces
    <2>2. QED
      BY <1>1, <2>1
  <1>3. IsQuoted(enc, flat, quote)
    BY <1>1, QuotedAtoms
  <1>4. /\ n \in Nat /\ m \in Nat /\ p \in Nat /\ Len(line) \in Nat /\ p + (m + 2) <= Len(line)
        /\ Len(enc) = m + 2 /\ IsList(enc)
    BY <1>1, <1>3 DEF IsQuoted, FieldIsAt, IsList
  <1>5. PICK r : r = [e \in 0..m+2 |-> run[p + e]]
    OBVIOUS
  <1>6. ASSUME NEW e \in 1..m+2
        PROVE  /\ r[e] = AsciiNext(line, sep, quote, r[e-1], p + e)
               /\ line[p + e] = enc[e]
               /\ e < m + 2 => p + e < Len(line) /\ line[(p + e) + 1] = enc[e + 1]
    <2>1. p + e \in 1..Len(line) /\ (p + e) - 1 = p + (e - 1) /\ e \in 0..m+2 /\ e - 1 \in 0..m+2
      BY <1>4
    <2>2. run[p + e] = AsciiNext(line, sep, quote, run[(p + e) - 1], p + e)
      BY <2>1 DEF IsAsciiRun
    <2>3. r[e] = run[p + e] /\ r[e-1] = run[p + (e - 1)]
      BY <1>5, <2>1
    <2>4. \A j \in 1..m+2 : line[p + j] = enc[j]
      BY <1>4 DEF FieldIsAt
    <2>5. e < m + 2 => e + 1 \in 1..m+2 /\ p + (e + 1) = (p + e) + 1 /\ p + e < Len(line)
      BY <1>4
    <2>6. QED
      BY <2>1, <2>2, <2>3, <2>4, <2>5
  <1>7. ASSUME NEW e \in 1..Len(enc)
        PROVE  Append(Begin(enc, e - 1), enc[e]) = Begin(enc, e)
    BY <1>4, BeginGrows
  <1>8. r[1] = AsciiIn(fs, Begin(enc, 1))
    <2>1. 1 \in 1..m+2 /\ 1 - 1 = 0 /\ 0 \in 0..m+2 /\ p + 0 = p
      BY <1>4
    <2>2. r[0] = run[p] /\ r[1] = AsciiNext(line, sep, quote, r[0], p + 1)
      BY <1>5, <1>6, <2>1
    <2>3. line[p + 1] = quote
      <3>1. line[p + 1] = enc[1]
        BY <1>6, <2>1
      <3>2. QED
        BY <1>3, <3>1 DEF IsQuoted
    <2>4. PICK b, z : b = p + 1 /\ z = <<>>
      OBVIOUS
    <2>5. IsOpening(line, b, sep, quote)
      BY <2>3, <2>4 DEF IsOpening
    <2>6. AsciiNext(line, sep, quote, AsciiOut(fs, z), b) = AsciiIn(fs, Append(z, line[b]))
      BY <2>5, AsciiOpens
    <2>7. Append(z, line[b]) = Begin(enc, 1)
      <3>1. Begin(enc, 0) = <<>>
        BY <1>4, BeginGrows
      <3>2. Append(Begin(enc, 0), enc[1]) = Begin(enc, 1)
        BY <1>4, <1>7, <2>1
      <3>3. line[b] = enc[1]
        BY <1>6, <2>1, <2>4
      <3>4. QED
        BY <2>4, <3>1, <3>2, <3>3
    <2>8. QED
      BY <2>2, <2>4, <2>6, <2>7
  <1> DEFINE S == {i \in 0..n : r[off[i] + 1] = AsciiIn(fs, Begin(enc, off[i] + 1))}
  <1>9. 0 \in S
    <2>1. off[0] + 1 = 1 /\ 0 \in 0..n
      BY <1>4, <1>2 DEF IsEscaped
    <2>2. QED
      BY <1>8, <2>1
  <1>10. ASSUME NEW i \in 0..n-1, i \in S PROVE i+1 \in S
    <2>1. PICK k, a : k = i + 1 /\ a = off[i] + 1
      OBVIOUS
    <2>2. k \in 1..n /\ k - 1 = i /\ k \in 0..n /\ off[i] \in 0..m /\ off[k] \in 0..m /\ a \in 1..m+1
      BY <1>1, <1>2, <1>4, <2>1 DEF IsEscaped
    <2>3. PICK x, t, u, b : x = a + 1 /\ t = Begin(enc, off[i] + 1) /\ u = Begin(enc, off[k] + 1) /\ b = p + x
      OBVIOUS
    <2>4. r[a] = AsciiIn(fs, t)
      BY <1>10, <2>1, <2>3
    <2>5. \A j \in 1..m : enc[j + 1] = flat[j]
      BY <1>1, <1>3 DEF IsQuoted
    <2>6. ASSUME s[k] # quote PROVE r[off[k] + 1] = AsciiIn(fs, u)
      <3>1. off[k] = a /\ flat[a] = s[k]
        <4>1. off[k] = off[k-1] + 1 /\ flat[off[k-1] + 1] = s[k]
          BY <1>1, <1>2, <2>2, <2>6 DEF IsEscaped
        <4>2. QED
          BY <2>1, <2>2, <4>1
      <3>2. x \in 1..m+2 /\ x - 1 = a /\ a \in 1..m
        BY <1>4, <2>2, <2>3, <3>1
      <3>3. line[b] = enc[x] /\ enc[x] = s[k] /\ r[x] = AsciiNext(line, sep, quote, r[a], b)
        BY <1>6, <2>3, <2>5, <3>1, <3>2
      <3>4. line[b] # quote
        BY <2>6, <3>3
      <3>5. AsciiNext(line, sep, quote, AsciiIn(fs, t), b) = AsciiIn(fs, Append(t, line[b]))
        BY <3>4, AsciiCopies
      <3>6. Append(t, line[b]) = u
        <4>1. Append(Begin(enc, x - 1), enc[x]) = Begin(enc, x)
          BY <1>4, <1>7, <3>2
        <4>2. t = Begin(enc, x - 1) /\ u = Begin(enc, x)
          BY <2>1, <2>3, <3>1, <3>2
        <4>3. QED
          BY <3>3, <4>1, <4>2
      <3>7. r[x] = AsciiIn(fs, u)
        BY <2>4, <3>3, <3>5, <3>6
      <3>8. QED
        BY <2>3, <3>1, <3>7
    <2>7. ASSUME s[k] = quote PROVE r[off[k] + 1] = AsciiIn(fs, u)
      <3>1. off[k] = a + 1 /\ flat[a] = quote /\ flat[a + 1] = quote
        <4>1. off[k] = off[k-1] + 2 /\ flat[off[k-1] + 1] = quote /\ flat[off[k-1] + 2] = quote
          BY <1>1, <1>2, <2>2, <2>7 DEF IsEscaped
        <4>2. off[k-1] + 2 = a + 1
          BY <2>1, <2>2
        <4>3. QED
          BY <2>1, <2>2, <4>1, <4>2
      <3>2. PICK y, c : y = x + 1 /\ c = p + y
        OBVIOUS
      <3>3. /\ x \in 1..m+2 /\ x - 1 = a /\ a \in 1..m /\ x < m + 2 /\ x \in 1..m
            /\ y \in 1..m+2 /\ y - 1 = x /\ y = off[k] + 1
        BY <1>4, <2>2, <2>3, <3>1, <3>2
      <3>4. /\ enc[x] = quote /\ enc[y] = quote
            /\ r[x] = AsciiNext(line, sep, quote, r[a], b) /\ r[y] = AsciiNext(line, sep, quote, r[x], c)
            /\ line[b] = enc[x] /\ line[c] = enc[y] /\ b < Len(line) /\ line[b + 1] = enc[y]
        BY <1>6, <2>3, <2>5, <3>1, <3>2, <3>3
      <3>5. IsDouble(line, b, quote)
        BY <3>4 DEF IsDouble
      <3>6. AsciiNext(line, sep, quote, AsciiIn(fs, t), b) = AsciiTwice(fs, Append(t, line[b]))
        BY <3>5, AsciiSeesTwo
      <3>7. PICK v : v = Append(t, line[b])
        OBVIOUS
      <3>8. r[x] = AsciiTwice(fs, v)
        BY <2>4, <3>4, <3>6, <3>7
      <3>9. AsciiNext(line, sep, quote, AsciiTwice(fs, v), c) = AsciiIn(fs, Append(v, line[c]))
        BY AsciiSkips
      <3>10. Append(v, line[c]) = u
        <4>1. Append(Begin(enc, x - 1), enc[x]) = Begin(enc, x) /\ Append(Begin(enc, y - 1), enc[y]) = Begin(enc, y)
          BY <1>4, <1>7, <3>3
        <4>2. t = Begin(enc, x - 1) /\ u = Begin(enc, y)
          BY <2>1, <2>3, <3>3
        <4>3. v = Begin(enc, y - 1)
          BY <3>3, <3>4, <3>7, <4>1, <4>2
        <4>4. QED
          BY <3>4, <4>1, <4>2, <4>3
      <3>11. r[y] = AsciiIn(fs, u)
        BY <3>4, <3>8, <3>9, <3>10
      <3>12. QED
        BY <3>3, <3>11
    <2>8. i+1 \in 0..n /\ r[off[i+1] + 1] = AsciiIn(fs, Begin(enc, off[i+1] + 1))
      BY <2>1, <2>2, <2>3, <2>6, <2>7
    <2>9. QED
      BY <2>8
  <1>11. n \in S
    <2> HIDE DEF S
    <2>1. n \in Int /\ n \in 0..n
      BY <1>4
    <2>2. 0..n \subseteq S
      BY <2>1, <1>9, <1>10, IntervalInduction
    <2>3. QED
      BY <2>1, <2>2
  <1>12. PICK b, t : b = p + (m + 2) /\ t = Begin(enc, m + 1)
    OBVIOUS
  <1>13. r[m + 1] = AsciiIn(fs, t)
    <2>1. off[n] = m
      BY <1>1, <1>2 DEF IsEscaped
    <2>2. QED
      BY <1>11, <1>12, <2>1
  <1>14. line[b] = quote
    <2>1. m + 2 \in 1..m+2 /\ enc[m + 2] = quote
      BY <1>1, <1>3, <1>4 DEF IsQuoted
    <2>2. QED
      BY <1>6, <1>12, <2>1
  <1>15. b < Len(line) => line[b + 1] # quote
    <2>1. p + Len(enc) = b
      BY <1>4, <1>12
    <2>2. QED
      BY <2>1 DEF FieldIsAt
  <1>16. AsciiNext(line, sep, quote, AsciiIn(fs, t), b) = AsciiShut(fs, Append(t, line[b]))
    <2>1. IsClosing(line, b, quote)
      BY <1>14, <1>15 DEF IsClosing
    <2>2. QED
      BY <2>1, AsciiCloses
  <1>17. r[m + 2] = AsciiNext(line, sep, quote, r[m + 1], b) /\ r[m + 2] = run[b]
    <2>1. m + 2 \in 1..m+2 /\ (m + 2) - 1 = m + 1 /\ m + 2 \in 0..m+2
      BY <1>4
    <2>2. QED
      BY <1>5, <1>6, <1>12, <2>1
  <1>18. Append(t, line[b]) = enc
    <2>1. m + 2 \in 1..Len(enc) /\ (m + 2) - 1 = m + 1 /\ m + 2 \in 1..m+2
      BY <1>4
    <2>2. Append(Begin(enc, m + 1), enc[m + 2]) = Begin(enc, m + 2)
      BY <1>7, <2>1
    <2>3. Begin(enc, m + 2) = enc
      BY <1>4, BeginGrows
    <2>4. line[b] = enc[m + 2]
      BY <1>6, <1>12, <2>1
    <2>5. QED
      BY <1>12, <2>2, <2>3, <2>4
  <1>19. QED
    BY <1>4, <1>12, <1>13, <1>16, <1>17, <1>18

LEMMA RuneBare ==
  ASSUME NEW line, NEW sep, NEW quote, NEW p, NEW enc, FieldIsAt(line, p, enc, quote),
         NEW run, IsRuneRun(run, line, sep, quote), NEW fs, run[p] = RuneOut(fs, <<>>),
         \A j \in 1..Len(enc) : enc[j] # sep /\ enc[j] # quote
  PROVE  run[p + Len(enc)] = RuneOut(fs, enc)
  <1>1. PICK n, r : n = Len(enc) /\ r = [e \in 0..n |-> run[p + e]]
    OBVIOUS
  <1>2. n \in Nat /\ IsList(enc) /\ p \in Nat /\ p + n <= Len(line) /\ Len(line) \in Nat
    BY <1>1 DEF FieldIsAt, IsList
  <1> DEFINE S == {e \in 0..n : r[e] = RuneOut(fs, Begin(enc, e))}
  <1>3. 0 \in S
    <2>1. p + 0 = p /\ 0 \in 0..n
      BY <1>2
    <2>2. r[0] = run[p]
      BY <1>1, <2>1
    <2>3. Begin(enc, 0) = <<>>
      BY <1>2, BeginGrows
    <2>4. QED
      BY <2>1, <2>2, <2>3
  <1>4. ASSUME NEW j \in 0..n-1, j \in S PROVE j+1 \in S
    <2>1. PICK e, t, u, b : e = j + 1 /\ t = Begin(enc, j) /\ u = Begin(enc, e) /\ b = p + e
      OBVIOUS
    <2>2. e \in 1..n /\ e - 1 = j /\ b \in 1..Len(line) /\ b - 1 = p + j /\ e \in 0..n
      BY <1>2, <2>1
    <2>3. run[b] = RuneNext(line, sep, quote, run[b-1], b)
      BY <2>2 DEF IsRuneRun
    <2>4. r[j] = run[b-1] /\ r[e] = run[b]
      BY <1>1, <2>1, <2>2
    <2>5. line[b] = enc[e]
      BY <1>1, <2>1, <2>2 DEF FieldIsAt
    <2>6. IsBare(line, b, sep, quote)
      BY <1>1, <2>2, <2>5 DEF IsBare
    <2>7. Append(t, enc[e]) = u
      <3>1. Append(Begin(enc, e - 1), enc[e]) = Begin(enc, e)
        BY <1>1, <1>2, <2>2, BeginGrows
      <3>2. QED
        BY <2>1, <2>2, <3>1
    <2>8. RuneNext(line, sep, quote, RuneOut(fs, t), b) = RuneOut(fs, Append(t, line[b]))
      BY <2>6, RuneTakes
    <2>9. r[j] = RuneOut(fs, t)
      BY <1>4, <2>1
    <2>10. r[e] = RuneOut(fs, u)
      BY <2>3, <2>4, <2>5, <2>7, <2>8, <2>9
    <2>11. j + 1 \in 0..n /\ r[j + 1] = RuneOut(fs, Begin(enc, j + 1))
      BY <2>1, <2>2, <2>10
    <2>12. QED
      BY <2>11
  <1>5. n \in S
    <2> HIDE DEF S
    <2>1. n \in Int /\ n \in 0..n
      BY <1>2
    <2>2. 0..n \subseteq S
      BY <2>1, <1>3, <1>4, IntervalInduction
    <2>3. QED
      BY <2>1, <2>2
  <1>6. r[n] = run[p + n] /\ r[n] = RuneOut(fs, Begin(enc, n))
    BY <1>1, <1>2, <1>5
  <1>7. Begin(enc, n) = enc
    BY <1>1, <1>2, BeginGrows
  <1>8. QED
    BY <1>1, <1>6, <1>7

LEMMA RuneQuoted ==
  ASSUME NEW line, NEW sep, NEW quote, sep # quote, NEW p, NEW s, IsList(s),
         NEW enc, enc = Quoted(s, quote), FieldIsAt(line, p, enc, quote),
         NEW run, IsRuneRun(run, line, sep, quote), NEW fs, run[p] = RuneOut(fs, <<>>)
  PROVE  run[p + Len(enc)] = RuneOut(fs, s)
  <1>1. PICK n, flat, m : n = Len(s) /\ flat = FlattenSeq(Escaped(s, quote)) /\ m = Len(flat)
    OBVIOUS
  <1>2. PICK off : IsEscaped(flat, s, quote, off)
    <2>1. PICK off : IsEscaped(FlattenSeq(Escaped(s, quote)), s, quote, off)
      BY EscapedPlaces
    <2>2. QED
      BY <1>1, <2>1
  <1>3. IsQuoted(enc, flat, quote)
    BY <1>1, QuotedAtoms
  <1>4. /\ n \in Nat /\ m \in Nat /\ p \in Nat /\ Len(line) \in Nat /\ p + (m + 2) <= Len(line)
        /\ Len(enc) = m + 2 /\ IsList(enc)
    BY <1>1, <1>3 DEF IsQuoted, FieldIsAt, IsList
  <1>5. PICK r : r = [e \in 0..m+2 |-> run[p + e]]
    OBVIOUS
  <1>6. ASSUME NEW e \in 1..m+2
        PROVE  /\ r[e] = RuneNext(line, sep, quote, r[e-1], p + e)
               /\ line[p + e] = enc[e]
               /\ e < m + 2 => p + e < Len(line) /\ line[(p + e) + 1] = enc[e + 1]
    <2>1. p + e \in 1..Len(line) /\ (p + e) - 1 = p + (e - 1) /\ e \in 0..m+2 /\ e - 1 \in 0..m+2
      BY <1>4
    <2>2. run[p + e] = RuneNext(line, sep, quote, run[(p + e) - 1], p + e)
      BY <2>1 DEF IsRuneRun
    <2>3. r[e] = run[p + e] /\ r[e-1] = run[p + (e - 1)]
      BY <1>5, <2>1
    <2>4. \A j \in 1..m+2 : line[p + j] = enc[j]
      BY <1>4 DEF FieldIsAt
    <2>5. e < m + 2 => e + 1 \in 1..m+2 /\ p + (e + 1) = (p + e) + 1 /\ p + e < Len(line)
      BY <1>4
    <2>6. QED
      BY <2>1, <2>2, <2>3, <2>4, <2>5
  <1>7. ASSUME NEW e \in 1..Len(s)
        PROVE  Append(Begin(s, e - 1), s[e]) = Begin(s, e)
    BY <1>4, BeginGrows
  <1>8. r[1] = RuneIn(fs, <<>>)
    <2>1. 1 \in 1..m+2 /\ 1 - 1 = 0 /\ 0 \in 0..m+2 /\ p + 0 = p
      BY <1>4
    <2>2. r[0] = run[p] /\ r[1] = RuneNext(line, sep, quote, r[0], p + 1)
      BY <1>5, <1>6, <2>1
    <2>3. line[p + 1] = quote
      <3>1. line[p + 1] = enc[1]
        BY <1>6, <2>1
      <3>2. QED
        BY <1>3, <3>1 DEF IsQuoted
    <2>4. PICK b, z : b = p + 1 /\ z = <<>>
      OBVIOUS
    <2>5. IsOpening(line, b, sep, quote)
      BY <2>3, <2>4 DEF IsOpening
    <2>6. RuneNext(line, sep, quote, RuneOut(fs, z), b) = RuneIn(fs, z)
      BY <2>5, RuneOpens
    <2>7. QED
      BY <2>2, <2>4, <2>6
  <1> DEFINE S == {i \in 0..n : r[off[i] + 1] = RuneIn(fs, Begin(s, i))}
  <1>9. 0 \in S
    <2>1. off[0] + 1 = 1 /\ 0 \in 0..n
      BY <1>4, <1>2 DEF IsEscaped
    <2>2. QED
      BY <1>8, <2>1, BeginGrows
  <1>10. ASSUME NEW i \in 0..n-1, i \in S PROVE i+1 \in S
    <2>1. PICK k, a : k = i + 1 /\ a = off[i] + 1
      OBVIOUS
    <2>2. k \in 1..n /\ k - 1 = i /\ k \in 0..n /\ off[i] \in 0..m /\ off[k] \in 0..m /\ a \in 1..m+1
      BY <1>1, <1>2, <1>4, <2>1 DEF IsEscaped
    <2>3. PICK x, t, u, b : x = a + 1 /\ t = Begin(s, i) /\ u = Begin(s, k) /\ b = p + x
      OBVIOUS
    <2>4. r[a] = RuneIn(fs, t)
      BY <1>10, <2>1, <2>3
    <2>5. \A j \in 1..m : enc[j + 1] = flat[j]
      BY <1>1, <1>3 DEF IsQuoted
    <2>6. ASSUME s[k] # quote PROVE r[off[k] + 1] = RuneIn(fs, u)
      <3>1. off[k] = a /\ flat[a] = s[k]
        <4>1. off[k] = off[k-1] + 1 /\ flat[off[k-1] + 1] = s[k]
          BY <1>1, <1>2, <2>2, <2>6 DEF IsEscaped
        <4>2. QED
          BY <2>1, <2>2, <4>1
      <3>2. x \in 1..m+2 /\ x - 1 = a /\ a \in 1..m
        BY <1>4, <2>2, <2>3, <3>1
      <3>3. line[b] = enc[x] /\ enc[x] = s[k] /\ r[x] = RuneNext(line, sep, quote, r[a], b)
        BY <1>6, <2>3, <2>5, <3>1, <3>2
      <3>4. line[b] # quote
        BY <2>6, <3>3
      <3>5. RuneNext(line, sep, quote, RuneIn(fs, t), b) = RuneIn(fs, Append(t, line[b]))
        BY <3>4, RuneCopies
      <3>6. Append(t, line[b]) = u
        BY <1>1, <1>7, <2>2, <2>3, <3>3
      <3>7. r[x] = RuneIn(fs, u)
        BY <2>4, <3>3, <3>5, <3>6
      <3>8. QED
        BY <2>3, <3>1, <3>7
    <2>7. ASSUME s[k] = quote PROVE r[off[k] + 1] = RuneIn(fs, u)
      <3>1. off[k] = a + 1 /\ flat[a] = quote /\ flat[a + 1] = quote
        <4>1. off[k] = off[k-1] + 2 /\ flat[off[k-1] + 1] = quote /\ flat[off[k-1] + 2] = quote
          BY <1>1, <1>2, <2>2, <2>7 DEF IsEscaped
        <4>2. off[k-1] + 2 = a + 1
          BY <2>1, <2>2
        <4>3. QED
          BY <2>1, <2>2, <4>1, <4>2
      <3>2. PICK y, c : y = x + 1 /\ c = p + y
        OBVIOUS
      <3>3. /\ x \in 1..m+2 /\ x - 1 = a /\ a \in 1..m /\ x < m + 2 /\ x \in 1..m
            /\ y \in 1..m+2 /\ y - 1 = x /\ y = off[k] + 1
        BY <1>4, <2>2, <2>3, <3>1, <3>2
      <3>4. /\ enc[x] = quote /\ enc[y] = quote
            /\ r[x] = RuneNext(line, sep, quote, r[a], b) /\ r[y] = RuneNext(line, sep, quote, r[x], c)
            /\ line[b] = enc[x] /\ line[c] = enc[y] /\ b < Len(line) /\ line[b + 1] = enc[y]
        BY <1>6, <2>3, <2>5, <3>1, <3>2, <3>3
      <3>5. IsDouble(line, b, quote)
        BY <3>4 DEF IsDouble
      <3>6. RuneNext(line, sep, quote, RuneIn(fs, t), b) = RuneTwice(fs, Append(t, line[b]))
        BY <3>5, RuneSeesTwo
      <3>7. PICK v : v = Append(t, line[b])
        OBVIOUS
      <3>8. r[x] = RuneTwice(fs, v)
        BY <2>4, <3>4, <3>6, <3>7
      <3>9. RuneNext(line, sep, quote, RuneTwice(fs, v), c) = RuneIn(fs, v)
        BY RuneSkips
      <3>10. v = u
        BY <1>1, <1>7, <2>2, <2>3, <2>7, <3>4, <3>7
      <3>11. r[y] = RuneIn(fs, u)
        BY <3>4, <3>8, <3>9, <3>10
      <3>12. QED
        BY <3>3, <3>11
    <2>8. i+1 \in 0..n /\ r[off[i+1] + 1] = RuneIn(fs, Begin(s, i+1))
      BY <2>1, <2>2, <2>3, <2>6, <2>7
    <2>9. QED
      BY <2>8
  <1>11. n \in S
    <2> HIDE DEF S
    <2>1. n \in Int /\ n \in 0..n
      BY <1>4
    <2>2. 0..n \subseteq S
      BY <2>1, <1>9, <1>10, IntervalInduction
    <2>3. QED
      BY <2>1, <2>2
  <1>12. PICK b, t : b = p + (m + 2) /\ t = Begin(s, n)
    OBVIOUS
  <1>13. r[m + 1] = RuneIn(fs, t)
    <2>1. off[n] = m
      BY <1>1, <1>2 DEF IsEscaped
    <2>2. QED
      BY <1>11, <1>12, <2>1
  <1>14. line[b] = quote
    <2>1. m + 2 \in 1..m+2 /\ enc[m + 2] = quote
      BY <1>1, <1>3, <1>4 DEF IsQuoted
    <2>2. QED
      BY <1>6, <1>12, <2>1
  <1>15. b < Len(line) => line[b + 1] # quote
    <2>1. p + Len(enc) = b
      BY <1>4, <1>12
    <2>2. QED
      BY <2>1 DEF FieldIsAt
  <1>16. RuneNext(line, sep, quote, RuneIn(fs, t), b) = RuneOut(fs, t)
    <2>1. IsClosing(line, b, quote)
      BY <1>14, <1>15 DEF IsClosing
    <2>2. QED
      BY <2>1, RuneCloses
  <1>17. r[m + 2] = RuneNext(line, sep, quote, r[m + 1], b) /\ r[m + 2] = run[b]
    <2>1. m + 2 \in 1..m+2 /\ (m + 2) - 1 = m + 1 /\ m + 2 \in 0..m+2
      BY <1>4
    <2>2. QED
      BY <1>5, <1>6, <1>12, <2>1
  <1>18. t = s
    BY <1>1, <1>12, BeginGrows
  <1>19. QED
    BY <1>4, <1>12, <1>13, <1>16, <1>17, <1>18

(* What quoteField makes of a text                                         *)
LEMMA QuotedField ==
  ASSUME NEW s, IsList(s), NEW sep, NEW quote
  PROVE  /\ IsList(QuoteField(s, sep, quote))
         /\ \/ /\ QuoteField(s, sep, quote) = s
               /\ \A j \in 1..Len(s) : s[j] \notin {sep, quote, NewLine, CR}
            \/ QuoteField(s, sep, quote) = Quoted(s, quote)
  <1>1. CASE ToSet(s) \cap {sep, quote, NewLine, CR} = {}
    <2>1. QuoteField(s, sep, quote) = s
      BY <1>1 DEF QuoteField
    <2>2. \A j \in 1..Len(s) : s[j] \in ToSet(s)
      BY DEF ToSet, IsList
    <2>3. QED
      BY <1>1, <2>1, <2>2
  <1>2. CASE ~(ToSet(s) \cap {sep, quote, NewLine, CR} = {})
    <2>1. QuoteField(s, sep, quote) = Quoted(s, quote)
      BY <1>2 DEF QuoteField
    <2>2. IsQuoted(Quoted(s, quote), FlattenSeq(Escaped(s, quote)), quote)
      BY QuotedAtoms
    <2>3. QED
      BY <2>1, <2>2 DEF IsQuoted
  <1>3. QED
    BY <1>1, <1>2

IsTexts(texts) == IsList(texts) /\ texts # <<>> /\ \A k \in 1..Len(texts) : IsList(texts[k])

Pieces(texts, sep, quote) ==
  [i \in DOMAIN texts |-> IF i = 1 THEN QuoteField(texts[i], sep, quote)
                          ELSE <<sep>> \o QuoteField(texts[i], sep, quote)]

(* Where the fields of a line begin                                        *)
IsLine(line, texts, sep, quote, beg) ==
  /\ IsList(line) /\ beg[1] = 0
  /\ \A k \in 1..Len(texts) :
       FieldIsAt(line, beg[k], QuoteField(texts[k], sep, quote), quote)
  /\ \A k \in 1..Len(texts)-1 :
       /\ beg[k+1] = beg[k] + Len(QuoteField(texts[k], sep, quote)) + 1
       /\ beg[k+1] \in 1..Len(line) /\ line[beg[k+1]] = sep
  /\ beg[Len(texts)] + Len(QuoteField(texts[Len(texts)], sep, quote)) = Len(line)

LEMMA PiecePlaces ==
  ASSUME NEW texts, IsTexts(texts), NEW sep, NEW quote, sep # quote
  PROVE  \E beg : IsLine(FlattenSeq(Pieces(texts, sep, quote)), texts, sep, quote, beg)
  <1>1. PICK ss, n, enc : /\ ss = Pieces(texts, sep, quote) /\ n = Len(texts)
                          /\ enc = [k \in 1..n |-> QuoteField(texts[k], sep, quote)]
    OBVIOUS
  <1>2. n \in Nat \ {0} /\ DOMAIN texts = 1..n
    BY <1>1 DEF IsTexts, IsList
  <1>3. DOMAIN ss = 1..n /\ ss = [k \in 1..n |-> ss[k]]
    BY <1>1, <1>2 DEF Pieces
  <1>4. ASSUME NEW k \in 1..n PROVE IsList(enc[k]) /\ Len(enc[k]) \in Nat
    <2>1. IsList(texts[k])
      BY <1>1 DEF IsTexts
    <2>2. IsList(QuoteField(texts[k], sep, quote))
      BY <2>1, QuotedField
    <2>3. QED
      BY <1>1, <2>2 DEF IsList
  <1>5. ss[1] = enc[1]
    BY <1>1, <1>2 DEF Pieces
  <1>6. ASSUME NEW k \in 2..n
        PROVE  /\ IsList(ss[k]) /\ Len(ss[k]) = 1 + Len(enc[k]) /\ ss[k][1] = sep
               /\ \A j \in 1..Len(enc[k]) : ss[k][1 + j] = enc[k][j]
    <2>1. PICK q, e : q = <<sep>> /\ e = enc[k]
      OBVIOUS
    <2>2. q \in Seq({sep}) /\ Len(q) = 1 /\ q[1] = sep
      BY <2>1
    <2>3. PICK T : T = {sep}
      OBVIOUS
    <2>4. IsList(q)
      BY <2>2, <2>3, SeqIsList
    <2>5. k \in 1..n /\ k # 1
      BY <1>2
    <2>6. IsList(e)
      BY <1>4, <2>1, <2>5
    <2>7. /\ IsList(q \o e) /\ Len(q \o e) = Len(q) + Len(e)
          /\ \A j \in 1..Len(q) : (q \o e)[j] = q[j]
          /\ \A j \in 1..Len(e) : (q \o e)[Len(q) + j] = e[j]
      BY <2>4, <2>6, ListsConcat
    <2>8. ss[k] = q \o e
      BY <1>1, <1>2, <2>1, <2>5 DEF Pieces
    <2>9. QED
      BY <2>1, <2>2, <2>7, <2>8
  <1>7. ASSUME NEW k \in 1..n PROVE IsList(ss[k])
    <2>1. k = 1 \/ k \in 2..n
      BY <1>2
    <2>2. QED
      BY <1>4, <1>5, <1>6, <2>1
  <1>8. PICK off : ListsAt(ss, n, off)
    BY <1>2, <1>3, <1>7, LengthsAdd
  <1>9. PICK line : line = FlattenSeq(ss)
    OBVIOUS
  <1>10. Flattened(line, ss, off, n)
    BY <1>8, <1>9, FlattenPlaces
  <1>11. /\ off[0] = 0 /\ Len(line) = off[n] /\ IsList(line)
         /\ \A k \in 0..n : off[k] \in Nat /\ off[k] <= off[n]
         /\ \A k \in 1..n : off[k] = off[k-1] + Len(ss[k])
         /\ \A k \in 1..n : \A j \in 1..Len(ss[k]) : line[off[k-1] + j] = ss[k][j]
    BY <1>8, <1>10 DEF ListsAt, Flattened
  <1>12. PICK beg : beg = [k \in 1..n |-> IF k = 1 THEN 0 ELSE off[k-1] + 1]
    OBVIOUS
  <1>13. ASSUME NEW k \in 1..n
         PROVE  /\ beg[k] \in Nat /\ beg[k] + Len(enc[k]) = off[k] /\ off[k] \in Nat /\ off[k] <= Len(line)
                /\ \A j \in 1..Len(enc[k]) : line[beg[k] + j] = enc[k][j]
    <2>1. /\ k \in 0..n /\ k - 1 \in 0..n /\ off[k] \in Nat /\ off[k] <= Len(line)
          /\ off[k] = off[k-1] + Len(ss[k]) /\ off[k-1] \in Nat
      BY <1>2, <1>11
    <2>2. \A j \in 1..Len(ss[k]) : line[off[k-1] + j] = ss[k][j]
      BY <1>11
    <2>3. CASE k = 1
      <3>1. beg[k] = 0 /\ off[k-1] = 0 /\ ss[k] = enc[k]
        BY <1>5, <1>11, <1>12, <2>3
      <3>2. QED
        BY <1>4, <2>1, <2>2, <3>1
    <2>4. CASE k # 1
      <3>1. k \in 2..n
        BY <2>4
      <3>2. /\ Len(ss[k]) = 1 + Len(enc[k]) /\ \A j \in 1..Len(enc[k]) : ss[k][1 + j] = enc[k][j]
            /\ Len(enc[k]) \in Nat
        BY <1>4, <1>6, <3>1
      <3>3. beg[k] = off[k-1] + 1
        BY <1>12, <2>4
      <3>4. ASSUME NEW j \in 1..Len(enc[k]) PROVE line[beg[k] + j] = enc[k][j]
        <4>1. 1 + j \in 1..Len(ss[k]) /\ beg[k] + j = off[k-1] + (1 + j)
          <5>1. PICK o, l, w, b : o = off[k-1] /\ l = Len(enc[k]) /\ w = Len(ss[k]) /\ b = beg[k]
            OBVIOUS
          <5>2. o \in Nat /\ l \in Nat /\ w = 1 + l /\ b = o + 1 /\ j \in 1..l
            BY <2>1, <3>2, <3>3, <5>1
          <5>3. 1 + j \in 1..w /\ b + j = o + (1 + j)
            BY <5>2
          <5>4. QED
            BY <5>1, <5>3
        <4>2. line[off[k-1] + (1 + j)] = ss[k][1 + j]
          BY <2>2, <4>1
        <4>3. QED
          BY <3>2, <4>1, <4>2
      <3>5. beg[k] \in Nat /\ beg[k] + Len(enc[k]) = off[k]
        <4>1. PICK o, l : o = off[k-1] /\ l = Len(enc[k])
          OBVIOUS
        <4>2. o \in Nat /\ l \in Nat /\ off[k] = o + (1 + l) /\ beg[k] = o + 1
          BY <2>1, <3>2, <3>3, <4>1
        <4>3. QED
          BY <4>1, <4>2
      <3>6. QED
        BY <2>1, <3>4, <3>5
    <2>5. QED
      BY <2>3, <2>4
  <1>14. ASSUME NEW k \in 1..n-1
         PROVE  /\ beg[k+1] = off[k] + 1 /\ off[k] + 1 \in 1..Len(line) /\ line[off[k] + 1] = sep
    <2>1. k + 1 \in 2..n /\ k + 1 # 1 /\ k + 1 \in 1..n /\ (k + 1) - 1 = k /\ k \in 0..n /\ k \in 1..n
      BY <1>2
    <2>2. beg[k+1] = off[k] + 1
      BY <1>12, <2>1
    <2>3. Len(ss[k+1]) = 1 + Len(enc[k+1]) /\ ss[k+1][1] = sep /\ Len(enc[k+1]) \in Nat
      BY <1>4, <1>6, <2>1
    <2>4. off[k+1] = off[k] + Len(ss[k+1])
      BY <1>11, <2>1
    <2>5. off[k+1] <= Len(line) /\ off[k] \in Nat /\ off[k+1] \in Nat
      BY <1>13, <2>1
    <2>6. 1 \in 1..Len(ss[k+1])
      BY <2>3
    <2>7. line[off[k] + 1] = ss[k+1][1]
      BY <1>11, <2>1, <2>6
    <2>8. off[k] + 1 \in 1..Len(line)
      BY <1>11, <2>3, <2>4, <2>5 DEF IsList
    <2>9. QED
      BY <2>2, <2>3, <2>7, <2>8
  <1>15. ASSUME NEW k \in 1..n PROVE FieldIsAt(line, beg[k], enc[k], quote)
    <2>1. PICK p, e : p = beg[k] /\ e = enc[k]
      OBVIOUS
    <2>2. p \in Nat /\ p + Len(e) = off[k] /\ p + Len(e) <= Len(line) /\ \A j \in 1..Len(e) : line[p + j] = e[j]
      BY <1>13, <2>1
    <2>3. p + Len(e) < Len(line) => line[p + Len(e) + 1] # quote
      <3>1. CASE k = n
        BY <1>11, <2>2, <3>1
      <3>2. CASE k # n
        <4>1. k \in 1..n-1
          BY <1>2, <3>2
        <4>2. line[off[k] + 1] = sep
          BY <1>14, <4>1
        <4>3. QED
          BY <2>2, <4>2
      <3>3. QED
        BY <3>1, <3>2
    <2>4. IsList(line) /\ IsList(e)
      BY <1>4, <1>11, <2>1
    <2>5. FieldIsAt(line, p, e, quote)
      BY <2>2, <2>3, <2>4 DEF FieldIsAt
    <2>6. QED
      BY <2>1, <2>5
  <1>16. \A k \in 1..n : QuoteField(texts[k], sep, quote) = enc[k]
    BY <1>1
  <1>17. IsLine(line, texts, sep, quote, beg)
    <2>1. n \in 1..n /\ 1 \in 1..n
      BY <1>2
    <2>2. beg[n] + Len(enc[n]) = Len(line) /\ beg[1] = 0
      BY <1>11, <1>12, <1>13, <2>1
    <2>3. \A k \in 1..n-1 : k \in 1..n
      BY <1>2
    <2>4. \A k \in 1..n-1 : /\ beg[k+1] = beg[k] + Len(enc[k]) + 1
                            /\ beg[k+1] \in 1..Len(line) /\ line[beg[k+1]] = sep
      BY <1>13, <1>14, <2>3
    <2>5. QED
      BY <1>1, <1>11, <1>15, <1>16, <2>1, <2>2, <2>3, <2>4 DEF IsLine
  <1>18. QED
    BY <1>1, <1>9, <1>17

(* One field, as either parser reads it                                    *)
AsciiReads(x, line, sep, quote, fs) ==
  /\ Closed(quote, x) = fs
  /\ \A i : line[i] = sep => AsciiNext(line, sep, quote, x, i) = AsciiFresh(fs)

LEMMA AsciiField ==
  ASSUME NEW line, NEW sep, NEW quote, sep # quote, NEW p, NEW s, IsList(s),
         NEW enc, enc = QuoteField(s, sep, quote), FieldIsAt(line, p, enc, quote),
         NEW run, IsAsciiRun(run, line, sep, quote), NEW fs, run[p] = AsciiFresh(fs)
  PROVE  AsciiReads(run[p + Len(enc)], line, sep, quote, Append(fs, s))
  <1> run[p] = AsciiOut(fs, <<>>)
    BY DEF AsciiFresh
  <1>1. PICK x : x = run[p + Len(enc)]
    OBVIOUS
  <1>2. CASE enc = s /\ \A j \in 1..Len(s) : s[j] \notin {sep, quote, NewLine, CR}
    <2>1. \A j \in 1..Len(enc) : enc[j] # sep /\ enc[j] # quote
      BY <1>2
    <2>2. run[p + Len(enc)] = AsciiOut(fs, enc)
      BY <2>1, AsciiBare
    <2>3. x = AsciiOut(fs, s)
      BY <1>1, <1>2, <2>2
    <2>4. Closed(quote, x) = Append(fs, s)
      BY <2>3 DEF Closed, AsciiOut, ExtractField
    <2>5. \A i : line[i] = sep => AsciiNext(line, sep, quote, AsciiOut(fs, s), i) = AsciiFresh(Append(fs, s))
      BY AsciiEnds
    <2>6. QED
      BY <1>1, <2>3, <2>4, <2>5 DEF AsciiReads
  <1>3. CASE enc = Quoted(s, quote)
    <2>1. run[p + Len(enc)] = AsciiShut(fs, enc)
      BY <1>3, AsciiQuoted
    <2>2. x = AsciiShut(fs, enc)
      BY <1>1, <2>1
    <2>3. Extracted(enc, quote) = s
      <3>1. ExtractField(Quoted(s, quote), quote, TRUE) = s
        BY ExtractQuoted
      <3>2. QED
        BY <1>3, <3>1 DEF Extracted
    <2>4. Closed(quote, x) = Append(fs, s)
      BY <2>2, <2>3 DEF Closed, AsciiShut, Extracted
    <2>5. \A i : line[i] = sep => AsciiNext(line, sep, quote, AsciiShut(fs, enc), i) =
                                   AsciiFresh(Append(fs, Extracted(enc, quote)))
      BY AsciiEndsQuoted
    <2>6. QED
      BY <1>1, <2>2, <2>3, <2>4, <2>5 DEF AsciiReads
  <1>4. QED
    <2>1. \/ /\ QuoteField(s, sep, quote) = s
             /\ \A j \in 1..Len(s) : s[j] \notin {sep, quote, NewLine, CR}
          \/ QuoteField(s, sep, quote) = Quoted(s, quote)
      BY QuotedField
    <2>2. QED
      BY <1>2, <1>3, <2>1

LEMMA RuneField ==
  ASSUME NEW line, NEW sep, NEW quote, sep # quote, NEW p, NEW s, IsList(s),
         NEW enc, enc = QuoteField(s, sep, quote), FieldIsAt(line, p, enc, quote),
         NEW run, IsRuneRun(run, line, sep, quote), NEW fs, run[p] = RuneFresh(fs)
  PROVE  run[p + Len(enc)] = RuneOut(fs, s)
  <1>0. run[p] = RuneOut(fs, <<>>)
    BY DEF RuneFresh
  <1>1. CASE enc = s /\ \A j \in 1..Len(s) : s[j] \notin {sep, quote, NewLine, CR}
    <2>1. \A j \in 1..Len(enc) : enc[j] # sep /\ enc[j] # quote
      BY <1>1
    <2>2. run[p + Len(enc)] = RuneOut(fs, enc)
      BY <1>0, <2>1, RuneBare
    <2>3. QED
      BY <1>1, <2>2
  <1>2. CASE enc = Quoted(s, quote)
    BY <1>0, <1>2, RuneQuoted
  <1>3. QED
    <2>1. \/ /\ QuoteField(s, sep, quote) = s
             /\ \A j \in 1..Len(s) : s[j] \notin {sep, quote, NewLine, CR}
          \/ QuoteField(s, sep, quote) = Quoted(s, quote)
      BY QuotedField
    <2>2. QED
      BY <1>1, <1>2, <2>1

(* Either parser finds the fields of a line that was written.              *)
LEMMA AsciiFindsFields ==
  ASSUME NEW texts, IsTexts(texts), NEW sep, NEW quote, sep # quote,
         NEW line, NEW beg, IsLine(line, texts, sep, quote, beg)
  PROVE  ParseLineASCII(line, sep, quote) = texts
  <1>1. PICK n, m, A, enc : /\ n = Len(texts) /\ m = Len(line) /\ A = ElementsOf(line)
                            /\ enc = [k \in 1..n |-> QuoteField(texts[k], sep, quote)]
    OBVIOUS
  <1>2. n \in Nat \ {0} /\ m \in Nat /\ IsList(line) /\ IsList(texts)
    BY <1>1 DEF IsTexts, IsLine, IsList
  <1>3. line \in Seq(A)
    BY <1>1, <1>2, ListIsSeq
  <1>4. PICK run : IsAsciiRun(run, line, sep, quote)
    BY <1>3, AsciiRun
  <1>5. /\ run[0] = AsciiStart
        /\ \A k \in 1 .. m : run[k] = AsciiNext(line, sep, quote, run[k-1], k)
        /\ ParseLineASCII(line, sep, quote) = Closed(quote, run[m])
    BY <1>1, <1>4 DEF IsAsciiRun
  <1>6. /\ beg[1] = 0 /\ beg[n] + Len(enc[n]) = m
        /\ \A k \in 1..n : FieldIsAt(line, beg[k], enc[k], quote)
        /\ \A k \in 1..n-1 : /\ beg[k+1] = beg[k] + Len(enc[k]) + 1
                              /\ beg[k+1] \in 1..m /\ line[beg[k+1]] = sep
    <2>1. n \in 1..n /\ \A k \in 1..n-1 : k \in 1..n
      BY <1>2
    <2>2. \A k \in 1..n : enc[k] = QuoteField(texts[k], sep, quote)
      BY <1>1
    <2>3. QED
      BY <1>1, <2>1, <2>2 DEF IsLine
  <1>7. ASSUME NEW k \in 1..n, run[beg[k]] = AsciiFresh(Begin(texts, k - 1))
        PROVE  AsciiReads(run[beg[k] + Len(enc[k])], line, sep, quote, Begin(texts, k))
    <2>1. PICK fs, p, e, s : fs = Begin(texts, k - 1) /\ p = beg[k] /\ e = enc[k] /\ s = texts[k]
      OBVIOUS
    <2>2. IsList(s)
      BY <1>1, <2>1 DEF IsTexts
    <2>3. e = QuoteField(s, sep, quote)
      BY <1>1, <2>1
    <2>4. FieldIsAt(line, p, e, quote)
      BY <1>6, <2>1
    <2>5. run[p] = AsciiFresh(fs)
      BY <1>7, <2>1
    <2>6. AsciiReads(run[p + Len(e)], line, sep, quote, Append(fs, s))
      BY <1>4, <2>2, <2>3, <2>4, <2>5, AsciiField
    <2>7. Append(fs, s) = Begin(texts, k)
      <3>1. Append(Begin(texts, k - 1), texts[k]) = Begin(texts, k)
        BY <1>1, <1>2, BeginGrows
      <3>2. QED
        BY <2>1, <3>1
    <2>8. QED
      BY <2>1, <2>6, <2>7
  <1> DEFINE S == {k \in 1..n : run[beg[k]] = AsciiFresh(Begin(texts, k - 1))}
  <1>8. 1 \in S
    <2>1. Begin(texts, 0) = <<>> /\ 1 - 1 = 0 /\ 1 \in 1..n
      BY <1>2, BeginGrows
    <2>2. AsciiStart = AsciiFresh(<<>>)
      BY DEF AsciiStart, AsciiFresh, AsciiOut
    <2>3. QED
      BY <1>5, <1>6, <2>1, <2>2
  <1>9. ASSUME NEW k \in 1..n-1, k \in S PROVE k+1 \in S
    <2>1. k \in 1..n /\ k + 1 \in 1..n /\ (k + 1) - 1 = k
      BY <1>2
    <2>2. PICK b, a : b = beg[k+1] /\ a = beg[k] + Len(enc[k])
      OBVIOUS
    <2>3. b \in 1..m /\ line[b] = sep /\ b = a + 1
      BY <1>6, <2>2
    <2>4. a \in Nat /\ b - 1 = a
      <3>1. FieldIsAt(line, beg[k], enc[k], quote)
        BY <1>6, <2>1
      <3>2. beg[k] \in Nat /\ Len(enc[k]) \in Nat
        BY <3>1 DEF FieldIsAt, IsList
      <3>3. QED
        BY <2>2, <2>3, <3>2
    <2>5. run[b] = AsciiNext(line, sep, quote, run[a], b)
      BY <1>5, <2>3, <2>4
    <2>6. AsciiNext(line, sep, quote, run[a], b) = AsciiFresh(Begin(texts, k))
      BY <1>7, <1>9, <2>1, <2>2, <2>3 DEF AsciiReads
    <2>7. QED
      BY <2>1, <2>2, <2>5, <2>6
  <1>10. n \in S
    <2> HIDE DEF S
    <2>1. n \in Int /\ n \in 1..n
      BY <1>2
    <2>2. 1..n \subseteq S
      BY <2>1, <1>8, <1>9, IntervalInduction
    <2>3. QED
      BY <2>1, <2>2
  <1>11. Closed(quote, run[m]) = Begin(texts, n)
    BY <1>6, <1>7, <1>10 DEF AsciiReads
  <1>12. Begin(texts, n) = texts
    BY <1>1, <1>2, BeginGrows
  <1>13. QED
    BY <1>5, <1>11, <1>12

(* The general parser finds the fields that were written.                  *)
LEMMA RuneFindsFields ==
  ASSUME NEW texts, IsTexts(texts), NEW sep, NEW quote, sep # quote,
         NEW line, NEW beg, IsLine(line, texts, sep, quote, beg)
  PROVE  ParseLineRune(line, sep, quote) = texts
  <1>1. PICK n, m, A, enc : /\ n = Len(texts) /\ m = Len(line) /\ A = ElementsOf(line)
                            /\ enc = [k \in 1..n |-> QuoteField(texts[k], sep, quote)]
    OBVIOUS
  <1>2. n \in Nat \ {0} /\ m \in Nat /\ IsList(line) /\ IsList(texts)
    BY <1>1 DEF IsTexts, IsLine, IsList
  <1>3. line \in Seq(A)
    BY <1>1, <1>2, ListIsSeq
  <1>4. PICK run : IsRuneRun(run, line, sep, quote)
    BY <1>3, RuneRun
  <1>5. /\ run[0] = RuneStart
        /\ \A k \in 1 .. m : run[k] = RuneNext(line, sep, quote, run[k-1], k)
        /\ ParseLineRune(line, sep, quote) = Append(run[m].fields, run[m].field)
    BY <1>1, <1>4 DEF IsRuneRun
  <1>6. /\ beg[1] = 0 /\ beg[n] + Len(enc[n]) = m
        /\ \A k \in 1..n : FieldIsAt(line, beg[k], enc[k], quote)
        /\ \A k \in 1..n-1 : /\ beg[k+1] = beg[k] + Len(enc[k]) + 1
                              /\ beg[k+1] \in 1..m /\ line[beg[k+1]] = sep
    <2>1. n \in 1..n /\ \A k \in 1..n-1 : k \in 1..n
      BY <1>2
    <2>2. \A k \in 1..n : enc[k] = QuoteField(texts[k], sep, quote)
      BY <1>1
    <2>3. QED
      BY <1>1, <2>1, <2>2 DEF IsLine
  <1>7. ASSUME NEW k \in 1..n, run[beg[k]] = RuneFresh(Begin(texts, k - 1))
        PROVE  run[beg[k] + Len(enc[k])] = RuneOut(Begin(texts, k - 1), texts[k])
    <2>1. PICK fs, p, e, s : fs = Begin(texts, k - 1) /\ p = beg[k] /\ e = enc[k] /\ s = texts[k]
      OBVIOUS
    <2>2. IsList(s)
      BY <1>1, <2>1 DEF IsTexts
    <2>3. e = QuoteField(s, sep, quote)
      BY <1>1, <2>1
    <2>4. FieldIsAt(line, p, e, quote)
      BY <1>6, <2>1
    <2>5. run[p] = RuneFresh(fs)
      BY <1>7, <2>1
    <2>6. run[p + Len(e)] = RuneOut(fs, s)
      BY <1>4, <2>2, <2>3, <2>4, <2>5, RuneField
    <2>7. QED
      BY <2>1, <2>6
  <1>14. \A k \in 1..n : Append(Begin(texts, k - 1), texts[k]) = Begin(texts, k)
    BY <1>1, <1>2, BeginGrows
  <1> DEFINE S == {k \in 1..n : run[beg[k]] = RuneFresh(Begin(texts, k - 1))}
  <1>8. 1 \in S
    <2>1. Begin(texts, 0) = <<>> /\ 1 - 1 = 0 /\ 1 \in 1..n
      BY <1>2, BeginGrows
    <2>2. RuneStart = RuneFresh(<<>>)
      BY DEF RuneStart, RuneFresh, RuneOut
    <2>3. QED
      BY <1>5, <1>6, <2>1, <2>2
  <1>9. ASSUME NEW k \in 1..n-1, k \in S PROVE k+1 \in S
    <2>1. k \in 1..n /\ k + 1 \in 1..n /\ (k + 1) - 1 = k
      BY <1>2
    <2>2. PICK b, a : b = beg[k+1] /\ a = beg[k] + Len(enc[k])
      OBVIOUS
    <2>3. b \in 1..m /\ line[b] = sep /\ b = a + 1
      BY <1>6, <2>2
    <2>4. a \in Nat /\ b - 1 = a
      <3>1. FieldIsAt(line, beg[k], enc[k], quote)
        BY <1>6, <2>1
      <3>2. beg[k] \in Nat /\ Len(enc[k]) \in Nat
        BY <3>1 DEF FieldIsAt, IsList
      <3>3. QED
        BY <2>2, <2>3, <3>2
    <2>5. run[b] = RuneNext(line, sep, quote, run[a], b)
      BY <1>5, <2>3, <2>4
    <2>6. RuneNext(line, sep, quote, run[a], b) = RuneFresh(Begin(texts, k))
      <3>1. PICK fs, f : fs = Begin(texts, k - 1) /\ f = texts[k]
        OBVIOUS
      <3>2. run[a] = RuneOut(fs, f)
        BY <1>7, <1>9, <2>1, <2>2, <3>1
      <3>3. RuneNext(line, sep, quote, RuneOut(fs, f), b) = RuneFresh(Append(fs, f))
        BY <2>3, RuneEnds
      <3>4. Append(fs, f) = Begin(texts, k)
        BY <1>14, <2>1, <3>1
      <3>5. QED
        BY <3>2, <3>3, <3>4
    <2>7. QED
      BY <2>1, <2>2, <2>5, <2>6
  <1>10. n \in S
    <2> HIDE DEF S
    <2>1. n \in Int /\ n \in 1..n
      BY <1>2
    <2>2. 1..n \subseteq S
      BY <2>1, <1>8, <1>9, IntervalInduction
    <2>3. QED
      BY <2>1, <2>2
  <1>11. Append(run[m].fields, run[m].field) = Begin(texts, n)
    <2>1. run[m] = RuneOut(Begin(texts, n - 1), texts[n])
      BY <1>6, <1>7, <1>10
    <2>2. run[m].fields = Begin(texts, n - 1) /\ run[m].field = texts[n]
      BY <2>1 DEF RuneOut
    <2>3. Append(Begin(texts, n - 1), texts[n]) = Begin(texts, n)
      BY <1>10, <1>14
    <2>4. QED
      BY <2>2, <2>3
  <1>12. Begin(texts, n) = texts
    BY <1>1, <1>2, BeginGrows
  <1>13. QED
    BY <1>5, <1>11, <1>12

LEMMA WrittenLineParses ==
  ASSUME NEW texts, IsTexts(texts), NEW sep, NEW quote, sep # quote
  PROVE  ParseLine(FlattenSeq(Pieces(texts, sep, quote)), sep, quote) = texts
  <1>1. PICK line : line = FlattenSeq(Pieces(texts, sep, quote))
    OBVIOUS
  <1>2. PICK beg : IsLine(line, texts, sep, quote, beg)
    <2>1. \E beg : IsLine(FlattenSeq(Pieces(texts, sep, quote)), texts, sep, quote, beg)
      BY PiecePlaces
    <2>2. QED
      BY <1>1, <2>1
  <1>3. ParseLineASCII(line, sep, quote) = texts
    BY <1>2, AsciiFindsFields
  <1>4. ParseLineRune(line, sep, quote) = texts
    BY <1>2, RuneFindsFields
  <1>5. QED
    BY <1>1, <1>3, <1>4 DEF ParseLine

-----------------------------------------------------------------------------
(* The lines of a file that was written                                    *)

(* Lists of some elements, one after the other                             *)
LEMMA FlattenStays ==
  ASSUME NEW T, NEW n \in Nat, NEW ss \in [1..n -> Seq(T)]
  PROVE  FlattenSeq(ss) \in Seq(T)
  <1>1. PICK R : R = T \X T
    OBVIOUS
  <1>2. ASSUME NEW i \in 1..n PROVE \A k \in DOMAIN ss[i] : ss[i][k] \in T
    <2>1. PICK s : s = ss[i]
      OBVIOUS
    <2>2. s \in Seq(T)
      BY <2>1
    <2>3. \A k \in DOMAIN s : s[k] \in T
      BY <2>2
    <2>4. QED
      BY <2>1, <2>3
  <1>3. \A i \in 1..n : OrderedBy(R, ss[i])
    BY <1>1, <1>2 DEF OrderedBy
  <1>4. \A i \in 1..n : \A x \in ToSet(ss[i]) : x \in T
    BY <1>2 DEF ToSet
  <1>5. OrderedParts(T, R, n, ss)
    BY <1>1, <1>3, <1>4 DEF OrderedParts
  <1>6. QED
    BY <1>5, FlattenOrdered

LEMMA QuotedAtomsStay ==
  ASSUME NEW T, NEW s \in Seq(T), NEW sep, NEW quote \in T
  PROVE  QuoteField(s, sep, quote) \in Seq(T)
  <1>1. PICK n, U, ss : n = Len(s) /\ U = Seq(T) /\ ss = Escaped(s, quote)
    OBVIOUS
  <1>2. n \in Nat /\ DOMAIN s = 1..n /\ \A i \in 1..n : s[i] \in T
    BY <1>1
  <1>3. \A i \in 1..n : <<quote, quote>> \in U /\ <<s[i]>> \in U
    BY <1>1, <1>2
  <1>4. ss \in [1..n -> U]
    BY <1>1, <1>2, <1>3 DEF Escaped
  <1>5. FlattenSeq(ss) \in Seq(T)
    BY <1>1, <1>2, <1>4, FlattenStays
  <1>6. PICK flat, q : flat = FlattenSeq(ss) /\ q = <<quote>>
    OBVIOUS
  <1>7. flat \in Seq(T) /\ q \in Seq(T)
    BY <1>5, <1>6
  <1>8. q \o flat \o q \in Seq(T)
    BY <1>7
  <1>9. Quoted(s, quote) = q \o flat \o q
    BY <1>1, <1>6 DEF Quoted, Escaped
  <1>10. QED
    BY <1>8, <1>9 DEF QuoteField

(* A line has the atoms of its texts, the separator and the quote.         *)
LEMMA LineAtoms ==
  ASSUME NEW T, NEW texts, IsTexts(texts), NEW sep \in T, NEW quote \in T,
         \A k \in 1..Len(texts) : texts[k] \in Seq(T)
  PROVE  FlattenSeq(Pieces(texts, sep, quote)) \in Seq(T)
  <1>1. PICK n, U, ss : n = Len(texts) /\ U = Seq(T) /\ ss = Pieces(texts, sep, quote)
    OBVIOUS
  <1>2. n \in Nat /\ DOMAIN texts = 1..n
    BY <1>1 DEF IsTexts, IsList
  <1>3. ASSUME NEW i \in 1..n PROVE ss[i] \in U
    <2>1. QuoteField(texts[i], sep, quote) \in Seq(T)
      BY <1>1, QuotedAtomsStay
    <2>2. PICK e, q : e = QuoteField(texts[i], sep, quote) /\ q = <<sep>>
      OBVIOUS
    <2>3. e \in Seq(T) /\ q \in Seq(T)
      BY <2>1, <2>2
    <2>4. q \o e \in Seq(T)
      BY <2>3
    <2>5. ss[i] = IF i = 1 THEN e ELSE q \o e
      BY <1>1, <1>2, <2>2 DEF Pieces
    <2>6. QED
      BY <1>1, <2>3, <2>4, <2>5
  <1>4. ss \in [1..n -> U]
    BY <1>1, <1>2, <1>3 DEF Pieces
  <1>5. FlattenSeq(ss) \in Seq(T)
    BY <1>1, <1>2, <1>4, FlattenStays
  <1>6. QED
    BY <1>1, <1>5

(* A line does not end in a carriage return, and is blank only if its one  *)
(* text is.                                                                *)
LEMMA LineEnds ==
  ASSUME NEW texts, IsTexts(texts), NEW sep, NEW quote, sep # quote, sep # CR, quote # CR,
         NEW line, line = FlattenSeq(Pieces(texts, sep, quote))
  PROVE  /\ Len(line) \in Nat
         /\ Len(line) > 0 => line[Len(line)] # CR
         /\ Len(texts) > 1 \/ texts[1] # <<>> => Len(line) > 0
  <1>1. PICK beg : IsLine(line, texts, sep, quote, beg)
    <2>1. \E beg : IsLine(FlattenSeq(Pieces(texts, sep, quote)), texts, sep, quote, beg)
      BY PiecePlaces
    <2>2. QED
      BY <2>1
  <1>2. PICK n, m, s, e, p : /\ n = Len(texts) /\ m = Len(line) /\ s = texts[n]
                             /\ e = QuoteField(s, sep, quote) /\ p = beg[n]
    OBVIOUS
  <1>3. n \in Nat \ {0} /\ m \in Nat /\ IsList(s)
    <2>1. IsTexts(texts) /\ IsList(line) /\ n = Len(texts) /\ s = texts[n]
      BY <1>1, <1>2 DEF IsLine
    <2>2. n \in Nat \ {0} /\ m \in Nat
      BY <1>2, <2>1 DEF IsTexts, IsList
    <2>3. n \in 1..n
      BY <2>2
    <2>4. IsList(s)
      BY <2>1, <2>3 DEF IsTexts
    <2>5. QED
      BY <2>2, <2>4
  <1>4. /\ FieldIsAt(line, p, e, quote) /\ p + Len(e) = m
        /\ n = 1 => p = 0
        /\ n > 1 => p \in 1..m /\ line[p] = sep
    <2>1. n \in 1..n /\ (n > 1 => n - 1 \in 1..n-1 /\ (n - 1) + 1 = n)
      BY <1>3
    <2>2. FieldIsAt(line, p, e, quote) /\ p + Len(e) = m /\ (n = 1 => p = 0)
      BY <1>1, <1>2, <2>1 DEF IsLine
    <2>3. ASSUME n > 1 PROVE p \in 1..m /\ line[p] = sep
      <3>1. PICK k : k = n - 1
        OBVIOUS
      <3>2. k \in 1..n-1 /\ k + 1 = n
        BY <2>1, <2>3, <3>1
      <3>3. beg[k+1] \in 1..m /\ line[beg[k+1]] = sep
        BY <1>1, <1>2, <3>2 DEF IsLine
      <3>4. QED
        BY <1>2, <3>2, <3>3
    <2>4. QED
      BY <2>2, <2>3
  <1>5. p \in Nat /\ Len(e) \in Nat /\ \A j \in 1..Len(e) : line[p + j] = e[j]
    BY <1>4 DEF FieldIsAt, IsList
  <1>6. /\ Len(e) > 0 => e[Len(e)] # CR
        /\ s # <<>> => Len(e) > 0
    <2>1. CASE e = s /\ \A j \in 1..Len(s) : s[j] \notin {sep, quote, NewLine, CR}
      <3>1. Len(e) > 0 => Len(e) \in 1..Len(s)
        BY <1>5, <2>1
      <3>2. s # <<>> => Len(s) # 0
        BY <1>3 DEF IsList
      <3>3. QED
        BY <1>5, <2>1, <3>1, <3>2
    <2>2. CASE e = Quoted(s, quote)
      <3>1. IsQuoted(e, FlattenSeq(Escaped(s, quote)), quote)
        BY <1>3, <2>2, QuotedAtoms
      <3>2. QED
        BY <3>1 DEF IsQuoted
    <2>3. \/ /\ QuoteField(s, sep, quote) = s
             /\ \A j \in 1..Len(s) : s[j] \notin {sep, quote, NewLine, CR}
          \/ QuoteField(s, sep, quote) = Quoted(s, quote)
      BY <1>3, QuotedField
    <2>4. QED
      BY <1>2, <2>1, <2>2, <2>3
  <1>7. m > 0 => line[m] # CR
    <2>1. CASE Len(e) > 0
      <3>1. Len(e) \in 1..Len(e)
        BY <1>5, <2>1
      <3>2. line[p + Len(e)] = e[Len(e)]
        BY <1>5, <3>1
      <3>3. QED
        BY <1>4, <1>6, <2>1, <3>2
    <2>2. CASE Len(e) = 0
      <3>1. p = m
        BY <1>4, <1>5, <2>2
      <3>2. QED
        BY <1>3, <1>4, <3>1
    <2>3. QED
      BY <1>5, <2>1, <2>2
  <1>8. n > 1 \/ texts[1] # <<>> => m > 0
    <2>1. CASE n = 1
      <3>1. texts[1] = s
        BY <1>2, <2>1
      <3>2. texts[1] # <<>> => Len(e) > 0
        BY <1>6, <3>1
      <3>3. p + Len(e) = m
        BY <1>4
      <3>4. QED
        BY <1>3, <1>5, <2>1, <3>2, <3>3
    <2>2. CASE n > 1
      <3>1. p \in 1..m
        BY <1>4, <2>2
      <3>2. QED
        BY <1>3, <3>1
    <2>3. QED
      BY <1>3, <2>1, <2>2
  <1>9. QED
    BY <1>2, <1>3, <1>7, <1>8

-----------------------------------------------------------------------------
(* Numbers                                                                 *)

IsNumeral(v) == v \in Seq(ToSet(DigitText))

LEMMA NumeralDigits ==
  ASSUME NEW v, IsNumeral(v)
  PROVE  /\ IsList(v) /\ AllDigits(v)
         /\ \A k \in 1..Len(v) : v[k] \in ToSet(DigitText) /\ DigitOf[v[k]] \in 0..9
  <1>1. IsList(v)
    BY SeqIsList DEF IsNumeral
  <1>2. ASSUME NEW k \in 1..Len(v) PROVE v[k] \in ToSet(DigitText) /\ DigitOf[v[k]] \in 0..9
    <2>1. v[k] \in ToSet(DigitText)
      BY DEF IsNumeral
    <2>2. DOMAIN DigitText = 1..10
      BY DEF DigitText
    <2>3. PICK l \in 1..10 : v[k] = DigitText[l]
      BY <2>1, <2>2 DEF ToSet
    <2>4. PICK d : d = l - 1
      OBVIOUS
    <2>5. d \in 0..9 /\ d + 1 = l
      BY <2>4
    <2>6. DigitOf[DigitText[d+1]] = d
      BY <2>5, DigitRead
    <2>7. QED
      BY <2>1, <2>3, <2>5, <2>6
  <1>3. DOMAIN DigitOf = ToSet(DigitText) /\ DOMAIN v = 1..Len(v)
    BY <1>1 DEF DigitOf, IsList
  <1>4. QED
    BY <1>1, <1>2, <1>3 DEF AllDigits

(* Decimal goes through the digits.                                        *)
IsDecimal(f, v) ==
  f = [t \in SUBSET (DOMAIN v) |->
         IF t = {} THEN 0 ELSE 10 * f[t \ {Max(t)}] + DigitOf[v[Max(t)]]]

LEMMA DecimalUnfolds ==
  ASSUME NEW v
  PROVE  Decimal(v) = (CHOOSE f : IsDecimal(f, v))[DOMAIN v]
  BY DEF Decimal, FoldLeft, MapThenFoldSet, IsDecimal

IsDecimalRun(run, v) ==
  /\ run[0] = 0
  /\ \A k \in 1..Len(v) : run[k] = 10 * run[k-1] + DigitOf[v[k]]
  /\ Decimal(v) = run[Len(v)]

LEMMA DecimalRun ==
  ASSUME NEW v, IsNumeral(v)
  PROVE  \E run : IsDecimalRun(run, v)
  <1>1. PICK n : n = Len(v)
    OBVIOUS
  <1>2. n \in Nat /\ DOMAIN v = 1..n /\ \A k \in 1..n : DigitOf[v[k]] \in 0..9
    BY <1>1, NumeralDigits DEF IsList
  <1>3. PICK step : step = [k \in 1..n |-> [x \in Nat |-> 10 * x + DigitOf[v[k]]]]
    OBVIOUS
  <1>4. \A k \in 1..n : \A x \in Nat : step[k][x] = 10 * x + DigitOf[v[k]] /\ step[k][x] \in Nat
    <2> TAKE k \in 1..n
    <2> TAKE x \in Nat
    <2>1. PICK d \in 0..9 : d = DigitOf[v[k]]
      BY <1>2
    <2>2. step[k][x] = 10 * x + d
      BY <1>3, <2>1
    <2>3. 10 * x + d \in Nat
      OBVIOUS
    <2>4. QED
      BY <2>1, <2>2, <2>3
  <1>5. PICK g : IsFold(g, 0, step, SUBSET (1..n)) /\ \A t \in SUBSET (1..n) : g[t] \in Nat
    <2>1. \A k \in 1..n : \A x \in Nat : step[k][x] \in Nat
      BY <1>4
    <2>2. PICK z \in Nat : z = 0
      OBVIOUS
    <2>3. \E g : IsFold(g, z, step, SUBSET (1..n)) /\ \A t \in SUBSET (1..n) : g[t] \in Nat
      BY <1>2, <2>1, FoldExists
    <2>4. QED
      BY <2>2, <2>3
  <1>6. IsDecimal(g, v)
    <2>1. ASSUME NEW t \in SUBSET (1..n)
          PROVE  g[t] = IF t = {} THEN 0 ELSE 10 * g[t \ {Max(t)}] + DigitOf[v[Max(t)]]
      <3>1. CASE t = {}
        BY <1>5, <3>1 DEF IsFold
      <3>2. CASE t # {}
        <4>1. Max(t) \in 1..n /\ t \ {Max(t)} \in SUBSET (1..n)
          BY <1>2, <3>2, LastOfPositions
        <4>2. g[t] = step[Max(t)][g[t \ {Max(t)}]] /\ g[t \ {Max(t)}] \in Nat
          BY <1>5, <3>2, <4>1 DEF IsFold
        <4>3. QED
          BY <1>4, <3>2, <4>1, <4>2
      <3>3. QED
        BY <3>1, <3>2
    <2>2. g = [t \in SUBSET (1..n) |-> g[t]]
      BY <1>5 DEF IsFold
    <2>3. QED
      BY <1>2, <2>1, <2>2 DEF IsDecimal
  <1>7. PICK f : f = CHOOSE h : IsDecimal(h, v)
    OBVIOUS
  <1>8. IsDecimal(f, v)
    BY <1>6, <1>7
  <1>9. PICK run : run = [k \in 0..n |-> f[1..k]]
    OBVIOUS
  <1>10. run[0] = 0
    <2>1. 1..0 = {} /\ {} \in SUBSET (1..n) /\ 0 \in 0..n
      BY <1>2
    <2>2. f[{}] = 0
      BY <1>2, <1>8, <2>1 DEF IsDecimal
    <2>3. QED
      BY <1>9, <2>1, <2>2
  <1>11. ASSUME NEW k \in 1..n PROVE run[k] = 10 * run[k-1] + DigitOf[v[k]]
    <2>1. 1..k \in SUBSET (1..n) /\ 1..k # {} /\ Max(1..k) = k /\ (1..k) \ {k} = 1..k-1
      BY <1>2, FirstPositions
    <2>2. f[1..k] = 10 * f[(1..k) \ {Max(1..k)}] + DigitOf[v[Max(1..k)]]
      BY <1>2, <1>8, <2>1 DEF IsDecimal
    <2>3. f[1..k] = 10 * f[1..k-1] + DigitOf[v[k]]
      BY <2>1, <2>2
    <2>4. k \in 0..n /\ k - 1 \in 0..n
      BY <1>2
    <2>5. QED
      BY <1>9, <2>3, <2>4
  <1>12. Decimal(v) = run[n]
    <2>1. n \in 0..n
      BY <1>2
    <2>2. QED
      BY <1>2, <1>7, <1>9, <2>1, DecimalUnfolds
  <1>13. QED
    BY <1>1, <1>10, <1>11, <1>12 DEF IsDecimalRun

LEMMA DecimalOfNone == Decimal(<<>>) = 0
  <1>1. PICK v : v = <<>>
    OBVIOUS
  <1>2. IsNumeral(v)
    BY <1>1 DEF IsNumeral
  <1>3. PICK run : IsDecimalRun(run, v)
    BY <1>2, DecimalRun
  <1>4. Len(v) = 0
    BY <1>1
  <1>5. QED
    BY <1>1, <1>3, <1>4 DEF IsDecimalRun

(* One more digit                                                          *)
LEMMA DecimalGrows ==
  ASSUME NEW v, IsNumeral(v), NEW d, d \in 0..9
  PROVE  /\ IsNumeral(Append(v, DigitText[d+1]))
         /\ Decimal(Append(v, DigitText[d+1])) = 10 * Decimal(v) + d
  <1>1. PICK e, w : e = DigitText[d+1] /\ w = Append(v, e)
    OBVIOUS
  <1>2. e \in ToSet(DigitText) /\ DigitOf[e] = d
    BY <1>1, DigitRead
  <1>3. IsNumeral(w)
    BY <1>1, <1>2 DEF IsNumeral
  <1>4. PICK n : n = Len(v)
    OBVIOUS
  <1>5. /\ n \in Nat /\ Len(w) = n + 1 /\ w[n+1] = e
        /\ \A k \in 1..n : w[k] = v[k]
    BY <1>1, <1>4 DEF IsNumeral
  <1>6. PICK f : IsDecimalRun(f, v)
    BY DecimalRun
  <1>7. PICK g : IsDecimalRun(g, w)
    BY <1>3, DecimalRun
  <1> DEFINE S == {k \in 0..n : f[k] = g[k]}
  <1>8. 0 \in S
    BY <1>5, <1>6, <1>7 DEF IsDecimalRun
  <1>9. ASSUME NEW k \in 0..n-1, k \in S PROVE k + 1 \in S
    <2>1. k + 1 \in 1..n /\ k + 1 \in 1..Len(w) /\ (k + 1) - 1 = k /\ k + 1 \in 0..n
      BY <1>5
    <2>2. f[k+1] = 10 * f[(k + 1) - 1] + DigitOf[v[k+1]]
      BY <1>4, <1>6, <2>1 DEF IsDecimalRun
    <2>3. g[k+1] = 10 * g[(k + 1) - 1] + DigitOf[w[k+1]]
      BY <1>7, <2>1 DEF IsDecimalRun
    <2>4. f[k] = g[k] /\ w[k+1] = v[k+1]
      BY <1>5, <1>9, <2>1
    <2>5. QED
      BY <2>1, <2>2, <2>3, <2>4
  <1>10. n \in S
    <2> HIDE DEF S
    <2>1. n \in Int /\ 0 \in Int /\ n \in 0..n
      BY <1>5
    <2>2. 0..n \subseteq S
      BY <2>1, <1>8, <1>9, IntervalInduction
    <2>3. QED
      BY <2>1, <2>2
  <1>11. g[n+1] = 10 * g[n] + d
    <2>1. n + 1 \in 1..Len(w) /\ (n + 1) - 1 = n
      BY <1>5
    <2>2. g[n+1] = 10 * g[(n + 1) - 1] + DigitOf[w[n+1]]
      BY <1>7, <2>1 DEF IsDecimalRun
    <2>3. QED
      BY <1>2, <1>5, <2>1, <2>2
  <1>12. Decimal(v) = g[n] /\ Decimal(w) = g[n+1]
    BY <1>4, <1>5, <1>6, <1>7, <1>10 DEF IsDecimalRun
  <1>13. QED
    BY <1>1, <1>3, <1>11, <1>12

(* Digits is defined for every natural: it is built up to any of them.     *)
NextDigits(g, n) ==
  IF n < 10 THEN <<DigitText[n+1]>> ELSE Append(g[n \div 10], DigitText[(n % 10) + 1])

AreDigits(g, m) == g = [n \in 0..m |-> NextDigits(g, n)]

LEMMA TenthPart ==
  ASSUME NEW n, n \in Nat
  PROVE  /\ n \div 10 \in Nat /\ n % 10 \in 0..9 /\ n = 10 * (n \div 10) + (n % 10)
         /\ n >= 10 => n \div 10 < n
  OBVIOUS

LEMMA DigitsExist ==
  ASSUME NEW m, m \in Nat
  PROVE  \E g : AreDigits(g, m)
  <1> DEFINE S == {k \in 0..m : \E g : AreDigits(g, k)}
  <1>1. 0 \in S
    <2>1. PICK g : g = [n \in 0..0 |-> <<DigitText[n+1]>>]
      OBVIOUS
    <2>2. \A n \in 0..0 : NextDigits(g, n) = <<DigitText[n+1]>>
      BY DEF NextDigits
    <2>3. AreDigits(g, 0)
      BY <2>1, <2>2 DEF AreDigits
    <2>4. QED
      BY <2>3
  <1>2. ASSUME NEW k \in 0..m-1, k \in S PROVE k + 1 \in S
    <2>1. PICK f : AreDigits(f, k)
      BY <1>2
    <2>2. PICK g : g = [n \in 0..k+1 |-> NextDigits(f, n)]
      OBVIOUS
    <2>3. \A n \in 0..k : g[n] = f[n]
      <3> TAKE n \in 0..k
      <3>1. n \in 0..k+1
        OBVIOUS
      <3>2. f[n] = NextDigits(f, n)
        BY <2>1 DEF AreDigits
      <3>3. QED
        BY <2>2, <3>1, <3>2
    <2>4. \A n \in 0..k+1 : NextDigits(g, n) = NextDigits(f, n)
      <3> TAKE n \in 0..k+1
      <3>1. CASE n < 10
        BY <3>1 DEF NextDigits
      <3>2. CASE n >= 10
        <4>1. PICK q : q = n \div 10
          OBVIOUS
        <4>2. q \in 0..k
          BY <3>2, <4>1, TenthPart
        <4>3. g[q] = f[q]
          BY <2>3, <4>2
        <4>4. QED
          BY <4>1, <4>3 DEF NextDigits
      <3>3. QED
        BY <3>1, <3>2
    <2>5. AreDigits(g, k + 1)
      BY <2>2, <2>4 DEF AreDigits
    <2>6. k + 1 \in 0..m
      OBVIOUS
    <2>7. QED
      BY <2>5, <2>6
  <1>3. m \in S
    <2> HIDE DEF S
    <2>1. m \in Int /\ 0 \in Int /\ m \in 0..m
      OBVIOUS
    <2>2. 0..m \subseteq S
      BY <2>1, <1>1, <1>2, IntervalInduction
    <2>3. QED
      BY <2>1, <2>2
  <1>4. QED
    BY <1>3

LEMMA DigitsAgree ==
  ASSUME NEW m, m \in Nat, NEW f, AreDigits(f, m), NEW l, l \in 0..m, NEW g, AreDigits(g, l)
  PROVE  \A n \in 0..l : f[n] = g[n]
  <1>1. SUFFICES ASSUME NEW n \in 0..l, f[n] # g[n] PROVE FALSE
    OBVIOUS
  <1>2. PICK T : T = {i \in 0..l : f[i] # g[i]}
    OBVIOUS
  <1>3. T \in SUBSET Nat /\ T # {}
    BY <1>1, <1>2
  <1>4. PICK i \in T : \A k \in T : i <= k
    BY <1>3, Least
  <1>5. i \in 0..l /\ i \in 0..m /\ f[i] # g[i]
    BY <1>2
  <1>6. f[i] = NextDigits(f, i) /\ g[i] = NextDigits(g, i)
    BY <1>5 DEF AreDigits
  <1>7. CASE i < 10
    BY <1>5, <1>6, <1>7 DEF NextDigits
  <1>8. CASE i >= 10
    <2>1. PICK q : q = i \div 10
      OBVIOUS
    <2>2. q \in 0..l /\ q < i
      BY <1>5, <1>8, <2>1, TenthPart
    <2>3. q \notin T
      BY <1>4, <1>5, <2>2
    <2>4. f[q] = g[q]
      BY <1>2, <2>2, <2>3
    <2>5. NextDigits(f, i) = NextDigits(g, i)
      BY <2>1, <2>4 DEF NextDigits
    <2>6. QED
      BY <1>5, <1>6, <2>5
  <1>9. QED
    BY <1>5, <1>7, <1>8

LEMMA DigitsUnfold ==
  ASSUME NEW n, n \in Nat
  PROVE  Digits[n] = NextDigits(Digits, n)
  <1>1. PICK G : G = [m \in Nat |-> CHOOSE g : AreDigits(g, m)]
    OBVIOUS
  <1>2. \A m \in Nat : AreDigits(G[m], m)
    BY <1>1, DigitsExist
  <1>3. PICK F : F = [m \in Nat |-> G[m][m]]
    OBVIOUS
  <1>4. ASSUME NEW m \in Nat PROVE F[m] = NextDigits(F, m)
    <2>1. G[m][m] = NextDigits(G[m], m)
      <3>1. m \in 0..m
        OBVIOUS
      <3>2. AreDigits(G[m], m)
        BY <1>2
      <3>3. QED
        BY <3>1, <3>2 DEF AreDigits
    <2>2. CASE m < 10
      BY <1>3, <2>1, <2>2 DEF NextDigits
    <2>3. CASE m >= 10
      <3>1. PICK q : q = m \div 10
        OBVIOUS
      <3>2. q \in Nat /\ q \in 0..m /\ q \in 0..q
        BY <2>3, <3>1, TenthPart
      <3>3. PICK f, g : f = G[m] /\ g = G[q]
        OBVIOUS
      <3>4. AreDigits(f, m) /\ AreDigits(g, q)
        BY <1>2, <3>2, <3>3
      <3>5. f[q] = g[q]
        BY <3>2, <3>4, DigitsAgree
      <3>6. F[q] = G[m][q]
        BY <1>3, <3>2, <3>3, <3>5
      <3>7. NextDigits(G[m], m) = NextDigits(F, m)
        BY <3>1, <3>6 DEF NextDigits
      <3>8. QED
        BY <1>3, <2>1, <3>7
    <2>4. QED
      BY <2>2, <2>3
  <1>5. F = [m \in Nat |-> NextDigits(F, m)]
    BY <1>3, <1>4
  <1>6. Digits = CHOOSE f : f = [m \in Nat |-> NextDigits(f, m)]
    BY DEF Digits, NextDigits
  <1>7. Digits = [m \in Nat |-> NextDigits(Digits, m)]
    BY <1>5, <1>6
  <1>8. QED
    BY <1>7

(* What %d writes, ParseInt reads.                                         *)
LEMMA DigitsRead ==
  ASSUME NEW n, n \in Nat
  PROVE  IsNumeral(Digits[n]) /\ Digits[n] # <<>> /\ Decimal(Digits[n]) = n
  <1> DEFINE T == {m \in Nat : ~(IsNumeral(Digits[m]) /\ Digits[m] # <<>> /\ Decimal(Digits[m]) = m)}
  <1>1. SUFFICES ASSUME T # {} PROVE FALSE
    OBVIOUS
  <1>2. PICK m \in T : \A k \in T : m <= k
    <2>1. T \in SUBSET Nat
      OBVIOUS
    <2> HIDE DEF T
    <2>2. QED
      BY <1>1, <2>1, Least
  <1>3. PICK z : z = <<>>
    OBVIOUS
  <1>4. IsNumeral(z) /\ Decimal(z) = 0
    BY <1>3, DecimalOfNone DEF IsNumeral
  <1>5. Digits[m] = NextDigits(Digits, m)
    BY DigitsUnfold
  <1>6. CASE m < 10
    <2>1. m \in 0..9
      BY <1>6
    <2>2. IsNumeral(Append(z, DigitText[m+1])) /\ Decimal(Append(z, DigitText[m+1])) = 10 * Decimal(z) + m
      BY <1>4, <2>1, DecimalGrows
    <2>3. Append(z, DigitText[m+1]) = <<DigitText[m+1]>>
      BY <1>3
    <2>4. Digits[m] = <<DigitText[m+1]>>
      BY <1>5, <1>6 DEF NextDigits
    <2>5. <<DigitText[m+1]>> # <<>>
      OBVIOUS
    <2>6. IsNumeral(Digits[m]) /\ Digits[m] # <<>>
      BY <2>2, <2>3, <2>4, <2>5
    <2>7. Decimal(Digits[m]) = m
      BY <1>4, <2>1, <2>2, <2>3, <2>4
    <2>8. QED
      BY <2>6, <2>7
  <1>7. CASE m >= 10
    <2>1. PICK q, d, v : q = m \div 10 /\ d = m % 10 /\ v = Digits[q]
      OBVIOUS
    <2>2. q \in Nat /\ d \in 0..9 /\ m = 10 * q + d /\ q < m
      BY <1>7, <2>1, TenthPart
    <2>3. q \notin T
      BY <1>2, <2>2
    <2>4. IsNumeral(v) /\ Decimal(v) = q
      BY <2>1, <2>2, <2>3
    <2>5. IsNumeral(Append(v, DigitText[d+1])) /\ Decimal(Append(v, DigitText[d+1])) = 10 * Decimal(v) + d
      BY <2>2, <2>4, DecimalGrows
    <2>6. Digits[m] = Append(v, DigitText[d+1])
      BY <1>5, <1>7, <2>1 DEF NextDigits
    <2>7. Append(v, DigitText[d+1]) # <<>>
      BY <2>4 DEF IsNumeral
    <2>8. QED
      BY <2>2, <2>4, <2>5, <2>6, <2>7
  <1>8. QED
    BY <1>6, <1>7

-----------------------------------------------------------------------------
(* Cells                                                                   *)

IsPlain(v) == IsList(v) /\ \A k \in 1..Len(v) : v[k] \notin {Space, CR, NewLine}

LEMMA PlainStays ==
  ASSUME NEW v, IsPlain(v)
  PROVE  Trim(v) = v
  <1>1. PICK n, ink : n = Len(v) /\ ink = {i \in DOMAIN v : v[i] \notin {Space, CR, NewLine}}
    OBVIOUS
  <1>2. n \in Nat /\ DOMAIN v = 1..n /\ ink = 1..n /\ v = [k \in 1..n |-> v[k]]
    BY <1>1 DEF IsPlain, IsList
  <1>3. Trim(v) = IF ink = {} THEN <<>> ELSE SubSeq(v, Min(ink), Max(ink))
    BY <1>1 DEF Trim
  <1>4. CASE n = 0
    <2>1. ink = {} /\ v = <<>>
      BY <1>2, <1>4
    <2>2. QED
      BY <1>3, <2>1
  <1>5. CASE n > 0
    <2>1. IsLeast(1, ink) /\ IsGreatest(n, ink) /\ ink \in SUBSET Int /\ ink # {}
      BY <1>2, <1>5 DEF IsLeast, IsGreatest
    <2>2. Min(ink) = 1 /\ Max(ink) = n
      BY <2>1, MinIs, MaxIs
    <2>3. SubSeq(v, 1, n) = v
      <3>1. v \in Seq(ElementsOf(v))
        BY ListIsSeq DEF IsPlain
      <3>2. QED
        BY <1>1, <1>2, <3>1
    <2>4. QED
      BY <1>3, <2>1, <2>2, <2>3
  <1>6. QED
    BY <1>2, <1>4, <1>5

LEMMA NumeralPlain ==
  ASSUME NEW v, IsNumeral(v)
  PROVE  IsPlain(v)
  <1>1. IsList(v) /\ \A k \in 1..Len(v) : v[k] \in ToSet(DigitText)
    BY NumeralDigits
  <1>2. ToSet(DigitText) \cap {Space, CR, NewLine} = {}
    BY TenDigits DEF Space, CR, NewLine
  <1>3. QED
    BY <1>1, <1>2 DEF IsPlain

IsInteger(v, n) == IsPlain(v) /\ IsInt(v) /\ Decimal(v) = n
LEMMA IntegerText ==
  ASSUME NEW n, n \in Nat
  PROVE  IsInteger(Digits[n], n)
  <1>1. IsNumeral(Digits[n]) /\ Digits[n] # <<>> /\ Decimal(Digits[n]) = n
    BY DigitsRead
  <1>2. IsPlain(Digits[n]) /\ AllDigits(Digits[n])
    BY <1>1, NumeralPlain, NumeralDigits
  <1>3. QED
    BY <1>1, <1>2 DEF IsInteger, IsInt

OneDecimal(n) == Digits[n \div 10] \o (IF n % 10 = 0 THEN <<>> ELSE <<".">> \o Digits[n % 10])
IsNumber(v, n) == IsPlain(v) /\ IsFloat(v) /\ Tenths(v) = n

LEMMA OneOf ==
  ASSUME NEW T, NEW v, v \in Seq(T), NEW m, m \in Nat /\ m \in 1..Len(v)
  PROVE  SubSeq(v, m, m) = <<v[m]>>
  <1>1. PICK x, y : x = SubSeq(v, m, m) /\ y = v[m]
    OBVIOUS
  <1>2. x \in Seq(T) /\ Len(x) = 1 /\ x[1] = y
    <2> m \in Int
      OBVIOUS
    <2>1. \A i \in m..m : v[i] \in T
      OBVIOUS
    <2>2. /\ SubSeq(v, m, m) \in Seq(T)
          /\ Len(SubSeq(v, m, m)) = (IF m <= m THEN m - m + 1 ELSE 0)
          /\ \A i \in 1 .. m - m + 1 : SubSeq(v, m, m)[i] = v[m+i-1]
      BY <2>1, SubSeqProperties
    <2>3. m - m + 1 = 1 /\ 1 \in 1..1 /\ m + 1 - 1 = m /\ m <= m
      OBVIOUS
    <2>4. QED
      BY <1>1, <2>2, <2>3
  <1>3. x = [k \in 1..1 |-> x[k]]
    <2>1. IsList(x)
      BY <1>2, SeqIsList
    <2>2. QED
      BY <1>2, <2>1 DEF IsList
  <1>4. x = [k \in 1..1 |-> y]
    <2>1. \A k \in 1..1 : x[k] = y
      BY <1>2
    <2>2. QED
      BY <1>3, <2>1
  <1>5. <<y>> = [k \in 1..1 |-> y]
    OBVIOUS
  <1>6. QED
    BY <1>1, <1>4, <1>5

(* A number with something after the point                                 *)
LEMMA PointedText ==
  ASSUME NEW u, IsNumeral(u), NEW d, d \in 0..9, NEW v, v = u \o (<<".">> \o <<DigitText[d+1]>>)
  PROVE  IsNumber(v, 10 * Decimal(u) + d)
  <1>1. PICK e, n, w : e = DigitText[d+1] /\ n = Len(u) /\ w = Append(u, e)
    OBVIOUS
  <1>2. e \in ToSet(DigitText)
    BY <1>1, DigitRead
  <1>3. n \in Nat /\ IsList(u) /\ \A k \in 1..n : u[k] \in ToSet(DigitText)
    BY <1>1, NumeralDigits DEF IsList
  <1>4. PICK p, q, t : p = <<".">> /\ q = <<e>> /\ t = p \o q
    OBVIOUS
  <1>5. IsList(t) /\ Len(t) = 2 /\ t[1] = "." /\ t[2] = e
    <2> IsList(p) /\ IsList(q)
      BY <1>4 DEF IsList
    <2>1. /\ IsList(p \o q) /\ Len(p \o q) = Len(p) + Len(q)
          /\ \A k \in 1..Len(p) : (p \o q)[k] = p[k]
          /\ \A k \in 1..Len(q) : (p \o q)[Len(p) + k] = q[k]
      BY ListsConcat
    <2>2. Len(p) = 1 /\ Len(q) = 1 /\ p[1] = "." /\ q[1] = e /\ 1 \in 1..1 /\ 1 + 1 = 2
      BY <1>4
    <2>3. QED
      BY <1>4, <2>1, <2>2
  <1>6. /\ IsList(v) /\ Len(v) = n + 2
        /\ \A k \in 1..n : v[k] = u[k]
        /\ v[n+1] = "." /\ v[n+2] = e
    <2>1. v = u \o t
      BY <1>1, <1>4
    <2>2. /\ IsList(v) /\ Len(v) = Len(u) + Len(t)
          /\ \A k \in 1..Len(u) : v[k] = u[k]
          /\ \A k \in 1..Len(t) : v[Len(u) + k] = t[k]
      <3> IsList(u) /\ IsList(t)
        BY <1>3, <1>5
      <3>1. /\ IsList(u \o t) /\ Len(u \o t) = Len(u) + Len(t)
            /\ \A k \in 1..Len(u) : (u \o t)[k] = u[k]
            /\ \A k \in 1..Len(t) : (u \o t)[Len(u) + k] = t[k]
        BY ListsConcat
      <3>2. QED
        BY <2>1, <3>1
    <2>3. 1 \in 1..Len(t) /\ 2 \in 1..Len(t)
      BY <1>5
    <2>4. v[Len(u) + 1] = t[1] /\ v[Len(u) + 2] = t[2]
      BY <2>2, <2>3
    <2>5. QED
      BY <1>1, <1>5, <2>2, <2>4
  <1>7. PICK T : T = ToSet(DigitText) \cup {"."}
    OBVIOUS
  <1>8. \A k \in 1..n+2 : v[k] \in T
    BY <1>2, <1>3, <1>6, <1>7
  <1>9. IsPlain(v)
    <2>1. T \cap {Space, CR, NewLine} = {}
      BY <1>7, TenDigits DEF Space, CR, NewLine
    <2>2. QED
      BY <1>6, <1>8, <2>1 DEF IsPlain
  <1>10. Point(v) = n + 1 /\ HasPoint(v)
    BY <1>3, <1>6 DEF Point, HasPoint
  <1>11. IsNumeral(w) /\ Decimal(w) = 10 * Decimal(u) + d
    BY <1>1, DecimalGrows
  <1>12. RemoveAt(v, Point(v)) = w
    <2>1. v \in Seq(T)
      <3>1. ElementsOf(v) \subseteq T
        BY <1>6, <1>8 DEF ElementsOf
      <3>2. QED
        BY <1>6, <3>1, ListIsSeq
    <2>2. RemoveAt(v, Point(v)) = SubSeq(v, 1, n) \o SubSeq(v, n + 2, n + 2)
      <3>1. RemoveAt(v, n + 1) = SubSeq(v, 1, (n + 1) - 1) \o SubSeq(v, (n + 1) + 1, Len(v))
        BY DEF RemoveAt
      <3>2. (n + 1) - 1 = n /\ (n + 1) + 1 = n + 2
        BY <1>3
      <3>3. QED
        BY <1>6, <1>10, <3>1, <3>2
    <2>3. SubSeq(v, 1, n) = u
      <3>1. u \in Seq(ToSet(DigitText))
        BY DEF IsNumeral
      <3>2. QED
        BY <1>1, <1>3, <1>6, <2>1, <3>1
    <2>4. SubSeq(v, n + 2, n + 2) = <<e>>
      <3>1. PICK m : m = n + 2
        OBVIOUS
      <3>2. m \in Nat /\ m \in 1..Len(v)
        BY <1>3, <1>6, <3>1
      <3>3. SubSeq(v, m, m) = <<v[m]>>
        BY <2>1, <3>2, OneOf
      <3>4. QED
        BY <1>6, <3>1, <3>3
    <2>5. u \o <<e>> = Append(u, e)
      <3>1. u \in Seq(ToSet(DigitText))
        BY DEF IsNumeral
      <3>2. QED
        BY <1>2, <3>1
    <2>6. QED
      BY <1>1, <2>2, <2>3, <2>4, <2>5
  <1>13. IsFloat(v)
    <2>1. AllDigits(w)
      BY <1>11, NumeralDigits
    <2>2. QED
      BY <1>10, <1>12, <2>1 DEF IsFloat
  <1>14. Tenths(v) = 10 * Decimal(u) + d
    BY <1>10, <1>11, <1>12 DEF Tenths
  <1>15. QED
    BY <1>9, <1>13, <1>14 DEF IsNumber

LEMMA NumberText ==
  ASSUME NEW n, n \in Nat
  PROVE  IsNumber(OneDecimal(n), n)
  <1>1. PICK q, d, u : q = n \div 10 /\ d = n % 10 /\ u = Digits[q]
    OBVIOUS
  <1>2. q \in Nat /\ d \in 0..9 /\ n = 10 * q + d
    BY <1>1, TenthPart
  <1>3. IsNumeral(u) /\ u # <<>> /\ Decimal(u) = q
    BY <1>1, <1>2, DigitsRead
  <1>4. OneDecimal(n) = u \o (IF d = 0 THEN <<>> ELSE <<".">> \o Digits[d])
    BY <1>1 DEF OneDecimal
  <1>5. CASE d = 0
    <2>1. u \o <<>> = u
      BY <1>3 DEF IsNumeral
    <2>2. IsInteger(u, q)
      BY <1>1, <1>2, IntegerText
    <2>3. Tenths(u) = 10 * Decimal(u)
      <3>1. u \in Seq(ToSet(DigitText)) /\ IsInt(u)
        BY <1>3, <2>2 DEF IsNumeral, IsInteger
      <3>2. QED
        BY <3>1, DigitsHaveNoPoint
    <2>4. IsNumber(u, n)
      BY <1>2, <1>3, <1>5, <2>2, <2>3 DEF IsNumber, IsInteger, IsFloat
    <2>5. QED
      BY <1>4, <1>5, <2>1, <2>4
  <1>6. CASE d # 0
    <2>1. Digits[d] = <<DigitText[d+1]>>
      <3>1. d \in Nat /\ d < 10
        BY <1>2
      <3>2. QED
        BY <3>1, DigitsUnfold DEF NextDigits
    <2>3. OneDecimal(n) = u \o (<<".">> \o <<DigitText[d+1]>>)
      BY <1>4, <1>6, <2>1
    <2>4. IsNumber(OneDecimal(n), 10 * Decimal(u) + d)
      BY <1>2, <1>3, <2>3, PointedText
    <2>5. QED
      BY <1>2, <1>3, <2>4
  <1>7. QED
    BY <1>5, <1>6

(* Each cell's text stands for the cell.                                   *)
ReadsAs(dtype, cell, v) ==
  /\ dtype = "Int64" => IsInteger(v, cell)
  /\ dtype = "Float64" => IsNumber(v, cell)
  /\ dtype = "Boolean" => IsPlain(v) /\ (IF v \in Truths THEN 1 ELSE 0) = cell
  /\ dtype = "String" => v = cell

Inferable == {"String", "Boolean", "Int64", "Float64"}

LEMMA CellText ==
  ASSUME NEW dtype, dtype \in Inferable, NEW cell, IsCell(dtype, cell)
  PROVE  ReadsAs(dtype, cell, FormatCell(dtype, cell)) /\ IsList(FormatCell(dtype, cell))
  <1>1. CASE dtype = "Int64"
    <2>1. cell \in Nat
      BY <1>1 DEF IsCell
    <2>2. FormatCell(dtype, cell) = Digits[cell]
      BY <1>1 DEF FormatCell
    <2>3. IsInteger(Digits[cell], cell)
      BY <2>1, IntegerText
    <2>4. QED
      BY <1>1, <2>2, <2>3 DEF ReadsAs, IsInteger, IsPlain
  <1>2. CASE dtype = "Float64"
    <2>1. cell \in Nat
      BY <1>2 DEF IsCell
    <2>2. FormatCell(dtype, cell) = OneDecimal(cell)
      BY <1>2 DEF FormatCell, OneDecimal
    <2>3. IsNumber(OneDecimal(cell), cell)
      BY <2>1, NumberText
    <2>4. QED
      BY <1>2, <2>2, <2>3 DEF ReadsAs, IsNumber, IsPlain
  <1>3. CASE dtype = "Boolean"
    <2>1. cell \in {0, 1}
      BY <1>3 DEF IsCell
    <2>2. PICK v : v = FormatCell(dtype, cell)
      OBVIOUS
    <2>3. v = IF cell = 1 THEN <<"true">> ELSE <<"false">>
      BY <1>3, <2>2 DEF FormatCell
    <2>4. IsList(v) /\ IsPlain(v)
      <3>1. PICK w : (w = "true" \/ w = "false") /\ v = <<w>>
        BY <2>3
      <3>2. IsList(v) /\ Len(v) = 1 /\ v[1] = w
        BY <3>1 DEF IsList
      <3>3. w \notin {Space, CR, NewLine}
        BY <3>1 DEF Space, CR, NewLine
      <3>4. QED
        BY <3>2, <3>3 DEF IsPlain
    <2>5. v \in Truths <=> cell = 1
      <3>1. <<"true">> \in Truths
        BY DEF Truths
      <3>2. <<"false">> \notin Truths
        <4>1. <<"false">>[1] = "false" /\ <<"true">>[1] = "true" /\ <<"1">>[1] = "1"
          OBVIOUS
        <4>2. QED
          BY <4>1 DEF Truths
      <3>3. QED
        BY <2>3, <3>1, <3>2
    <2>6. (IF v \in Truths THEN 1 ELSE 0) = cell
      BY <2>1, <2>5
    <2>7. QED
      BY <1>3, <2>2, <2>4, <2>6 DEF ReadsAs
  <1>4. CASE dtype = "String"
    <2>1. FormatCell(dtype, cell) = cell
      BY <1>4 DEF FormatCell
    <2>2. IsText(cell)
      BY <1>4 DEF IsCell
    <2>3. IsList(cell)
      BY <2>2, SeqIsList DEF IsText
    <2>4. QED
      BY <1>4, <2>1, <2>3 DEF ReadsAs
  <1>5. QED
    BY <1>1, <1>2, <1>3, <1>4 DEF Inferable

LEMMA InferredType ==
  ASSUME NEW values, NEW nulls, NEW n
  PROVE  InferType(values, nulls, n) \in Inferable
  BY DEF InferType, Inferable

(* A column's texts, built again                                           *)
Parsed(dtype, v) ==
  CASE dtype = "Int64" -> Decimal(v)
    [] dtype = "Float64" -> Tenths(v)
    [] dtype = "Boolean" -> IF v \in Truths THEN 1 ELSE 0
    [] OTHER -> v
Taken(dtype, v) == IF dtype = "String" THEN v ELSE Trim(v)

LEMMA BuildUnfolds ==
  ASSUME NEW name, NEW values, NEW dtype, NEW nulls, Unparsable(values, dtype, nulls) = {},
         BuiltType(dtype) = dtype
  PROVE  BuildSeries(name, values, dtype, nulls) =
           Series(name, dtype,
                  [i \in DOMAIN values |-> IF Taken(dtype, values[i]) \in nulls THEN Null
                                           ELSE Parsed(dtype, Taken(dtype, values[i]))])
  BY DEF BuildSeries, Parsed, Taken

LEMMA BuildsBack ==
  ASSUME NEW col, IsColumn(col), col.dtype \in Inferable, NEW nulls, <<>> \in nulls,
         \A r \in DOMAIN col.cells : col.cells[r] # Null => TextsOf(col)[r] \notin nulls
  PROVE  BuildSeries(col.name, TextsOf(col), col.dtype, nulls) = col
  <1>1. PICK texts, dtype, cells : texts = TextsOf(col) /\ dtype = col.dtype /\ cells = col.cells
    OBVIOUS
  <1>2. DOMAIN texts = DOMAIN cells /\ IsList(cells)
    <2>1. IsText(cells)
      BY <1>1 DEF IsColumn
    <2>2. QED
      BY <1>1, <2>1, SeqIsList DEF TextsOf, IsText
  <1>3. ASSUME NEW r \in DOMAIN cells, cells[r] = Null
        PROVE  Taken(dtype, texts[r]) \in nulls /\ Trim(texts[r]) \in nulls
    <2>1. PICK z : z = <<>>
      OBVIOUS
    <2>2. texts[r] = z
      BY <1>1, <1>3, <2>1 DEF TextsOf
    <2>3. IsPlain(z)
      BY <2>1 DEF IsPlain, IsList
    <2>4. Trim(z) = z
      BY <2>3, PlainStays
    <2>5. QED
      BY <2>1, <2>2, <2>4 DEF Taken
  <1>4. ASSUME NEW r \in DOMAIN cells, cells[r] # Null
        PROVE  /\ Taken(dtype, texts[r]) \notin nulls /\ Parsed(dtype, Taken(dtype, texts[r])) = cells[r]
               /\ dtype = "Int64" => IsInt(Trim(texts[r]))
               /\ dtype = "Float64" => IsFloat(Trim(texts[r]))
    <2>1. PICK v, cell : v = texts[r] /\ cell = cells[r]
      OBVIOUS
    <2>2. v = FormatCell(dtype, cell) /\ v \notin nulls
      BY <1>1, <1>4, <2>1 DEF TextsOf
    <2>3. IsCell(dtype, cell)
      BY <1>1, <1>4, <2>1 DEF IsColumn
    <2>4. ReadsAs(dtype, cell, v)
      <3>1. dtype \in Inferable
        BY <1>1
      <3>2. QED
        BY <2>2, <2>3, <3>1, CellText
    <2>5. Taken(dtype, v) = v
      <3>1. CASE dtype = "String"
        BY <3>1 DEF Taken
      <3>2. CASE dtype # "String"
        <4>1. IsPlain(v)
          BY <1>1, <2>4, <3>2 DEF ReadsAs, Inferable, IsInteger, IsNumber
        <4>2. QED
          BY <3>2, <4>1, PlainStays DEF Taken
      <3>3. QED
        BY <3>1, <3>2
    <2>6. dtype # "String" => Trim(v) = v
      BY <2>5 DEF Taken
    <2>7. Parsed(dtype, v) = cell
      BY <1>1, <2>4 DEF ReadsAs, Parsed, Inferable, IsInteger, IsNumber
    <2>8. /\ dtype = "Int64" => IsInt(v)
          /\ dtype = "Float64" => IsFloat(v)
      BY <2>4 DEF ReadsAs, IsInteger, IsNumber
    <2>9. QED
      BY <2>1, <2>2, <2>5, <2>6, <2>7, <2>8
  <1>5. Unparsable(texts, dtype, nulls) = {}
    BY <1>2, <1>3, <1>4 DEF Unparsable
  <1>6. BuildSeries(col.name, texts, dtype, nulls) =
          Series(col.name, dtype,
                 [i \in DOMAIN texts |-> IF Taken(dtype, texts[i]) \in nulls THEN Null
                                         ELSE Parsed(dtype, Taken(dtype, texts[i]))])
    <2>1. dtype \in {"String", "Boolean", "Int64", "Float64"}
      BY <1>1 DEF Inferable
    <2>2. BuiltType(dtype) = dtype
      BY <2>1, BuiltAsInferred
    <2>3. QED
      BY <1>5, <2>2, BuildUnfolds
  <1>7. [i \in DOMAIN texts |-> IF Taken(dtype, texts[i]) \in nulls THEN Null
                                ELSE Parsed(dtype, Taken(dtype, texts[i]))] = cells
    <2>1. \A i \in DOMAIN texts : (IF Taken(dtype, texts[i]) \in nulls THEN Null
                                   ELSE Parsed(dtype, Taken(dtype, texts[i]))) = cells[i]
      BY <1>2, <1>3, <1>4
    <2>2. cells = [i \in DOMAIN texts |-> cells[i]]
      BY <1>2 DEF IsList
    <2>3. QED
      BY <2>1, <2>2
  <1>8. col = Series(col.name, dtype, cells)
    BY <1>1 DEF IsColumn
  <1>9. QED
    BY <1>1, <1>6, <1>7, <1>8

-----------------------------------------------------------------------------
(* The text of a file and the lines in it                                  *)

Ended(body) == body \o <<NewLine>>

(* The lines of a text, each with the place of its first atom              *)
IsFile(text, n, body, beg) ==
  /\ n \in Nat \ {0} /\ IsList(text) /\ beg[1] = 1
  /\ \A k \in 1..n :
       /\ IsList(body[k]) /\ beg[k] \in Nat \ {0} /\ beg[k] + Len(body[k]) <= Len(text)
       /\ text[beg[k] + Len(body[k])] = NewLine
       /\ \A j \in 1..Len(body[k]) : text[beg[k] + j - 1] = body[k][j]
  /\ \A k \in 1..n-1 : beg[k+1] = beg[k] + Len(body[k]) + 1
  /\ beg[n] + Len(body[n]) = Len(text)

LEMMA EndedAtoms ==
  ASSUME NEW b, IsList(b)
  PROVE  /\ IsList(Ended(b)) /\ Len(Ended(b)) = Len(b) + 1 /\ Len(b) \in Nat
         /\ Ended(b)[Len(b) + 1] = NewLine
         /\ \A j \in 1..Len(b) : Ended(b)[j] = b[j]
  <1>1. PICK q : q = <<NewLine>>
    OBVIOUS
  <1>2. IsList(q) /\ Len(q) = 1 /\ q[1] = NewLine /\ 1 \in 1..1
    BY <1>1 DEF IsList
  <1> IsList(q)
    BY <1>2
  <1>3. /\ IsList(b \o q) /\ Len(b \o q) = Len(b) + Len(q)
        /\ \A j \in 1..Len(b) : (b \o q)[j] = b[j]
        /\ \A j \in 1..Len(q) : (b \o q)[Len(b) + j] = q[j]
    BY ListsConcat
  <1>4. Ended(b) = b \o q
    BY <1>1 DEF Ended
  <1>5. Len(b) \in Nat
    BY DEF IsList
  <1>6. QED
    BY <1>2, <1>3, <1>4, <1>5

LEMMA FilePlaces ==
  ASSUME NEW n, n \in Nat \ {0}, NEW body, \A k \in 1..n : IsList(body[k])
  PROVE  \E beg : IsFile(FlattenSeq([k \in 1..n |-> Ended(body[k])]), n, body, beg)
  <1>1. PICK ss, text : ss = [k \in 1..n |-> Ended(body[k])] /\ text = FlattenSeq(ss)
    OBVIOUS
  <1>2. /\ DOMAIN ss = 1..n /\ ss = [k \in 1..n |-> ss[k]]
        /\ \A k \in 1..n : ss[k] = Ended(body[k])
    BY <1>1
  <1>3. \A k \in 1..n : /\ IsList(ss[k]) /\ Len(ss[k]) = Len(body[k]) + 1 /\ Len(body[k]) \in Nat
                        /\ ss[k][Len(body[k]) + 1] = NewLine
                        /\ \A j \in 1..Len(body[k]) : ss[k][j] = body[k][j]
    <2> TAKE k \in 1..n
    <2>1. PICK b : b = body[k]
      OBVIOUS
    <2>2. IsList(b)
      BY <2>1
    <2>3. /\ IsList(Ended(b)) /\ Len(Ended(b)) = Len(b) + 1 /\ Len(b) \in Nat
          /\ Ended(b)[Len(b) + 1] = NewLine
          /\ \A j \in 1..Len(b) : Ended(b)[j] = b[j]
      BY <2>2, EndedAtoms
    <2>4. ss[k] = Ended(b)
      BY <1>2, <2>1
    <2>5. QED
      BY <2>1, <2>3, <2>4
  <1>4. PICK off : ListsAt(ss, n, off)
    <2>1. n \in Nat
      OBVIOUS
    <2>2. DOMAIN ss = 1..n
      BY <1>2
    <2>3. ss = [k \in 1..n |-> ss[k]]
      BY <1>2
    <2>4. \A k \in 1..n : IsList(ss[k])
      BY <1>3
    <2>5. QED
      BY <2>1, <2>2, <2>3, <2>4, LengthsAdd
  <1>5. Flattened(text, ss, off, n)
    BY <1>1, <1>4, FlattenPlaces
  <1>6. /\ IsList(text) /\ Len(text) = off[n] /\ off[0] = 0
        /\ \A k \in 0..n : off[k] \in Nat /\ off[k] <= off[n]
        /\ \A k \in 1..n : \A j \in 1..Len(ss[k]) : text[off[k-1] + j] = ss[k][j]
        /\ \A k \in 1..n : off[k] = off[k-1] + Len(ss[k])
    BY <1>4, <1>5 DEF Flattened, ListsAt
  <1>7. PICK beg : beg = [k \in 1..n |-> off[k-1] + 1]
    OBVIOUS
  <1>8. ASSUME NEW k \in 1..n
        PROVE  /\ IsList(body[k]) /\ beg[k] \in Nat \ {0} /\ beg[k] + Len(body[k]) = off[k]
               /\ beg[k] + Len(body[k]) <= Len(text)
               /\ text[beg[k] + Len(body[k])] = NewLine
               /\ \A j \in 1..Len(body[k]) : text[beg[k] + j - 1] = body[k][j]
    <2>1. PICK p, m : p = off[k-1] /\ m = Len(body[k])
      OBVIOUS
    <2>2. p \in Nat /\ m \in Nat /\ Len(ss[k]) = m + 1 /\ off[k] = p + (m + 1) /\ beg[k] = p + 1
      <3>1. k - 1 \in 0..n
        OBVIOUS
      <3>2. QED
        BY <1>3, <1>6, <1>7, <2>1, <3>1
    <2>3. \A j \in 1..m+1 : text[p + j] = ss[k][j]
      BY <1>6, <2>1, <2>2
    <2>4. text[p + (m + 1)] = NewLine
      <3>1. m + 1 \in 1..m+1
        BY <2>2
      <3>2. QED
        BY <1>3, <2>1, <2>3, <3>1
    <2>5. \A j \in 1..m : text[(p + 1) + j - 1] = body[k][j]
      <3> TAKE j \in 1..m
      <3>1. j \in 1..m+1 /\ (p + 1) + j - 1 = p + j
        BY <2>2
      <3>2. QED
        BY <1>3, <2>1, <2>3, <3>1
    <2>6. off[k] <= Len(text)
      BY <1>6
    <2>7. p + 1 \in Nat \ {0} /\ (p + 1) + m = p + (m + 1)
      BY <2>2
    <2>8. beg[k] \in Nat \ {0} /\ beg[k] + Len(body[k]) = p + (m + 1) /\ p + (m + 1) = off[k]
      BY <2>1, <2>2, <2>7
    <2>9. \A j \in 1..Len(body[k]) : text[beg[k] + j - 1] = body[k][j]
      BY <2>1, <2>2, <2>5
    <2>10. text[beg[k] + Len(body[k])] = NewLine /\ beg[k] + Len(body[k]) <= Len(text)
      BY <2>4, <2>6, <2>8
    <2>11. IsList(body[k])
      BY <1>3
    <2>12. QED
      BY <2>8, <2>9, <2>10, <2>11
  <1>9. \A k \in 1..n-1 : beg[k+1] = beg[k] + Len(body[k]) + 1
    <2> TAKE k \in 1..n-1
    <2>1. k \in 1..n /\ k + 1 \in 1..n /\ (k + 1) - 1 = k
      OBVIOUS
    <2>2. beg[k+1] = off[k] + 1
      BY <1>7, <2>1
    <2>3. beg[k] + Len(body[k]) = off[k]
      BY <1>8, <2>1
    <2>4. QED
      BY <2>2, <2>3
  <1>10. beg[1] = 1 /\ beg[n] + Len(body[n]) = Len(text)
    <2>1. 1 \in 1..n /\ n \in 1..n /\ 1 - 1 = 0
      OBVIOUS
    <2>2. beg[1] = off[1-1] + 1
      BY <1>7, <2>1
    <2>3. QED
      BY <1>6, <1>8, <2>1, <2>2
  <1>11. IsFile(text, n, body, beg)
    BY <1>6, <1>8, <1>9, <1>10 DEF IsFile
  <1>12. QED
    BY <1>1, <1>11

(* Bodies of lines that a file can hold                                    *)
AreBodies(n, body) ==
  \A k \in 1..n : /\ \A j \in 1..Len(body[k]) : body[k][j] # NewLine
                  /\ Len(body[k]) > 0 => body[k][Len(body[k])] # CR

LEMMA LineBody ==
  ASSUME NEW n, NEW body, NEW beg, IsFile(content, n, body, beg), AreBodies(n, body), NEW k, k \in 1..n
  PROVE  LineAt(beg[k]) = body[k]
  <1>1. PICK p, m, b, len : p = beg[k] /\ m = Len(b) /\ b = body[k] /\ len = Len(content)
    OBVIOUS
  <1>2. /\ p \in Nat \ {0} /\ m \in Nat /\ len \in Nat /\ p + m <= len /\ content[p + m] = NewLine
        /\ IsList(b) /\ IsList(content)
        /\ \A j \in 1..m : content[p + j - 1] = b[j]
    BY <1>1 DEF IsFile, IsList
  <1>3. (\A j \in 1..m : b[j] # NewLine) /\ (m > 0 => b[m] # CR)
    BY <1>1 DEF AreBodies
  <1>4. EndOfLine(p) = p + m
    <2>1. PICK E : E = {q \in p..len : content[q] = NewLine}
      OBVIOUS
    <2>2. p + m \in E
      BY <1>2, <2>1
    <2>3. \A q \in E : p + m <= q
      <3> SUFFICES ASSUME NEW q \in E, q < p + m PROVE FALSE
        BY <1>2, <2>1
      <3>1. PICK j : j = q - p + 1
        OBVIOUS
      <3>2. q \in Int /\ q >= p
        BY <1>2, <2>1
      <3>3. j \in 1..m /\ p + j - 1 = q
        BY <1>2, <3>1, <3>2
      <3>4. content[q] = b[j] /\ content[q] = NewLine
        BY <1>2, <2>1, <3>3
      <3>5. QED
        BY <1>3, <3>3, <3>4
    <2>4. Min(E) = p + m
      <3>1. IsLeast(p + m, E)
        BY <2>2, <2>3 DEF IsLeast
      <3>2. E \in SUBSET Int
        BY <1>2, <2>1
      <3>3. QED
        BY <3>1, <3>2, MinIs
    <2>5. QED
      BY <1>1, <2>1, <2>2, <2>4 DEF EndOfLine
  <1>5. SubSeq(content, p, p + m - 1) = b
    <2>1. PICK x, T, e : x = SubSeq(content, p, e) /\ T = ElementsOf(content) /\ e = p + m - 1
      OBVIOUS
    <2>2. p \in Int /\ e \in Int
      BY <1>2, <2>1
    <2>3. \A i \in p..e : content[i] \in T
      BY <1>1, <1>2, <2>1 DEF ElementsOf
    <2>4. /\ x \in Seq(T) /\ Len(x) = (IF p <= e THEN e - p + 1 ELSE 0)
          /\ \A i \in 1..e-p+1 : x[i] = content[p + i - 1]
      BY <2>1, <2>2, <2>3, SubSeqProperties
    <2>5. Len(x) = m /\ e - p + 1 = m
      BY <1>2, <2>1, <2>4
    <2>6. IsList(x)
      BY <2>4, SeqIsList
    <2>7. \A i \in 1..m : x[i] = b[i]
      BY <1>2, <2>4, <2>5
    <2>8. x = [i \in 1..m |-> x[i]] /\ b = [i \in 1..m |-> b[i]]
      BY <1>1, <1>2, <2>5, <2>6 DEF IsList
    <2>9. QED
      BY <2>1, <2>7, <2>8
  <1>6. Strip(b, CR) = b
    <2>1. CASE b = <<>>
      BY <2>1 DEF Strip
    <2>2. CASE b # <<>>
      <3>1. m > 0
        BY <1>1, <1>2, <2>2 DEF IsList
      <3>2. Last(b) = b[m]
        BY <1>1 DEF Last
      <3>3. QED
        BY <1>3, <3>1, <3>2 DEF Strip
    <2>3. QED
      BY <2>1, <2>2
  <1>7. QED
    <2>1. PICK e, d : e = EndOfLine(p) - 1 /\ d = p + m - 1
      OBVIOUS
    <2>2. LineAt(p) = Strip(SubSeq(content, p, e), CR)
      BY <2>1 DEF LineAt
    <2>3. e = d
      BY <1>2, <1>4, <2>1
    <2>4. SubSeq(content, p, d) = b
      BY <1>5, <2>1
    <2>5. QED
      BY <1>1, <1>6, <2>2, <2>3, <2>4

(* The lines start where they were written.                                *)
Begs(n, beg) == [k \in 1..n |-> beg[k]]

LEMMA BegsAscend ==
  ASSUME NEW text, NEW n, NEW body, NEW beg, IsFile(text, n, body, beg)
  PROVE  /\ Begs(n, beg) \in Seq(Int) /\ Len(Begs(n, beg)) = n /\ Ascending(Begs(n, beg))
         /\ \A q \in 1..Len(text) : \E k \in 1..n : beg[k] <= q /\ q <= beg[k] + Len(body[k])
  <1>1. PICK len : len = Len(text)
    OBVIOUS
  <1>2. /\ n \in Nat \ {0} /\ beg[1] = 1 /\ beg[n] + Len(body[n]) = len
        /\ \A k \in 1..n : beg[k] \in Nat \ {0} /\ Len(body[k]) \in Nat
        /\ \A k \in 1..n-1 : beg[k+1] = beg[k] + Len(body[k]) + 1
    BY <1>1 DEF IsFile, IsList
  <1>3. Begs(n, beg) \in Seq(Int) /\ Len(Begs(n, beg)) = n /\ DOMAIN Begs(n, beg) = 1..n
    BY <1>2 DEF Begs
  <1>4. ASSUME NEW k \in 1..n, NEW l \in 1..n, k < l PROVE beg[k] < beg[l]
    <2> DEFINE S == {i \in k+1..n : beg[k] < beg[i]}
    <2>1. k + 1 \in S
      <3>1. k \in 1..n-1 /\ k + 1 \in k+1..n
        BY <1>2, <1>4
      <3>2. beg[k+1] = beg[k] + Len(body[k]) + 1 /\ beg[k] \in Nat /\ Len(body[k]) \in Nat
        BY <1>2, <3>1
      <3>3. QED
        BY <3>1, <3>2
    <2>2. ASSUME NEW i \in k+1..n-1, i \in S PROVE i + 1 \in S
      <3>1. i \in 1..n-1 /\ i \in 1..n /\ i + 1 \in k+1..n
        BY <1>2
      <3>2. beg[i+1] = beg[i] + Len(body[i]) + 1 /\ beg[i] \in Nat /\ Len(body[i]) \in Nat /\ beg[k] \in Nat
        BY <1>2, <3>1
      <3>3. beg[k] < beg[i]
        BY <2>2
      <3>4. QED
        BY <3>1, <3>2, <3>3
    <2>3. l \in S
      <3> HIDE DEF S
      <3>1. k + 1 \in Int /\ n \in Int /\ l \in k+1..n
        BY <1>2, <1>4
      <3>2. k+1..n \subseteq S
        BY <2>1, <2>2, <3>1, IntervalInduction
      <3>3. QED
        BY <3>1, <3>2
    <2>4. QED
      BY <2>3
  <1>5. Ascending(Begs(n, beg))
    BY <1>3, <1>4 DEF Ascending, Begs
  <1>6. ASSUME NEW q \in 1..len PROVE \E k \in 1..n : beg[k] <= q /\ q <= beg[k] + Len(body[k])
    <2> DEFINE U == {i \in 1..n : q <= beg[i] + Len(body[i]) => \E k \in 1..i : beg[k] <= q /\ q <= beg[k] + Len(body[k])}
    <2>1. 1 \in U
      <3>1. 1 \in 1..n /\ 1 \in 1..1
        BY <1>2
      <3>2. beg[1] <= q
        BY <1>2
      <3>3. QED
        BY <3>1, <3>2
    <2>2. ASSUME NEW i \in 1..n-1, i \in U PROVE i + 1 \in U
      <3>1. i \in 1..n /\ i + 1 \in 1..n /\ i + 1 \in 1..i+1 /\ \A k \in 1..i : k \in 1..i+1
        BY <1>2
      <3>2. beg[i+1] = beg[i] + Len(body[i]) + 1 /\ beg[i] \in Nat /\ Len(body[i]) \in Nat
        BY <1>2, <3>1
      <3>3. CASE q <= beg[i] + Len(body[i])
        BY <2>2, <3>1, <3>3
      <3>4. CASE beg[i+1] <= q
        BY <3>1, <3>4
      <3>5. QED
        BY <1>2, <3>2, <3>3, <3>4
    <2>3. n \in U
      <3> HIDE DEF U
      <3>1. 1 \in Int /\ n \in Int /\ n \in 1..n
        BY <1>2
      <3>2. 1..n \subseteq U
        BY <2>1, <2>2, <3>1, IntervalInduction
      <3>3. QED
        BY <3>1, <3>2
    <2>4. QED
      BY <1>2, <2>3
  <1>7. QED
    BY <1>1, <1>3, <1>5, <1>6

LEMMA LinesOfFile ==
  ASSUME NEW n, NEW body, NEW beg, IsFile(content, n, body, beg), AreBodies(n, body)
  PROVE  LinesFrom(1) = Begs(n, beg)
  <1>1. PICK s, len : s = Begs(n, beg) /\ len = Len(content)
    OBVIOUS
  <1>2. /\ s \in Seq(Int) /\ Len(s) = n /\ Ascending(s)
        /\ \A q \in 1..len : \E k \in 1..n : beg[k] <= q /\ q <= beg[k] + Len(body[k])
    BY <1>1, BegsAscend
  <1>3. /\ n \in Nat \ {0} /\ beg[1] = 1 /\ beg[n] + Len(body[n]) = len /\ len \in Nat
        /\ \A k \in 1..n : /\ beg[k] \in Nat \ {0} /\ Len(body[k]) \in Nat /\ beg[k] + Len(body[k]) <= len
                           /\ content[beg[k] + Len(body[k])] = NewLine
                           /\ \A j \in 1..Len(body[k]) : content[beg[k] + j - 1] = body[k][j]
        /\ \A k \in 1..n-1 : beg[k+1] = beg[k] + Len(body[k]) + 1
    BY <1>1 DEF IsFile, IsList
  <1>4. ASSUME NEW k \in 1..n PROVE beg[k] \in Starts(1)
    <2>1. beg[k] \in 1..len
      BY <1>3
    <2>2. CASE k = 1
      BY <1>1, <1>3, <2>1, <2>2 DEF Starts
    <2>3. CASE k # 1
      <3>1. PICK i : i = k - 1
        OBVIOUS
      <3>2. i \in 1..n-1 /\ i \in 1..n /\ i + 1 = k
        BY <1>3, <2>3, <3>1
      <3>3. beg[k] = beg[i] + Len(body[i]) + 1
        BY <1>3, <3>2
      <3>4. beg[k] - 1 = beg[i] + Len(body[i])
        BY <1>3, <3>2, <3>3
      <3>5. content[beg[k] - 1] = NewLine
        BY <1>3, <3>2, <3>4
      <3>6. QED
        BY <1>1, <2>1, <3>5 DEF Starts
    <2>4. QED
      BY <2>2, <2>3
  <1>5. ASSUME NEW q \in Starts(1) PROVE \E k \in 1..n : q = beg[k]
    <2>1. q \in 1..len /\ (q = 1 \/ content[q-1] = NewLine)
      BY <1>1 DEF Starts
    <2>2. CASE q = 1
      <3>1. 1 \in 1..n
        BY <1>3
      <3>2. QED
        BY <1>3, <2>2, <3>1
    <2>3. CASE q # 1
      <3>1. PICK p : p = q - 1
        OBVIOUS
      <3>2. p \in 1..len /\ p < len /\ content[p] = NewLine /\ q = p + 1
        BY <1>3, <2>1, <2>3, <3>1
      <3>3. PICK k \in 1..n : beg[k] <= p /\ p <= beg[k] + Len(body[k])
        BY <1>2, <3>2
      <3>4. p = beg[k] + Len(body[k])
        <4>1. PICK g, m : g = beg[k] /\ m = Len(body[k])
          OBVIOUS
        <4>2. g \in Nat /\ m \in Nat /\ p \in Nat /\ g <= p /\ p <= g + m
          BY <1>3, <3>2, <3>3, <4>1
        <4>3. ASSUME p < g + m PROVE FALSE
          <5>1. PICK j : j = p - g + 1
            OBVIOUS
          <5>2. j \in 1..m /\ g + j - 1 = p
            BY <4>2, <4>3, <5>1
          <5>3. content[p] = body[k][j]
            BY <1>3, <4>1, <5>2
          <5>4. body[k][j] # NewLine
            BY <4>1, <5>2 DEF AreBodies
          <5>5. QED
            BY <3>2, <5>3, <5>4
        <4>4. QED
          BY <4>1, <4>2, <4>3
      <3>5. k \in 1..n-1
        BY <1>3, <3>2, <3>4
      <3>6. k + 1 \in 1..n /\ beg[k+1] = q
        BY <1>3, <3>2, <3>4, <3>5
      <3>7. QED
        BY <3>6
    <2>4. QED
      BY <2>2, <2>3
  <1>6. ToSet(s) = Starts(1)
    <2>1. DOMAIN s = 1..n /\ \A k \in 1..n : s[k] = beg[k]
      BY <1>1 DEF Begs
    <2>2. QED
      BY <1>4, <1>5, <2>1 DEF ToSet
  <1>7. s = RowList(Starts(1))
    <2>1. s \in Seq(Int) /\ Ascending(s)
      BY <1>2
    <2>2. QED
      BY <1>6, <2>1, AscendingIsRowList
  <1>8. LinesFrom(1) = RowList(Starts(1))
    BY DEF LinesFrom, Starts
  <1>9. QED
    BY <1>1, <1>7, <1>8

-----------------------------------------------------------------------------
(* The rows of a file                                                      *)

LEMMA RowsOfFile ==
  ASSUME NEW n, NEW body, NEW beg, IsFile(content, n, body, beg), AreBodies(n, body),
         \A k \in 2..n : Kept(body[k])
  PROVE  Rows(SubSeq(LinesFrom(1), 2, Len(LinesFrom(1)))) =
           [r \in 1..n-1 |-> ParseLine(body[r+1], options.sep, options.quote)]
  <1>1. PICK s, t, Q : s = Begs(n, beg) /\ t = SubSeq(s, 2, n) /\ Q = ToSet(t)
    OBVIOUS
  <1>2. s \in Seq(Int) /\ Len(s) = n /\ Ascending(s) /\ LinesFrom(1) = s
    BY <1>1, BegsAscend, LinesOfFile
  <1>3. n \in Nat \ {0} /\ \A k \in 1..n : s[k] = beg[k]
    BY <1>1 DEF IsFile, Begs
  <1>4. t \in Seq(Int) /\ Ascending(t)
    <2> s \in Seq(Int) /\ Ascending(s)
      BY <1>2
    <2>1. 2 \in Nat \ {0} /\ n \in Nat /\ n <= Len(s)
      BY <1>2, <1>3
    <2>2. SubSeq(s, 2, n) \in Seq(Int) /\ Ascending(SubSeq(s, 2, n))
      BY <2>1, RowListPart
    <2>3. QED
      BY <1>1, <2>2
  <1>5. Len(t) = n - 1 /\ \A r \in 1..n-1 : t[r] = beg[r+1]
    <2>1. \A i \in 2..n : s[i] \in Int
      BY <1>2, <1>3
    <2>2. /\ Len(t) = (IF 2 <= n THEN n - 2 + 1 ELSE 0)
          /\ \A i \in 1 .. n - 2 + 1 : t[i] = s[2 + i - 1]
      <3>1. 2 \in Int /\ n \in Int
        BY <1>3
      <3>2. QED
        BY <1>1, <2>1, <3>1, SubSeqProperties
    <2>3. Len(t) = n - 1
      BY <1>3, <2>2
    <2>4. ASSUME NEW r \in 1..n-1 PROVE t[r] = beg[r+1]
      <3>1. r \in 1 .. n - 2 + 1 /\ 2 + r - 1 = r + 1 /\ r + 1 \in 1..n
        BY <1>3
      <3>2. QED
        BY <1>3, <2>2, <3>1
    <2>5. QED
      BY <2>3, <2>4
  <1>6. t = RowList(Q) /\ IsFiniteSet(Q) /\ Cardinality(Q) = Len(t)
    BY <1>1, <1>4, AscendingIsRowList
  <1>7. \A k \in 1..n : LineAt(beg[k]) = body[k]
    BY LineBody
  <1>8. RowsAt(Q) = Q
    <2>1. ASSUME NEW q \in Q PROVE Kept(LineAt(q))
      <3>1. DOMAIN t = 1..n-1
        BY <1>4, <1>5
      <3>2. PICK r \in 1..n-1 : q = t[r]
        BY <1>1, <3>1 DEF ToSet
      <3>3. r + 1 \in 2..n /\ r + 1 \in 1..n
        BY <1>3
      <3>4. LineAt(q) = body[r+1]
        BY <1>5, <1>7, <3>2, <3>3
      <3>5. QED
        BY <3>3, <3>4
    <2>2. QED
      BY <2>1 DEF RowsAt
  <1>9. Rows(t) = [r \in 1..Cardinality(RowsAt(Q)) |-> Fields(RowList(RowsAt(Q))[r])]
    <2> t \in Seq(Int) /\ Ascending(t)
      BY <1>4
    <2> Q = ToSet(t)
      BY <1>1
    <2>1. QED
      BY RowsOfLines
  <1>10. Rows(t) = [r \in 1..n-1 |-> Fields(t[r])]
    BY <1>5, <1>6, <1>8, <1>9
  <1>11. \A r \in 1..n-1 : Fields(t[r]) = ParseLine(body[r+1], options.sep, options.quote)
    <2> TAKE r \in 1..n-1
    <2>1. r + 1 \in 1..n
      BY <1>3
    <2>2. LineAt(t[r]) = body[r+1]
      BY <1>5, <1>7, <2>1
    <2>3. QED
      BY <2>2 DEF Fields
  <1>12. Rows(t) = [r \in 1..n-1 |-> ParseLine(body[r+1], options.sep, options.quote)]
    BY <1>10, <1>11
  <1>13. QED
    BY <1>1, <1>2, <1>12

-----------------------------------------------------------------------------
(* The texts of a table, line by line                                      *)

NamesOf(cols) == [k \in DOMAIN cols |-> cols[k].name]
RowOf(cols, r) == [k \in DOMAIN cols |-> TextsOf(cols[k])[r]]
Tall(cols) == Len(cols[1].cells)
LineTexts(cols) == [k \in 1..Tall(cols)+1 |-> IF k = 1 THEN NamesOf(cols) ELSE RowOf(cols, k - 1)]
Bodies(cols, sep, quote) ==
  [k \in 1..Tall(cols)+1 |-> FlattenSeq(Pieces(LineTexts(cols)[k], sep, quote))]

LEMMA TableParts ==
  ASSUME NEW cols, IsTable(cols), cols # <<>>
  PROVE  /\ IsList(cols) /\ Len(cols) \in Nat \ {0} /\ Tall(cols) \in Nat
         /\ \A k \in 1..Len(cols) :
              /\ IsColumn(cols[k]) /\ IsList(cols[k].name) /\ IsList(cols[k].cells)
              /\ DOMAIN cols[k].cells = 1..Tall(cols)
              /\ DOMAIN TextsOf(cols[k]) = 1..Tall(cols)
  <1>1. cols \in Seq(ToSet(cols))
    BY DEF IsTable, IsText
  <1>2. IsList(cols)
    BY <1>1, SeqIsList
  <1>3. Len(cols) \in Nat \ {0} /\ DOMAIN cols = 1..Len(cols)
    BY <1>1, <1>2 DEF IsList
  <1>4. ASSUME NEW k \in 1..Len(cols)
        PROVE  IsColumn(cols[k]) /\ IsList(cols[k].name) /\ IsList(cols[k].cells)
    <2>1. IsColumn(cols[k])
      BY <1>3 DEF IsTable
    <2>2. IsText(cols[k].name) /\ IsText(cols[k].cells)
      BY <2>1 DEF IsColumn
    <2>3. cols[k].name \in Seq(ToSet(cols[k].name)) /\ cols[k].cells \in Seq(ToSet(cols[k].cells))
      BY <2>2 DEF IsText
    <2>4. QED
      BY <2>1, <2>3, SeqIsList
  <1>5. Tall(cols) \in Nat
    <2>1. 1 \in 1..Len(cols)
      BY <1>3
    <2>2. IsList(cols[1].cells)
      BY <1>4, <2>1
    <2>3. QED
      BY <2>2 DEF IsList, Tall
  <1>6. \A k \in 1..Len(cols) : DOMAIN cols[k].cells = 1..Tall(cols)
    <2> TAKE k \in 1..Len(cols)
    <2>1. Len(cols[k].cells) = Len(cols[1].cells)
      BY <1>3 DEF IsTable
    <2>2. QED
      BY <1>4, <2>1 DEF Tall, IsList
  <1>7. \A k \in 1..Len(cols) : DOMAIN TextsOf(cols[k]) = 1..Tall(cols)
    BY <1>6 DEF TextsOf
  <1>8. QED
    BY <1>2, <1>3, <1>4, <1>5, <1>6, <1>7

LEMMA TextIsList ==
  ASSUME NEW col, IsColumn(col), col.dtype \in Inferable, NEW r, r \in DOMAIN col.cells
  PROVE  IsList(TextsOf(col)[r])
  <1>1. CASE col.cells[r] = Null
    <2>1. TextsOf(col)[r] = <<>>
      BY <1>1 DEF TextsOf
    <2>2. QED
      BY <2>1 DEF IsList
  <1>2. CASE col.cells[r] # Null
    <2>1. PICK d, c : d = col.dtype /\ c = col.cells[r]
      OBVIOUS
    <2>2. d \in Inferable
      BY <2>1
    <2>3. IsCell(d, c)
      BY <1>2, <2>1 DEF IsColumn
    <2>4. IsList(FormatCell(d, c))
      BY <2>2, <2>3, CellText
    <2>5. QED
      BY <1>2, <2>1, <2>4 DEF TextsOf
  <1>3. QED
    BY <1>1, <1>2

(* What Write does with a line's texts                                     *)
LEMMA LineOfTexts ==
  ASSUME NEW texts, NEW fields, NEW sep, NEW quote,
         fields = [k \in DOMAIN texts |-> QuoteField(texts[k], sep, quote)]
  PROVE  Line(fields, sep) = Ended(FlattenSeq(Pieces(texts, sep, quote)))
  <1>1. PICK ss, tt : /\ ss = [i \in DOMAIN fields |-> IF i = 1 THEN fields[i] ELSE <<sep>> \o fields[i]]
                      /\ tt = Pieces(texts, sep, quote)
    OBVIOUS
  <1>2. ss = tt
    BY <1>1 DEF Pieces
  <1>3. Line(fields, sep) = FlattenSeq(ss) \o <<NewLine>>
    BY <1>1 DEF Line
  <1>4. QED
    BY <1>1, <1>2, <1>3 DEF Ended

LEMMA QuoteNone ==
  ASSUME NEW sep, NEW quote
  PROVE  QuoteField(<<>>, sep, quote) = <<>>
  <1>1. ToSet(<<>>) = {}
    BY DEF ToSet
  <1>2. QED
    BY <1>1 DEF QuoteField

LEMMA WriteLines ==
  ASSUME NEW cols, IsTable(cols), cols # <<>>, NEW sep, NEW quote
  PROVE  Write(cols, sep, quote, <<>>) =
           FlattenSeq([k \in 1..Tall(cols)+1 |-> Ended(Bodies(cols, sep, quote)[k])])
  <1>1. PICK h : h = Tall(cols)
    OBVIOUS
  <1>2. /\ IsList(cols) /\ Len(cols) \in Nat \ {0} /\ h \in Nat
        /\ \A k \in 1..Len(cols) : DOMAIN cols[k].cells = 1..h
    BY <1>1, TableParts
  <1>3. DOMAIN cols = 1..Len(cols) /\ DOMAIN cols[1].cells = 1..h
    <2>1. 1 \in 1..Len(cols)
      BY <1>2
    <2>2. QED
      BY <1>2, <2>1 DEF IsList
  <1>4. PICK names : names = [k \in DOMAIN cols |-> QuoteField(cols[k].name, sep, quote)]
    OBVIOUS
  <1>5. PICK cells : cells = [r \in 1..h |->
                       [k \in DOMAIN cols |-> IF cols[k].cells[r] = Null THEN <<>>
                                              ELSE QuoteField(FormatCell(cols[k].dtype, cols[k].cells[r]), sep, quote)]]
    OBVIOUS
  <1>6. PICK header, rows : header = Line(names, sep) /\ rows = [r \in 1..h |-> Line(cells[r], sep)]
    OBVIOUS
  <1>7. Write(cols, sep, quote, <<>>) = FlattenSeq(<<header>> \o rows)
    <2>1. PICK lines : lines = [r \in DOMAIN cols[1].cells |->
            Line([k \in DOMAIN cols |-> IF cols[k].cells[r] = Null THEN <<>>
                                        ELSE QuoteField(FormatCell(cols[k].dtype, cols[k].cells[r]), sep, quote)], sep)]
      OBVIOUS
    <2>2. Write(cols, sep, quote, <<>>) = FlattenSeq(<<header>> \o lines)
      BY <1>4, <1>6, <2>1 DEF Write
    <2>3. lines = rows
      BY <1>3, <1>5, <1>6, <2>1
    <2>4. QED
      BY <2>2, <2>3
  <1>8. PICK b : b = Bodies(cols, sep, quote)
    OBVIOUS
  <1>9. header = Ended(b[1])
    <2>1. PICK texts : texts = NamesOf(cols)
      OBVIOUS
    <2>2. names = [k \in DOMAIN texts |-> QuoteField(texts[k], sep, quote)]
      BY <1>4, <2>1 DEF NamesOf
    <2>3. header = Ended(FlattenSeq(Pieces(texts, sep, quote)))
      BY <1>6, <2>2, LineOfTexts
    <2>4. 1 \in 1..h+1
      BY <1>2
    <2>5. b[1] = FlattenSeq(Pieces(texts, sep, quote))
      BY <1>1, <1>8, <2>1, <2>4 DEF Bodies, LineTexts
    <2>6. QED
      BY <2>3, <2>5
  <1>10. ASSUME NEW r \in 1..h PROVE rows[r] = Ended(b[r+1])
    <2>1. PICK texts, fields : texts = RowOf(cols, r) /\ fields = cells[r]
      OBVIOUS
    <2>2. fields = [k \in DOMAIN texts |-> QuoteField(texts[k], sep, quote)]
      <3>1. DOMAIN texts = DOMAIN cols
        BY <2>1 DEF RowOf
      <3>2. ASSUME NEW k \in DOMAIN cols PROVE fields[k] = QuoteField(texts[k], sep, quote)
        <4>1. r \in DOMAIN cols[k].cells
          BY <1>2, <1>3
        <4>2. texts[k] = IF cols[k].cells[r] = Null THEN <<>> ELSE FormatCell(cols[k].dtype, cols[k].cells[r])
          BY <2>1, <4>1 DEF RowOf, TextsOf
        <4>3. fields[k] = IF cols[k].cells[r] = Null THEN <<>>
                          ELSE QuoteField(FormatCell(cols[k].dtype, cols[k].cells[r]), sep, quote)
          BY <1>5, <2>1
        <4>4. QED
          BY <4>2, <4>3, QuoteNone
      <3>3. fields = [k \in DOMAIN cols |-> fields[k]]
        BY <1>5, <2>1
      <3>4. QED
        BY <3>1, <3>2, <3>3
    <2>3. rows[r] = Ended(FlattenSeq(Pieces(texts, sep, quote)))
      <3>1. Line(fields, sep) = Ended(FlattenSeq(Pieces(texts, sep, quote)))
        BY <2>2, LineOfTexts
      <3>2. QED
        BY <1>6, <2>1, <3>1
    <2>4. r + 1 \in 1..h+1 /\ r + 1 # 1 /\ (r + 1) - 1 = r
      BY <1>2
    <2>5. LineTexts(cols)[r+1] = texts
      BY <1>1, <2>1, <2>4 DEF LineTexts
    <2>6. b[r+1] = FlattenSeq(Pieces(texts, sep, quote))
      BY <1>1, <1>8, <2>4, <2>5 DEF Bodies
    <2>7. QED
      BY <2>3, <2>6
  <1>11. <<header>> \o rows = [k \in 1..h+1 |-> Ended(b[k])]
    <2>1. PICK s, t, u : s = <<header>> /\ t = rows /\ u = [k \in 1..h+1 |-> Ended(b[k])]
      OBVIOUS
    <2>2. IsList(s) /\ Len(s) = 1 /\ s[1] = header
      BY <2>1 DEF IsList
    <2>3. IsList(t) /\ Len(t) = h
      BY <1>2, <1>6, <2>1 DEF IsList
    <2> IsList(s)
      BY <2>2
    <2> IsList(t)
      BY <2>3
    <2>4. /\ IsList(s \o t) /\ Len(s \o t) = Len(s) + Len(t)
          /\ \A k \in 1..Len(s) : (s \o t)[k] = s[k]
          /\ \A k \in 1..Len(t) : (s \o t)[Len(s) + k] = t[k]
      BY ListsConcat
    <2>5. PICK v : v = s \o t
      OBVIOUS
    <2>6. DOMAIN v = 1..h+1 /\ v = [k \in 1..h+1 |-> v[k]]
      <3>1. Len(v) = h + 1
        BY <1>2, <2>2, <2>3, <2>4, <2>5
      <3>2. IsList(v)
        BY <2>4, <2>5
      <3>3. QED
        BY <3>1, <3>2 DEF IsList
    <2>7. ASSUME NEW k \in 1..h+1 PROVE v[k] = Ended(b[k])
      <3>1. CASE k = 1
        <4>1. 1 \in 1..Len(s)
          BY <2>2
        <4>2. QED
          BY <1>9, <2>2, <2>4, <2>5, <3>1, <4>1
      <3>2. CASE k # 1
        <4>1. PICK r : r = k - 1
          OBVIOUS
        <4>2. r \in 1..h /\ r + 1 = k /\ 1 + r = k
          BY <1>2, <3>2, <4>1
        <4>3. v[k] = t[r]
          BY <2>2, <2>3, <2>4, <2>5, <4>2
        <4>4. QED
          BY <1>10, <2>1, <4>2, <4>3
      <3>3. QED
        BY <3>1, <3>2
    <2>8. v = u
      BY <2>1, <2>6, <2>7
    <2>9. QED
      BY <2>1, <2>5, <2>8
  <1>12. QED
    BY <1>1, <1>7, <1>8, <1>11

-----------------------------------------------------------------------------
(* The lines of a recoverable table                                        *)

AreApart(sep, quote) == sep # quote /\ sep \notin {NewLine, CR} /\ quote \notin {NewLine, CR}
HasNoNewLine(texts) == \A k \in 1..Len(texts) : \A j \in 1..Len(texts[k]) : texts[k][j] # NewLine

(* A line that was written has no newline, is read back and does not look  *)
(* like the end of a line.                                                 *)
HoldsLine(line, texts, sep, quote) ==
  /\ IsList(line) /\ \A j \in 1..Len(line) : line[j] # NewLine
  /\ Len(line) > 0 => line[Len(line)] # CR
  /\ Len(texts) > 1 \/ texts[1] # <<>> => Len(line) > 0
  /\ ParseLine(line, sep, quote) = texts

LEMMA LineHolds ==
  ASSUME NEW texts, IsTexts(texts), HasNoNewLine(texts), NEW sep, NEW quote, AreApart(sep, quote)
  PROVE  HoldsLine(FlattenSeq(Pieces(texts, sep, quote)), texts, sep, quote)
  <1>1. PICK line, n : line = FlattenSeq(Pieces(texts, sep, quote)) /\ n = Len(texts)
    OBVIOUS
  <1>2. n \in Nat \ {0} /\ \A k \in 1..n : IsList(texts[k])
    BY <1>1 DEF IsTexts, IsList
  <1>3. PICK T : T = (UNION {ElementsOf(texts[k]) : k \in 1..n}) \cup {sep, quote}
    OBVIOUS
  <1>4. sep \in T /\ quote \in T
    BY <1>3
  <1>5. NewLine \notin T
    <2>1. \A k \in 1..n : NewLine \notin ElementsOf(texts[k])
      BY <1>1 DEF HasNoNewLine, ElementsOf
    <2>2. NewLine \notin {sep, quote}
      BY DEF AreApart
    <2>3. QED
      BY <1>3, <2>1, <2>2
  <1>6. \A k \in 1..n : texts[k] \in Seq(T)
    <2> TAKE k \in 1..n
    <2>1. ElementsOf(texts[k]) \subseteq T
      BY <1>3
    <2>2. QED
      BY <1>2, <2>1, ListIsSeq
  <1>7. line \in Seq(T)
    <2> sep \in T
      BY <1>4
    <2> quote \in T
      BY <1>4
    <2>1. \A k \in 1..Len(texts) : texts[k] \in Seq(T)
      BY <1>1, <1>6
    <2>2. FlattenSeq(Pieces(texts, sep, quote)) \in Seq(T)
      BY <2>1, LineAtoms
    <2>3. QED
      BY <1>1, <2>2
  <1>8. IsList(line)
    BY <1>7, SeqIsList
  <1>9. \A j \in 1..Len(line) : line[j] # NewLine
    BY <1>5, <1>7
  <1> sep # quote
    BY DEF AreApart
  <1>10. /\ Len(line) > 0 => line[Len(line)] # CR
         /\ Len(texts) > 1 \/ texts[1] # <<>> => Len(line) > 0
    <2> sep # CR
      BY DEF AreApart
    <2> quote # CR
      BY DEF AreApart
    <2>1. QED
      BY <1>1, LineEnds
  <1>11. ParseLine(line, sep, quote) = texts
    <2>1. ParseLine(FlattenSeq(Pieces(texts, sep, quote)), sep, quote) = texts
      BY WrittenLineParses
    <2>2. QED
      BY <1>1, <2>1
  <1>12. QED
    BY <1>1, <1>8, <1>9, <1>10, <1>11 DEF HoldsLine

(* Every line of a recoverable table                                       *)
LEMMA LinesHold ==
  ASSUME NEW cols, IsTable(cols), Recoverable(cols), AsWritten, NEW k, k \in 1..Tall(cols)+1
  PROVE  /\ HoldsLine(Bodies(cols, options.sep, options.quote)[k], LineTexts(cols)[k], options.sep, options.quote)
         /\ k > 1 => Len(Bodies(cols, options.sep, options.quote)[k]) > 0
  <1>1. PICK sep, quote, n, h, texts :
          sep = options.sep /\ quote = options.quote /\ n = Len(cols) /\ h = Tall(cols) /\ texts = LineTexts(cols)[k]
    OBVIOUS
  <1>2. cols # <<>>
    BY DEF Recoverable
  <1>3. /\ IsList(cols) /\ n \in Nat \ {0} /\ h \in Nat /\ DOMAIN cols = 1..n
        /\ \A c \in 1..n : /\ IsColumn(cols[c]) /\ IsList(cols[c].name)
                           /\ DOMAIN cols[c].cells = 1..h /\ DOMAIN TextsOf(cols[c]) = 1..h
    <2>1. /\ IsList(cols) /\ Len(cols) \in Nat \ {0} /\ Tall(cols) \in Nat
          /\ \A c \in 1..Len(cols) :
               /\ IsColumn(cols[c]) /\ IsList(cols[c].name) /\ IsList(cols[c].cells)
               /\ DOMAIN cols[c].cells = 1..Tall(cols)
               /\ DOMAIN TextsOf(cols[c]) = 1..Tall(cols)
      BY <1>2, TableParts
    <2>2. DOMAIN cols = 1..Len(cols)
      BY <2>1 DEF IsList
    <2>3. QED
      BY <1>1, <2>1, <2>2
  <1>4. \A c \in 1..n :
          /\ NewLine \notin ToSet(cols[c].name)
          /\ cols[c].dtype \in Inferable
          /\ \A r \in 1..h : /\ NewLine \notin ToSet(TextsOf(cols[c])[r])
                             /\ n = 1 => TextsOf(cols[c])[r] # <<>>
    <2>1. \A c \in 1..n : InferType(TextsOf(cols[c]), options.nulls, options.infer) = cols[c].dtype
      BY <1>3 DEF Recoverable
    <2>2. \A c \in 1..n : cols[c].dtype \in Inferable
      BY <2>1, InferredType
    <2>3. QED
      BY <1>1, <1>3, <2>2 DEF Recoverable
  <1>5. IsList(texts) /\ Len(texts) = n
    <2>1. DOMAIN texts = 1..n /\ texts = [c \in 1..n |-> texts[c]]
      <3>1. texts = NamesOf(cols) \/ texts = RowOf(cols, k - 1)
        BY <1>1 DEF LineTexts
      <3>2. QED
        BY <1>3, <3>1 DEF NamesOf, RowOf
    <2>2. n \in Nat
      BY <1>3
    <2>3. QED
      BY <2>1, <2>2, ListOf
  <1>6. ASSUME NEW c \in 1..n PROVE IsList(texts[c]) /\ NewLine \notin ToSet(texts[c])
    <2>1. CASE k = 1
      <3>1. texts[c] = cols[c].name
        BY <1>1, <1>3, <2>1 DEF LineTexts, NamesOf
      <3>2. QED
        BY <1>3, <1>4, <3>1
    <2>2. CASE k # 1
      <3>1. PICK r : r = k - 1
        OBVIOUS
      <3>2. r \in 1..h
        BY <1>1, <1>3, <2>2, <3>1
      <3>3. texts[c] = TextsOf(cols[c])[r]
        BY <1>1, <1>3, <2>2, <3>1 DEF LineTexts, RowOf
      <3>4. IsList(TextsOf(cols[c])[r])
        <4> IsColumn(cols[c])
          BY <1>3
        <4> cols[c].dtype \in Inferable
          BY <1>4
        <4> r \in DOMAIN cols[c].cells
          BY <1>3, <3>2
        <4>1. QED
          BY TextIsList
      <3>5. QED
        BY <1>4, <3>2, <3>3, <3>4
    <2>3. QED
      BY <2>1, <2>2
  <1>7. IsTexts(texts)
    <2>1. texts # <<>>
      BY <1>3, <1>5
    <2>2. QED
      BY <1>5, <1>6, <2>1 DEF IsTexts
  <1>8. HasNoNewLine(texts)
    <2>1. ASSUME NEW c \in 1..n, NEW j \in 1..Len(texts[c]) PROVE texts[c][j] # NewLine
      <3>1. j \in DOMAIN texts[c]
        BY <1>6 DEF IsList
      <3>2. QED
        BY <1>6, <3>1 DEF ToSet
    <2>2. QED
      BY <1>5, <2>1 DEF HasNoNewLine
  <1>9. AreApart(sep, quote)
    BY <1>1 DEF AsWritten, AreApart
  <1>10. PICK line : line = FlattenSeq(Pieces(texts, sep, quote))
    OBVIOUS
  <1>11. HoldsLine(line, texts, sep, quote)
    BY <1>7, <1>8, <1>9, <1>10, LineHolds
  <1>12. Bodies(cols, sep, quote)[k] = line
    BY <1>1, <1>10 DEF Bodies
  <1>13. k > 1 => Len(line) > 0
    <2>1. SUFFICES ASSUME k > 1 PROVE n > 1 \/ texts[1] # <<>>
      BY <1>5, <1>11 DEF HoldsLine
    <2>2. CASE n = 1
      <3>1. PICK r : r = k - 1
        OBVIOUS
      <3>2. r \in 1..h /\ 1 \in 1..n
        BY <1>1, <1>3, <2>1, <3>1
      <3>3. texts[1] = TextsOf(cols[1])[r]
        BY <1>1, <1>3, <2>1, <3>1, <3>2 DEF LineTexts, RowOf
      <3>4. QED
        BY <1>4, <2>2, <3>2, <3>3
    <2>3. CASE n # 1
      BY <1>3, <2>3
    <2>4. QED
      BY <2>2, <2>3
  <1>14. QED
    BY <1>1, <1>11, <1>12, <1>13

-----------------------------------------------------------------------------
(* The file of a recoverable table                                         *)

Wrote ==
  written # nil => written \in Tables /\ content = Write(written, options.sep, options.quote, <<>>)
Restorable == written # nil /\ AsWritten /\ Recoverable(written)

LEMMA FileOfTable ==
  ASSUME Wrote, Restorable, NEW h, h = Tall(written)
  PROVE  /\ IsTable(written) /\ written # <<>> /\ h \in Nat
         /\ \E n, body, beg :
              /\ n = h + 1 /\ IsFile(content, n, body, beg) /\ AreBodies(n, body)
              /\ body = Bodies(written, options.sep, options.quote)
              /\ \A k \in 2..n : Kept(body[k])
              /\ \A k \in 1..n : ParseLine(body[k], options.sep, options.quote) = LineTexts(written)[k]
  <1>1. PICK sep, quote, body, n :
          sep = options.sep /\ quote = options.quote /\ body = Bodies(written, sep, quote) /\ n = h + 1
    OBVIOUS
  <1>2. IsTable(written) /\ written # <<>> /\ AsWritten /\ Recoverable(written)
    <2>1. written \in Tables
      BY DEF Wrote, Restorable
    <2>2. IsTable(written)
      BY <2>1, ReaderAssumption
    <2>3. QED
      BY <2>2 DEF Restorable, Recoverable
  <1>3. h \in Nat /\ n \in Nat \ {0}
    BY <1>1, <1>2, TableParts
  <1>4. ASSUME NEW k \in 1..n
        PROVE  HoldsLine(body[k], LineTexts(written)[k], sep, quote) /\ (k > 1 => Len(body[k]) > 0)
    <2> IsTable(written)
      BY <1>2
    <2> Recoverable(written)
      BY <1>2
    <2> AsWritten
      BY <1>2
    <2> k \in 1..Tall(written)+1
      BY <1>1
    <2>1. /\ HoldsLine(Bodies(written, options.sep, options.quote)[k], LineTexts(written)[k], options.sep, options.quote)
          /\ k > 1 => Len(Bodies(written, options.sep, options.quote)[k]) > 0
      BY LinesHold
    <2>2. QED
      BY <1>1, <2>1
  <1>5. \A k \in 1..n : IsList(body[k])
    BY <1>4 DEF HoldsLine
  <1>6. PICK beg : IsFile(content, n, body, beg)
    <2>1. \E beg : IsFile(FlattenSeq([k \in 1..n |-> Ended(body[k])]), n, body, beg)
      BY <1>3, <1>5, FilePlaces
    <2>2. Write(written, sep, quote, <<>>) =
            FlattenSeq([k \in 1..Tall(written)+1 |-> Ended(Bodies(written, sep, quote)[k])])
      BY <1>2, WriteLines
    <2>3. content = Write(written, sep, quote, <<>>)
      BY <1>1 DEF Wrote, Restorable
    <2>4. content = FlattenSeq([k \in 1..n |-> Ended(body[k])])
      BY <1>1, <2>2, <2>3
    <2>5. QED
      BY <2>1, <2>4
  <1>7. AreBodies(n, body)
    BY <1>4 DEF HoldsLine, AreBodies
  <1>8. ASSUME NEW k \in 2..n PROVE Kept(body[k])
    <2>1. k \in 1..n /\ k > 1
      BY <1>3
    <2>2. Len(body[k]) > 0
      BY <1>4, <2>1
    <2>3. body[k] # <<>>
      BY <2>2
    <2>4. options.comment = nil
      BY <1>2 DEF AsWritten
    <2>5. QED
      BY <2>3, <2>4 DEF Kept
  <1>9. \A k \in 1..n : ParseLine(body[k], sep, quote) = LineTexts(written)[k]
    BY <1>4 DEF HoldsLine
  <1>10. QED
    BY <1>1, <1>2, <1>3, <1>6, <1>7, <1>8, <1>9

(* What Read finds in it                                                   *)
LEMMA HeaderOfTable ==
  ASSUME Wrote, Restorable
  PROVE  /\ After(0, 1) = 1 /\ 1 <= Len(content)
         /\ ParseLine(LineAt(1), options.sep, options.quote) = NamesOf(written)
  <1>1. PICK h : h = Tall(written)
    OBVIOUS
  <1>2. PICK n, body, beg :
          /\ n = h + 1 /\ IsFile(content, n, body, beg) /\ AreBodies(n, body)
          /\ \A k \in 1..n : ParseLine(body[k], options.sep, options.quote) = LineTexts(written)[k]
    BY <1>1, FileOfTable
  <1>3. n \in Nat \ {0} /\ 1 \in 1..n /\ beg[1] = 1
    BY <1>2 DEF IsFile
  <1>4. LineAt(beg[1]) = body[1]
    BY <1>2, <1>3, LineBody
  <1>5. LineTexts(written)[1] = NamesOf(written)
    BY <1>1, <1>2, <1>3 DEF LineTexts
  <1>6. LinesFrom(1) = Begs(n, beg)
    BY <1>2, LinesOfFile
  <1>7. Len(Begs(n, beg)) = n /\ Begs(n, beg)[1] = 1
    <2>1. Begs(n, beg)[1] = beg[1]
      BY <1>3 DEF Begs
    <2>2. Len(Begs(n, beg)) = n
      BY <1>2, BegsAscend
    <2>3. QED
      BY <1>3, <2>1, <2>2
  <1>8. After(0, 1) = 1
    <2>1. ~(0 >= Len(LinesFrom(1))) /\ LinesFrom(1)[0+1] = 1
      BY <1>3, <1>6, <1>7
    <2>2. QED
      BY <2>1 DEF After
  <1>9. 1 <= Len(content)
    <2>1. beg[1] + Len(body[1]) <= Len(content) /\ Len(body[1]) \in Nat /\ Len(content) \in Nat
      BY <1>2, <1>3 DEF IsFile, IsList
    <2>2. QED
      BY <1>3, <2>1
  <1>10. QED
    BY <1>2, <1>3, <1>4, <1>5, <1>8, <1>9

LEMMA RowsOfTable ==
  ASSUME Wrote, Restorable
  PROVE  FileRows = [r \in 1..Tall(written) |-> RowOf(written, r)] /\ Tall(written) \in Nat
  <1>1. PICK h : h = Tall(written)
    OBVIOUS
  <1>2. PICK n, body, beg :
          /\ n = h + 1 /\ IsFile(content, n, body, beg) /\ AreBodies(n, body)
          /\ \A k \in 2..n : Kept(body[k])
          /\ \A k \in 1..n : ParseLine(body[k], options.sep, options.quote) = LineTexts(written)[k]
    BY <1>1, FileOfTable
  <1>3. h \in Nat
    BY <1>1, FileOfTable
  <1>4. FileRows = Rows(SubSeq(LinesFrom(1), 2, Len(LinesFrom(1))))
    <2>1. options.header /\ options.skip = 0 /\ options.skipAfter = 0
      BY DEF Restorable, AsWritten
    <2>2. PICK a : a = 1 + options.skip + (IF options.header THEN 1 ELSE 0) + options.skipAfter
      OBVIOUS
    <2>3. a = 2
      BY <2>1, <2>2
    <2>4. FileRows = Rows(SubSeq(LinesFrom(1), a, Len(LinesFrom(1))))
      BY <2>2 DEF FileRows
    <2>5. QED
      BY <2>3, <2>4
  <1>5. FileRows = [r \in 1..n-1 |-> ParseLine(body[r+1], options.sep, options.quote)]
    <2>1. Rows(SubSeq(LinesFrom(1), 2, Len(LinesFrom(1)))) =
            [r \in 1..n-1 |-> ParseLine(body[r+1], options.sep, options.quote)]
      BY <1>2, RowsOfFile
    <2>2. QED
      BY <1>4, <2>1
  <1>6. \A r \in 1..h : ParseLine(body[r+1], options.sep, options.quote) = RowOf(written, r)
    <2> TAKE r \in 1..h
    <2>1. r + 1 \in 1..n /\ r + 1 \in 1..h+1 /\ r + 1 # 1 /\ (r + 1) - 1 = r
      BY <1>2, <1>3
    <2>2. LineTexts(written)[r+1] = RowOf(written, r)
      BY <1>1, <2>1 DEF LineTexts
    <2>3. QED
      BY <1>2, <2>1, <2>2
  <1>7. n - 1 = h
    BY <1>2, <1>3
  <1>8. QED
    BY <1>1, <1>3, <1>5, <1>6, <1>7

-----------------------------------------------------------------------------
(* Reading a recoverable table                                             *)

(* What is known of a read of a recoverable table, step by step            *)
ReadsTable ==
  /\ outcome \in {"running", "ok"} /\ pc # "fallback" /\ colIndices = nil
  /\ pc = "header" => pos = 1
  /\ pc \in {"columns", "locate", "parse", "names", "build", "done"} => colNames = NamesOf(written)
  /\ pc \in {"parse", "names", "build", "done"} => numCols = Len(written)
  /\ pc \in {"build", "done"} =>
       /\ \A c \in 1..Len(written) : colData[c] = TextsOf(written[c])
       /\ DOMAIN result = 1..Len(written) /\ result = [c \in 1..Len(written) |-> result[c]]
  /\ pc = "done" => outcome = "ok"

RoundInv == Wrote /\ (Restorable => ReadsTable)

LEMMA SameTable ==
  ASSUME UNCHANGED <<written, content, options>>
  PROVE  Wrote' = Wrote /\ Restorable' = Restorable
  <1>1. AsWritten' = AsWritten
    BY DEF AsWritten
  <1>2. Recoverable(written)' = Recoverable(written)
    BY DEF Recoverable
  <1>3. QED
    BY <1>1, <1>2 DEF Wrote, Restorable

LEMMA RestorableTable ==
  ASSUME Wrote, Restorable
  PROVE  /\ IsList(written) /\ Len(written) \in Nat \ {0} /\ Tall(written) \in Nat
         /\ DOMAIN written = 1..Len(written)
         /\ NamesOf(written) # <<>> /\ Len(NamesOf(written)) = Len(written)
         /\ \A c \in 1..Len(written) :
              /\ IsColumn(written[c]) /\ written[c].dtype \in Inferable
              /\ DOMAIN TextsOf(written[c]) = 1..Tall(written)
              /\ NamesOf(written)[c] = written[c].name
  <1>1. IsTable(written) /\ written # <<>>
    <2>1. PICK h : h = Tall(written)
      OBVIOUS
    <2>2. QED
      BY <2>1, FileOfTable
  <1>2. /\ IsList(written) /\ Len(written) \in Nat \ {0} /\ Tall(written) \in Nat
        /\ \A c \in 1..Len(written) :
             IsColumn(written[c]) /\ DOMAIN TextsOf(written[c]) = 1..Tall(written)
    BY <1>1, TableParts
  <1>3. DOMAIN written = 1..Len(written)
    BY <1>2 DEF IsList
  <1>4. \A c \in 1..Len(written) : NamesOf(written)[c] = written[c].name
    BY <1>3 DEF NamesOf
  <1>5. NamesOf(written) # <<>> /\ Len(NamesOf(written)) = Len(written)
    <2>1. PICK names, n : names = NamesOf(written) /\ n = Len(written)
      OBVIOUS
    <2>2. n \in Nat \ {0} /\ DOMAIN names = 1..n /\ names = [c \in 1..n |-> names[c]]
      BY <1>2, <1>3, <2>1 DEF NamesOf
    <2>3. IsList(names) /\ Len(names) = n
      BY <2>2, ListOf
    <2>4. names # <<>>
      BY <2>2, <2>3
    <2>5. QED
      BY <2>1, <2>3, <2>4
  <1>6. \A c \in 1..Len(written) : written[c].dtype \in Inferable
    <2>1. \A c \in 1..Len(written) :
            InferType(TextsOf(written[c]), options.nulls, options.infer) = written[c].dtype
      BY <1>3 DEF Restorable, Recoverable
    <2>2. QED
      BY <2>1, InferredType
  <1>7. QED
    BY <1>2, <1>3, <1>4, <1>5, <1>6

(* The fields that are read are the texts of the columns.                  *)
LEMMA TextsRead ==
  ASSUME Wrote, Restorable, FieldsOf(colData, numCols, FileRows), numCols = Len(written), colIndices = nil,
         \A c \in 1..numCols : colData[c] \in Seq(Texts)
  PROVE  \A c \in 1..Len(written) : colData[c] = TextsOf(written[c])
  <1> TAKE c \in 1..Len(written)
  <1>1. PICK s, t, n, h, texts, rows :
          /\ s = colData[c] /\ t = Columns(FileRows, numCols)[c] /\ n = Len(written) /\ h = Tall(written)
          /\ texts = TextsOf(written[c]) /\ rows = FileRows
    OBVIOUS
  <1>2. /\ n \in Nat \ {0} /\ h \in Nat /\ DOMAIN written = 1..n /\ DOMAIN texts = 1..h /\ c \in 1..n
    BY <1>1, RestorableTable
  <1>3. rows = [r \in 1..h |-> RowOf(written, r)]
    BY <1>1, RowsOfTable
  <1>4. Len(rows) = h /\ DOMAIN rows = 1..h
    <2>1. DOMAIN rows = 1..h /\ rows = [r \in 1..h |-> rows[r]]
      BY <1>3
    <2>2. h \in Nat
      BY <1>2
    <2>3. QED
      BY <2>1, <2>2, ListOf
  <1>5. ASSUME NEW r \in 1..h PROVE FieldAt(rows[r], c) = texts[r]
    <2>1. PICK row : row = RowOf(written, r)
      OBVIOUS
    <2>2. DOMAIN row = 1..n /\ row = [k \in 1..n |-> row[k]]
      BY <1>2, <2>1 DEF RowOf
    <2>3. n \in Nat
      BY <1>2
    <2>4. IsList(row) /\ Len(row) = n
      BY <2>2, <2>3, ListOf
    <2>5. row[c] = texts[r]
      BY <1>1, <1>2, <2>1 DEF RowOf
    <2>6. c <= Len(row)
      BY <1>2, <2>4
    <2>7. rows[r] = row
      BY <1>3, <2>1
    <2>8. QED
      BY <2>5, <2>6, <2>7 DEF FieldAt
  <1>6. t = texts
    <2>1. t = [r \in DOMAIN rows |-> FieldAt(rows[r], c)]
      BY <1>1 DEF Columns
    <2>2. t = [r \in 1..h |-> texts[r]]
      BY <1>4, <1>5, <2>1
    <2>3. texts = [r \in 1..h |-> texts[r]]
      <3>1. texts = [r \in DOMAIN texts |-> texts[r]]
        BY <1>1 DEF TextsOf
      <3>2. QED
        BY <1>2, <3>1
    <2>4. QED
      BY <2>2, <2>3
  <1>7. s \in Seq(Texts) /\ Len(s) = h
    <2>1. options.nrows = 0
      BY DEF Restorable, AsWritten
    <2>2. Len(s) = Len(rows)
      BY <1>1, <2>1 DEF FieldsOf
    <2>3. QED
      BY <1>1, <1>4, <2>2
  <1>8. SubSeq(s, 1, h) = SubSeq(t, 1, h)
    <2>1. IsPrefix(s, t)
      BY <1>1 DEF FieldsOf
    <2>2. QED
      BY <1>7, <2>1 DEF IsPrefix
  <1>9. SubSeq(s, 1, h) = s
    <2>1. PICK T : T = Texts
      OBVIOUS
    <2>2. s \in Seq(T)
      BY <1>7, <2>1
    <2>3. QED
      BY <1>7, <2>2
  <1>10. SubSeq(t, 1, h) = t
    <2>1. DOMAIN t = 1..h /\ t = [r \in 1..h |-> t[r]]
      <3>1. texts = [r \in DOMAIN texts |-> texts[r]]
        BY <1>1 DEF TextsOf
      <3>2. QED
        BY <1>2, <1>6, <3>1
    <2>2. h \in Nat
      BY <1>2
    <2>3. IsList(t) /\ Len(t) = h
      BY <2>1, <2>2, ListOf
    <2>4. PICK T : T = ElementsOf(t)
      OBVIOUS
    <2>5. t \in Seq(T)
      <3> IsList(t)
        BY <2>3
      <3>1. ElementsOf(t) \subseteq T
        BY <2>4
      <3>2. QED
        BY <3>1, ListIsSeq
    <2>6. QED
      BY <2>3, <2>5
  <1>11. QED
    BY <1>1, <1>6, <1>8, <1>9, <1>10

(* The series that is built from a column's texts is the column.           *)
LEMMA BuiltBack ==
  ASSUME Wrote, Restorable, NEW c \in 1..Len(written), colNames = NamesOf(written),
         colData[c] = TextsOf(written[c])
  PROVE  Built(c) = written[c] /\ written[c].dtype # "None"
  <1>1. PICK col, nulls : col = written[c] /\ nulls = options.nulls
    OBVIOUS
  <1>2. IsColumn(col) /\ col.dtype \in Inferable /\ colNames[c] = col.name
    BY <1>1, RestorableTable
  <1>3. <<>> \in nulls /\ options.dtypes = <<>>
    BY <1>1 DEF Restorable, AsWritten
  <1>4. c \in DOMAIN written
    BY RestorableTable
  <1>5. TypeOf(c) = col.dtype
    <2>1. colNames[c] \notin DOMAIN options.dtypes
      BY <1>3
    <2>2. InferType(TextsOf(col), options.nulls, options.infer) = col.dtype
      BY <1>1, <1>4 DEF Restorable, Recoverable
    <2>3. QED
      BY <1>1, <2>1, <2>2 DEF TypeOf
  <1>6. \A r \in DOMAIN col.cells : col.cells[r] # Null => TextsOf(col)[r] \notin nulls
    BY <1>1, <1>4 DEF Restorable, Recoverable
  <1>7. BuildSeries(col.name, TextsOf(col), col.dtype, nulls) = col
    <2> IsColumn(col)
      BY <1>2
    <2> col.dtype \in Inferable
      BY <1>2
    <2> <<>> \in nulls
      BY <1>3
    <2>1. QED
      BY <1>6, BuildsBack
  <1>8. Built(c) = col
    BY <1>1, <1>2, <1>5, <1>7 DEF Built
  <1>9. col.dtype # "None"
    BY <1>2 DEF Inferable
  <1>10. QED
    BY <1>1, <1>8, <1>9

LEMMA RoundStart == Init => RoundInv
  BY DEF Init, RoundInv, Wrote, ReadsTable

LEMMA RoundStep == SeriesInv /\ RoundInv /\ [Next]_vars => RoundInv'
  <1> SUFFICES ASSUME SeriesInv, RoundInv, [Next]_vars PROVE RoundInv'
    OBVIOUS
  <1>1. UNCHANGED <<written, content, options>>
    BY DEF Next, vars, SkipRows, Fail, ReadHeader, PickColumns, LocateLines, ParseSequentially,
           MergeChunks, ParseFallback, CancelledInFallback, ParseChunk, NameColumns, Return,
           BuildColumn, Finished
  <1>2. Wrote /\ Wrote' /\ Restorable' = Restorable
    BY <1>1, SameTable DEF RoundInv
  <1> SUFFICES ASSUME Restorable PROVE ReadsTable'
    BY <1>2 DEF RoundInv
  <1>3. ReadsTable /\ Wrote
    BY DEF RoundInv
  <1>4. /\ options.header /\ options.skip = 0 /\ options.skipAfter = 0 /\ options.nrows = 0
        /\ options.columns = nil /\ options.dtypes = <<>>
    BY DEF Restorable, AsWritten
  <1>5. LineInv /\ FieldInv /\ DataInv /\ BuildInv
    BY DEF SeriesInv, ReaderInv
  <1>6. /\ Len(written) \in Nat \ {0} /\ NamesOf(written) # <<>>
        /\ Len(NamesOf(written)) = Len(written)
    BY <1>3, RestorableTable
  <1>7. /\ After(0, 1) = 1 /\ 1 <= Len(content)
        /\ ParseLine(LineAt(1), options.sep, options.quote) = NamesOf(written)
    BY <1>3, HeaderOfTable
  <1>8. Len(content) \in Nat
    BY <1>5, OptionTypes
  <1>9. CASE SkipRows
    <2>1. ~(options.skip > Len(LinesFrom(1)))
      <3>1. 1 \in Nat \ {0}
        OBVIOUS
      <3>2. LinesFrom(1) \in Seq(Int)
        BY <1>8, <3>1, LinesAscend
      <3>3. QED
        BY <1>4, <3>2
    <2>2. /\ pc = "skip" /\ pc' = "header" /\ pos' = After(options.skip, 1)
          /\ UNCHANGED <<outcome, colIndices>>
      BY <1>9, <2>1 DEF SkipRows
    <2>3. pos' = 1
      BY <1>4, <1>7, <2>2
    <2>4. QED
      BY <1>3, <2>2, <2>3 DEF ReadsTable
  <1>10. CASE ReadHeader
    <2>1. pc = "header" /\ pos = 1
      BY <1>3, <1>10 DEF ReadHeader, ReadsTable
    <2>2. ~(options.header /\ pos > Len(content))
      BY <1>7, <1>8, <2>1
    <2>3. /\ pc' = "columns" /\ UNCHANGED <<outcome, colIndices>>
          /\ colNames' = ParseLine(LineAt(1), options.sep, options.quote)
      BY <1>4, <1>10, <2>1, <2>2 DEF ReadHeader
    <2>4. colNames' = NamesOf(written')
      BY <1>1, <1>7, <2>3
    <2>5. QED
      BY <1>3, <2>3, <2>4 DEF ReadsTable
  <1>11. CASE PickColumns
    <2>1. pc = "columns" /\ pc' = "locate" /\ UNCHANGED <<colNames, colIndices, outcome>>
      BY <1>4, <1>11 DEF PickColumns
    <2>2. QED
      BY <1>1, <1>3, <2>1 DEF ReadsTable
  <1>12. CASE LocateLines
    <2>1. pc = "locate" /\ UNCHANGED <<colNames, colIndices, outcome>>
      BY <1>12 DEF LocateLines
    <2>2. colNames = NamesOf(written)
      BY <1>3, <2>1 DEF ReadsTable
    <2>3. ColumnsExpected = Len(written) /\ ColumnsExpected # 0
      BY <1>6, <2>2 DEF ColumnsExpected
    <2>4. numCols' = Len(written) /\ pc' \in {"names", "parse"}
      BY <1>12, <2>3 DEF LocateLines
    <2>5. QED
      BY <1>1, <1>3, <2>1, <2>2, <2>4 DEF ReadsTable
  <1>13. CASE ParseSequentially \/ MergeChunks
    <2>1. /\ pc = "parse" /\ pc' = "names"
          /\ UNCHANGED <<colNames, colIndices, numCols, outcome>>
      BY <1>13 DEF ParseSequentially, MergeChunks
    <2>2. QED
      BY <1>1, <1>3, <2>1 DEF ReadsTable
  <1>14. CASE ParseFallback \/ CancelledInFallback
    BY <1>3, <1>14 DEF ParseFallback, CancelledInFallback, ReadsTable
  <1>15. ASSUME NEW w \in 0..procs-1, ParseChunk(w) PROVE ReadsTable'
    <2>1. UNCHANGED <<pc, pos, colNames, colIndices, numCols, colData, result, outcome>> /\ pc = "parse"
      BY <1>15 DEF ParseChunk
    <2>2. QED
      BY <1>1, <1>3, <2>1 DEF ReadsTable
  <1>16. CASE NameColumns
    <2>1. /\ pc = "names" /\ pc' = "build" /\ UNCHANGED <<colIndices, colData, outcome>>
          /\ colNames' = colNames
          /\ numCols' = IF numCols = 0 THEN Len(colNames') ELSE numCols
          /\ result' = [c \in 1..numCols' |-> nil]
      BY <1>4, <1>16 DEF NameColumns
    <2>2. colNames = NamesOf(written) /\ numCols = Len(written) /\ colIndices = nil
      BY <1>3, <2>1 DEF ReadsTable
    <2>3. numCols' = Len(written)
      BY <1>6, <2>1, <2>2
    <2>4. \A c \in 1..Len(written) : colData[c] = TextsOf(written[c])
      <3>1. FieldsOf(colData, numCols, FileRows)
        BY <1>5, <2>1 DEF FieldInv
      <3>2. \A c \in 1..numCols : colData[c] \in Seq(Texts)
        BY <1>5, <2>1 DEF DataInv
      <3>3. QED
        BY <1>3, <2>2, <3>1, <3>2, TextsRead
    <2>5. \A c \in 1..Len(written') : colData'[c] = TextsOf(written'[c])
      BY <1>1, <2>1, <2>4
    <2>6. DOMAIN result' = 1..Len(written') /\ result' = [c \in 1..Len(written') |-> result'[c]]
      BY <1>1, <2>1, <2>3
    <2>7. colNames' = NamesOf(written') /\ numCols' = Len(written')
      BY <1>1, <2>1, <2>2, <2>3
    <2>8. outcome' \in {"running", "ok"} /\ colIndices' = nil
      BY <1>3, <2>1 DEF ReadsTable
    <2>9. QED
      BY <2>1, <2>5, <2>6, <2>7, <2>8 DEF ReadsTable
  <1>17. CASE Return
    <2>1. /\ pc = "build" /\ pc' = "done"
          /\ UNCHANGED <<colNames, colIndices, numCols, colData, result>>
          /\ \A c \in 1..numCols : result[c] # nil
          /\ outcome' = IF \E c \in 1..numCols : result[c].dtype = "None" THEN "error" ELSE "ok"
      BY <1>17 DEF Return
    <2>2. /\ colNames = NamesOf(written) /\ numCols = Len(written) /\ colIndices = nil
          /\ \A c \in 1..Len(written) : colData[c] = TextsOf(written[c])
          /\ DOMAIN result = 1..Len(written) /\ result = [c \in 1..Len(written) |-> result[c]]
      BY <1>3, <2>1 DEF ReadsTable
    <2>3. ASSUME NEW c \in 1..numCols PROVE result[c].dtype # "None"
      <3>1. result[c] = Built(c)
        BY <1>5, <2>1 DEF BuildInv
      <3>2. Built(c) = written[c] /\ written[c].dtype # "None"
        BY <1>3, <2>2, BuiltBack
      <3>3. QED
        BY <3>1, <3>2
    <2>4. outcome' = "ok"
      BY <2>1, <2>3
    <2>5. QED
      BY <1>1, <2>1, <2>2, <2>4 DEF ReadsTable
  <1>18. ASSUME NEW c \in DOMAIN result, BuildColumn(c) PROVE ReadsTable'
    <2>1. /\ pc = "build" /\ UNCHANGED <<pc, colNames, colIndices, numCols, colData, outcome>>
          /\ result' = [result EXCEPT ![c] = Built(c)]
      BY <1>18 DEF BuildColumn, Built
    <2>2. DOMAIN result = 1..Len(written) /\ result = [d \in 1..Len(written) |-> result[d]]
      BY <1>3, <2>1 DEF ReadsTable
    <2>3. DOMAIN result' = 1..Len(written') /\ result' = [d \in 1..Len(written') |-> result'[d]]
      BY <1>1, <2>1, <2>2
    <2>4. QED
      BY <1>1, <1>3, <2>1, <2>3 DEF ReadsTable
  <1>19. CASE Finished \/ UNCHANGED vars
    <2>1. UNCHANGED <<pc, pos, colNames, colIndices, numCols, colData, result, outcome>>
      BY <1>19 DEF Finished, vars
    <2>2. QED
      BY <1>1, <1>3, <2>1 DEF ReadsTable
  <1>20. QED
    BY <1>9, <1>10, <1>11, <1>12, <1>13, <1>14, <1>15, <1>16, <1>17, <1>18, <1>19 DEF Next

(* What Write has written from columns that a file can hold, Read gives    *)
(* back with the same names, types and cells, for all such tables, every   *)
(* separator and quote and any number of workers (quoteField against       *)
(* parseLineASCII and parseLineRune, formatSeriesValue against inferType   *)
(* and buildSeries).                                                       *)
THEOREM WhatWasWrittenIsReadBack == Spec => []ReadsBackWhatWasWritten
  <1>1. Init => SeriesInv /\ RoundInv
    BY LineStart, ChunkStart, FieldStart, PlaceStart, DataStart, BuildStart, RoundStart DEF SeriesInv, ReaderInv
  <1>2. SeriesInv /\ RoundInv /\ [Next]_vars => SeriesInv' /\ RoundInv'
    BY LineStep, ChunkStep, FieldStep, PlaceStep, DataStep, BuildStep, RoundStep DEF SeriesInv, ReaderInv
  <1>3. SeriesInv /\ RoundInv => ReadsBackWhatWasWritten
    <2> SUFFICES ASSUME SeriesInv, RoundInv, written # nil, AsWritten, Recoverable(written), pc = "done"
                 PROVE  outcome = "ok" /\ result = written
      BY DEF ReadsBackWhatWasWritten
    <2>1. Restorable
      BY DEF Restorable
    <2>2. Wrote /\ ReadsTable
      BY <2>1 DEF RoundInv
    <2>3. PICK n : n = Len(written)
      OBVIOUS
    <2>4. /\ outcome = "ok" /\ numCols = n /\ colNames = NamesOf(written)
          /\ \A c \in 1..n : colData[c] = TextsOf(written[c])
          /\ DOMAIN result = 1..n /\ result = [c \in 1..n |-> result[c]]
      BY <2>2, <2>3 DEF ReadsTable
    <2>5. n \in Nat \ {0} /\ written = [c \in 1..n |-> written[c]]
      BY <2>1, <2>2, <2>3, RestorableTable DEF IsList
    <2>6. result # <<>>
      BY <2>4, <2>5
    <2>7. ASSUME NEW c \in 1..n PROVE result[c] = written[c]
      <3>1. result[c] = Built(c)
        BY <2>4, <2>6 DEF SeriesInv, BuildInv
      <3>2. Built(c) = written[c]
        BY <2>1, <2>2, <2>3, <2>4, BuiltBack
      <3>3. QED
        BY <3>1, <3>2
    <2>8. QED
      BY <2>4, <2>5, <2>7
  <1>4. QED
    BY <1>1, <1>2, <1>3, PTL DEF Spec
=============================================================================
