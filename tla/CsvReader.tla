------------------------------ MODULE CsvReader ------------------------------
(***************************************************************************)
(* internal/io/csv/reader.go: Read.  One goroutine finds the header and    *)
(* the starts of the data lines; each worker parses a chunk of the lines   *)
(* into columns of its own; the chunks are merged in order; one goroutine  *)
(* per column infers its type and parses its cells.                        *)
(*                                                                         *)
(* Only the actions that several goroutines may take in different orders   *)
(* are kept apart from each other: a goroutine touches nothing another one *)
(* does until it stores its chunk, its column or its error.  The file's    *)
(* lines are numbered by the position of their first atom.                 *)
(***************************************************************************)
EXTENDS CsvText, RowLists

CONSTANTS
  nil,
  Files,    \* the texts of the files that are read
  Tables,   \* columns that are written and then read
  Options,  \* ReadOptions
  Procs     \* GOMAXPROCS

(* Columns of the same length; numbers have no sign, and a Float64 is below *)
(* a million, where it is written without an exponent.                     *)
TenMillion == 10000000
IsText(t) == t \in Seq(ToSet(t))
IsCell(dtype, cell) ==
  /\ dtype = "Int64" => cell \in Nat
  /\ dtype = "Float64" => cell \in Nat /\ cell < TenMillion
  /\ dtype = "Boolean" => cell \in {0, 1}
  /\ dtype = "String" => IsText(cell)
IsColumn(col) ==
  /\ col = Series(col.name, col.dtype, col.cells)
  /\ IsText(col.name) /\ IsText(col.cells)
  /\ \A r \in DOMAIN col.cells : col.cells[r] = Null \/ IsCell(col.dtype, col.cells[r])
IsTable(cols) ==
  /\ IsText(cols)
  /\ \A k \in DOMAIN cols : IsColumn(cols[k]) /\ Len(cols[k].cells) = Len(cols[1].cells)

(* The columns to read are all of them (nil) or at least one: the code     *)
(* does not guard against an empty list that is not nil, for which it      *)
(* counts the columns of the first data line and has no names for them.    *)
ASSUME ReaderAssumption ==
  /\ \A o \in Options :
       /\ o.skip \in Nat /\ o.skipAfter \in Nat /\ o.nrows \in Int /\ o.infer \in Int
       /\ o.columns = nil \/ o.columns \in Seq(ToSet(o.columns)) \ {<<>>}
  /\ Procs \subseteq Nat \ {0}
  /\ \A text \in Files : Len(text) \in Nat
  /\ \A cols \in Tables, o \in Options : Len(Write(cols, o.sep, o.quote, <<>>)) \in Nat
  /\ \A cols \in Tables : IsTable(cols)

VARIABLES
  written,   \* the columns the file was written from, or nil
  content,   \* the whole file
  options,
  procs,
  pc,
  pos,       \* where the next line starts
  colNames,
  colIndices,\* the columns to keep, or nil for all
  numCols,
  lineStarts,
  chunks,    \* what each worker has stored, or nil
  colData,   \* the fields of each column
  result,    \* the series of each column, nil until it is stored
  outcome    \* "running", "ok", "error" or "cancelled"

vars == <<written, content, options, procs, pc, pos, colNames, colIndices, numCols, lineStarts,
          chunks, colData, result, outcome>>

-----------------------------------------------------------------------------
(* Lines                                                                   *)

\* The place of the newline that ends the line at p, or one past the end
EndOfLine(p) ==
  LET ends == {q \in p..Len(content) : content[q] = NewLine}
  IN  IF ends = {} THEN Len(content) + 1 ELSE Min(ends)

(* nextLine, extractDataLine: the line without its newline and one return  *)
LineAt(p) == Strip(SubSeq(content, p, EndOfLine(p) - 1), CR)

(* buildDataLineStarts                                                     *)
LinesFrom(p) == RowList({q \in p..Len(content) : q = p \/ content[q-1] = NewLine})

\* Where the next line starts after n more of them have been read
After(n, p) == IF n >= Len(LinesFrom(p)) THEN Len(content) + 1 ELSE LinesFrom(p)[n+1]

(* Blank lines and comments have no fields.                                *)
Kept(line) == line # <<>> /\ (options.comment = nil \/ line[1] # options.comment)

Rows(starts) ==
  LET kept == RowList({i \in DOMAIN starts : Kept(LineAt(starts[i]))})
  IN  [r \in DOMAIN kept |-> ParseLine(LineAt(starts[kept[r]]), options.sep, options.quote)]

\* A row that is too short ends in empty fields; one that is too long is cut.
FieldAt(fields, k) == IF k <= Len(fields) THEN fields[k] ELSE <<>>

\* The columns of some rows, each the fields at its place in the row
Columns(rows, n) ==
  LET place(c) == IF colIndices = nil THEN c ELSE colIndices[c]
  IN  [c \in 1..n |-> [r \in DOMAIN rows |-> FieldAt(rows[r], place(c))]]

-----------------------------------------------------------------------------
(* Finding the data                                                        *)

Fail ==
  /\ outcome' = "error" /\ pc' = "done"
  /\ UNCHANGED <<written, content, options, procs, pos, colNames, colIndices, numCols, lineStarts,
                 chunks, colData, result>>

(* A file with fewer lines than SkipRows is an error.                      *)
SkipRows ==
  /\ pc = "skip"
  /\ IF options.skip > Len(LinesFrom(1)) THEN Fail
     ELSE /\ pos' = After(options.skip, 1) /\ pc' = "header"
          /\ UNCHANGED <<written, content, options, procs, colNames, colIndices, numCols,
                         lineStarts, chunks, colData, result, outcome>>

ReadHeader ==
  /\ pc = "header"
  /\ IF options.header /\ pos > Len(content) THEN Fail
     ELSE LET lines == IF options.header THEN 1 ELSE 0
          IN  /\ colNames' = IF options.header THEN ParseLine(LineAt(pos), options.sep, options.quote)
                                               ELSE colNames
              /\ pos' = After(lines + options.skipAfter, pos)
              /\ pc' = "columns"
              /\ UNCHANGED <<written, content, options, procs, colIndices, numCols, lineStarts,
                             chunks, colData, result, outcome>>

\* A name that is there twice stands for the last column of it.
IndexOf(name) == Max({k \in DOMAIN colNames : colNames[k] = name})

PickColumns ==
  /\ pc = "columns"
  /\ IF options.columns = nil \/ ~options.header
       THEN pc' = "locate" /\ UNCHANGED <<written, content, options, procs, pos, colNames, colIndices,
                                          numCols, lineStarts, chunks, colData, result, outcome>>
     ELSE IF ~(ToSet(options.columns) \subseteq ToSet(colNames)) THEN Fail
     ELSE /\ colIndices' = [k \in DOMAIN options.columns |-> IndexOf(options.columns[k])]
          /\ colNames' = options.columns
          /\ pc' = "locate"
          /\ UNCHANGED <<written, content, options, procs, pos, numCols, lineStarts, chunks,
                         colData, result, outcome>>

\* Without a header the first data line tells how many columns there are.
ColumnsExpected ==
  IF colNames # <<>> THEN Len(colNames)
  ELSE IF pos > Len(content) \/ LineAt(pos) = <<>> THEN 0
  ELSE Len(ParseLine(LineAt(pos), options.sep, options.quote))

(* NRows counts lines, also those that turn out to be blank or a comment.  *)
DataLines ==
  IF options.nrows > 0 /\ Len(LinesFrom(pos)) > options.nrows
    THEN SubSeq(LinesFrom(pos), 1, options.nrows) ELSE LinesFrom(pos)

LocateLines ==
  /\ pc = "locate"
  /\ numCols' = ColumnsExpected
  /\ IF ColumnsExpected = 0 THEN pc' = "fallback" /\ UNCHANGED <<lineStarts, colData>>
     ELSE IF DataLines = <<>>
       THEN pc' = "names" /\ colData' = [c \in 1..ColumnsExpected |-> <<>>] /\ UNCHANGED lineStarts
     ELSE pc' = "parse" /\ lineStarts' = DataLines /\ UNCHANGED colData
  /\ UNCHANGED <<written, content, options, procs, pos, colNames, colIndices, chunks, result, outcome>>

-----------------------------------------------------------------------------
(* Parsing                                                                 *)

NumWorkers == IF procs > Len(lineStarts) THEN Len(lineStarts) ELSE procs

\* Mutant: the chunk size is rounded down
ChunkSizeFloor(nLines, nWorkers) == nLines \div nWorkers

ChunkSize(nLines, nWorkers) == (nLines + nWorkers - 1) \div nWorkers

\* The lines of worker w, none when the workers before it have taken all
ChunkOf(w) ==
  LET size == ChunkSize(Len(lineStarts), NumWorkers)
      end == (w + 1) * size
  IN  SubSeq(lineStarts, w * size + 1, IF end > Len(lineStarts) THEN Len(lineStarts) ELSE end)

Workers == {w \in 0..NumWorkers-1 : ChunkOf(w) # <<>>}

ParseSequentially ==
  /\ pc = "parse" /\ NumWorkers <= 1
  /\ colData' = Columns(Rows(lineStarts), numCols)
  /\ pc' = "names"
  /\ UNCHANGED <<written, content, options, procs, pos, colNames, colIndices, numCols, lineStarts,
                 chunks, result, outcome>>

(* One worker, from its start until chunks[workerID] = chunk               *)
ParseChunk(w) ==
  /\ pc = "parse" /\ NumWorkers > 1
  /\ w \in Workers /\ chunks[w] = nil
  /\ chunks' = [chunks EXCEPT ![w] = Columns(Rows(ChunkOf(w)), numCols)]
  /\ UNCHANGED <<written, content, options, procs, pc, pos, colNames, colIndices, numCols, lineStarts,
                 colData, result, outcome>>

(* After wg.Wait: the chunks in the order of their workers                 *)
MergeChunks ==
  /\ pc = "parse" /\ NumWorkers > 1
  /\ \A w \in Workers : chunks[w] # nil
  /\ colData' = [c \in 1..numCols |->
                   FlattenSeq([k \in 1..NumWorkers |-> IF chunks[k-1] = nil THEN <<>> ELSE chunks[k-1][c]])]
  /\ pc' = "names"
  /\ UNCHANGED <<written, content, options, procs, pos, colNames, colIndices, numCols, lineStarts,
                 chunks, result, outcome>>

(* The file is empty or its first line is: the lines are read one by one,  *)
(* the first with fields tells the number of columns, and NRows counts     *)
(* rows.                                                                   *)
ParseFallback ==
  /\ pc = "fallback"
  /\ LET rows == Rows(LinesFrom(pos))
         taken == IF options.nrows > 0 /\ Len(rows) > options.nrows
                    THEN SubSeq(rows, 1, options.nrows) ELSE rows
         n == IF taken = <<>> THEN 0 ELSE Len(taken[1])
     IN  numCols' = n /\ colData' = Columns(taken, n)
  /\ pc' = "names"
  /\ UNCHANGED <<written, content, options, procs, pos, colNames, colIndices, lineStarts, chunks,
                 result, outcome>>

(* The context is looked at in that loop only, before the first row (and   *)
(* every ten thousandth, which is left out).                               *)
CancelledInFallback ==
  /\ pc = "fallback" /\ options.ctx /\ pos <= Len(content)
  /\ outcome' = "cancelled" /\ pc' = "done"
  /\ UNCHANGED <<written, content, options, procs, pos, colNames, colIndices, numCols, lineStarts,
                 chunks, colData, result>>

-----------------------------------------------------------------------------
(* Building the series                                                     *)

NameColumns ==
  /\ pc = "names"
  /\ colNames' = IF options.header THEN colNames
                 ELSE [k \in 1..numCols |-> <<"column_", ToString(k-1)>>]
  /\ numCols' = IF numCols = 0 THEN Len(colNames') ELSE numCols
  /\ result' = [c \in 1..numCols' |-> nil]
  /\ pc' = "build"
  /\ UNCHANGED <<written, content, options, procs, pos, colIndices, lineStarts, chunks, colData, outcome>>

TypeOf(c) ==
  IF colNames[c] \in DOMAIN options.dtypes THEN options.dtypes[colNames[c]]
  ELSE InferType(colData[c], options.nulls, options.infer)

(* The goroutine of column c                                               *)
BuildColumn(c) ==
  /\ pc = "build" /\ result[c] = nil
  /\ result' = [result EXCEPT ![c] = BuildSeries(colNames[c], colData[c], TypeOf(c), options.nulls)]
  /\ UNCHANGED <<written, content, options, procs, pc, pos, colNames, colIndices, numCols, lineStarts,
                 chunks, colData, outcome>>

Return ==
  /\ pc = "build"
  /\ \A c \in 1..numCols : result[c] # nil
  /\ outcome' = IF \E c \in 1..numCols : result[c].dtype = "None" THEN "error" ELSE "ok"
  /\ pc' = "done"
  /\ UNCHANGED <<written, content, options, procs, pos, colNames, colIndices, numCols, lineStarts,
                 chunks, colData, result>>

Finished == pc = "done" /\ UNCHANGED vars

-----------------------------------------------------------------------------
Init ==
  /\ options \in Options
  /\ procs \in Procs
  /\ \/ written = nil /\ content \in Files
     \/ /\ written \in Tables
        /\ content = Write(written, options.sep, options.quote, <<>>)
  /\ pc = "skip" /\ pos = 1
  /\ colNames = <<>> /\ colIndices = nil /\ numCols = 0 /\ lineStarts = <<>>
  /\ chunks = [w \in 0..procs-1 |-> nil]
  /\ colData = <<>> /\ result = <<>> /\ outcome = "running"

Next ==
  \/ SkipRows \/ ReadHeader \/ PickColumns \/ LocateLines
  \/ ParseSequentially \/ MergeChunks \/ ParseFallback \/ CancelledInFallback
  \/ \E w \in 0..procs-1 : ParseChunk(w)
  \/ NameColumns \/ Return
  \/ \E c \in DOMAIN result : BuildColumn(c)
  \/ Finished

Spec == Init /\ [][Next]_vars

-----------------------------------------------------------------------------
(* Properties                                                              *)

(* The rows of the file as its text says, however the work is divided:     *)
(* every line after the skipped ones and the header that is not blank and  *)
(* not a comment is one row, in the order of the file.                     *)
FileRows ==
  Rows(SubSeq(LinesFrom(1),
              1 + options.skip + (IF options.header THEN 1 ELSE 0) + options.skipAfter,
              Len(LinesFrom(1))))

(* However many workers there are and in whatever order they finish, the   *)
(* fields that are read are those of the file's rows, in order and none    *)
(* missing in between, all of them if NRows does not limit them and never  *)
(* more than NRows if it does (parallelParseDataLines).                    *)
ReadsEveryRow ==
  pc = "build" =>
    \A c \in 1..numCols :
      /\ IsPrefix(colData[c], Columns(FileRows, numCols)[c])
      /\ options.nrows = 0 => Len(colData[c]) = Len(FileRows)
      /\ options.nrows > 0 => Len(colData[c]) <= options.nrows

\* What a cell stands for, so that it can be compared with its text
Means(dtype, cell, v) ==
  CASE dtype = "Int64" -> IsInt(v) /\ Tenths(v) = 10 * cell
    [] dtype = "Float64" -> IsFloat(v) /\ Tenths(v) = cell
    [] dtype = "Boolean" -> IsBool(v) /\ (cell = 1 <=> v \in Truths)
    [] OTHER -> v = cell

SawAll(c) ==
  colNames[c] \notin DOMAIN options.dtypes /\ (options.infer <= 0 \/ options.infer >= Len(colData[c]))

(* A column whose type was inferred from all its values can be built, and  *)
(* each of its cells is null for a null value and otherwise stands for     *)
(* what its text says (inferType, buildSeries).  A type inferred from some *)
(* of the values gives no such promise: it may fail on a later one or,     *)
(* when it is Boolean, take it for false.                                  *)
InferredTypeFits ==
  outcome \in {"ok", "error"} /\ result # <<>> =>
    \A c \in 1..numCols : SawAll(c) =>
      /\ result[c].dtype # "None"
      /\ \A r \in DOMAIN colData[c] :
           LET v == IF result[c].dtype = "String" THEN colData[c][r] ELSE Trim(colData[c][r])
           IN  IF v \in options.nulls THEN result[c].cells[r] = Null
               ELSE Means(result[c].dtype, result[c].cells[r], v)

\* The texts of a column's cells in a file, before they are quoted
TextsOf(col) ==
  [r \in DOMAIN col.cells |-> IF col.cells[r] = Null THEN <<>> ELSE FormatCell(col.dtype, col.cells[r])]

(* Columns that a file can hold: no newline in a text (the reader splits   *)
(* lines before it looks at quotes), no text that is read as null, texts   *)
(* from which the column's own type is inferred (a column of the numbers 0 *)
(* and 1 is not), and no row that is a blank line (a null or an empty text *)
(* as the only column).                                                    *)
Recoverable(cols) ==
  /\ cols # <<>>
  /\ \A k \in DOMAIN cols :
       /\ NewLine \notin ToSet(cols[k].name)
       /\ InferType(TextsOf(cols[k]), options.nulls, options.infer) = cols[k].dtype
       /\ \A r \in DOMAIN cols[k].cells :
            /\ NewLine \notin ToSet(TextsOf(cols[k])[r])
            /\ cols[k].cells[r] # Null => TextsOf(cols[k])[r] \notin options.nulls
            /\ Len(cols) = 1 => TextsOf(cols[k])[r] # <<>>

(* The options under which a file is read as it was written, and that can  *)
(* be told apart in it                                                     *)
AsWritten ==
  /\ options.header /\ options.skip = 0 /\ options.skipAfter = 0 /\ options.nrows = 0
  /\ options.columns = nil /\ options.dtypes = <<>> /\ options.comment = nil
  /\ <<>> \in options.nulls
  /\ options.sep # options.quote /\ {options.sep, options.quote} \cap {NewLine, CR} = {}

(* What Write has written from recoverable columns, Read gives back: the   *)
(* same names, types and cells, quotes, separators and carriage returns in *)
(* the texts included, whichever of the two line parsers is used           *)
(* (quoteField against parseLineASCII and parseLineRune).                  *)
ReadsBackWhatWasWritten ==
  written # nil /\ AsWritten /\ Recoverable(written) /\ pc = "done" =>
    outcome = "ok" /\ result = written
=============================================================================
