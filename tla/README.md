# A TLA+ model of golars

golars is a data frame library for Go: typed columns with validity bitmaps, data
frames with filter, sort, group-by and join, an expression engine, a lazy query
planner, SQL, and readers and writers for several file formats. This directory
holds TLA+ modules translated from that code, the TLC runs that check them on
small instances, and TLAPS proofs of what should hold for every value of the
constants. Paths below are relative to the repository.

    tlc -config GroupTable.cfg MCGroupTable      model-checks one run
    tlapm GroupTableProofs.tla                   checks the proofs of one module

`PROJECT.json` lists the components, the runs, the source lines every definition
translates, the hazards the properties are aimed at, the mutants (plausible bugs
that make each property fail) and the theorems.

## 1. Inventory

| component | state | operations | what is hard | what makes it correct |
|---|---|---|---|---|
| worker pool, `internal/pool/worker.go` | per call: wait group, mutex, first error, result slice | `ParallelDo`, `ParallelDoWithError`, `ParallelCollect` | the only goroutines of the library: interleavings, failing chunks, uneven chunks | every index once, results in order, the first error, no write after return, the caller released |
| group table, `internal/dataframe/groupby.go`, `unique.go` | slots, mask, group count, group of each row | `probe`, `grow`, `findGID`, `GroupBy`, `Unique`, `Agg` | collisions, growth in the middle of an insertion, keys without reflexive equality | groups are the classes of equal keys, first occurrences kept, every lookup ends |
| hash join, `internal/dataframe/join.go` | hash index of the right rows, pairs of matched rows | `Join`, `JoinOn` for seven kinds of join | collisions and wrap-around, parallel probing, unmatched rows, key coalescing | exactly the pairs of the join, in left order; cells kept |
| argument sorts, `internal/array/radix_sort.go` | an array of row indices | `ArgSort` of each numeric type | shortcuts, nulls, signs, NaN, stability over passes | a permutation, sorted, nulls last |
| data frame core, `internal/dataframe` | immutable columns | select, drop, rename, with-column, filter, head, sort, unique | error cases, names | one length, distinct names |
| concatenation and reshaping, `concat.go`, `reshape.go` of `internal/dataframe` | none | `Concat`, `ConcatHorizontal`, `Pivot`, `Unpivot`, `Transpose`, `Explode` | bitmaps copied to any bit; columns rebuilt from cells by data type | every cell is where it belongs, with its null |
| the rest of `internal/dataframe` | none | describe, sample, fill, display, export | boundary cases | - |
| windows, `internal/expr/window.go`, `agg.go` | a second group table | `Over` by one pass or by a frame for every group | the two ways and the two tables must agree | every row has the value of its own group |
| expressions, `internal/expr` | immutable trees | `Evaluate`, `UsedColumns`, `IsConstant` | naming, broadcasting, nulls | cell-wise value, names of results |
| lazy, `internal/lazy` | immutable plans | the methods of `LazyFrame`, `Optimize`, `Execute`, `ExecuteWithContext` | rewrites that are sound only under conditions; cancellation between nodes | optimizing keeps the result; cancelling stops the work |
| arrays, builders, kernels, `internal/array` | values, validity; a builder's growing storage | slice, comparison, filter, take, aggregation, arithmetic, append, build | three layouts filtered side by side, dense and sparse words; chunked aggregation; storage shared by a builder and the arrays it has built | the columns of a result have the cells of the same rows; results do not depend on chunks |
| bitmap, `internal/bitmap` | 64 bit words and a length | set, clear, and/or/not, slice, count | slack bits of the last word | no bit past the length, so that population counts agree with bits |
| series, `internal/series` | one column | `Unique`, `IsDuplicated`, rolling windows; interpolation, rank, shift, strings, dates | a third kind of hash set, window boundaries, nulls | agrees with the data frame's `Unique`; the value of each window |
| SQL, `internal/sql` | the registry of tables | `Register`, `Execute`: tokens, clauses, data frame operations | a clause parser with one token to look at, columns renamed by aliases and back | the statement is read as written, and the result is what it describes |
| CSV, `internal/io/csv` | the text, line starts, chunks of lines | `Read` in three ways, `Write` | lines divided before they are parsed, types inferred from a sample, two parsers and a writer that must agree on quotes | every row once and in order, types that fit, read after write |
| JSON, Excel, Parquet, database | none kept | read, write | formats | read after write |
| public API, root package | none | forwards | - | - |

How they interact: the public API forwards to data frames, series and
expressions. A lazy query is a plan whose execution calls the data frame
operations and the expression engine; SQL does the same from text. Data frame
operations call the array kernels on each column; kernels, the parallel join and
the CSV reader hand ranges of indices to the worker pool as callbacks and join
before they return. Nothing is shared between calls apart from a builder's
storage and the SQL registry, nothing survives the process, and files are only
read or written as a whole: there is no crash recovery and no messaging to model.

## 2. Modules

| module | models | role |
|---|---|---|
| `WorkerPool` | `worker.go` | one parallel call: caller and goroutines |
| `IndexLoop` | the contract of the pool | the plain loop over the indices, implemented by `WorkerPool` |
| `GroupTable` | `groupby.go` 170-390, `unique.go` | the hash table and the loops of GroupBy and Unique |
| `GroupBy` | `groupby.go` 392-649 | extends `GroupTable`: aggregations and index lists over its groups |
| `WindowAgg` | `window.go`, `agg.go` | extends `GroupBy`: the second table and both ways to a window's result |
| `SeriesUnique` | `series/unique.go` | extends `WindowAgg`: Unique and IsDuplicated of a column, against the frame's Unique |
| `Grouping` | the contract of GroupBy and Unique | rows taken in order join or found groups; implemented by `GroupTable` |
| `ArgSort` | `radix_sort.go` | one argument sort, shortcut or radix pass at a time |
| `HashJoin` | `join.go` | one call of JoinOn |
| `Bitmap` | `bitmap.go` | bitmaps as words, words as sets of bit positions |
| `Columns` | array layouts, `series/null.go` | extends `Bitmap`: typed, boolean and string arrays, slicing and taking |
| `Concat` | `concat.go` | extends `Columns`: data frames one below the other and side by side |
| `Rolling` | `series/rolling.go` | extends `Columns`: prefix sums and the queue of a moving minimum |
| `Reshape` | `reshape.go` | extends `Concat`: pivot, melt, transpose, explode |
| `FilterColumns` | filter, comparison, aggregate kernels, `filter.go`, `take` | one query on the columns of a frame, over `Reshape` and `Rolling` |
| `RowLists` | - | the ascending list of a set of rows, used by `ArgSort`, `HashJoin`, `FilterColumns` and `CsvReader` |
| `CsvText` | line parsers, `inferType`, `buildSeries`, `writer.go` | texts to fields, columns and back |
| `CsvReader` | `reader.go` | one file read, over `CsvText` |
| `Frames` | the data frame core | data frames as values, operations as functions |
| `Expressions` | `internal/expr` | expression trees and their evaluation over `Frames` |
| `LazyPlan` | `plan.go`, `optimizer.go`, `executor.go` | plans, rewrites, execution, over `Expressions` |
| `LazyFrame` | `lazyframe.go`, `Optimize`, `ExecuteWithContext` | a query from its first call to its result, over `LazyPlan` |
| `SqlText` | `parser.go` | tokens and the grammar of columns, joins and conditions |
| `SqlContext` | `context.go`, `eval.go`, `parseSelect` | one registry and one statement, a clause a step, over `SqlText` and `Expressions` |
| `SqlMeaning` | the contract of a statement | extends `SqlContext`: how a statement is written, which rows it means |
| `MC...` | - | values of the constants for TLC |
| `DataLemmas` | - | lemmas on lists, folds, counts and sums that the proofs share |
| `ColumnLemmas` | - | lemmas on the operators of `Bitmap`, `Columns`, `Concat`, `Rolling` and `Reshape`, whatever calls them |
| `WorkerPoolProofs`, `GroupTableProofs`, `HashJoinProofs`, `ArgSortProofs`, `FilterColumnsProofs`, `CsvReaderProofs` | - | theorems on the module each is named after (`GroupTableProofs`: on `Grouping`, `GroupBy`, `WindowAgg` and `SeriesUnique` too, `FilterColumnsProofs`: on the modules it extends too) |

### WorkerPool

`call` holds the arguments. `pc`, `next` and `idx` are the caller and its loop
variables, `worker` the frames of the callback by the index they start at (the
serial call has one frame, 0, in the caller's goroutine). The callback belongs to
the caller of the pool; the model lets it handle the indices of its range one
step at a time, fail at any of them (only `ParallelDoWithError` has a result to
fail with) and return the range it was given. `LockErr`, `CheckErr`, `WriteErr`
are separate steps because the mutex is what makes the last two one. `Done` is
deferred, hence a step of its own after success and failure alike. A panicking
callback ends a Go program and is not modelled.

### GroupTable, GroupBy, Grouping

One step is one slot looked at, by `probe` (`ProbeInsert`, `ProbeHit`,
`ProbeNext`), by `grow` (`GrowSkip`, `GrowNext`, `GrowPlace`, `GrowDone`) or by
`findGID` (`FindHit`, `FindNext`). A key is an abstract value with a hash and an
equality `SameKey`, Go's `==`: that it is not assumed to be an equality is what
the NaN run is about. `slot & mask` becomes `%` because table sizes are powers of
two; the distance from the hash wraps at the table size, which keeps the state
finite and visits the same slots. `GroupBy` computes what `Agg` returns for a
column by a recursive function over the rows in row order. Sums are those of the integers;
overflow and floating-point rounding are not modelled, and a mean is the pair of
sum and count. `applyFirstLast` switches on the data type: `FirstValid` and `LastValid`
have its cases for Int64 and String and its default, zeros that are not null.

### WindowAgg, SeriesUnique

The same grouping is done a second time in `window.go` and a third time in
`unique.go`, on other tables. The state is `GroupTable`'s; when its run is done
these modules compute, as algorithms without steps of their own, what the other
code returns for the same key column. `StopAt` is a probe, from the slot of a hash
to the first slot that ends it, or -1 when none does. `Layouts` are the ways a
series treats its data types. Two expressions that are no aggregations stand for
the inner expressions of a window: one with a cell for every row and one with fewer.

### ArgSort

A value is a bit pattern of `Digits` digits in base `Base`; `Number` says what it
means in each type. The stable library sort and one counting pass of the radix
sort are both "the stable sort by an order", the second by one digit; the double
buffering of the passes is not visible in the model, the order of passes is. The
type "int16" stands for the small types, which use the comparison sort only.

### HashJoin

`table` is the map `rightIndex`; the row loop of the build and the probing of each
chunk of left rows are steps, so chunks interleave. `ProbeLimit` is the code's
100. A row's cell in its one other column is its row number, so that `CellsKept`
can tell where a cell of the result comes from. `call.keyType` and `call.dtype` are the
data types of the key columns and of the others; cells of a type that `gatherColumn` has
no case for (`GatheredTypes`) become `EmptyString`, in key columns too. Keys are of
one type on both sides, and NaN and -0, whose equality the hashes do not
follow, are not among them.

### Bitmap, Columns, FilterColumns

A word is the set of the positions of its bits, so that bit operations are set
operations; `wordSize` is 64 in the code. A call the code answers with a panic is a
`CASE` without a value. `Columns` keeps what the kernels depend on: the value
under a null, the byte block and offsets of strings, nil for no validity.
`FilterColumns` goes word by word where the code has goroutines: `CompareWord` for
the comparison kernel (chunks in any order), `FilterWord` for the goroutine of each
column, with `cursor` as its loop variables and its array. One chunk of the
pool is one word here; how the pool cuts chunks is `WorkerPool`'s matter.
Aggregates are of whole numbers: no rounding, no NaN. Conditions compare Int64
columns (`Evaluable`); those on Float64, String and Boolean columns and of mixed types,
which `comparison.go` evaluates too, are not followed here and nothing is claimed of them.

### Concat, Rolling, Reshape

Operators on the arrays of `Columns`, called by the actions of the last section of
`FilterColumns` on a frame that may have been sliced first, which is what moves
their bits and offsets. `PutBits` is one turn of the loop of `copyBitmapBits`. A
mean is the sum and a deviation the integer it is a fraction of. `Build` is the
constructor with validity that all of `reshape.go` ends in; a text is a sequence,
of bytes or of one number standing for its digits. The frame of `Unpivot` is pivoted
again by the next step. `ReshapeMovesCells` has three parts, one for each way there and
back: `PivotUndoesUnpivot`, `TransposeTurnsRows` and `ExplodeKeepsPieces`. The last two
claim frames whose columns have the four types `Build` has a case for (`AllBuildable`):
for any other one the default case of Transpose (`reshape.go:572-577`) reads integers
that are not there, so every cell becomes a zero that is not null where the comment
(`reshape.go:139-141`) speaks of a common type, and that of Explode
(`reshape.go:630-636`) empty texts where the comment (`reshape.go:188-189`) has other
columns repeated. Giving `ShapeFrames` the frames `Int32Frames` of `MCFilterColumns` and
dropping the condition shows both.

### CsvText, CsvReader

A text is a sequence of characters, one of them (`Wide`) of several bytes, which as
separator or as quote selects the slower parser; a column forced to a type without a
case is built as untrimmed texts (`BuiltType`); numbers have any digits, at most one of them after the
point, no sign and no exponent, and are compared in tenths (a Float64 stays below a
million, where `%g` writes no exponent). `Read` is a step a stage: skipping, header, column
selection, location of the lines, and then parsing in one piece, in chunks whose
goroutines finish in any order, or line by line when the first line has not told the
number of columns; then one step per column built. The context is only looked
at in the line by line way, so only there does cancelling do anything. `written` is
a table `Write` was given before, so that a file can be compared with it.

### SqlText, SqlContext, SqlMeaning

Tokens are made of characters that are mostly whole words. Parser and execution go
clause by clause over `stmt`, `df` and `pos`; execution calls the operations of
`Frames` and `Expressions`. `SqlMeaning` says without them which rows a statement
means, and writes a statement as text, so that both halves can be checked; its
`WellFormed` lists what the program gets right. The writer puts parentheses only around
an OR under an AND, so comparisons are of columns and literals, texts have no quote in
them, and no AS stands before the alias of a table (`Expressible`). `TypesWell` is the
condition on data types. A mean is a whole number of `MeanParts` of one: 60 of them make
the mean of up to six numbers whole.

### Frames, Expressions, LazyPlan, LazyFrame

Here a column is its cells and a row its number; that filtering and taking columns
keeps rows together is `FilterColumns`' matter, except that `Take` leaves boolean
columns alone as the code does. `Printed` is what `String()` tells of an expression, by
which `eliminateCommonSubexprs` compares: literals print without their type. Plans and frames are values, and the functions on them are recursive operators:
TLC only. `EnterNode`, `CheckAgain` and `RunTop` are the three parts of
`ExecuteWithContext`, with the Go call stack as `stack`; `Cancel` is the caller's
and may come between any two of them. A file is the data frame that reading it
returns.

## 3. Runs

| run | what it shows | bounds |
|---|---|---|
| `worker_pool` | all eight properties of one parallel call | sizes -1, 0, 1, 4, 5, thresholds 0, 2, 5, 0, 2 or 3 processors |
| `group_table` | the table, the aggregations, windows, the sets of a series, termination and refinement | five key values in four classes, heights 0, 1, 5, table from 2 slots |
| `group_table_nan` | finding: a NaN key makes `findGID` loop | heights 2 and 3 |
| `arg_sort` | every path of the sort | words of two digits in base 4, columns of up to 4 rows, radix passes from 4 rows |
| `lazy_frame` | optimizer and executor | queries of up to 3 calls, up to 2 with a context, lists of up to three expressions |
| `lazy_scan` | finding: a file scan loses its predicate's column | the README's query |
| `hash_join` | the seven joins | up to 3 rows a side, 4 keys, 6 hash values, chunks of 1 or 2 rows |
| `hash_join_types` | finding: cells of other types, keys too, become empty strings | 2 rows a side |
| `filter_columns` | filter, take, aggregates, concatenation, reshaping and rolling on columns | words of 2 bits, 0 to 8 rows, up to three columns |
| `take_columns` | finding: a boolean column is not taken | 3 rows |
| `csv_reader` | reading in every way, type inference, read after write | five files of up to six lines, six tables, eleven sets of options, 1 to 3 workers |
| `sql` | parser and execution against the meaning of the statement | 27 statements with every clause, 11 texts that are none, two tables in three versions each |

Why these bounds are enough to be of use:

- *worker_pool*: sizes 4 and 5 over 2 and 3 processors give one chunk per
  processor, fewer chunks than processors, a shorter last chunk, and enough
  failing chunks for two to wait on the mutex while a third holds it; thresholds
  put each size below, at and above the serial case.
- *group_table*: two keys share a hash, a third shares their slot in a table of 2
  or 4 slots and leaves it in one of 8, a fourth is next to them, so that probes
  collide, run on and wrap around; five rows make the table grow twice, once with a
  chain in it. The starting size is 2 instead of the code's 16, which only the
  constants `MinSize` and `MinEst` know.
- *arg_sort*: the patterns reach both digits, both signs and both zeros of a
  float; four rows take the radix passes, three and a null the sort by keys below the
  radix threshold, and mostly-sorted columns the comparison sort.
- *lazy_frame*: three calls are enough for every pair of adjacent nodes the rules
  look at, with another node above or below, and for a join of two inputs. The lists of
  expressions have equal ones side by side, apart, around one that writes the same
  column, and literals that print alike: the queries that `Safe` leaves out are
  queries of the run.
- *hash_join*: three of four keys have the last hash value, so chains wrap into the
  place of the fourth; `ProbeLimit` is 0, so that the limit is reached by three
  colliding keys; key columns and others are of a type that can be gathered or not.
- *filter_columns*: five rows in words of two bits are two full words and one of a
  single bit; every mask over them occurs, so a dense word goes to an aligned and to
  an unaligned place, after empty words too, and slices from rows 1 and 2 take the
  shifted and the aligned path, one from a negative row is clamped. Strings of 0 to 2 bytes make the offsets uneven.
  Frames are cut at any two rows into three parts, so that a bitmap goes to both bits
  of a word, from one or from several words; windows are shorter than, as long as
  and longer than the columns, and not positive.
- *csv_reader*: blank, comment, short and long lines, a last line with and without a
  newline, a null with spaces around it; three workers share two to four lines.
- *sql*: tables with nulls, duplicates, no rows, a boolean column, and names that
  collide after a join; every kind of join, one statement of two; every aggregate in
  groups, `FIRST` and `LAST` of joined rows too; sort, limit and aliases together;
  statements that sort beside, group by or aggregate the boolean column, which
  `TypesWell` must leave out.

Each run that passes checks what its module promises; a type invariant is a
property only of `worker_pool` and `group_table`, where the proofs need it.

TLC's deadlock check is on in every run: a finished system stutters by an explicit
step, so any other state without a successor is an error.

### Fairness

`WorkerPool` assumes weak fairness of the caller and of each goroutine: Go's
scheduler preempts goroutines and runs every runnable one, and its mutex hands
over to a waiter. `GroupTable` assumes weak fairness of its one sequential loop. No
strong fairness is assumed, and no other module states liveness.

### Findings

- `findGID` (`groupby.go:302`) never returns for a row whose key has a NaN: the
  table grows when such a row is inserted, and the row is not equal to itself.
  Sixteen NaN rows are enough.
- The projection of a file scan (`optimizer.go:69`) drops the columns of the
  predicate pushed into it: the query of `README.md:276` fails.
- `gatherColumn` (`join.go:495`) turns columns of other types than Int64, Float64,
  String and Boolean into empty strings, key columns among them (`join.go:457-462`).
- `Series.Take` (`series/null.go:163`) returns a boolean column, or one of another
  type without a case, as it is: after `Sort` its cells stand beside the wrong rows,
  and `Unique` and `Sample` return a nil data frame without an error. `Series.Filter`
  (`null.go:134`) does the same with types it has no case for; the frame then loses
  all its columns.

Met while modelling and stated as exceptions of the properties, in the modules named:

- sorting: `isSorted` and `isSortedDesc` (`radix_sort.go:11-30`) take a column with
  NaN between unordered numbers for sorted; `dataframe_test.go:1268` says "Test that sort
  is stable: equal elements preserve original order", but the shortcut for data sorted
  the other way round reverses equal elements with the rest (`radix_sort.go:71-78`), and
  by key or radix -0 comes before +0 although neither is less than the other.
  `TiesKeptOrAllReversed` is about equal bit patterns, and allows the reversal
  (`ArgSort`);
- aggregations: `README.md:188` and `doc.go:83-84` name First and Last without a type,
  but of a column that is neither Int64 nor String they are zeros, never null
  (`groupby.go:624-625`). `AggregatesAreOfMembers` claims the two types; asking
  the same of a Float64, Date or Boolean column, TLC refutes it (`GroupBy`);
- SQL (`SqlMeaning`), where `README.md:21` lists "full JOIN and table alias
  resolution": AND takes a following OR into its right side; `FROM t AS x` names the
  alias AS and ignores the rest of the text, as all text after the last clause is;
  the alias of a joined table may be the word WHERE or LIMIT; CROSS JOIN
  without ON fails; HAVING is not parsed; `t.x` is refused in GROUP BY and
  ORDER BY and inside an aggregate, and so is COUNT(*); two aggregates of one column
  are one; an aggregate without GROUP BY returns the column itself; a LIMIT of zero
  or less is none; the right key of a join is gone afterwards; nulls join each
  other, and a condition with a null operand is null whatever the other operand is;
  a projection that fails leaves a nil frame, on which LIMIT panics; a boolean column
  is not taken along by a sort, which separates the rows, nor by groups, where as a key
  it makes the query fail (`TypesWell`; the reason is `Series.Take`);
- windows (`WindowAgg`): the slow path takes its type from the first group, and fails
  on any frame with a boolean column because of `Series.Take`, where the fast path
  does not; both tables search for a NaN key for ever once they grow;
- series (`SeriesUnique`): Unique returns columns of small integers unchanged,
  IsDuplicated marks nothing in types without a case and searches for a NaN for ever;
- reshaping (`Reshape`): values of a type that is not the common one melt to zeros
  that are not null; Pivot makes its index texts, "<nil>" for a null; columns
  other than the four usual types become empty texts or nulls;
- rolling (`Rolling`): a window of zero or less gives zeros that are not null, and a
  column that is neither Int64 nor Float64 a nil series; in floating point a NaN or an
  infinity stays in all later prefix sums;
- CSV (`CsvReader`): NRows counts blank and comment lines; the parallel reader
  ignores the context; a text with a newline is not read back, nor a null as the
  only cell of a line; a Boolean type inferred from a sample makes later numbers false.

The rewrites of `LazyFrame` are unsound in more ways than `lazy_scan` shows; each is
an exception of `Safe`, and dropping any one of its conditions makes TLC refute
`EveryPassKeepsResult`:

- a filter sinks below a rename though it names the new column (`optimizer.go:323-330`,
  whose comment calls it "Safe ... in most cases"; `FilterMaySink`);
- a filter on a cumulative value sinks below a sort (`:333`), and so does one below a
  sort with ties, whose order depends on which rows are there, or one of a frame with
  a boolean column, which the sort leaves in its old order (`FilterMaySink`);
- a select replaces the select below it though it names a column that one computes
  (`:363-368`; `MergeKeepsColumns`);
- folding replaces a constant by a literal without its alias (`:177-229`), so
  `Lit(1).Alias("c")` comes out as "literal" although `Alias` promises "the given output
  name" (`expr.go:18`; `FoldKeepsNames`);
- expressions are compared by their texts (`:296`), so of `Lit(1)` and `Lit("1")` (or
  `Lit(1.0)`) one is dropped, and so is the last of `a+1, a+a, a+1` in `WithColumns`,
  where the second writes the column of the first: the result is `a+a` and not `a+1`
  (`DedupKeepsResult`); "identical expressions" is what the comment at `:280` says.

`EveryPassKeepsResult` claims plans that meet `Safe`; `CollectMeansTheCalls` is the
claim without exceptions. Likewise `RowsStayTogether` claims frames of
the data types that `Take` and `Filter` have a case for, `ResultIsJoin` claims index chains within the
probe limit (`WithinReach`), `SortedByNumber` columns without NaN, `KeyColumnComplete` key columns of the four
types that are gathered, and the theorems
on `GroupTable` keys for which `KeysWellBehaved`.

## 4. Proofs

Assumptions on constants are named in the modules that declare them
(`PoolAssumption`, `TableAssumption`, `ColumnAssumption`, `JoinAssumption`,
`SortAssumption`, `ReaderAssumption`, `WordSizeAssumption`, `NullAssumption`,
`CellAssumption`, `FramesAssumption`, `NamesAssumption`, `SlicesAssumption`,
`ConditionsAssumption`, `WindowsAssumption`, `MeltsAssumption`) and TLC evaluates them in
the runs. Four are about the encoding rather than the code: `CellAssumption` (the null
is not a number, a truth value or a text), `NamesAssumption` (a column name is a text),
`MeltsAssumption` (a melt has an identifier and a value column; the next step
pivots by the first identifier), and the part of `JoinAssumption` that sets `EmptyString`
apart from the other cells.

**WorkerPoolProofs**, for all sizes, thresholds and processor counts:

1. `TypeAndFrames`: the invariant everything rests on. A frame starts at a multiple
   of the chunk size below `next`, covers its chunk only, writes the slot of its
   number, and holds the mutex exactly between `LockErr` and the unlock. It is not
   implied by `TypeOK`: without the relation of `next` and the frames two frames
   might overlap.
2. `WaitGroup`: the counter is the cardinality of the frames that have not called
   `Done`, by the finite-set theorems. With it `Return` implies that every frame
   is done.
3. `TypeCorrect` (`TypeOK`), `QuietAfterReturn` (`NothingAfterReturn`).
4. `VisitsAndOutcomes`: an index has been handled once if its frame is past it and
   not at all otherwise, and every failed frame past its critical section has left
   an error. From it `HandlesEachIndexOnce` (`EachIndexOnce`), `ReportsAnError`
   (`ErrorReported`), `KeepsFirstError` (`FirstErrorKept`).
5. `CollectsInOrder` (`CollectInChunkOrder`): each frame of a collecting call writes
   the slot of its chunk's number once and no other (`SlotInv`), and a slot once
   written has the chunk's range (`ResultInv`). That the slots put end to end are the
   whole range is an induction over slots whose products go through `ProductGrows`.
6. `PoolImplementsLoop` (`ImplementsLoop`): initial states map to initial states,
   `Visit` to handling an index, the last step to the outcome, the rest to
   stuttering.

**GroupTableProofs**, for all keys, hash functions, heights and starting sizes,
under `KeysWellBehaved`:

1. `ProbingInvariant`: the slots in use hold distinct, pairwise unequal rows, one
   for each group; the path from the slot of a key's hash to its entry has no empty
   slot (in the old table and, while growing, in the new one); no probe under way
   has passed the entry of its row. `GroupsAreClasses` is not inductive without it:
   a row is given a new group when its probe meets an empty slot, which is right
   only because its key would have been met before.
2. `GroupsMatchKeys` (`GroupsAreClasses`) and `TableStaysHalfEmpty`
   (`LoadBelowHalf`).
3. Groups are numbered in the order their first rows appear; `ProbingInvariant` says
   nothing of that. `OrderInvariant` adds it: every settled group has a founder, its
   first row, the groups before that of a row belong to earlier rows, and the slot and
   the kept row of a group are its founder.
4. `TypesCorrect` (`TypeOK`), where the length of that list bounds the group numbers.
5. `FirstOccurrencesKept` (`KeepsFirstOccurrences`): a row is kept exactly when no
   earlier row has its key, in row order.
6. `TableImplementsGrouping` (`ImplementsGrouping`): finding an entry maps to joining
   its group, placing one to founding a group, growing and probing to stuttering.

In the same module, `GroupsAggregateMembers` (`AggregatesAreOfMembers`), where First and
Last are those of the types in `FirstLastTypes`. The pass
keeps, after the first n rows, a cell for every group (`CellOK`) and a list of its
members (`ListOK`); the facts are invariants of the pass over prefixes. The value of
a cell is compared with the reference definition over the set of members with a value:
count, sum, first and last by sums over sets, smallest and largest by their being
among the values and bounding them.

In the same module, `SeriesUniqueAgrees` (`SeriesAgreesWithFrame`), for all heights,
hash functions, sizes of the sets and places of the nulls. The sets of a series never
grow; that a probe always stops is a fact about their size (`CapacityHolds`: at least
twice the rows, so a slot stays free, `EmptySlotLeft`, by the pigeonhole theorem). After
each row the set holds the kept rows with a value, each reached from the slot of its
hash through rows in use (`SetOK`), so a probe that ends at a free slot has met no row
of its value; `HashedOK` and `EntriesOK` say the same of the loops of `Unique` and
`IsDuplicated`. Their recursive functions are shown to exist by `LoopExists`. The rows
kept are an ascending list of the first rows, and there is one such list only, that of
`FirstOccurrencesKept`. `NullAssumption` (only the null equals the null) is what the
frame's comparison of null flags says (`groupby.go:172-176`).

In the same module, `WindowsFollowGroups` (`WindowsAreOverGroups`), for the finished
run of any `GroupBy`. The table of the windows is a fold over the rows, so its
invariant is one on prefixes: `TableStates` (at least two slots, fewer than half of
them in use, entries of different rows, each reached from the slot of its hash
through slots in use) is kept by a probe, growth included (`ProbeAnswers`), and a
probe answers with the group of the entry equal to its row or with a new one
(`Answers`). After k rows the table has numbered them as `gids` has (`SameGroups`),
since `OrderInvariant` says those numbers follow first appearance. On the fast path
a group's value and count are those of its rows so far (`FastOK`, by the lemmas of
`GroupsAggregateMembers`). On the slow path the rows of a group are the ascending
list of the rows with its number (`Lists`), so the place of a cell and its row
determine each other: sums over a list are sums over its rows (`TotalIsSum`), the
least and greatest places are the first and last rows, and the list of different
cells has the length of the group or 1 exactly when no two are equal or all are
(`AllDiffer`, `AllSame`).

**HashJoinProofs**, for all keys, hashes, kinds of join, chunk sizes, for index chains
within the probe limit: `JoinInv` says that the index holds the right rows inserted
so far (`IndexInv`), that the chunks tile the left rows and each has emitted the pairs
of the rows it has probed (`ProbeInv`), and what the pairs put together are (`DoneInv`).

1. `IndexComplete` (`IndexHoldsRows`): every chain of the index holds the rows of its
   key, ascending, and no others.
2. `JoinsByDefinition` (`ResultIsJoin`): the pairs are those of the definition of the
   kind of join, in its order, whichever chunk ended first.
3. `KeysComplete` (`KeyColumnComplete`): a key column of a type that is gathered
   (`GatheredTypes`) has every key, filled in a right or outer join from the right side
   where the left has no row. For other types it is false, see `hash_join_types`.

**ArgSortProofs**, for all columns, bases, digit counts and thresholds: `SortInv` is
`ColumnInv` (the indices are those of the column), `RowsInv` (each phase's array is
without repetition and complete) and `OrderInv` (after d passes the array is sorted by
the low d digits, ties in the order before).

1. `RowsKept` (`NoRowLost`), `PassesFromLowToHigh` (`LowDigitsOrdered`).
2. `SortsByNumber` (`SortedByNumber`): the order of transformed patterns, digit by
   digit, is the order of numbers for every type, signs and zeros included.
3. `SortIsStable` (`TiesKeptOrAllReversed`), for rows of one bit pattern.

**CsvReaderProofs**, for all files, options and numbers of workers:

1. `ReaderInvariant` (`ReaderInv`): the position is behind the skipped lines and the
   header once those stages are over (`LineInv`); a worker has stored nothing or the
   columns of its own chunk (`ChunkInv`); the columns built so far have the cells of
   their field (`FieldInv`).
2. `EveryRowIsRead` (`ReadsEveryRow`): the result has every row once and in order,
   whichever way it was read and in whatever order the workers ended. An ascending list
   is determined by its set of positions; chunks divide the positions, so the lists of
   the chunks put end to end are the list of the whole.
3. `InferredTypesFit` (`InferredTypeFits`), from `SeriesInvariant`. Both line parsers are
   folds over the atoms of a line; every step keeps that the fields so far are texts
   (`AsciiStep`, `RuneStep`), so a line parses to texts (`FieldsOfLine`). Each column's
   place in a row is one (`PlaceInv`: the last column of the name asked for), so a
   column is a list of texts (`DataInv`), and a stored series is the one built from it
   (`BuildInv`). With the type inferred from all values none is unparsable, and a text
   of digits has no point, so a cell says what its text does (`InferredSeries`).
4. `WhatWasWrittenIsReadBack` (`ReadsBackWhatWasWritten`), for all tables, separators and
   quotes under which a file can hold the table (`AsWritten`, `Recoverable`).
   A line is its quoted fields put end to end, each at a place the lengths before it
   give (`IsLine`); from the place of a field either parser reaches that of the next
   with the field's text, in quotes or not (`WrittenLineParses`). No text has a
   newline, so the line starts are those of the written lines (`LinesOfFile`), and a
   return at the end of a line is in quotes, so none is stripped (`LineEnds`). The digits of a
   number, put together again, are the number (`DigitsRead`), so a column's texts
   build the column (`BuildsBack`). `ReadsTable` carries this through the stages:
   the names after the header, the columns' texts once the chunks are merged, and `outcome`
   never an error. With it `IsTable` is needed: columns of one height, and cells of their
   type.

**FilterColumnsProofs**, for all word sizes, frames, slices, conditions and windows: `QueryInv`
says that `df` is a frame (distinct names, columns of one height, every bitmap with
as many words as its length needs and no bit past it, every offset list ascending
from 0 to the size of its block) and what a finished aggregation (`AggregateDone`),
rolling call (`RollingDone`) and melt (`MeltPending`) have computed.

1. `FramesStayWhole`: the only step that replaces the frame before a query is a slice,
   so this is the proof that `SliceBitmap` keeps bitmaps whole and finds the
   bits of the slice, word-aligned or not (`SliceBits`), and that slices of the three
   layouts have the cells of the rows asked for (`SliceOfSeries`).
2. `AggregatesChunkFree` (`AggregatesIgnoreChunks`): a chunk's partial result is that of
   the valid rows of its range (`ReductionsMerge`); merging chunks from the left gives
   that of the rows so far (`ChunksMerge`), an induction over the chunks in which a chunk
   without valid values must leave least and greatest value alone.
3. `RollingUsesWindow` (`RollingIsOfWindow`): prefix sums are sums over sets of rows
   (`PrefixIsSum`), so their differences are sums over the window (`WindowIsSum`); the
   deviation's closed form is the sum of the squared distances from the mean
   (`Deviations`); the queue holds, ascending and with falling values, the rows
   of the window that nothing later beats (`QueueStep`), so its front is the least or
   greatest value (`FrontIsBest`).
4. `FilterWritesSelected` (`FilteredSoFar`) and `RowsTogether` (`RowsStayTogether`), from
   a second invariant, `FilterInv`, with one part for every stage of a filter. While
   words are compared (`Comparing`) the words done hold what the comparison says
   and the validity is that of the operands; after `Not`, `And` or `Or` the predicate
   says of each row what the condition does, null included (`MeansCond`); the mask has
   the rows it is true of (`IsMaskOf`). A column's goroutine (`Filled`) has reached a word of
   the mask, its place `j` is the number of rows selected below that word, the cells
   of these rows are in place, every later bit of the validity is still set and
   every later data bit clear, and `pos` is the sum of the sizes of their texts. The
   last three are what the cells alone do not say and the next word needs: it only
   clears nulls, only sets data bits, and writes its texts from `pos` on.
   `WordFilled` is the step, for each layout and for dense words, which are copied as a word
   or a block, and sparse ones. At the last word `j` is the population count the
   arrays were made for (`CountBits`), so all columns have one length and `New` does
   not fail. The theorem assumes `FramesFit`: every column is of a type that
   `Series.Filter` or `Series.Take` has a case for. Without it the claim is false, see the
   run `take_columns`.
5. `ConcatKeepsAllRows` (`ConcatKeepsRows`). `PutBits` writes the bits of one word to one
   or two words of the destination and no other bit; after k turns of `copyBitmapBits` the
   first k words of the source are in place (`BitsFrom`), and after k parts the rows of
   these parts, with a validity of all ones for a part that has none. The parts of a frame
   put together again have its cells.
6. `BitsPastLengthClear` (`SlackBitsClear`), from `FitInv`: every bitmap of the frame, the
   condition, the mask, the columns half filtered and the results has no bit past its
   length. It is inductive together with `QueryInv` and `FilterInv` only: that a
   half filled bitmap stays inside its length is a fact about the number of rows selected.
7. `ReshapingMovesCells` (`ReshapeMovesCells`), in three theorems, from `ReshapeInv`: a
   finished request has the result of its operator on a frame of the columns it claims.
   - `TransposeKeepsCells`: column r of the result is built of the cells of row r, and
     `Build` loses none of its common type.
   - `PivotRestoresCells`: row `a * h + r` of the melt holds row r of the a-th value
     column (`Molten`), so the texts of the identifier first occur in its first `h`
     rows, in row order, and the grid row of a text is the row it is first in.
   - `ExplodeKeepsLetters`: the cuts of a text ascend and every letter lies between two
     neighbours, so it is in the piece between them unless trimmed; the rows of the result
     are the lists of the pieces of each row put end to end (`FlattenMapped`).

**ColumnLemmas** has what operators 5 to 7 and slicing, aggregating and rolling call
return for any arguments; `FilterColumnsProofs` carries that through the steps of a query.

**DataLemmas** holds what these share: appending to an ascending list, parts and
concatenations of lists, sums over a set with one more element, products, and the
existence of loops written as recursive functions (`LoopExists`) or as folds (`FoldExists`,
`FoldStays`). The library's induction theorems cannot be instantiated by the provers, so an induction
is done on sets of numbers by one lemma on intervals, or by a least counterexample.
`SelectSeq` and the sorting operators of the community modules are recursive or
chosen and opaque to the provers; a list of rows is therefore `RowList` (`RowLists`),
the only ascending sequence of a set.

Only model-checked:

- liveness (`Terminates`, `EveryLookupEnds`): no proof of ENABLED or fairness here;
- `EveryPassKeepsResult`, `EveryFilterOnce`, `ContextAgrees` and `CancelStopsWork` of
  `LazyFrame`, `ParserReadsStatement` and `QueryMeansResult` of `SqlMeaning`: plans,
  expressions and statements are trees, and the operators of `Expressions`, `LazyPlan`,
  `SqlText` and `SqlMeaning` on them are `RECURSIVE`, which takes the prover's SMT backend
  away from every module that reaches them.

## 5. Plan

In this order:

1. `AggExprs` and the cross and asof variants of a join node of the lazy executor.
2. `Interpolate`, `Shift` and the cumulative functions of a series over `Columns`.
3. The JSON reader's rows of different keys, and its type inference.

## 6. Not modelled

- Parquet, Excel and database I/O: byte layouts and external libraries rather than
  state; a lazy scan takes a file as the data frame that reading it returns.
- Formatting, display, description and sampling; strings and dates: functions of one
  cell, better tested than modelled.
- Floating-point rounding, and overflow of sums: numbers are exact here.
- Builders: `TypedBuilder.Build` hands out the storage it keeps using, but no code
  outside tests builds arrays that way.
- `CommentChar` and `SkipRowsAfterHdr` have no public option; the model has them
  because the reader does. Benchmarks and the forwards of the public API.
