------------------------------ MODULE HashJoin ------------------------------
(***************************************************************************)
(* internal/dataframe/join.go: JoinOn, the seven joins of two data frames. *)
(* A hash index of the right rows is built, the left rows look their       *)
(* matches up in it (in parallel chunks for large inner and left joins),   *)
(* and the matched pairs of rows are gathered into the result.             *)
(*                                                                         *)
(* A row is its key (the values of its key columns, of the same types on   *)
(* both sides; two nulls are equal; NaN and -0, whose equality their       *)
(* hashes do not follow, are left out) and the cell of one more column,    *)
(* its number.                                                             *)
(***************************************************************************)
EXTENDS Integers, FiniteSets, SequencesExt, RowLists

CONSTANTS
  Keys,         \* the key values; Null is one of them
  Null,         \* the null cell
  Hash,         \* hashRowFast: Keys -> 0..HashSpace-1
  HashSpace,    \* the number of hash values (2^64 in the code)
  ProbeLimit,   \* the collisions after which a lookup gives up (100)
  LeftHeights, RightHeights,
  ChunkSizes,   \* the chunk sizes ParallelCollect may choose
  ParallelMin,  \* pool.DefaultThreshold
  ColumnTypes,  \* the data types of the columns
  EmptyString   \* what gatherString reads from a column that has no strings

ASSUME JoinAssumption ==
  /\ Null \in Keys
  /\ HashSpace \in Nat \ {0}
  /\ Hash \in [Keys -> 0..HashSpace-1]
  /\ ProbeLimit \in Nat
  /\ LeftHeights \subseteq Nat /\ RightHeights \subseteq Nat
  /\ ChunkSizes \subseteq Nat \ {0}
  /\ IsFiniteSet(Keys) /\ Cardinality(Keys) < HashSpace
  /\ EmptyString # Null /\ EmptyString \notin Int

VARIABLES
  call,    \* [how, valid, keyType, dtype]: valid if the key columns exist and
           \* are given, which a cross join does not ask for; the data types of
           \* the key columns and of the others
  left, right,  \* the keys of the rows: 0..height-1 -> Keys
  pc,      \* "called", "build", "probe", "done" or "error"
  row,     \* the right row to be indexed
  table,   \* rightIndex: hash -> the rows of its entry
  chunks,  \* the chunks of left rows: start -> [end, at, pairs]
  pairs    \* leftIndices and rightIndices: pairs of rows, None for none

vars == <<call, left, right, pc, row, table, chunks, pairs>>

InnerJoin == "inner"
LeftJoin == "left"
RightJoin == "right"
FullJoin == "full"
SemiJoin == "semi"
AntiJoin == "anti"
CrossJoin == "cross"

JoinTypes == {InnerJoin, LeftJoin, RightJoin, FullJoin, SemiJoin, AntiJoin, CrossJoin}

None == -1

LeftRows == DOMAIN left
RightRows == DOMAIN right
LeftHeight == Cardinality(LeftRows)
RightHeight == Cardinality(RightRows)

Init ==
  /\ call \in [how : JoinTypes, valid : BOOLEAN, keyType : ColumnTypes, dtype : ColumnTypes]
  /\ left \in UNION {[0..n-1 -> Keys] : n \in LeftHeights}
  /\ right \in UNION {[0..n-1 -> Keys] : n \in RightHeights}
  /\ pc = "called"
  /\ row = 0
  /\ table = [h \in {} |-> <<>>]
  /\ chunks = [s \in {} |-> 0]
  /\ pairs = <<>>

Reject ==
  /\ pc = "called"
  /\ ~call.valid
  /\ pc' = "error"
  /\ UNCHANGED <<call, left, right, row, table, chunks, pairs>>

-----------------------------------------------------------------------------
(* The index of the right rows                                             *)

\* Where the p-th probe for key k looks; uint64 arithmetic wraps around
Place(k, p) == (Hash[k] + p) % HashSpace

Taken(k, p) == Place(k, p) \in DOMAIN table
EntryKey(k, p) == right[table[Place(k, p)][1]]

\* The first probe that ends the search for k's entry
FirstProbe(ends(_)) ==
  CHOOSE p \in 0..HashSpace : ends(p) /\ \A q \in 0..p-1 : ~ends(q)

\* Mutant: a collision takes the entry of another key over
InsertPlaceHashOnly(k) == Place(k, 0)

\* k's entry, or the free place after the entries of colliding keys
InsertPlace(k) == Place(k, FirstProbe(LAMBDA p : Taken(k, p) => EntryKey(k, p) = k))

StartBuild ==
  /\ pc = "called"
  /\ call.valid
  /\ call.how # CrossJoin
  /\ pc' = "build"
  /\ UNCHANGED <<call, left, right, row, table, chunks, pairs>>

(* One right row: appended to the entry of its key, or a new entry         *)
BuildRow ==
  /\ pc = "build"
  /\ row < RightHeight
  /\ LET place == InsertPlace(right[row])
     IN  table' = [h \in DOMAIN table \cup {place} |->
                     IF h # place THEN table[h]
                     ELSE IF h \in DOMAIN table THEN Append(table[h], row) ELSE <<row>>]
  /\ row' = row + 1
  /\ UNCHANGED <<call, left, right, pc, chunks, pairs>>

-----------------------------------------------------------------------------
(* The lookups of the left rows                                            *)

\* lookupRight: the right rows that match key k, or none
lookupRight(k) ==
  LET p == FirstProbe(LAMBDA q : ~Taken(k, q) \/ EntryKey(k, q) = k \/ q > ProbeLimit)
  IN  IF Taken(k, p) /\ EntryKey(k, p) = k THEN table[Place(k, p)] ELSE <<>>

needRightMatched == call.how \in {RightJoin, FullJoin}
canParallel == call.how \in {InnerJoin, LeftJoin} /\ LeftHeight >= ParallelMin

\* Mutant: a full join forgets the left rows without a match
EmitNoLeftOfFull(i, matches) ==
  IF call.how \in {SemiJoin, AntiJoin}
    THEN (IF (matches # <<>>) = (call.how = SemiJoin) THEN <<<<i, None>>>> ELSE <<>>)
  ELSE IF matches = <<>> /\ call.how = LeftJoin THEN <<<<i, None>>>>
  ELSE [m \in DOMAIN matches |-> <<i, matches[m]>>]

(* The pairs a left row contributes                                        *)
Emit(i, matches) ==
  IF call.how \in {SemiJoin, AntiJoin}
    THEN (IF (matches # <<>>) = (call.how = SemiJoin) THEN <<<<i, None>>>> ELSE <<>>)
  ELSE IF matches = <<>> /\ call.how \in {LeftJoin, FullJoin} THEN <<<<i, None>>>>
  ELSE [m \in DOMAIN matches |-> <<i, matches[m]>>]

ChunkOf(s, size) ==
  [end |-> IF s + size > LeftHeight THEN LeftHeight ELSE s + size, at |-> s, pairs |-> <<>>]

(* One chunk of all left rows, or the chunks of the worker pool            *)
StartProbe ==
  /\ pc = "build"
  /\ row = RightHeight
  /\ \E size \in IF canParallel THEN ChunkSizes ELSE {LeftHeight + 1} :
       chunks' = [s \in {i \in LeftRows : i % size = 0} |-> ChunkOf(s, size)]
  /\ pc' = "probe"
  /\ UNCHANGED <<call, left, right, row, table, pairs>>

(* A chunk handles its next row                                            *)
ProbeRow(s) ==
  /\ pc = "probe"
  /\ s \in DOMAIN chunks
  /\ LET i == chunks[s].at
     IN  /\ i < chunks[s].end
         /\ chunks' = [chunks EXCEPT ![s].at = i + 1,
                                     ![s].pairs = @ \o Emit(i, lookupRight(left[i]))]
  /\ UNCHANGED <<call, left, right, pc, row, table, pairs>>

-----------------------------------------------------------------------------
(* The result                                                              *)

\* The pairs of the chunks, in the order of the chunks
Concatenated ==
  FlattenSeq([s \in 1..LeftHeight |-> IF s - 1 \in DOMAIN chunks THEN chunks[s-1].pairs ELSE <<>>])

Matched(ps) == {ps[k][2] : k \in DOMAIN ps}

(* The right rows of a right or full join that no left row has matched     *)
Unmatched(ps) ==
  IF ~needRightMatched THEN <<>>
  ELSE LET js == RowList(RightRows \ Matched(ps))
       IN  [k \in DOMAIN js |-> <<None, js[k]>>]

(* The chunks are merged in their order, then come the unmatched rows.     *)
MergeChunks ==
  /\ pc = "probe"
  /\ \A s \in DOMAIN chunks : chunks[s].at = chunks[s].end
  /\ pairs' = Concatenated \o Unmatched(Concatenated)
  /\ pc' = "done"
  /\ UNCHANGED <<call, left, right, row, table, chunks>>

CrossPairs ==
  /\ pc = "called"
  /\ call.valid
  /\ call.how = CrossJoin
  /\ pairs' = [k \in 1..LeftHeight * RightHeight |-> <<(k-1) \div RightHeight, (k-1) % RightHeight>>]
  /\ pc' = "done"
  /\ UNCHANGED <<call, left, right, row, table, chunks>>

\* gatherColumn has a case for these; a column of any other type becomes
\* one of strings in which every cell but a null is "".
GatheredTypes == {"Int64", "Float64", "String", "Boolean"}

Gathered(cell, dtype) == IF cell = Null \/ dtype \in GatheredTypes THEN cell ELSE EmptyString

\* One cell of a column, by row number; None gives null
Gather(i) == IF i = None THEN Null ELSE Gathered(i, call.dtype)

GatherKey(keys, i) == IF i = None THEN Null ELSE Gathered(keys[i], call.keyType)

\* Mutant: the key of a row without a left part is not taken from the right
KeyOfLeft(p) == GatherKey(left, p[1])

(* The key column: the left one and, in a right or full join, where it is  *)
(* null the right one.  coalesceColumns gets what gatherColumn returned,   *)
(* which is of a type it has a case for.                                   *)
KeyOf(p) ==
  LET l == GatherKey(left, p[1])
  IN  IF needRightMatched /\ l = Null THEN GatherKey(right, p[2]) ELSE l

(* The rows of the result: key, left cell and right cell                   *)
ResultRow(p) == [key |-> KeyOf(p), l |-> Gather(p[1]), r |-> Gather(p[2])]
Result == [k \in DOMAIN pairs |-> ResultRow(pairs[k])]
-----------------------------------------------------------------------------
Next ==
  \/ Reject \/ StartBuild \/ BuildRow \/ StartProbe
  \/ \E s \in LeftRows : ProbeRow(s)
  \/ MergeChunks \/ CrossPairs
  \/ pc \in {"done", "error"} /\ UNCHANGED vars

Spec == Init /\ [][Next]_vars

-----------------------------------------------------------------------------
(* Properties                                                              *)

(* Every indexed right row is in the one entry of its key, in row order,   *)
(* and no probe that looks for that key meets a free place before it.      *)
IndexHoldsRows ==
  /\ \A h \in DOMAIN table : table[h] # <<>> /\ Ascending(table[h])
  /\ \A j \in 0..row-1 : \E p \in 0..HashSpace-1 :
       /\ Taken(right[j], p)
       /\ \A q \in 0..p : Taken(right[j], q) /\ (q = p <=> EntryKey(right[j], q) = right[j])
       /\ ToSet(table[Place(right[j], p)]) = {i \in 0..row-1 : right[i] = right[j]}

\* No right key lies further from its hash than a lookup goes.
WithinReach ==
  \A j \in RightRows :
    FirstProbe(LAMBDA p : Taken(right[j], p) => EntryKey(right[j], p) = right[j]) <= ProbeLimit + 1

HasMatch(i) == \E j \in RightRows : left[i] = right[j]
IsMatched(j) == \E i \in LeftRows : left[i] = right[j]

\* The join by its definition, as a set of pairs of rows
JoinOf(how) ==
  LET matches == {p \in LeftRows \X RightRows : left[p[1]] = right[p[2]]}
      leftOnly == {<<i, None>> : i \in {k \in LeftRows : ~HasMatch(k)}}
      rightOnly == {<<None, j>> : j \in {k \in RightRows : ~IsMatched(k)}}
  IN  CASE how = InnerJoin -> matches
        [] how = LeftJoin -> matches \cup leftOnly
        [] how = RightJoin -> matches \cup rightOnly
        [] how = FullJoin -> matches \cup leftOnly \cup rightOnly
        [] how = SemiJoin -> {<<i, None>> : i \in {k \in LeftRows : HasMatch(k)}}
        [] how = AntiJoin -> leftOnly
        [] how = CrossJoin -> LeftRows \X RightRows

Before(p, q) ==
  IF p[1] = q[1] THEN p[2] < q[2] ELSE q[1] = None \/ (p[1] # None /\ p[1] < q[1])

(* The result has the pairs of the join, each once, in the order of the    *)
(* left rows and then of the right rows, unmatched right rows last: with   *)
(* every way hashes collide, in one chunk or in many.                      *)
ResultIsJoin ==
  pc = "done" /\ WithinReach =>
    /\ ToSet(pairs) = JoinOf(call.how)
    /\ \A k \in 1..Len(pairs)-1 : Before(pairs[k], pairs[k+1])

\* The key of a row of the result: of its left row, or of its right row
KeyOfPair(p) == IF p[1] # None THEN left[p[1]] ELSE right[p[2]]

(* Key columns of a type that gatherColumn has a case for (GatheredTypes)  *)
(* have the key of every row of the result, whichever side it comes from;  *)
(* CellsKept is the claim for any type.                                    *)
KeyColumnComplete ==
  pc = "done" /\ call.keyType \in GatheredTypes =>
    \A k \in DOMAIN pairs : Result[k].key = KeyOfPair(pairs[k])

(* All columns, the key columns among them, keep their cells, of whatever  *)
(* data type they are.                                                     *)
CellsKept ==
  pc = "done" => \A k \in DOMAIN pairs :
    /\ Result[k].key = KeyOfPair(pairs[k])
    /\ pairs[k][1] # None => Result[k].l = pairs[k][1]
    /\ pairs[k][2] # None => Result[k].r = pairs[k][2]
=============================================================================
