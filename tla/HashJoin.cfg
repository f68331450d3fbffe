SPECIFICATION Spec
CONSTANTS
  Null = Null
  EmptyString = EmptyString
  Keys <- MCKeys
  Hash <- MCHash
  HashSpace = 6
  ProbeLimit = 0
  LeftHeights = {0, 1, 3}
  RightHeights = {0, 3}
  ChunkSizes = {1, 2}
  ParallelMin = 3
  ColumnTypes = {"Int64", "Int32"}
INVARIANTS
  IndexHoldsRows
  ResultIsJoin
  KeyColumnComplete
