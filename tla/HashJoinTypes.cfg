SPECIFICATION Spec
CONSTANTS
  Null = Null
  EmptyString = EmptyString
  Keys <- MCKeys
  Hash <- MCHash
  HashSpace = 6
  ProbeLimit = 0
  LeftHeights = {1, 2}
  RightHeights = {0, 2}
  ChunkSizes = {1, 2}
  ParallelMin = 3
  ColumnTypes = {"Int64", "Int32"}
INVARIANT
  CellsKept
