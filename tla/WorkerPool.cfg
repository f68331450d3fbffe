SPECIFICATION FairSpec
CONSTANTS
  Sizes <- MCSizes
  Thresholds <- MCThresholds
  ProcCounts <- MCProcCounts
INVARIANTS
  TypeOK
  EachIndexOnce
  CollectInChunkOrder
  ErrorReported
PROPERTIES
  NothingAfterReturn
  FirstErrorKept
  Terminates
  ImplementsLoop
