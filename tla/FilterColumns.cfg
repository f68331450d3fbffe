SPECIFICATION Spec
CONSTANTS
  wordSize = 2
  Null = Null
  FilterFrames <- MCFilterFrames
  TakeFrames <- MCTakeFrames
  ShapeFrames <- MCShapeFrames
  Windows <- MCWindows
  Melts <- MCMelts
  Comma <- MCComma
  Space <- MCSpace
  Slices <- MCSlices
  Conditions <- MCConditions
INVARIANTS
  SlackBitsClear
  FilteredSoFar
  RowsStayTogether
  AggregatesIgnoreChunks
  ConcatKeepsRows
  RollingIsOfWindow
  ReshapeMovesCells
