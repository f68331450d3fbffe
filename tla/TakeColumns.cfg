SPECIFICATION Spec
CONSTANTS
  wordSize = 2
  Null = Null
  FilterFrames <- NoFrames
  TakeFrames <- BoolFrames
  ShapeFrames <- NoFrames
  Windows <- MCWindows
  Melts <- MCMelts
  Comma <- MCComma
  Space <- MCSpace
  Slices <- NoSlices
  Conditions <- MCConditions
INVARIANTS
  RowsStayTogether
