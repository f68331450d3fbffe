SPECIFICATION Spec
CONSTANTS
  Types = {"uint64", "int64", "float64", "int16"}
  Patterns <- MCPatterns
  Lengths = {0, 1, 3, 4}
  Base = 4
  Digits = 2
  RadixMin = 4
INVARIANTS
  NoRowLost
  SortedByNumber
  LowDigitsOrdered
  TiesKeptOrAllReversed
