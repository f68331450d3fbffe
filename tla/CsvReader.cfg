SPECIFICATION Spec
CONSTANTS
  Null = Null
  Suffix = "_right"
  nil = nil
  Wide = Wide
  Files <- MCFiles
  Tables <- MCTables
  Options <- MCOptions
  Procs = {1, 2, 3}
INVARIANTS
  ReadsEveryRow
  InferredTypeFits
  ReadsBackWhatWasWritten
