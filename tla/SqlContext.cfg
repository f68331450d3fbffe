SPECIFICATION Spec
CONSTANTS
  Null = Null
  nil = nil
  Suffix <- MCSuffix
  Inputs <- MCInputs
  Queries <- MCQueries
INVARIANTS
  ParserReadsStatement
  QueryMeansResult
