SPECIFICATION Spec
CONSTANTS
  Null = Null
  Suffix = "_right"
  Sources <- ScanSources
  Others <- None
  FilterExprs <- ScanFilters
  SelectLists <- ScanSelects
  WithLists <- None
  SortSpecs <- None
  GroupSpecs <- None
  JoinKeys <- None
  Limits <- None
  Subsets <- None
  DropLists <- None
  Renames <- None
  MaxOps = 2
  MaxRunOps = 2
INVARIANT
  CollectMeansTheCalls
