SPECIFICATION Spec
CONSTANTS
  Null = Null
  Suffix = "_right"
  Sources <- MCSources
  Others <- MCOthers
  FilterExprs <- MCFilters
  SelectLists <- MCSelects
  WithLists <- MCWiths
  SortSpecs <- MCSorts
  GroupSpecs <- MCGroups
  JoinKeys = {"b"}
  Limits = {2}
  Subsets <- MCSubsets
  DropLists <- MCDrops
  Renames <- MCRenames
  MaxOps = 3
  MaxRunOps = 2
INVARIANTS
  EveryPassKeepsResult
  EveryFilterOnce
  ContextAgrees
  CancelStopsWork
