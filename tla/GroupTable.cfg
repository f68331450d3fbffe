SPECIFICATION FairSpec
CONSTANTS
  Keys <- MCKeys
  Hash <- MCHash
  SameKey <- MCSameKey
  Heights <- MCHeights
  MinSize = 2
  MinEst = 1
  Null = Null
  NullKey = "d"
  Columns <- MCColumns
INVARIANTS
  TypeOK
  LoadBelowHalf
  GroupsAreClasses
  KeepsFirstOccurrences
  AggregatesAreOfMembers
  WindowsAreOverGroups
  SeriesAgreesWithFrame
PROPERTIES
  EveryLookupEnds
  ImplementsGrouping
