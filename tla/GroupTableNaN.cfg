SPECIFICATION FairSpec
CONSTANTS
  Keys <- NaNKeys
  Hash <- NaNHash
  SameKey <- NaNSameKey
  Heights <- NaNHeights
  MinSize = 2
  MinEst = 1
  Null = Null
  NullKey = "null"
  Columns <- MCColumns
PROPERTIES
  EveryLookupEnds
