SPECIFICATION MCSpec
CONSTANTS
  Users = {a, b}
  HorizontalSize = 2
  AllocStep = 2
  MaxSize = 4
  Subjects = {"ring"}
  PRing = PRing
  Null = Null
  RingItems <- MCRingItems
  RingKey <- MCRingKey
  RingFull = 5
  RingSetups <- MCRingSetups
  HashItems <- MCHashItems
  HashKey <- MCHashKey
  HashOf <- MCHashOf
  HashFirstMax = 1
  HashSetups <- MCHashSetups
  Setups <- MCRangesSetups
  MaxRanges = 3
  CR = 13
  LF = 10
  DataSetups <- MCDataSetups
  AsDocumented = TRUE
INVARIANT NoFreedUse
CHECK_DEADLOCK FALSE
