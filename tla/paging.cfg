\* Reads without a client-side cap, on a table with a string key.
SPECIFICATION FairSpec
CONSTANTS
  NoLimit = NoLimit
  Positions <- MCPositions
  Matching <- MCMatching
  KeyType = "S"
  MaxScanItems = 2
  Requests <- Uncapped
  MaxChanges = 3
INVARIANTS
  TypeOK
  NothingSkipped
  NothingTwice
  TokensResume
PROPERTIES
  EveryReadingEnds
CHECK_DEADLOCK FALSE
