\* Native reads of a table whose key is a number.
SPECIFICATION Spec
CONSTANTS
  NoLimit = NoLimit
  Positions <- MCPositions
  Matching <- MCMatching
  KeyType = "N"
  MaxScanItems = 2
  Requests <- Native
  MaxChanges = 1
INVARIANTS
  TokensResume
CHECK_DEADLOCK FALSE
