\* A SELECT that is paged with a limit.
SPECIFICATION Spec
CONSTANTS
  NoLimit = NoLimit
  Positions <- MCPositions
  Matching <- MCMatching
  KeyType = "S"
  MaxScanItems = 2
  Requests <- Capped
  MaxChanges = 1
INVARIANTS
  NothingSkipped
CHECK_DEADLOCK FALSE
