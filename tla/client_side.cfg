\* Aggregates and ordered SELECTs that need fewer calls than the loops make.
SPECIFICATION Spec
CONSTANTS
  NoLimit = NoLimit
  Positions <- MCPositions
  Matching <- MCMatching
  ValueOf <- MCValueOf
  Selects <- AllSelects
  KeyType = "S"
  MaxScanItems = 2
  MaxOrderByRows = 3
  MaxPages = 5
  MaxChanges = 2
INVARIANTS
  AggregatesTheTable
  TopOfTheTable
  MissingRowsAreAnnounced
CHECK_DEADLOCK FALSE
