SPECIFICATION FairSpec
CONSTANTS
  Names <- MCNames
  PageLimit = 2
  Concurrency = 2
  MaxChanges = 2
INVARIANTS
  TypeOK
  SteadyTablesListed
  OneRowPerTable
PROPERTIES
  EveryListingEnds
CHECK_DEADLOCK FALSE
