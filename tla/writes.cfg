\* Writes to a table that may be dropped and come back with other keys.
SPECIFICATION Spec
CONSTANTS
  Requests = {r1, r2, r3}
  Calls <- AllCalls
  Contents <- MCContents
  Schemas <- TwoSchemas
  MaxAttempts = 2
  MaxDrops = 1
SYMMETRY Requesters
INVARIANTS
  InsertedOnce
  OutcomesAreTrue
PROPERTIES
  NeverOverwrites
  KeyErrorsAreClear
CHECK_DEADLOCK FALSE
