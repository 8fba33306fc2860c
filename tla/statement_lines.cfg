\* A SELECT with a clause on a line of its own goes to DynamoDB with the clause.
SPECIFICATION Spec
CONSTANTS
  Absent = Absent
  Blank = Blank
  None = None
  Profiles = {"dev"}
  Numbers = {"5", "10"}
  Huge = {}
  Sends = {"s1", "s2"}
  MaxStatements = 2
  MaxAttempts = 2
  MaxChanges = 1
  RegionOf <- MCRegionOf
  Defaults <- MCDefaults
  Schemas <- MCSchemas
  Tables <- MCTables
  Inputs <- Unshadowed
  Cases <- LineCases
CHECK_DEADLOCK FALSE
INVARIANT PlanAsWritten
