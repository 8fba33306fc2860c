\* A blank endpoint or key keeps the generic form of the connection out.
SPECIFICATION Spec
CONSTANTS
  Absent = Absent
  Blank = Blank
  None = None
  Profiles = {"dev"}
  Numbers = {"5", "10"}
  Huge = {}
  Sends = {"s1", "s2"}
  MaxStatements = 2
  MaxAttempts = 2
  MaxChanges = 1
  RegionOf <- MCRegionOf
  Defaults <- MCDefaults
  Schemas <- MCSchemas
  Tables <- MCTables
  Inputs <- Shadowed
  Cases <- BlankCases
CHECK_DEADLOCK FALSE
INVARIANT BlankIsAbsent
