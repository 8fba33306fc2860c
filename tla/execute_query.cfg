\* Every branch of execute_query and the handlers of one call. A handler ends, so the system may stop.
SPECIFICATION Spec
CONSTANTS
  Absent = Absent
  Blank = Blank
  None = None
  Profiles = {"dev"}
  Numbers = {"5", "10"}
  Huge = {}
  Sends = {"s1", "s2"}
  MaxStatements = 2
  MaxAttempts = 2
  MaxChanges = 1
  RegionOf <- MCRegionOf
  Defaults <- MCDefaults
  Schemas <- MCSchemas
  Tables <- MCTables
  Inputs <- Unshadowed
  Cases <- MCCases
CHECK_DEADLOCK FALSE
INVARIANT TypeOK
INVARIANT ClientAsDocumented
INVARIANT PlanAsWritten
INVARIANT ConsentBeforeWipe
INVARIANT AppliedOnce
INVARIANT ReportsAreTrue
INVARIANT GeneratedTablesAreRead
INVARIANT DescriptionsAreRight
