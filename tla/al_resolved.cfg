SPECIFICATION Spec
CONSTANTS
  Recorders = {"r", "s"}
  Kinds = {"Panic", "Sync:Failure"}
  Before <- MCBefore
  Projects = {"m"}
  Buffer = 1
  MaxRecords = 3
  MaxDays = 2
INVARIANT ResolvedIsKnown
CHECK_DEADLOCK FALSE
