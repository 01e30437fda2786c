SPECIFICATION Spec
CONSTANTS
  Commands = {"c", "d"}
  Paths = {"work", "work/docs", "docs"}
  Base <- MCBase
  Within <- MCWithin
  Begins = {"yaml"}
  MaxRuns = 4
INVARIANT ReportedKept
CHECK_DEADLOCK FALSE
