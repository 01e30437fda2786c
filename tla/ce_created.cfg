SPECIFICATION Spec
CONSTANTS
  Commands = {"c", "d"}
  Paths = {"work", "work/docs", "docs"}
  Base <- MCBase
  Within <- MCWithin
  Begins = {"absent"}
  MaxRuns = 3
PROPERTY EditsKept
CHECK_DEADLOCK FALSE
