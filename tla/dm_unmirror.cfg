SPECIFICATION Spec
CONSTANTS
  Mirrors = {"m"}
  Remotes = {"A", "B"}
  Exact = FALSE
  MaxChanges = 3
  MaxQueue = 2
INVARIANT UnmirroredKept
CHECK_DEADLOCK FALSE
