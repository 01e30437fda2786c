SPECIFICATION Spec
CONSTANTS
  Dirs = {"root", "outer", "inner"}
  Files = {"f"}
  Root = "root"
  Above <- Chain
  Excluded = {}
  Oversize = {}
  Debounced = {}
  Recursive = FALSE
  DeleteIgnored = FALSE
  Burst = 9
  MaxOps = 5
INVARIANT NoneForgotten
CHECK_DEADLOCK FALSE
