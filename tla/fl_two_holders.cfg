SPECIFICATION Spec
CONSTANTS
  Workers = {w1, w2}
  Keys = {k1}
  Entries = {e1, e2, e3}
  None = None
  HighWater = 0
INVARIANT MutualExclusion
SYMMETRY Symmetric
CHECK_DEADLOCK FALSE
