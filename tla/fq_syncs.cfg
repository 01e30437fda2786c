SPECIFICATION Spec
CONSTANTS
  m1 = m1
  m2 = m2
  f1 = f1
  f2 = f2
  Workers = {w1, w2, w3}
  Mirrors = {m1, m2}
  Files = {f1}
  NoFile = NoFile
  NoTask = NoTask
  SyncTasks <- TwoMirrors
  DeleteTasks <- NoTasks
  CoolDurations <- OneTick
  HardCap = 3
  OverflowAt = 3
  DrainAt = 1
  Threshold = 2
  BaseBackoff = 1
  MaxBackoff = 2
  MaxLen = 4
  MaxOwed = 2
  MaxFailures = 3
  MayClose = FALSE
  MayCancel = FALSE
INVARIANT OneSyncPerFile
INVARIANT BackoffOnlyWhenTripped
PROPERTY WorkListSpec
SYMMETRY Symmetric
