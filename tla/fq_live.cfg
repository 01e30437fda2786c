SPECIFICATION ColdSpec
CONSTANTS
  m1 = m1
  m2 = m2
  f1 = f1
  f2 = f2
  Workers = {w1, w2}
  Mirrors = {m1}
  Files = {f1, f2}
  NoFile = NoFile
  NoTask = NoTask
  SyncTasks <- TwoFilesAndFull
  DeleteTasks <- NoTasks
  CoolDurations <- OneTick
  HardCap = 9
  OverflowAt = 9
  DrainAt = 1
  Threshold = 2
  BaseBackoff = 1
  MaxBackoff = 2
  MaxLen = 2
  MaxOwed = 2
  MaxFailures = 3
  MayClose = TRUE
  MayCancel = TRUE
PROPERTY ColdFileAdvances
INVARIANT CloseDrains
PROPERTY CloseReturns
CHECK_DEADLOCK FALSE
