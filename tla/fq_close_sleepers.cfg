SPECIFICATION Spec
CONSTANTS
  m1 = m1
  m2 = m2
  f1 = f1
  f2 = f2
  Workers = {w1, w2}
  Mirrors = {m1}
  Files = {f1, f2}
  NoFile = NoFile
  NoTask = NoTask
  SyncTasks <- TwoFiles
  DeleteTasks <- NoTasks
  CoolDurations <- OneTick
  HardCap = 9
  OverflowAt = 9
  DrainAt = 1
  Threshold = 2
  BaseBackoff = 1
  MaxBackoff = 2
  MaxLen = 3
  MaxOwed = 2
  MaxFailures = 3
  MayClose = TRUE
  MayCancel = FALSE
PROPERTY CloseWakesSleepers
CHECK_DEADLOCK FALSE
