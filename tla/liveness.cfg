SPECIFICATION AllSpec
CONSTANTS
  Workers = {w1, w2, w3}
  Keys = {k1, k2}
  Entries = {e1, e2}
  None = None
  HighWater = 2
  sv_K = 4
  sv_HandleOpens = {TRUE, FALSE}
  sv_MaxProbeErrors = 1
  sv_MaxActivity = 5
  fr_Names = {"a", "b", "d"}
  fr_Files <- Tops
  fr_Control = {}
  fr_Nested = {}
  fr_Globals <- GlobalRules
  fr_Contents = {"none", "short", "long", "bad"}
  fr_RulesOf <- Ignores
  fr_Empty = "none"
  fr_MaxEdits = 2
  fr_MaxReloads = 2
\* The watcher of a tree with a subdirectory, on Linux.
CONSTANTS
  wa_Dirs = {"r", "d"}
  wa_Files = {"f", "g"}
  wa_Root = "r"
  wa_Above <- Tree
  wa_Excluded = {}
  wa_Oversize = {}
  wa_Debounced = {"f"}
  wa_Recursive = FALSE
  wa_DeleteIgnored = FALSE
  wa_Burst = 2
  wa_MaxOps = 4
  dm_Mirrors = {"m", "n"}
  dm_Remotes = {"A", "B"}
  dm_Exact = FALSE
  dm_MaxChanges = 2
  dm_MaxQueue = 1
CHECK_DEADLOCK FALSE
INVARIANTS MutualExclusion RefsAccurate RcloneAgrees ChangeCovered ScanAfterSyncs
PROPERTIES KeyMutexSpec
PROPERTIES CallEnds CancelEnds EveryLockGranted Settles ChangeScanned ChangesQueued FilesArrive
