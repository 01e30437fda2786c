SPECIFICATION AllSpec
CONSTANTS
  K = 4
  HandleOpens = {TRUE, FALSE}
  MaxProbeErrors = 1
  MaxActivity = 5
\* The locks, with entries over the high-water mark.
CONSTANTS
  fl_Workers = {"v", "w"}
  fl_Keys = {"a", "b", "c"}
  fl_Entries = {"e1", "e2", "e3"}
  fl_None = "none"
  fl_HighWater = 1
  cb_Workers = 4
  cb_MaxFailures = 32
\* The instance lock, on Windows.
CONSTANTS
  il_Processes = {"p", "q"}
  il_Files = {"f", "g"}
  il_KeepsOpen = TRUE
  so_Openers = {"old", "new", "cli"}
  so_Knows <- Migrations
  so_MaxBusy = 1
  ce_Commands = {"c", "d"}
  ce_Paths = {"work", "work/docs", "docs"}
  ce_Base <- LastElement
  ce_Within <- Nesting
  ce_Begins = {"yaml"}
  ce_MaxRuns = 3
  su_Updaters = {"u", "v"}
  su_Service = "service"
  ie_Versions = {"v1", "v2"}
  ie_Signed = {"v1", "v2"}
  ie_Registry = "standard"
  ie_MaxAttempts = 2
  ie_MaxStarts = 4
  ie_MaxInstalls = 2
  al_Recorders = {"r", "s"}
  al_Kinds = {"Panic", "Sync:Failure"}
  al_Before <- FirstPart
  al_Projects = {"m"}
  al_Buffer = 1
  al_MaxRecords = 3
  al_MaxDays = 2
  rd_Files = {"a", "b", "c"}
  rd_Dirs = {"root", "dir"}
  rd_Root = "root"
  rd_DirOf <- Directory
  rd_Excl = {"b"}
  rd_Policies = {"ignore", "delete", "quarantine"}
  rd_Duplicates = {TRUE, FALSE}
  rd_MaxOps = 4
CHECK_DEADLOCK FALSE
INVARIANTS ResultTold CountAccurate Bounded BackoffAsDocumented OneInstance SchemaFits
INVARIANTS LoadableAtRest EndsRunnable CountedOnce NeverSendsOnClosed
PROPERTIES KillNeedsSilence HeldWhenTripped EditsKept PolicyKept GhostWasGone
