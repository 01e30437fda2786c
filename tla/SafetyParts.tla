----------------------------- MODULE SafetyParts -----------------------------
(***************************************************************************)
(* Nine components side by side, each an instance with constants and       *)
(* variables of its own, marked by a prefix, and their properties under    *)
(* one name each.  MCSafety gives the constants values and checks the      *)
(* properties, SharedFileProofs and BookkeepingProofs prove them for every *)
(* value.                                                                  *)
(***************************************************************************)
EXTENDS Naturals, FiniteSets

CONSTANTS
  fl_Workers, fl_Keys, fl_Entries, fl_None, fl_HighWater,
  cb_Workers, cb_MaxFailures,
  il_Processes, il_Files, il_KeepsOpen,
  so_Openers, so_Knows, so_MaxBusy,
  ce_Commands, ce_Paths, ce_Base, ce_Within, ce_Begins, ce_MaxRuns,
  su_Updaters, su_Service,
  ie_Versions, ie_Signed, ie_Registry, ie_MaxAttempts, ie_MaxStarts,
  ie_MaxInstalls,
  al_Recorders, al_Kinds, al_Before, al_Projects, al_Buffer, al_MaxRecords,
  al_MaxDays,
  rd_Files, rd_Dirs, rd_Root, rd_DirOf, rd_Excl, rd_Policies, rd_Duplicates,
  rd_MaxOps

VARIABLES
  fl_table, fl_refs, fl_locked, fl_count, fl_pc, fl_key, fl_entry, fl_stored,
  fl_crashed,
  cb_failures, cb_backoff, cb_held, cb_running,
  il_name, il_open, il_owner, il_pid, il_pc, il_answer,
  so_file, so_applied, so_version, so_pc, so_tries, so_step, so_fresh,
  so_writer, so_busy,
  ce_form, ce_mirrors, ce_lock, ce_pc, ce_path, ce_name, ce_copy, ce_told,
  ce_cut, ce_runs,
  su_exe, su_bak, su_inExe, su_inBak, su_writer, su_pc, su_ran, su_died,
  ie_meta, ie_installed, ie_pc, ie_running, ie_reply, ie_cli, ie_counted,
  ie_unkept, ie_misread, ie_starts, ie_installs,
  al_queue, al_closed, al_readers, al_panicked, al_announced, al_at,
  al_calling, al_closer, al_records, al_incidents, al_silent, al_due,
  al_flying, al_opened, al_day, al_handle, al_logs,
  rd_local, rd_mounted, rd_remote, rd_quarantine, rd_rows, rd_policy,
  rd_doubled, rd_tasks, rd_proc, rd_wasGone, rd_ops

\* The locks of the files.
Locks == INSTANCE FileLocks WITH
  Workers <- fl_Workers, Keys <- fl_Keys, Entries <- fl_Entries,
  None <- fl_None, HighWater <- fl_HighWater,
  table <- fl_table, refs <- fl_refs, locked <- fl_locked, count <- fl_count,
  pc <- fl_pc, key <- fl_key, entry <- fl_entry, stored <- fl_stored,
  crashed <- fl_crashed

\* The back-off of a mirror whose syncs fail.
Circuit == INSTANCE CircuitBackoff WITH
  Workers <- cb_Workers, MaxFailures <- cb_MaxFailures,
  failures <- cb_failures, backoff <- cb_backoff, held <- cb_held,
  running <- cb_running

\* The instance lock.
Instance == INSTANCE InstanceLock WITH
  Processes <- il_Processes, Files <- il_Files, KeepsOpen <- il_KeepsOpen,
  name <- il_name, open <- il_open, owner <- il_owner, pid <- il_pid,
  pc <- il_pc, answer <- il_answer

\* The state database being opened and migrated.
Opening == INSTANCE StateOpen WITH
  Openers <- so_Openers, Knows <- so_Knows, MaxBusy <- so_MaxBusy,
  file <- so_file, applied <- so_applied, version <- so_version, pc <- so_pc,
  tries <- so_tries, step <- so_step, fresh <- so_fresh, writer <- so_writer,
  busy <- so_busy

\* Commands that edit config.yaml.
Editing == INSTANCE ConfigEdit WITH
  Commands <- ce_Commands, Paths <- ce_Paths, Base <- ce_Base,
  Within <- ce_Within, Begins <- ce_Begins, MaxRuns <- ce_MaxRuns,
  form <- ce_form, mirrors <- ce_mirrors, lock <- ce_lock, pc <- ce_pc,
  path <- ce_path, name <- ce_name, copy <- ce_copy, told <- ce_told,
  cut <- ce_cut, runs <- ce_runs

\* Self-update.
Updating == INSTANCE SelfUpdate WITH
  Updaters <- su_Updaters, Service <- su_Service,
  exe <- su_exe, bak <- su_bak, inExe <- su_inExe, inBak <- su_inBak,
  writer <- su_writer, pc <- su_pc, ran <- su_ran, died <- su_died

\* The install census.
Census == INSTANCE InstallEvents WITH
  Versions <- ie_Versions, Signed <- ie_Signed, Registry <- ie_Registry,
  MaxAttempts <- ie_MaxAttempts, MaxStarts <- ie_MaxStarts,
  MaxInstalls <- ie_MaxInstalls,
  meta <- ie_meta, installed <- ie_installed, pc <- ie_pc,
  running <- ie_running, reply <- ie_reply, cli <- ie_cli,
  counted <- ie_counted, unkept <- ie_unkept, misread <- ie_misread,
  starts <- ie_starts, installs <- ie_installs

\* The anomaly log and the webhook.
Alerting == INSTANCE Alerts WITH
  Recorders <- al_Recorders, Kinds <- al_Kinds, Before <- al_Before,
  Projects <- al_Projects, Buffer <- al_Buffer, MaxRecords <- al_MaxRecords,
  MaxDays <- al_MaxDays,
  queue <- al_queue, closed <- al_closed, readers <- al_readers,
  panicked <- al_panicked, announced <- al_announced, at <- al_at,
  calling <- al_calling, closer <- al_closer, records <- al_records,
  incidents <- al_incidents, silent <- al_silent, due <- al_due,
  flying <- al_flying, opened <- al_opened, day <- al_day,
  handle <- al_handle, logs <- al_logs

\* Deletes and ghosts on the remote.
Deleting == INSTANCE RemoteDelete WITH
  Files <- rd_Files, Dirs <- rd_Dirs, Root <- rd_Root, DirOf <- rd_DirOf,
  Excl <- rd_Excl, Policies <- rd_Policies, Duplicates <- rd_Duplicates,
  MaxOps <- rd_MaxOps,
  local <- rd_local, mounted <- rd_mounted, remote <- rd_remote,
  quarantine <- rd_quarantine, rows <- rd_rows, policy <- rd_policy,
  doubled <- rd_doubled, tasks <- rd_tasks, proc <- rd_proc,
  wasGone <- rd_wasGone, ops <- rd_ops

ASSUME SafetyPartsAssumption ==
  /\ IsFiniteSet(fl_Workers) /\ IsFiniteSet(fl_Keys)
  /\ fl_None \notin fl_Entries /\ fl_HighWater \in Nat
  /\ Instance!InstanceAssumption
  /\ Opening!OpenAssumption
  /\ Editing!EditAssumption
  /\ Updating!UpdateAssumption
  /\ Census!CensusAssumption
  /\ Deleting!DeleteAssumption

-----------------------------------------------------------------------------
(* The properties of the components; see there. *)
CountAccurate == Locks!CountAccurate
Bounded == Locks!Bounded
BackoffAsDocumented == Circuit!BackoffAsDocumented
HeldWhenTripped == Circuit!HeldWhenTripped
OneInstance == Instance!OneInstance
SchemaFits == Opening!SchemaFits
EditsKept == Editing!EditsKept
LoadableAtRest == Editing!LoadableAtRest
EndsRunnable == Updating!EndsRunnable
CountedOnce == Census!CountedOnce
NeverSendsOnClosed == Alerting!NeverSendsOnClosed
PolicyKept == Deleting!PolicyKept
GhostWasGone == Deleting!GhostWasGone

(* What docs and comments say and the code does not always do: safety.cfg  *)
(* with one of these in the place of its properties shows it.              *)
IgnorePreserves == Deleting!IgnorePreserves
NeverDowngraded == Opening!NeverDowngraded
=============================================================================
