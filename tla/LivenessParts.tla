---------------------------- MODULE LivenessParts ----------------------------
(***************************************************************************)
(* Four components with liveness properties side by side, like             *)
(* SafetyParts: each an instance with constants and variables of its own,  *)
(* and their properties under one name each.  MCLiveness gives the         *)
(* constants values and checks the properties, TrackingProofs proves the   *)
(* invariants among them for every value.                                  *)
(***************************************************************************)
CONSTANTS
  sv_K, sv_HandleOpens, sv_MaxProbeErrors, sv_MaxActivity,
  fr_Names, fr_Files, fr_Control, fr_Nested, fr_Globals, fr_Contents, fr_RulesOf,
  fr_Empty, fr_MaxEdits, fr_MaxReloads,
  wa_Dirs, wa_Files, wa_Root, wa_Above, wa_Excluded, wa_Oversize,
  wa_Debounced, wa_Recursive, wa_DeleteIgnored, wa_Burst, wa_MaxOps,
  dm_Mirrors, dm_Remotes, dm_Exact, dm_MaxChanges, dm_MaxQueue

VARIABLES
  sv_process, sv_code, sv_done, sv_cancelled, sv_loop, sv_reason, sv_result,
  sv_handleOK, sv_output, sv_work, sv_probed, sv_stall, sv_active, sv_idle,
  sv_errors, sv_activity,
  fr_file, fr_rules, fr_hash, fr_generation, fr_timer, fr_reload, fr_fullSync,
  fr_full, fr_single, fr_running, fr_pending, fr_cleanup, fr_remote,
  fr_missed, fr_scanned, fr_edits,
  wa_disk, wa_watched, wa_events, wa_loop, wa_entry, wa_strays, wa_called,
  wa_passed, wa_fullSync, wa_deletes, wa_sleepers, wa_ctx, wa_stale, wa_ops,
  dm_remote, dm_loaded, dm_noted, dm_copies, dm_fresh, dm_left, dm_pc,
  dm_todo, dm_queue, dm_busy, dm_waits, dm_ended, dm_scan, dm_up, dm_changes

\* Rclone under its supervisor.
Supervising == INSTANCE Supervisor WITH
  K <- sv_K, HandleOpens <- sv_HandleOpens,
  MaxProbeErrors <- sv_MaxProbeErrors, MaxActivity <- sv_MaxActivity,
  process <- sv_process, code <- sv_code, done <- sv_done,
  cancelled <- sv_cancelled, loop <- sv_loop, reason <- sv_reason,
  result <- sv_result, handleOK <- sv_handleOK, output <- sv_output,
  work <- sv_work, probed <- sv_probed, stall <- sv_stall,
  active <- sv_active, idle <- sv_idle, errors <- sv_errors,
  activity <- sv_activity

\* .syncignore edited and reloaded.
Filter == INSTANCE FilterReload WITH
  Names <- fr_Names, Files <- fr_Files, Control <- fr_Control, Nested <- fr_Nested,
  Globals <- fr_Globals, Contents <- fr_Contents, RulesOf <- fr_RulesOf,
  Empty <- fr_Empty, MaxEdits <- fr_MaxEdits, MaxReloads <- fr_MaxReloads,
  file <- fr_file, rules <- fr_rules, hash <- fr_hash,
  generation <- fr_generation, timer <- fr_timer, reload <- fr_reload,
  fullSync <- fr_fullSync, full <- fr_full, single <- fr_single,
  running <- fr_running, pending <- fr_pending, cleanup <- fr_cleanup,
  remote <- fr_remote, missed <- fr_missed, scanned <- fr_scanned,
  edits <- fr_edits

\* The watcher of a tree.
Watching == INSTANCE Watcher WITH
  Dirs <- wa_Dirs, Files <- wa_Files, Root <- wa_Root, Above <- wa_Above,
  Excluded <- wa_Excluded, Oversize <- wa_Oversize,
  Debounced <- wa_Debounced, Recursive <- wa_Recursive,
  DeleteIgnored <- wa_DeleteIgnored, Burst <- wa_Burst, MaxOps <- wa_MaxOps,
  disk <- wa_disk, watched <- wa_watched, events <- wa_events,
  loop <- wa_loop, entry <- wa_entry, strays <- wa_strays,
  called <- wa_called, passed <- wa_passed, fullSync <- wa_fullSync,
  deletes <- wa_deletes, sleepers <- wa_sleepers, ctx <- wa_ctx,
  stale <- wa_stale, ops <- wa_ops

\* The daemon, its restarts and its reconciliation.
Daemons == INSTANCE Daemon WITH
  Mirrors <- dm_Mirrors, Remotes <- dm_Remotes, Exact <- dm_Exact,
  MaxChanges <- dm_MaxChanges, MaxQueue <- dm_MaxQueue,
  remote <- dm_remote, loaded <- dm_loaded, noted <- dm_noted,
  copies <- dm_copies, fresh <- dm_fresh, left <- dm_left, pc <- dm_pc,
  todo <- dm_todo, queue <- dm_queue, busy <- dm_busy, waits <- dm_waits,
  ended <- dm_ended, scan <- dm_scan, up <- dm_up, changes <- dm_changes

ASSUME LivenessPartsAssumption ==
  /\ Filter!RulesAssumption
  /\ Watching!WatcherAssumption

-----------------------------------------------------------------------------
(* The properties of the components; see there. *)
CancelEnds == Supervising!CancelEnds
RcloneAgrees == Filter!RcloneAgrees
Settles == Filter!Settles
ChangeScanned == Filter!ChangeScanned
ChangeCovered == Watching!ChangeCovered
ChangesQueued == Watching!ChangesQueued
ScanAfterSyncs == Daemons!ScanAfterSyncs
FilesArrive == Daemons!FilesArrive

(* What a comment says and the code does not always do: liveness.cfg with *)
(* this in the place of its properties shows it.                          *)
LeaksGone == Filter!LeaksGone
=============================================================================
