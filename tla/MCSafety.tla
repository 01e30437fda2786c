------------------------------ MODULE MCSafety ------------------------------
(***************************************************************************)
(* A bench for ten components that share no state in these properties:     *)
(* the behaviours of the module are those of one component at a time, the  *)
(* one that `bench` names, with the others as they are initially.  The     *)
(* supervisor of rclone is a module extended; the others are the instances *)
(* of SafetyParts.                                                         *)
(***************************************************************************)
EXTENDS Supervisor, SafetyParts, TLC

VARIABLE bench

fl_vars == <<fl_table, fl_refs, fl_locked, fl_count, fl_pc, fl_key, fl_entry,
              fl_stored, fl_crashed>>
cb_vars == <<cb_failures, cb_backoff, cb_held, cb_running>>
il_vars == <<il_name, il_open, il_owner, il_pid, il_pc, il_answer>>
so_vars == <<so_file, so_applied, so_version, so_pc, so_tries, so_step,
              so_fresh, so_writer, so_busy>>
ce_vars == <<ce_form, ce_mirrors, ce_lock, ce_pc, ce_path, ce_name, ce_copy,
              ce_told, ce_cut, ce_runs>>
su_vars == <<su_exe, su_bak, su_inExe, su_inBak, su_writer, su_pc,
              su_ran, su_died>>
ie_vars == <<ie_meta, ie_installed, ie_pc, ie_running, ie_reply, ie_cli,
              ie_counted, ie_unkept, ie_misread, ie_starts, ie_installs>>
al_vars == <<al_queue, al_closed, al_readers, al_panicked, al_announced,
              al_at, al_calling, al_closer, al_records, al_incidents,
              al_silent, al_due, al_flying, al_opened, al_day, al_handle,
              al_logs>>
rd_vars == <<rd_local, rd_mounted, rd_remote, rd_quarantine, rd_rows,
              rd_policy, rd_doubled, rd_tasks, rd_proc, rd_wasGone, rd_ops>>

\* Two openers of the state database: a binary that knows one migration, and
\* a newer one that knows two.
Migrations == [p \in {"old", "new", "cli"} |-> IF p = "old" THEN 1 ELSE 2]
LastElement == [p \in {"work", "work/docs", "docs"} |-> IF p = "work" THEN "work" ELSE "docs"]
FirstPart == "Panic" :> "" @@ "Sync:Failure" :> "Sync" @@ "Queue:DepthWarning" :> "Queue"
Directory == [f \in {"a", "b", "c"} |-> IF f = "c" THEN "root" ELSE "dir"]

Nesting == {<<"work/docs", "work">>}

Benches ==
  {"supervisor", "locks", "circuit", "instance", "opening", "editing", "updating",
    "census", "alerting", "deleting"}

AllInit ==
  /\ bench \in Benches
  /\ Init
  /\ bench # "supervisor" => handleOK = (TRUE \in HandleOpens)
  /\ Locks!Init
  /\ bench # "locks" => fl_key = [w \in fl_Workers |-> "a"]
  /\ Circuit!Init
  /\ Instance!Init
  /\ Opening!Init
  /\ bench # "opening" => so_file = "absent"
  /\ Editing!Init
  /\ bench # "editing" => ce_mirrors = {[name |-> "docs", path |-> "docs"]}
  /\ Updating!Init
  /\ bench # "updating" => su_inExe = {}
  /\ Census!Init
  /\ bench # "census" => ie_installed = "v1"
  /\ Alerting!Init
  /\ Deleting!Init
  /\ bench # "deleting" => rd_policy = "ignore" /\ ~rd_doubled

AllNext ==
  \/ bench = "supervisor" /\ Next
     /\ UNCHANGED <<bench, fl_vars, cb_vars, il_vars, so_vars, ce_vars,
                        su_vars, ie_vars, al_vars, rd_vars>>
  \/ bench = "locks" /\ Locks!Next
     /\ UNCHANGED <<bench, vars, cb_vars, il_vars, so_vars, ce_vars,
                        su_vars, ie_vars, al_vars, rd_vars>>
  \/ bench = "circuit" /\ Circuit!Next
     /\ UNCHANGED <<bench, vars, fl_vars, il_vars, so_vars, ce_vars,
                        su_vars, ie_vars, al_vars, rd_vars>>
  \/ bench = "instance" /\ Instance!Next
     /\ UNCHANGED <<bench, vars, fl_vars, cb_vars, so_vars, ce_vars,
                        su_vars, ie_vars, al_vars, rd_vars>>
  \/ bench = "opening" /\ Opening!Next
     /\ UNCHANGED <<bench, vars, fl_vars, cb_vars, il_vars, ce_vars,
                        su_vars, ie_vars, al_vars, rd_vars>>
  \/ bench = "editing" /\ Editing!Next
     /\ UNCHANGED <<bench, vars, fl_vars, cb_vars, il_vars, so_vars,
                        su_vars, ie_vars, al_vars, rd_vars>>
  \/ bench = "updating" /\ Updating!Next
     /\ UNCHANGED <<bench, vars, fl_vars, cb_vars, il_vars, so_vars,
                        ce_vars, ie_vars, al_vars, rd_vars>>
  \/ bench = "census" /\ Census!Next
     /\ UNCHANGED <<bench, vars, fl_vars, cb_vars, il_vars, so_vars,
                        ce_vars, su_vars, al_vars, rd_vars>>
  \/ bench = "alerting" /\ Alerting!Next
     /\ UNCHANGED <<bench, vars, fl_vars, cb_vars, il_vars, so_vars,
                        ce_vars, su_vars, ie_vars, rd_vars>>
  \/ bench = "deleting" /\ Deleting!Next
     /\ UNCHANGED <<bench, vars, fl_vars, cb_vars, il_vars, so_vars,
                        ce_vars, su_vars, ie_vars, al_vars>>

AllVars == <<bench, vars, fl_vars, cb_vars, il_vars, so_vars, ce_vars, su_vars,
              ie_vars, al_vars, rd_vars>>

AllSpec == AllInit /\ [][AllNext]_AllVars
=============================================================================
