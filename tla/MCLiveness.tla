----------------------------- MODULE MCLiveness -----------------------------
(***************************************************************************)
(* A bench, like MCSafety, for the five components with liveness           *)
(* properties; `bench` names the one that moves.  The map of file locks is *)
(* a module extended, with no more keys than the high-water mark; the      *)
(* others are the instances of LivenessParts.  Fairness is that of each    *)
(* component, see there, asked of the component that moves.                *)
(***************************************************************************)
EXTENDS FileLocks, LivenessParts, TLC

VARIABLE bench

sv_vars == <<sv_process, sv_code, sv_done, sv_cancelled, sv_loop, sv_reason,
              sv_result, sv_handleOK, sv_output, sv_work, sv_probed, sv_stall,
              sv_active, sv_idle, sv_errors, sv_activity>>
fr_vars == <<fr_file, fr_rules, fr_hash, fr_generation, fr_timer, fr_reload,
              fr_fullSync, fr_full, fr_single, fr_running, fr_pending,
              fr_cleanup, fr_remote, fr_missed, fr_scanned, fr_edits>>
wa_vars == <<wa_disk, wa_watched, wa_events, wa_loop, wa_entry, wa_strays,
              wa_called, wa_passed, wa_fullSync, wa_deletes, wa_sleepers,
              wa_ctx, wa_stale, wa_ops>>
dm_vars == <<dm_remote, dm_loaded, dm_noted, dm_copies, dm_fresh, dm_left,
              dm_pc, dm_todo, dm_queue, dm_busy, dm_waits, dm_ended, dm_scan,
              dm_up, dm_changes>>

\* .syncignore by its contents: empty; `!a`; `!a` and `/*`, of which rclone's
\* line does not cover the files below d; a bad pattern.  Globally `d/` and `a`.
R(neg, root, dir, path) ==
  [neg |-> neg, root |-> root, dir |-> dir, bad |-> FALSE, path |-> path]
Tops == {<<"a">>, <<"d", "b">>}
GlobalRules == <<R(FALSE, FALSE, TRUE, <<{"d"}>>), R(FALSE, FALSE, FALSE, <<{"a"}>>)>>
Ignores ==
  "none" :> <<>>
  @@ "short" :> <<R(TRUE, FALSE, FALSE, <<{"a"}>>)>>
  @@ "long" :> <<R(TRUE, FALSE, FALSE, <<{"a"}>>), R(FALSE, TRUE, FALSE, <<fr_Names>>)>>
  @@ "bad" :> <<[R(FALSE, FALSE, FALSE, <<{"a"}>>) EXCEPT !.bad = TRUE]>>
\* The file f is in the directory d.
Tree == "r" :> {} @@ "d" :> {"r"} @@ "f" :> {"r", "d"} @@ "g" :> {"r"}

Benches == {"locks", "supervisor", "filter", "watcher", "daemon"}

AllInit ==
  /\ bench \in Benches
  /\ Init
  /\ bench # "locks" => key = [w \in Workers |-> CHOOSE k \in Keys : TRUE]
  /\ Supervising!Init
  /\ bench # "supervisor" => sv_handleOK
  /\ Filter!Init
  /\ Watching!Init
  /\ Daemons!Init
  /\ bench # "daemon" => dm_remote = [m \in dm_Mirrors |-> "A"]

AllNext ==
  \/ bench = "locks" /\ Next
     /\ UNCHANGED <<bench, sv_vars, fr_vars, wa_vars, dm_vars>>
  \/ bench = "supervisor" /\ Supervising!Next
     /\ UNCHANGED <<bench, vars, fr_vars, wa_vars, dm_vars>>
  \/ bench = "filter" /\ Filter!Next
     /\ UNCHANGED <<bench, vars, sv_vars, wa_vars, dm_vars>>
  \/ bench = "watcher" /\ Watching!Next
     /\ UNCHANGED <<bench, vars, sv_vars, fr_vars, dm_vars>>
  \/ bench = "daemon" /\ Daemons!Next
     /\ UNCHANGED <<bench, vars, sv_vars, fr_vars, wa_vars>>

AllVars == <<bench, vars, sv_vars, fr_vars, wa_vars, dm_vars>>

Fairness ==
  /\ WF_sv_vars(bench = "supervisor" /\ Supervising!Die)
  /\ WF_sv_vars(bench = "supervisor" /\ Supervising!Wait)
  /\ WF_sv_vars(bench = "supervisor" /\ Supervising!Return)
  /\ WF_sv_vars(bench = "supervisor" /\ Supervising!OnCancel)
  /\ WF_sv_vars(bench = "supervisor" /\ Supervising!OnTick)
  /\ \A w \in Workers :
       /\ WF_vars(bench = "locks" /\ AddRef(w))
       /\ WF_vars(bench = "locks" /\ Count(w))
       /\ SF_vars(bench = "locks" /\ Lock(w))
       /\ WF_vars(bench = "locks" /\ Release(w))
  /\ WF_fr_vars(bench = "filter" /\ Filter!Cleaning)
  /\ WF_fr_vars(bench = "filter" /\ Filter!Full)
  /\ WF_fr_vars(bench = "filter" /\ Filter!Reconcile)
  /\ \A s \in Filter!Slots : WF_fr_vars(bench = "filter" /\ Filter!Reloading(s))
  /\ \A f \in fr_Files : WF_fr_vars(bench = "filter" /\ Filter!EndSingle(f))
  /\ WF_wa_vars(bench = "watcher" /\ Watching!Loop)
  /\ WF_wa_vars(bench = "watcher" /\ Watching!CloseWindow)
  /\ WF_wa_vars(bench = "watcher" /\ Watching!Accelerate)
  /\ \A p \in Watching!Paths : WF_wa_vars(bench = "watcher" /\ Watching!Timer(p))
  /\ WF_dm_vars(bench = "daemon" /\ Daemons!Reconcile)
  /\ WF_dm_vars(bench = "daemon" /\ Daemons!Tick)
  /\ WF_dm_vars(bench = "daemon" /\ Daemons!Scan)
  /\ \A m \in dm_Mirrors :
       /\ WF_dm_vars(bench = "daemon" /\ Daemons!Move(m))
       /\ WF_dm_vars(bench = "daemon" /\ Daemons!Note(m))
       /\ WF_dm_vars(bench = "daemon" /\ Daemons!Take(m))
       /\ WF_dm_vars(bench = "daemon" /\ Daemons!Finish(m))

AllSpec == AllInit /\ [][AllNext]_AllVars /\ Fairness

-----------------------------------------------------------------------------
(* A call of the supervisor that has begun ends. *)
CallEnds == bench = "supervisor" => Supervising!Ends
=============================================================================
