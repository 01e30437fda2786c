----------------------------- MODULE Supervisor -----------------------------
(***************************************************************************)
(* One rclone subprocess under the stall supervisor (runWithSupervisor and *)
(* classifyExit, internal/sync/liveness.go).                               *)
(*                                                                         *)
(* The supervisor's goroutine selects among three channels: done, on which *)
(* another goroutine sends the result of cmd.Wait, ctx.Done() and the      *)
(* ticker.  On a tick it compares the time of the last output, and the CPU *)
(* time and I/O bytes an OS probe reads, with those of the tick before;    *)
(* after K ticks without a change it kills the process.  Only the changes  *)
(* matter: a signal is whether it moved since it was last read, and CPU    *)
(* time and I/O bytes, which the probe reads together, are one signal.     *)
(***************************************************************************)
EXTENDS Integers

CONSTANTS
  K,               \* Bucket.K: flat ticks before the kill
  HandleOpens,     \* the possible outcomes of openProcessHandle
  MaxProbeErrors,  \* bound on the probes that fail
  MaxActivity      \* bound on the steps in which the process shows life

ASSUME SupervisorAssumption ==
  /\ K \in Nat \ {0}
  /\ HandleOpens \subseteq BOOLEAN
  /\ MaxProbeErrors \in Nat /\ MaxActivity \in Nat

VARIABLES
  process,     \* "running", "killed" (Kill was called) or "exited"
  code,        \* what Wait reports: "ok", "error", "killed"; "none" before
  done,        \* Wait's result is in the channel
  cancelled,   \* the caller's context
  loop,        \* "select", "draining" (<-done after a cancellation), "returned"
  reason,      \* killReasonHolder: "natural", "cancel" or "stalled"
  result,      \* the returned exit code: "0", "rc", "-2", "-3"; "none" before
  handleOK,
  output,      \* lastActivityNs > prev.outputNs
  work,        \* the probe would read more than prev.cpuNs or prev.ioBytes
  probed,      \* prev.probedOK
  stall,       \* stallCounter, saturating at K
  \* What the supervisor cannot see:
  active,      \* the process showed life since the last tick
  idle,        \* whole ticks in a row without life, saturating at K
  errors,      \* probes that failed
  activity     \* steps in which the process showed life

childVars == <<process, code, done>>
sampleVars == <<output, work, probed, stall, active, idle>>
vars == <<childVars, cancelled, loop, reason, result, handleOK, sampleVars,
          errors, activity>>

-----------------------------------------------------------------------------
Init ==
  /\ process = "running" /\ code = "none" /\ done = FALSE
  /\ cancelled = FALSE
  /\ loop = "select" /\ reason = "natural" /\ result = "none"
  /\ handleOK \in HandleOpens
  /\ output = FALSE /\ work = FALSE /\ probed = FALSE /\ stall = 0
  /\ active = FALSE /\ idle = 0
  /\ errors = 0 /\ activity = 0

(* The process. *)

Alive ==
  /\ process = "running" /\ activity < MaxActivity
  /\ activity' = activity + 1
  /\ active' = TRUE
  /\ UNCHANGED <<childVars, cancelled, loop, reason, result, handleOK, probed,
                 stall, idle, errors>>

\* It writes to stdout or stderr: activityWriter notes the time.
Write == Alive /\ output' = TRUE /\ UNCHANGED work

\* It uses the CPU or does I/O in silence.
Compute == Alive /\ work' = TRUE /\ UNCHANGED output

Exit ==
  /\ process = "running"
  /\ process' = "exited"
  /\ code' \in {"ok", "error"}
  /\ UNCHANGED <<done, cancelled, loop, reason, result, handleOK, sampleVars,
                 errors, activity>>

Die ==
  /\ process = "killed"
  /\ process' = "exited"
  /\ code' = "killed"
  /\ UNCHANGED <<done, cancelled, loop, reason, result, handleOK, sampleVars,
                 errors, activity>>

\* done <- cmd.Wait()
Wait ==
  /\ process = "exited" /\ ~done
  /\ done' = TRUE
  /\ UNCHANGED <<process, code, cancelled, loop, reason, result, handleOK,
                 sampleVars, errors, activity>>

Cancel ==
  /\ ~cancelled
  /\ cancelled' = TRUE
  /\ UNCHANGED <<childVars, loop, reason, result, handleOK, sampleVars, errors,
                 activity>>
-----------------------------------------------------------------------------
(* The supervisor. *)

\* Mutant of Kill: only the reason is noted, the process goes on.
KillNothing(why) ==
  /\ reason' = IF reason = "natural" THEN why ELSE reason
  /\ UNCHANGED process

\* Mutant of Kill: the reason is not protected by killOnce.
KillAgain(why) ==
  /\ reason' = why
  /\ process' = IF process = "running" THEN "killed" ELSE process

\* doKill: the first reason stays; killing an exited process does nothing.
Kill(why) ==
  IF reason = "natural"
  THEN /\ reason' = why
       /\ process' = IF process = "running" THEN "killed" ELSE process
  ELSE UNCHANGED <<reason, process>>

\* classifyExit
Classified ==
  CASE reason = "stalled" -> "-2"
    [] reason = "cancel" -> "-3"
    [] reason = "natural" /\ code = "ok" -> "0"
    [] OTHER -> "rc"

\* case <-done, in the select or after a cancellation
Return ==
  /\ loop # "returned" /\ done
  /\ loop' = "returned"
  /\ result' = Classified
  /\ UNCHANGED <<childVars, cancelled, reason, handleOK, sampleVars, errors,
                 activity>>

\* case <-ctx.Done()
OnCancel ==
  /\ loop = "select" /\ cancelled
  /\ Kill("cancel")
  /\ loop' = "draining"
  /\ UNCHANGED <<code, done, cancelled, result, handleOK, sampleVars, errors,
                 activity>>

\* Mutant of Moved: output alone decides.
MovedOutput(ok) == output

\* anyMoved: CPU and I/O count only when this probe and an earlier one succeeded.
Moved(ok) == output \/ (ok /\ probed /\ work)

Flat == IF stall < K THEN stall + 1 ELSE K

\* case <-tick; ok says whether there is a handle and the probe succeeded.
Tick(ok) ==
  /\ loop = "select"
  /\ ok => handleOK
  /\ IF handleOK /\ ~ok
     THEN errors < MaxProbeErrors /\ errors' = errors + 1
     ELSE UNCHANGED errors
  /\ stall' = IF Moved(ok) THEN 0 ELSE Flat
  /\ output' = FALSE
  /\ work' = (work /\ ~ok)
  /\ probed' = (probed \/ ok)
  /\ active' = FALSE
  /\ idle' = IF active THEN 0 ELSE IF idle < K THEN idle + 1 ELSE K
  /\ IF stall' >= K THEN Kill("stalled") ELSE UNCHANGED <<reason, process>>
  /\ UNCHANGED <<code, done, cancelled, loop, result, handleOK, activity>>

OnTick == \E ok \in BOOLEAN : Tick(ok)

Next ==
  Write \/ Compute \/ Exit \/ Die \/ Wait \/ Cancel \/ Return \/ OnCancel \/ OnTick

Spec == Init /\ [][Next]_vars

(***************************************************************************)
(* Fairness.  The ticker ticks, a killed process dies and Wait returns, and *)
(* the select takes every branch that stays ready: done and ctx.Done()     *)
(* stay ready, and select picks among the ready branches at random.  The   *)
(* process owes nothing: it need not exit by itself.                       *)
(***************************************************************************)
FairSpec ==
  Spec /\ WF_vars(Die) /\ WF_vars(Wait) /\ WF_vars(Return) /\ WF_vars(OnCancel)
       /\ WF_vars(OnTick)
-----------------------------------------------------------------------------
TypeOK ==
  /\ process \in {"running", "killed", "exited"}
  /\ code \in {"none", "ok", "error", "killed"}
  /\ done \in BOOLEAN /\ cancelled \in BOOLEAN
  /\ loop \in {"select", "draining", "returned"}
  /\ reason \in {"natural", "cancel", "stalled"}
  /\ result \in {"none", "0", "rc", "-2", "-3"}
  /\ handleOK \in BOOLEAN
  /\ output \in BOOLEAN /\ work \in BOOLEAN /\ probed \in BOOLEAN
  /\ stall \in 0..K /\ active \in BOOLEAN /\ idle \in 0..K
  /\ errors \in Nat /\ activity \in Nat

\* As long as the probe works, a process is killed as stalled only when it
\* showed no life in the last K - 1 whole ticks.  (Not K: the first tick has
\* nothing to compare CPU time and I/O with.)
KillNeedsSilence ==
  [][reason # "stalled" /\ reason' = "stalled" /\ handleOK /\ errors' = 0
       => idle' >= K - 1]_vars

\* "A transient API failure cannot trigger a kill."
ErrorsKillNobody ==
  [][reason # "stalled" /\ reason' = "stalled" /\ handleOK
       => idle' >= K - 1]_vars

\* The codes the sync handlers branch on, whatever races: -3 is returned only
\* for a cancelled context that no stall kill preceded, 0 and rclone's own
\* codes only for a process that ended by itself and was not killed before.
ResultTold ==
  /\ result = "-3" => cancelled /\ stall < K
  /\ result = "0" => code = "ok"
  /\ result = "rc" => code = "error"
  /\ loop = "returned" /\ code = "killed" => result \in {"-2", "-3"}

\* A process that stops showing life and does not exit does not block its
\* worker for ever: here the process shows life MaxActivity times at most.
Ends == <>(loop = "returned")

\* A cancelled context ends the call, however long rclone would go on.
CancelEnds == cancelled ~> loop = "returned"
=============================================================================
