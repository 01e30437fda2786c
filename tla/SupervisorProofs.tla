-------------------------- MODULE SupervisorProofs --------------------------
(***************************************************************************)
(* Proofs about Supervisor: while the process handle and the OS probe work *)
(* a stall kill hits only a process that was silent, and the exit codes    *)
(* tell what happened, whatever fails and races.                           *)
(***************************************************************************)
EXTENDS Supervisor, TLAPS

\* The flat ticks the supervisor counted against the ticks without life: they
\* differ by the first tick at most, which has nothing to compare with.
CountInv ==
  handleOK /\ errors = 0 =>
    /\ active => output \/ work
    /\ ~probed => stall = 0 /\ idle = 0
    /\ stall <= idle + 1

\* What the reason of a kill says of the rest of the state.
ReasonInv ==
  /\ reason = "natural" => stall < K /\ process # "killed" /\ code # "killed"
  /\ reason = "cancel" => cancelled /\ stall < K /\ loop # "select"
  /\ reason = "stalled" => process # "running"

\* A result is there when Wait's result was taken.
ResultInv ==
  /\ code # "none" <=> process = "exited"
  /\ done => process = "exited"
  /\ loop = "returned" => done
  /\ result # "none" => loop = "returned"
  /\ ResultTold

Inv == TypeOK /\ CountInv /\ ReasonInv /\ ResultInv

\* The counts after a tick that leaves stall at 0 or 1.
LEMMA OneApart ==
  ASSUME NEW s \in Nat, NEW i \in Nat, NEW k \in Nat, k >= 1, s <= 1
  PROVE  s <= i + 1 /\ (s >= k => i >= k - 1)
OBVIOUS

\* The initial states satisfy the invariant.
LEMMA InitInv == ASSUME Init PROVE Inv
<1>1. TypeOK
  <2>1. K \in Nat /\ 0 \in 0..K
    BY SupervisorAssumption
  <2>2. handleOK \in BOOLEAN
    BY SupervisorAssumption DEF Init
  <2> QED
    BY <2>1, <2>2 DEF Init, TypeOK
<1>2. CountInv
  BY DEF Init, CountInv
<1>3. ReasonInv /\ ResultInv
  BY SupervisorAssumption DEF Init, ReasonInv, ResultInv, ResultTold
<1> QED
  BY <1>1, <1>2, <1>3 DEF Inv

\* What a step that kills a process as stalled shows, while the probe works.
SilentKill ==
  reason # "stalled" /\ reason' = "stalled" /\ handleOK /\ errors' = 0
    => idle' >= K - 1

\* Every step keeps the invariant, and kills a stalled process in silence.
LEMMA StepInv == ASSUME Inv, [Next]_vars PROVE Inv' /\ SilentKill
<1> USE SupervisorAssumption
        DEF Inv, TypeOK, CountInv, ReasonInv, ResultInv, ResultTold, SilentKill
<1>1. CASE Write
  BY <1>1 DEF Write, Alive, childVars
<1>2. CASE Compute
  BY <1>2 DEF Compute, Alive, childVars
<1>3. CASE Exit
  BY <1>3 DEF Exit, sampleVars
<1>4. CASE Die
  BY <1>4 DEF Die, sampleVars
<1>5. CASE Wait
  BY <1>5 DEF Wait, sampleVars
<1>6. CASE Cancel
  BY <1>6 DEF Cancel, childVars, sampleVars
<1>7. CASE Return
  BY <1>7 DEF Return, Classified, childVars, sampleVars
<1>8. CASE OnCancel
  BY <1>8 DEF OnCancel, Kill, sampleVars
<1>9. CASE OnTick
  <2>1. PICK ok \in BOOLEAN : Tick(ok)
    BY <1>9 DEF OnTick
  <2>2. /\ loop = "select"
        /\ UNCHANGED <<code, done, cancelled, loop, result, handleOK, activity>>
        /\ output' = FALSE /\ work' = (work /\ ~ok) /\ probed' = (probed \/ ok)
        /\ active' = FALSE
        /\ errors' \in {errors, errors + 1}
        /\ handleOK /\ errors' = errors => ok
    BY <2>1 DEF Tick
  <2>3. idle' = IF active THEN 0 ELSE IF idle < K THEN idle + 1 ELSE K
    BY <2>1 DEF Tick
  <2>4. stall' = IF output \/ (ok /\ probed /\ work) THEN 0
                 ELSE IF stall < K THEN stall + 1 ELSE K
    BY <2>1 DEF Tick, Moved, Flat
  <2>5. IF stall' >= K THEN Kill("stalled") ELSE UNCHANGED <<reason, process>>
    BY <2>1 DEF Tick
  <2>6. stall' \in 0..K /\ idle' \in 0..K
    BY <2>3, <2>4
  <2>7. reason' \in {reason, "stalled"} /\ process' \in {process, "killed"}
    BY <2>5 DEF Kill
  <2>8. TypeOK'
    <3>1. work' \in BOOLEAN /\ probed' \in BOOLEAN /\ errors' \in Nat
      <4>1. CASE ok
        BY <4>1, <2>2
      <4>2. CASE ~ok
        BY <4>2, <2>2
      <4> QED
        BY <4>1, <4>2
    <3>2. /\ output' \in BOOLEAN /\ active' \in BOOLEAN
          /\ handleOK' \in BOOLEAN /\ done' \in BOOLEAN /\ cancelled' \in BOOLEAN
      BY <2>2
    <3>3. /\ code' \in {"none", "ok", "error", "killed"}
          /\ loop' \in {"select", "draining", "returned"}
          /\ result' \in {"none", "0", "rc", "-2", "-3"}
          /\ activity' \in Nat
      BY <2>2
    <3>4. /\ reason' \in {"natural", "cancel", "stalled"}
          /\ process' \in {"running", "killed", "exited"}
      BY <2>7
    <3> QED
      BY <3>1, <3>2, <3>3, <3>4, <2>6 DEF TypeOK
  <2>9. ASSUME handleOK, errors' = 0
        PROVE  stall' <= idle' + 1 /\ (stall' >= K => idle' >= K - 1)
    <3>1. K \in Nat /\ K >= 1 /\ stall' \in Nat /\ idle' \in Nat
      BY <2>6
    <3>2. errors = 0 /\ ok
      BY <2>2, <2>9
    <3>3. stall \in 0..K /\ idle \in 0..K /\ stall <= idle + 1
      BY <3>2, <2>9
    <3>4. (~probed => stall = 0) /\ (active => output \/ work)
      BY <3>2, <2>9
    <3> HIDE SupervisorAssumption
             DEF Inv, TypeOK, CountInv, ReasonInv, ResultInv, ResultTold
    <3>5. CASE output \/ (probed /\ work)
      <4>1. stall' <= 1
        BY <3>2, <3>5, <2>4
      <4> QED
        BY <4>1, <3>1, OneApart
    <3>6. CASE ~output /\ ~probed
      <4>1. stall' <= 1
        BY <3>1, <3>4, <3>6, <2>4
      <4> QED
        BY <4>1, <3>1, OneApart
    <3>7. CASE ~output /\ probed /\ ~work
      <4>1. idle' = (IF idle < K THEN idle + 1 ELSE K)
        BY <3>4, <3>7, <2>3
      <4>2. stall' = (IF stall < K THEN stall + 1 ELSE K)
        BY <3>7, <2>4
      <4> QED
        BY <4>1, <4>2, <3>1, <3>3
    <3> QED
      BY <3>5, <3>6, <3>7
  <2>10. CountInv'
    <3>1. ASSUME handleOK', errors' = 0
          PROVE  ~active' /\ probed' /\ stall' <= idle' + 1
      BY <3>1, <2>2, <2>9
    <3> QED
      BY <3>1
  <2>11. ReasonInv' /\ ResultInv'
    <3>1. CASE stall' >= K /\ reason = "natural"
      BY <3>1, <2>2, <2>5, <2>6 DEF Kill
    <3>2. CASE stall' >= K /\ reason # "natural"
      BY <3>2, <2>2, <2>4, <2>5, <2>6 DEF Kill
    <3>3. CASE ~(stall' >= K)
      BY <3>3, <2>2, <2>4, <2>5, <2>6
    <3> QED
      BY <3>1, <3>2, <3>3
  <2>12. SilentKill
    BY <2>5, <2>9
  <2> QED
    BY <2>8, <2>10, <2>11, <2>12
<1>10. CASE UNCHANGED vars
  BY <1>10 DEF vars, childVars, sampleVars
<1> QED
  BY <1>1, <1>2, <1>3, <1>4, <1>5, <1>6, <1>7, <1>8, <1>9, <1>10 DEF Next

\* The invariant always holds.
LEMMA AlwaysInv == Spec => []Inv
<1>1. Init => Inv
  BY InitInv
<1>2. Inv /\ [Next]_vars => Inv'
  BY StepInv
<1> QED
  BY <1>1, <1>2, PTL DEF Spec

\* While the probe works a process is killed as stalled only when it showed no
\* life in the last K - 1 whole ticks (the tick branch of runWithSupervisor).
THEOREM KillsInSilence == Spec => KillNeedsSilence
<1>1. Inv /\ [Next]_vars => [SilentKill]_vars
  BY StepInv
<1> QED
  BY <1>1, AlwaysInv, PTL DEF Spec, KillNeedsSilence, SilentKill

\* The exit code tells a natural end, a stall kill and a cancellation apart
\* (classifyExit and killReasonHolder).
THEOREM ResultsCorrect == Spec => []ResultTold
<1>1. Inv => ResultTold
  BY DEF Inv, ResultInv
<1> QED
  BY <1>1, AlwaysInv, PTL
=============================================================================
