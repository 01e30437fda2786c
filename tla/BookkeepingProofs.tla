------------------------- MODULE BookkeepingProofs --------------------------
(***************************************************************************)
(* Theorems about the components that keep count or account of something:  *)
(* the locks of the files, the install census, the anomaly log, the files  *)
(* on the remote, and a mirror's failures.                                 *)
(***************************************************************************)
EXTENDS SafetyParts, TLAPS

-----------------------------------------------------------------------------
(***************************************************************************)
(* The locks: the theorems of FileLocksProofs, about these constants and   *)
(* variables.                                                              *)
(***************************************************************************)

LP == INSTANCE FileLocksProofs WITH
  Workers <- fl_Workers, Keys <- fl_Keys, Entries <- fl_Entries,
  None <- fl_None, HighWater <- fl_HighWater,
  table <- fl_table, refs <- fl_refs, locked <- fl_locked, count <- fl_count,
  pc <- fl_pc, key <- fl_key, entry <- fl_entry, stored <- fl_stored,
  crashed <- fl_crashed

\* One specification under two names.
LEMMA SameLocks == LP!FileLocksAssumption /\ (Locks!Spec => LP!Spec)
<1> USE DEF Locks!vars, LP!vars, Locks!mapVars, LP!mapVars, Locks!Acquire,
           LP!Acquire, Locks!AddRef, LP!AddRef, Locks!Count, LP!Count,
           Locks!Lock, LP!Lock, Locks!Release, LP!Release, Locks!LoadAgain,
           LP!LoadAgain, Locks!Unlock, LP!Unlock, Locks!DropRef, LP!DropRef,
           Locks!CheckCount, LP!CheckCount, Locks!Recheck, LP!Recheck,
           Locks!Delete, LP!Delete, Locks!Uncount, LP!Uncount,
           Locks!FindOrStore, LP!FindOrStore, Locks!Goto, LP!Goto,
           Locks!RefTaken, LP!RefTaken, Locks!Unlocked, LP!Unlocked,
           Locks!OverHighWater, LP!OverHighWater, Locks!Deletable,
           LP!Deletable, Locks!Unused, LP!Unused
<1>1. LP!FileLocksAssumption
  BY SafetyPartsAssumption DEF LP!FileLocksAssumption, LP!IsFiniteSet, IsFiniteSet
<1>2. Locks!Init => LP!Init
  BY DEF Locks!Init, LP!Init
<1>3. [Locks!Next]_Locks!vars => [LP!Next]_LP!vars
  BY DEF Locks!Next, LP!Next
<1> QED BY <1>1, <1>2, <1>3, PTL DEF Locks!Spec, LP!Spec

\* fileLocksN is the number of entries in the map up to the workers between an
\* access to the map and the one to the count (acquireFileLock, releaseFileLock).
THEOREM LocksCounted == Locks!Spec => []CountAccurate
<1>1. LP!Spec => []LP!CountAccurate
  BY SameLocks, LP!CountsOfEntries
<1>2. LP!CountAccurate => CountAccurate
  BY DEF CountAccurate, Locks!CountAccurate, LP!CountAccurate, Locks!Present,
         LP!Present,
         Locks!Uncounted, LP!Uncounted, Locks!Overcounted, LP!Overcounted,
         Locks!Cardinality, LP!Cardinality
<1> QED BY <1>1, <1>2, SameLocks, PTL

\* releaseFileLock's eviction keeps the map to the high-water mark when no
\* worker has a task, but for one entry for every worker beyond two.
THEOREM LocksBounded == Locks!Spec => []Bounded
<1>1. LP!Spec => []LP!Bounded
  BY SameLocks, LP!MarkKept
<1>2. LP!Bounded => Bounded
  BY DEF Bounded, Locks!Bounded, LP!Bounded, Locks!Present, LP!Present, Locks!Spare,
         LP!Spare, Locks!Cardinality, LP!Cardinality
<1> QED BY <1>1, <1>2, SameLocks, PTL

-----------------------------------------------------------------------------
(***************************************************************************)
(* CountedOnce, for all versions and numbers of restarts, installations    *)
(* and attempts, and whatever reads and writes of the meta table fail.     *)
(***************************************************************************)

\* A report counted by the server, whose answer is here and not yet on record.
Unnoted(k) ==
  LET pending == IF k = "first_seen" THEN "first" ELSE "upgrade" IN
  IF ie_reply = "ok" /\ ie_pc = pending THEN 1 ELSE 0

\* Upgrades still to be reported: from the version on record to the one that
\* runs, and from the one that runs to the one on disk.
Ahead ==
  (IF ie_meta.recorded \notin {Census!Unset, ie_running} THEN 1 ELSE 0)
    + (IF ie_running # ie_installed THEN 1 ELSE 0)

\* CountedOnce is not inductive: it does not say that an upgrade not reported
\* yet has an installation of its own, nor where an answer is before it is
\* noted or lost.
Counts ==
  /\ ie_counted["first_seen"]
       <= (IF ie_meta.first # Census!Unset \/ Unnoted("first_seen") = 1
           THEN 1 ELSE 0) + ie_unkept["first_seen"] + ie_misread
  /\ ie_counted["upgrade"] + Ahead
       <= ie_installs + Unnoted("upgrade") + ie_unkept["upgrade"]
  /\ Unnoted("upgrade") = 1 => ie_meta.recorded \notin {Census!Unset, ie_running}

\* An answer is pending only where one is waited for.
Pending == ie_reply # "none" => ie_pc \in {"first", "upgrade"}

Meta == [tier : Census!Tiers \cup {Census!Unset}, id : BOOLEAN,
         first : Census!Stamps, recorded : ie_Versions \cup {Census!Unset},
         tries : [Census!Kinds -> Nat]]

\* What Note writes is a content of the meta table.
LEMMA NotedType ==
  ASSUME Census!TypeOK, NEW k \in Census!Kinds, NEW kept \in BOOLEAN,
         NEW cleared \in BOOLEAN, NEW tries \in Census!Attempts(k)
  PROVE  Census!Noted(k, kept, cleared, tries) \in Meta
<1>1. ie_meta \in Meta /\ ie_running \in ie_Versions
  BY DEF Census!TypeOK, Meta
<1>2. ie_meta.tries[k] \in Nat /\ tries + 1 \in Nat
  BY <1>1 DEF Meta, Census!Attempts, Census!Got
<1>3. Census!Succeeded(k) \in Meta
  BY <1>1 DEF Census!Succeeded, Meta, Census!Stamps, Census!Unset
<1>4. ASSUME NEW m \in Meta, NEW n \in Nat
      PROVE  [m EXCEPT !.tries[k] = n] \in Meta
  <2>1. [m.tries EXCEPT ![k] = n] \in [Census!Kinds -> Nat]
    BY DEF Meta
  <2>2. [m EXCEPT !.tries[k] = n] = [m EXCEPT !.tries = [m.tries EXCEPT ![k] = n]]
    BY DEF Meta
  <2> QED BY <2>1, <2>2 DEF Meta
<1>5. \A m \in Meta : m.tries[k] \in Nat
  BY DEF Meta
<1> QED BY <1>1, <1>2, <1>3, <1>4, <1>5 DEF Census!Noted

LEMMA CensusTypeStep ==
  ASSUME Census!CensusAssumption, Census!TypeOK, Pending, [Census!Next]_Census!vars
  PROVE  Census!TypeOK' /\ Pending'
<1> USE DEF Census!CensusAssumption, Census!Kinds, Census!Tiers, Census!Unset,
            Census!Stamps
<1>1. ASSUME NEW t \in Census!Tiers, Census!SetTier(t)
      PROVE  Census!TypeOK' /\ Pending'
  BY <1>1
     DEF Census!SetTier, Census!TypeOK, Pending, Census!daemon, Census!server
<1>2. CASE Census!SetId
  BY <1>2 DEF Census!SetId, Census!TypeOK, Pending, Census!daemon, Census!server
<1>3. ASSUME NEW v \in ie_Versions, Census!Install(v)
      PROVE  Census!TypeOK' /\ Pending'
  BY <1>3
     DEF Census!Install, Census!TypeOK, Pending, Census!daemon, Census!server
<1>4. CASE Census!Damage
  BY <1>4 DEF Census!Damage, Census!TypeOK, Pending, Census!daemon, Census!server
<1>5. CASE Census!Start
  <2>1. ie_meta' = [ie_meta EXCEPT !.id = TRUE] \/ ie_meta' = ie_meta
    BY <1>5 DEF Census!Start
  <2>2. ie_meta' \in Meta
    BY <2>1 DEF Census!TypeOK, Meta
  <2>3. /\ ie_pc' \in {"first", "up"} /\ ie_running' = ie_installed
        /\ ie_starts' \in 0..ie_MaxStarts
    BY <1>5 DEF Census!Start, Census!TypeOK
  <2>4. ie_reply = "none"
    BY <1>5 DEF Census!Start, Pending, Census!TypeOK
  <2> QED BY <1>5, <2>2, <2>3, <2>4
             DEF Census!Start, Census!TypeOK, Meta, Pending, Census!server
<1>6. ASSUME NEW k \in Census!Kinds, NEW known \in BOOLEAN,
             Census!Contribute(k, known), ie_pc \in {"first", "upgrade"}
      PROVE  Census!TypeOK' /\ Pending'
  BY <1>6 DEF Census!Contribute, Census!TypeOK, Pending
<1>7. CASE Census!SendFirst \/ Census!SendUpgrade
  BY <1>6, <1>7 DEF Census!SendFirst, Census!SendUpgrade
<1>8. CASE Census!SkipFirst
  BY <1>8 DEF Census!SkipFirst, Census!TypeOK, Pending, Census!server
<1>9. CASE Census!RecordVersion \/ Census!ResetFirst \/ Census!SkipUpgrade
  <2>1. /\ [ie_meta EXCEPT !.recorded = ie_running] \in Meta
        /\ [ie_meta EXCEPT !.first = Census!Unset] \in Meta
        /\ ie_meta \in Meta
    BY DEF Census!TypeOK, Meta
  <2>2. ie_meta' \in Meta
    BY <1>9, <2>1
       DEF Census!RecordVersion, Census!ResetFirst, Census!SkipUpgrade, Census!Done
  <2>3. ie_misread' \in Nat
    BY <1>9
       DEF Census!RecordVersion, Census!ResetFirst, Census!SkipUpgrade,
           Census!TypeOK
  <2> QED BY <1>9, <2>2, <2>3
             DEF Census!RecordVersion, Census!ResetFirst, Census!SkipUpgrade,
                 Census!Done, Census!TypeOK, Meta, Pending
<1>10. ASSUME NEW k \in Census!Kinds, Census!Note(k)
       PROVE  Census!TypeOK' /\ Pending'
  <2>1. ie_meta' \in Meta
    BY <1>10, NotedType DEF Census!Note
  <2> QED BY <1>10, <2>1
             DEF Census!Note, Census!Following, Census!TypeOK, Pending, Meta
<1>11. CASE Census!Stop
  BY <1>11 DEF Census!Stop, Census!TypeOK, Pending
<1>12. CASE UNCHANGED Census!vars
  BY <1>12 DEF Census!vars, Census!TypeOK, Pending
<1> QED
  BY <1>1, <1>2, <1>3, <1>4, <1>5, <1>7, <1>8, <1>9, <1>10, <1>11, <1>12
     DEF Census!Next

\* The census and its memory are well typed.
THEOREM CensusTypes ==
  ASSUME Census!CensusAssumption
  PROVE  Census!Spec => [](Census!TypeOK /\ Pending)
<1>1. Census!Init => Census!TypeOK /\ Pending
  BY DEF Census!Init, Census!TypeOK, Pending, Census!Kinds, Census!Tiers,
         Census!CensusAssumption, Census!Unset, Census!Stamps
<1>2. Census!TypeOK /\ Pending /\ [Census!Next]_Census!vars =>
        Census!TypeOK' /\ Pending'
  BY CensusTypeStep
<1> QED BY <1>1, <1>2, PTL DEF Census!Spec

LEMMA CountsStep ==
  ASSUME Census!CensusAssumption, Census!TypeOK, Census!TypeOK', Pending, Counts,
         [Census!Next]_Census!vars
  PROVE  Counts'
<1> USE DEF Census!CensusAssumption, Census!Kinds, Census!Unset
<1>0. /\ ie_counted["first_seen"] \in Nat /\ ie_counted["upgrade"] \in Nat
      /\ ie_unkept["first_seen"] \in Nat /\ ie_unkept["upgrade"] \in Nat
      /\ ie_installs \in Nat /\ ie_misread \in Nat
  BY DEF Census!TypeOK
<1>1. ASSUME UNCHANGED <<ie_meta.first, ie_meta.recorded, ie_installed,
                        Census!daemon, Census!server, ie_installs>>
      PROVE  Counts'
  BY <1>1 DEF Counts, Unnoted, Ahead, Census!daemon, Census!server
<1>2. ASSUME NEW t \in Census!Tiers, Census!SetTier(t)
      PROVE  Counts'
  BY <1>1, <1>2 DEF Census!SetTier, Census!TypeOK
<1>3. CASE Census!SetId
  BY <1>1, <1>3 DEF Census!SetId, Census!TypeOK
<1>4. ASSUME NEW v \in ie_Versions, Census!Install(v)
      PROVE  Counts'
  BY <1>0, <1>4
     DEF Census!Install, Counts, Unnoted, Ahead, Census!daemon, Census!server
<1>5. CASE Census!Damage
  <2>1. /\ ie_meta.first # Census!Unset /\ ie_meta'.first # Census!Unset
        /\ ie_meta'.recorded = ie_meta.recorded
    BY <1>5 DEF Census!Damage, Census!TypeOK
  <2> QED BY <1>5, <2>1
             DEF Census!Damage, Counts, Unnoted, Ahead, Census!daemon, Census!server
<1>6. CASE Census!Start
  <2>1. /\ ie_meta'.first = ie_meta.first /\ ie_meta'.recorded = ie_meta.recorded
        /\ ie_running' = ie_installed /\ ie_pc = "down"
        /\ UNCHANGED <<ie_installed, ie_reply, Census!server, ie_installs>>
    BY <1>6 DEF Census!Start, Census!TypeOK
  <2>2. ie_reply = "none"
    BY <2>1 DEF Pending, Census!TypeOK
  <2> QED BY <1>0, <2>1, <2>2 DEF Counts, Unnoted, Ahead, Census!server
<1>7. CASE Census!SendFirst
  <2>1. /\ Census!Contribute("first_seen", ie_meta.first # Census!Unset)
        /\ ie_pc = "first" /\ ie_reply = "none"
    BY <1>7 DEF Census!SendFirst
  <2> QED BY <1>0, <2>1
             DEF Census!Contribute, Counts, Unnoted, Ahead, Census!TypeOK
<1>8. CASE Census!SendUpgrade
  <2>1. /\ Census!Contribute("upgrade", FALSE)
        /\ ie_pc = "upgrade" /\ ie_reply = "none"
        /\ ie_meta.recorded \notin {Census!Unset, ie_running}
    BY <1>8 DEF Census!SendUpgrade, Census!Behind
  <2> QED BY <1>0, <2>1
             DEF Census!Contribute, Counts, Unnoted, Ahead, Census!TypeOK
<1>9. CASE Census!SkipFirst
  BY <1>9 DEF Census!SkipFirst, Counts, Unnoted, Ahead, Census!server
<1>10. CASE Census!RecordVersion \/ Census!SkipUpgrade
  <2>1. /\ ie_meta'.first = ie_meta.first
        /\ ie_meta'.recorded \in {ie_meta.recorded, ie_running}
        /\ ie_reply = "none"
        /\ UNCHANGED <<ie_installed, ie_running, ie_reply, ie_installs,
                       Census!server>>
    BY <1>10
       DEF Census!RecordVersion, Census!SkipUpgrade, Census!Done, Census!TypeOK,
           Census!server
  <2> QED BY <1>0, <2>1 DEF Counts, Unnoted, Ahead, Census!server
<1>11. CASE Census!ResetFirst
  <2>1. /\ \/ ie_meta'.first = ie_meta.first
           \/ ie_misread' = ie_misread + 1
        /\ ie_misread' \in {ie_misread, ie_misread + 1}
        /\ ie_meta'.recorded = ie_meta.recorded
        /\ ie_reply = "none"
        /\ UNCHANGED <<ie_installed, ie_running, ie_reply, ie_installs, ie_counted,
                       ie_unkept>>
    BY <1>11 DEF Census!ResetFirst, Census!Done, Census!TypeOK
  <2> QED BY <1>0, <2>1 DEF Counts, Unnoted, Ahead
<1>12. ASSUME NEW k \in Census!Kinds, Census!Note(k)
       PROVE  Counts'
  <2>1. PICK kept \in BOOLEAN, cleared \in BOOLEAN, tries \in Census!Attempts(k) :
          /\ ie_meta' = Census!Noted(k, kept, cleared, tries)
          /\ ie_unkept' = IF ~kept /\ ie_reply = "ok"
                          THEN [ie_unkept EXCEPT ![k] = @ + 1] ELSE ie_unkept
    BY <1>12 DEF Census!Note
  <2>2. /\ ie_meta'.first = IF ie_reply = "ok" /\ kept /\ k = "first_seen"
                            THEN "time" ELSE ie_meta.first
        /\ ie_meta'.recorded = IF ie_reply = "ok" /\ kept /\ k = "upgrade"
                               THEN ie_running ELSE ie_meta.recorded
    BY <2>1 DEF Census!Noted, Census!Succeeded, Census!TypeOK
  <2> QED BY <1>0, <1>12, <2>1, <2>2
             DEF Census!Note, Census!Following, Counts, Unnoted, Ahead,
                 Census!TypeOK
<1>13. CASE Census!Stop
  BY <1>0, <1>13 DEF Census!Stop, Counts, Unnoted, Ahead, Pending, Census!TypeOK
<1>14. CASE UNCHANGED Census!vars
  BY <1>1, <1>14 DEF Census!vars, Census!daemon, Census!server
<1> QED
  BY <1>2, <1>3, <1>4, <1>5, <1>6, <1>7, <1>8, <1>9, <1>10, <1>11, <1>12, <1>13,
     <1>14
     DEF Census!Next

\* Retries, restarts, lost answers and an installation that goes back and forth
\* between versions never inflate the census: only a report whose record could
\* not be kept, or whose record could not be read later, is counted twice.
THEOREM CensusCountsOnce ==
  Census!Spec => []CountedOnce
<1> USE SafetyPartsAssumption
<1>1. Census!Init => Counts
  BY DEF Census!Init, Counts, Unnoted, Ahead, Census!Kinds, Census!Unset
<1>2. /\ Census!TypeOK /\ Pending /\ Census!TypeOK' /\ Counts
      /\ [Census!Next]_Census!vars
      => Counts'
  BY CountsStep
<1>3. Census!TypeOK /\ Counts => Census!CountedOnce
  BY DEF Census!TypeOK, Counts, Census!CountedOnce, Unnoted, Ahead, Census!Kinds
<1> QED BY <1>1, <1>2, <1>3, CensusTypes, PTL DEF Census!Spec, CountedOnce

-----------------------------------------------------------------------------
(***************************************************************************)
(* NeverSendsOnClosed.  Record sends under the read lock, and Close closes *)
(* the channel under the write lock.                                       *)
(***************************************************************************)

\* Record sends under the read lock, and Close closes under the write lock.
SendInv == (al_readers # {} => ~al_closed) /\ ~al_panicked

\* anomaly.go, SM-186: for any number of recorders and any buffer, no goroutine
\* sends on the closed channel, however Record and Close overlap.
THEOREM NoSendOnClosed == Alerting!Spec => []NeverSendsOnClosed
<1>1. Alerting!Init => SendInv
  BY DEF Alerting!Init, SendInv
<1>2. SendInv /\ [Alerting!Next]_Alerting!vars => SendInv'
  <2> SUFFICES ASSUME SendInv, [Alerting!Next]_Alerting!vars PROVE SendInv'
    OBVIOUS
  <2>1. ASSUME NEW r \in al_Recorders, Alerting!Write(r) PROVE SendInv'
    BY <2>1 DEF Alerting!Write, SendInv
  <2>2. ASSUME NEW r \in al_Recorders, Alerting!Check(r) PROVE SendInv'
    BY <2>2 DEF Alerting!Check, SendInv
  <2>3. ASSUME NEW r \in al_Recorders, Alerting!Send(r) PROVE SendInv'
    <3>1. ~al_panicked' /\ al_closed' = al_closed /\ ~al_closed
      BY <2>3 DEF Alerting!Send, SendInv
    <3> QED BY <3>1 DEF SendInv
  <2>4. CASE Alerting!CloseChannel
    BY <2>4 DEF Alerting!CloseChannel, Alerting!NoReader, SendInv
  <2>5. CASE Alerting!CloseWriter \/ Alerting!Receive
    BY <2>5 DEF Alerting!CloseWriter, Alerting!Receive, SendInv
  <2>6. CASE \/ Alerting!Record \/ Alerting!Time \/ Alerting!Resolve
             \/ Alerting!Deliver \/ Alerting!NextDay \/ Alerting!Rotate
    BY <2>6
       DEF Alerting!Record, Alerting!Time, Alerting!Resolve, Alerting!Deliver,
           Alerting!NextDay, Alerting!Rotate, Alerting!chan, SendInv
  <2>7. CASE UNCHANGED Alerting!vars
    BY <2>7 DEF Alerting!vars, Alerting!chan, SendInv
  <2> QED BY <2>1, <2>2, <2>3, <2>4, <2>5, <2>6, <2>7 DEF Alerting!Next
<1>3. SendInv => Alerting!NeverSendsOnClosed
  BY DEF SendInv, Alerting!NeverSendsOnClosed
<1> QED BY <1>1, <1>2, <1>3, PTL DEF Alerting!Spec, NeverSendsOnClosed

-----------------------------------------------------------------------------
(***************************************************************************)
(* PolicyKept and GhostWasGone, for every tree, exclusion and policy.  A   *)
(* purge is only begun by force or under the policy "delete", and the      *)
(* cleanup works on files that it saw on the remote and that were not      *)
(* visible at some time since.                                             *)
(***************************************************************************)

\* A purge is only begun by force or under the policy "delete", and the
\* cleanup works on files that it saw on the remote and that were not visible
\* at some time since.
Procs == [at : {"idle", "purge", "each", "list", "walk", "clean"},
          files : SUBSET rd_Files, dir : rd_Dirs, force : BOOLEAN]
TaskSet == [files : SUBSET rd_Files, dir : rd_Dirs, force : BOOLEAN]

DeleteTypes ==
  /\ rd_local \subseteq rd_Files /\ rd_remote \subseteq rd_Files
  /\ rd_rows \subseteq rd_Files
  /\ rd_proc \in Procs
  /\ rd_tasks \subseteq TaskSet
  /\ rd_policy \in {"ignore", "delete", "quarantine"}

Ghosts ==
  /\ rd_proc.at = "purge" => rd_proc.force \/ rd_policy = "delete"
  /\ rd_proc.at = "walk" => rd_Files \ Deleting!Visible \subseteq rd_wasGone
  /\ rd_proc.at = "clean" => rd_proc.files \subseteq rd_wasGone
  /\ rd_proc.at \in {"walk", "clean"} /\ ~rd_doubled =>
       rd_proc.files \subseteq rd_remote

DeleteInv == DeleteTypes /\ Ghosts

LEMMA InitDelete == ASSUME Deleting!DeleteAssumption, Deleting!Init PROVE DeleteInv
  BY DEF Deleting!DeleteAssumption, Deleting!Init, Deleting!Idle, DeleteInv,
         DeleteTypes, Ghosts, Procs, TaskSet

\* One file less to do.
LEMMA DoneKeeps ==
  ASSUME Deleting!DeleteAssumption, DeleteInv, NEW f \in rd_Files, Deleting!Done(f)
  PROVE  /\ rd_proc' \in Procs
         /\ \/ rd_proc' = Deleting!Idle
            \/ rd_proc'.at = rd_proc.at /\ rd_proc'.files = rd_proc.files \ {f}
<1>1. Deleting!Idle \in Procs
  BY DEF Deleting!DeleteAssumption, Deleting!Idle, Procs
<1>2. CASE rd_proc' = [rd_proc EXCEPT !.files = @ \ {f}]
  BY <1>2 DEF DeleteInv, DeleteTypes, Procs
<1>3. CASE rd_proc' = Deleting!Idle
  BY <1>1, <1>3
<1> QED BY <1>2, <1>3 DEF Deleting!Done

LEMMA StepDelete ==
  ASSUME Deleting!DeleteAssumption, DeleteInv, [Deleting!Next]_Deleting!vars
  PROVE  DeleteInv'
<1> USE DEF Deleting!DeleteAssumption, DeleteInv
<1>0. Deleting!Idle \in Procs /\ Deleting!Idle.at = "idle"
  BY DEF Deleting!Idle, Procs
<1>1. ASSUME NEW f \in rd_Files, Deleting!Create(f) \/ Deleting!Remove(f)
      PROVE  DeleteInv'
  <2>1. [files |-> {f}, dir |-> rd_Root, force |-> FALSE] \in TaskSet
    BY DEF TaskSet
  <2>2. DeleteTypes'
    BY <1>1, <2>1
       DEF Deleting!Create, Deleting!Remove, Deleting!Operate, Deleting!Gone,
           Deleting!settings, DeleteTypes
  <2>3. Ghosts'
    BY <1>1
       DEF Deleting!Create, Deleting!Remove, Deleting!Operate, Deleting!Gone,
           Deleting!settings, Ghosts, Deleting!Visible
  <2> QED BY <2>2, <2>3
<1>2. ASSUME NEW d \in rd_Dirs, Deleting!MoveOut(d)
      PROVE  DeleteInv'
  <2>1. [files |-> {}, dir |-> d, force |-> TRUE] \in TaskSet
    BY DEF TaskSet
  <2>2. DeleteTypes'
    BY <1>2, <2>1
       DEF Deleting!MoveOut, Deleting!Operate, Deleting!Gone, Deleting!settings,
           DeleteTypes
  <2>3. Ghosts'
    BY <1>2
       DEF Deleting!MoveOut, Deleting!Operate, Deleting!Gone, Deleting!Under,
           Deleting!settings, Ghosts, Deleting!Visible
  <2> QED BY <2>2, <2>3
<1>3. CASE Deleting!Unmount \/ Deleting!Mount
  <2>1. DeleteTypes'
    BY <1>3
       DEF Deleting!Unmount, Deleting!Mount, Deleting!Operate, Deleting!settings,
           DeleteTypes
  <2>2. Ghosts'
    BY <1>3
       DEF Deleting!Unmount, Deleting!Mount, Deleting!Operate, Deleting!settings,
           Ghosts, Deleting!Visible, DeleteTypes, Procs
  <2> QED BY <2>1, <2>2
<1>4. ASSUME NEW f \in rd_Files, Deleting!SyncFile(f)
      PROVE  DeleteInv'
  BY <1>4
     DEF Deleting!SyncFile, Deleting!userVars, Deleting!settings, DeleteTypes,
         Ghosts, Deleting!Visible
<1>5. ASSUME NEW t \in rd_tasks, Deleting!BeginDelete(t)
      PROVE  DeleteInv'
  <2> DEFINE files == IF t.files # {} THEN t.files ELSE Deleting!RowsUnder(t.dir)
  <2>1. files \in SUBSET rd_Files /\ t.dir \in rd_Dirs /\ t.force \in BOOLEAN
    BY DEF DeleteTypes, TaskSet, Deleting!RowsUnder
  <2>2. CASE rd_proc' = Deleting!Idle
    BY <1>5, <2>2, <1>0
       DEF Deleting!BeginDelete, Deleting!settings, DeleteTypes, Ghosts
  <2>3. CASE rd_proc' =
         [at |-> IF t.files = {} /\ Deleting!Forced(t.force) = "delete"
                 THEN "purge" ELSE "each",
          files |-> files, dir |-> t.dir, force |-> t.force]
    <3>1. rd_proc' \in Procs
      BY <2>1, <2>3 DEF Procs
    <3>2. rd_proc'.at = "purge" => t.force \/ rd_policy = "delete"
      BY <2>3 DEF Deleting!Forced
    <3> QED BY <1>5, <2>3, <3>1, <3>2
               DEF Deleting!BeginDelete, Deleting!settings, DeleteTypes, Ghosts
  <2> QED BY <1>5, <2>2, <2>3 DEF Deleting!BeginDelete
<1>6. CASE Deleting!Purge \/ Deleting!PurgeFails
  <2>1. [rd_proc EXCEPT !.at = "each"] \in Procs
    BY DEF DeleteTypes, Procs
  <2> QED BY <1>0, <1>6, <2>1
             DEF Deleting!Purge, Deleting!PurgeFails, Deleting!userVars,
                 Deleting!settings, DeleteTypes, Ghosts, Procs
<1>7. ASSUME NEW f \in rd_Files, Deleting!DeleteEach(f) \/ Deleting!SkipEach(f)
      PROVE  DeleteInv'
  <2>1. rd_proc' \in Procs /\ (rd_proc' = Deleting!Idle \/ rd_proc'.at = "each")
    BY <1>7, DoneKeeps DEF Deleting!DeleteEach, Deleting!SkipEach
  <2> QED BY <1>0, <1>7, <2>1
          DEF Deleting!DeleteEach, Deleting!SkipEach, Deleting!TakeOff,
              Deleting!userVars, Deleting!settings, DeleteTypes, Ghosts
<1>8. CASE Deleting!SyncNow
  <2>1. [Deleting!Idle EXCEPT !.at = "list"] \in Procs
    BY <1>0 DEF Procs
  <2>2. rd_proc' \in Procs /\ rd_proc'.at = "list" /\ rd_tasks' = {}
        /\ UNCHANGED <<rd_local, rd_policy>>
    BY <1>0, <1>8, <2>1 DEF Deleting!SyncNow, Deleting!Idle, Deleting!settings
  <2>3. rd_remote' \subseteq rd_Files /\ rd_rows' \subseteq rd_Files
    <3>1. CASE rd_mounted
      BY <1>8, <3>1 DEF Deleting!SyncNow, Deleting!Visible, DeleteTypes
    <3>2. CASE ~rd_mounted
      BY <1>8, <3>2 DEF Deleting!SyncNow, DeleteTypes
    <3> QED BY <3>1, <3>2
  <2> QED BY <2>2, <2>3 DEF DeleteTypes, Ghosts
<1>9. CASE Deleting!List
  <2>0. /\ Deleting!Left(1, rd_Files) = rd_remote
        /\ Deleting!FromListing(1) => rd_wasGone' = rd_Files \ Deleting!Visible
    BY DEF Deleting!Left, Deleting!FromListing, Deleting!Looks, DeleteTypes
  <2>1. [rd_proc EXCEPT !.at = "walk", !.files = rd_remote] \in Procs
    BY DEF DeleteTypes, Procs
  <2>2. /\ rd_proc' \in Procs /\ rd_proc'.at = "walk" /\ rd_proc'.files = rd_remote
        /\ rd_wasGone' = rd_Files \ Deleting!Visible
    BY <1>9, <2>0, <2>1 DEF Deleting!List, DeleteTypes, Procs
  <2>3. Deleting!Visible' = Deleting!Visible
    BY <1>9 DEF Deleting!List, Deleting!Visible
  <2> QED BY <1>9, <2>2, <2>3
             DEF Deleting!List, Deleting!settings, DeleteTypes, Ghosts
<1>10. CASE Deleting!ListFails
  BY <1>0, <1>10
     DEF Deleting!ListFails, Deleting!userVars, Deleting!settings, DeleteTypes,
         Ghosts
<1>11. CASE Deleting!Walk
  <2> DEFINE ghosts == rd_proc.files \ Deleting!Visible
  <2>1. [rd_proc EXCEPT !.at = "clean", !.files = ghosts] \in Procs
    BY DEF DeleteTypes, Procs
  <2>2. Deleting!Left(2, rd_proc.files) = ghosts
        /\ (Deleting!FromListing(2) => UNCHANGED rd_wasGone)
    BY DEF Deleting!Left, Deleting!FromListing, Deleting!Looks
  <2>3. /\ rd_proc' = IF ghosts = {} THEN Deleting!Idle
                      ELSE [rd_proc EXCEPT !.at = "clean", !.files = ghosts]
        /\ UNCHANGED <<rd_local, rd_tasks, rd_remote, rd_rows, rd_wasGone,
                       Deleting!settings>>
    BY <1>11, <2>2 DEF Deleting!Walk
  <2>4. DeleteTypes'
    BY <1>0, <2>1, <2>3 DEF Deleting!settings, DeleteTypes
  <2>5. CASE ghosts = {}
    BY <1>0, <2>3, <2>4, <2>5 DEF Ghosts
  <2>6. CASE ghosts # {}
    <3>1. rd_proc'.at = "clean" /\ rd_proc'.files = ghosts
      BY <2>3, <2>6 DEF DeleteTypes, Procs
    <3>2. ghosts \subseteq rd_wasGone /\ (~rd_doubled => ghosts \subseteq rd_remote)
      BY <1>11 DEF Deleting!Walk, DeleteTypes, Ghosts, Procs
    <3> QED BY <2>3, <2>4, <3>1, <3>2 DEF Ghosts, Deleting!settings
  <2> QED BY <2>5, <2>6
<1>12. ASSUME NEW f \in rd_Files,
              \/ Deleting!CleanGhost(f) \/ Deleting!SkipGhost(f)
              \/ Deleting!CleanParent(f)
       PROVE  DeleteInv'
  <2>1. /\ rd_proc' \in Procs
        /\ \/ rd_proc' = Deleting!Idle
           \/ rd_proc'.at = "clean" /\ rd_proc'.files = rd_proc.files \ {f}
    BY <1>12, DoneKeeps
       DEF Deleting!CleanGhost, Deleting!SkipGhost, Deleting!CleanParent
  <2>2. DeleteTypes'
    <3>1. rd_remote' \subseteq rd_remote /\ rd_rows' \subseteq rd_rows
      BY <1>12
         DEF Deleting!CleanGhost, Deleting!SkipGhost, Deleting!CleanParent,
             Deleting!TakeOff
    <3>2. UNCHANGED <<rd_local, rd_tasks, rd_policy>>
      BY <1>12
         DEF Deleting!CleanGhost, Deleting!SkipGhost, Deleting!CleanParent,
             Deleting!userVars, Deleting!settings
    <3> QED BY <2>1, <3>1, <3>2 DEF DeleteTypes
  <2>3. Deleting!CleanParent(f) => rd_doubled
    BY DEF Deleting!CleanParent, Ghosts
  <2>4. Ghosts'
    BY <1>0, <1>12, <2>1, <2>3
       DEF Deleting!CleanGhost, Deleting!SkipGhost, Deleting!CleanParent,
           Deleting!TakeOff, Deleting!userVars, Deleting!settings, Ghosts
  <2> QED BY <2>2, <2>4
<1>13. CASE UNCHANGED Deleting!vars
  BY <1>13
     DEF Deleting!vars, Deleting!userVars, Deleting!settings, DeleteTypes, Ghosts,
         Deleting!Visible
<1> QED
  BY <1>1, <1>2, <1>3, <1>4, <1>5, <1>6, <1>7, <1>8, <1>9, <1>10, <1>11, <1>12,
     <1>13
     DEF Deleting!Next

\* What a step takes off the remote.
LEMMA WhoDeletes ==
  ASSUME DeleteInv, [Deleting!Next]_Deleting!vars, NEW f \in rd_remote \ rd_remote'
  PROVE  \/ rd_proc.at = "purge" /\ (Deleting!Purge \/ Deleting!PurgeFails)
         \/ Deleting!DeleteEach(f)
         \/ Deleting!SyncNow /\ rd_policy = "delete"
         \/ Deleting!CleanGhost(f)
         \/ \E g \in rd_Files : Deleting!CleanParent(g)
<1>1. CASE Deleting!Purge \/ Deleting!PurgeFails
  BY <1>1 DEF Deleting!Purge, Deleting!PurgeFails
<1>2. CASE Deleting!SyncNow
  BY <1>2 DEF Deleting!SyncNow
<1>3. ASSUME NEW g \in rd_Files, Deleting!DeleteEach(g) \/ Deleting!CleanGhost(g)
      PROVE  f = g
  BY <1>3 DEF Deleting!DeleteEach, Deleting!CleanGhost, Deleting!TakeOff
<1>4. ASSUME NEW g \in rd_Files,
             \/ Deleting!Create(g) \/ Deleting!Remove(g) \/ Deleting!SyncFile(g)
             \/ Deleting!SkipEach(g) \/ Deleting!SkipGhost(g)
      PROVE  FALSE
  BY <1>4
     DEF Deleting!Create, Deleting!Remove, Deleting!Operate, Deleting!SyncFile,
         Deleting!SkipEach, Deleting!SkipGhost
<1>5. ASSUME \/ \E d \in rd_Dirs : Deleting!MoveOut(d)
             \/ Deleting!Unmount \/ Deleting!Mount
             \/ \E t \in rd_tasks : Deleting!BeginDelete(t)
             \/ Deleting!List \/ Deleting!ListFails \/ Deleting!Walk
             \/ UNCHANGED Deleting!vars
      PROVE  FALSE
  BY <1>5
     DEF Deleting!MoveOut, Deleting!Unmount, Deleting!Mount, Deleting!Operate,
         Deleting!BeginDelete, Deleting!List, Deleting!ListFails, Deleting!Walk,
         Deleting!vars
<1> QED BY <1>1, <1>2, <1>3, <1>4, <1>5 DEF Deleting!Next

\* sync.go, deletes, purges and cleanups: the delete policy holds on every path that
\* takes files off the remote, for every interleaving with what the user does.
THEOREM PoliciesKept ==
  Deleting!Spec => PolicyKept
<1> USE SafetyPartsAssumption
<1>1. Deleting!Init => DeleteInv
  BY InitDelete
<1>2. DeleteInv /\ [Deleting!Next]_Deleting!vars => DeleteInv'
  BY StepDelete
<1>3. ASSUME DeleteInv, [Deleting!Next]_Deleting!vars,
             NEW f \in rd_remote \ rd_remote'
      PROVE  \/ f \in rd_Excl \/ Deleting!ByForce \/ rd_doubled
             \/ rd_policy = "delete"
             \/ rd_policy = "quarantine" /\ f \in rd_quarantine'
  <2>1. CASE rd_proc.at = "purge"
    BY <1>3, <2>1 DEF DeleteInv, Ghosts, Deleting!ByForce
  <2>2. CASE Deleting!DeleteEach(f)
    <3>1. CASE rd_proc.force
      BY <2>2, <3>1 DEF Deleting!DeleteEach, Deleting!ByForce
    <3>2. CASE ~rd_proc.force
      BY <1>3, <2>2, <3>2
         DEF Deleting!DeleteEach, Deleting!Forced, Deleting!TakeOff, DeleteInv,
             DeleteTypes
    <3> QED BY <3>1, <3>2
  <2>3. CASE Deleting!CleanGhost(f)
    BY <1>3, <2>3
       DEF Deleting!CleanGhost, Deleting!GhostPolicy, Deleting!Kind,
           Deleting!TakeOff, DeleteInv, DeleteTypes
  <2>4. ASSUME NEW g \in rd_Files, Deleting!CleanParent(g)
        PROVE  rd_doubled
    BY <1>3, <2>4 DEF Deleting!CleanParent, DeleteInv, Ghosts
  <2> QED BY <1>3, <2>1, <2>2, <2>3, <2>4, WhoDeletes
<1>4. DeleteInv /\ [Deleting!Next]_Deleting!vars =>
        [\A f \in rd_remote \ rd_remote' :
           \/ f \in rd_Excl \/ Deleting!ByForce \/ rd_doubled
           \/ rd_policy = "delete"
           \/ rd_policy = "quarantine" /\ f \in rd_quarantine']_Deleting!vars
  BY <1>3
<1> QED BY <1>1, <1>2, <1>4, PTL DEF Deleting!Spec, Deleting!PolicyKept, PolicyKept

\* findGhosts lists the remote before it walks the local tree: the cleanup removes
\* no file that was there all the time since, though the user goes on creating
\* files.
THEOREM GhostsWereGone ==
  Deleting!Spec => GhostWasGone
<1> USE SafetyPartsAssumption
<1>1. Deleting!Init => DeleteInv
  BY InitDelete
<1>2. DeleteInv /\ [Deleting!Next]_Deleting!vars => DeleteInv'
  BY StepDelete
<1>3. ASSUME DeleteInv, [Deleting!Next]_Deleting!vars, rd_proc.at = "clean",
             ~rd_doubled, NEW f \in rd_remote \ rd_remote'
      PROVE  f \in rd_wasGone
  <2>1. ASSUME NEW g \in rd_Files, Deleting!CleanParent(g)
        PROVE  FALSE
    BY <1>3, <2>1 DEF Deleting!CleanParent, DeleteInv, Ghosts
  <2>2. Deleting!CleanGhost(f)
    BY <1>3, <2>1, WhoDeletes DEF Deleting!DeleteEach, Deleting!SyncNow
  <2> QED BY <1>3, <2>2 DEF Deleting!CleanGhost, DeleteInv, Ghosts
<1>4. DeleteInv /\ [Deleting!Next]_Deleting!vars =>
        [rd_proc.at = "clean" /\ ~rd_doubled =>
           \A f \in rd_remote \ rd_remote' : f \in rd_wasGone]_Deleting!vars
  BY <1>3
<1> QED BY <1>1, <1>2, <1>4, PTL
           DEF Deleting!Spec, Deleting!GhostWasGone, GhostWasGone

-----------------------------------------------------------------------------
(***************************************************************************)
(* The circuit breaker: its sums are of closed terms of 64 bits, which the *)
(* provers do not expand by themselves.  The lemmas give the bits of the   *)
(* durations, those of the products and those of the cap.                  *)
(***************************************************************************)

\* Ten seconds and the cap, in nanoseconds.
Ten == {10, 13, 14, 15, 16, 17, 19, 26, 28, 30, 33}
Cap == {11, 12, 13, 15, 18, 21, 22, 24, 27, 28, 30, 31, 32, 34, 38}

\* Ten seconds doubled k times.
Doubled(k) == {b + k : b \in Ten}

\* Bit b of n is set, for a b in the range of Bits.
IsBit(n, b) ==
  \/ b = 0 /\ (n \div 1) % 2 = 1
  \/ b = 1 /\ (n \div 2) % 2 = 1
  \/ b = 2 /\ (n \div 4) % 2 = 1
  \/ b = 3 /\ (n \div 8) % 2 = 1
  \/ b = 4 /\ (n \div 16) % 2 = 1
  \/ b = 5 /\ (n \div 32) % 2 = 1
  \/ b = 6 /\ (n \div 64) % 2 = 1
  \/ b = 7 /\ (n \div 128) % 2 = 1
  \/ b = 8 /\ (n \div 256) % 2 = 1
  \/ b = 9 /\ (n \div 512) % 2 = 1
  \/ b = 10 /\ (n \div 1024) % 2 = 1
  \/ b = 11 /\ (n \div 2048) % 2 = 1
  \/ b = 12 /\ (n \div 4096) % 2 = 1
  \/ b = 13 /\ (n \div 8192) % 2 = 1
  \/ b = 14 /\ (n \div 16384) % 2 = 1
  \/ b = 15 /\ (n \div 32768) % 2 = 1
  \/ b = 16 /\ (n \div 65536) % 2 = 1
  \/ b = 17 /\ (n \div 131072) % 2 = 1
  \/ b = 18 /\ (n \div 262144) % 2 = 1
  \/ b = 19 /\ (n \div 524288) % 2 = 1
  \/ b = 20 /\ (n \div 1048576) % 2 = 1
  \/ b = 21 /\ (n \div 2097152) % 2 = 1
  \/ b = 22 /\ (n \div 4194304) % 2 = 1
  \/ b = 23 /\ (n \div 8388608) % 2 = 1
  \/ b = 24 /\ (n \div 16777216) % 2 = 1
  \/ b = 25 /\ (n \div 33554432) % 2 = 1
  \/ b = 26 /\ (n \div 67108864) % 2 = 1
  \/ b = 27 /\ (n \div 134217728) % 2 = 1
  \/ b = 28 /\ (n \div 268435456) % 2 = 1
  \/ b = 29 /\ (n \div 536870912) % 2 = 1
  \/ b = 30 /\ (n \div 1073741824) % 2 = 1

LEMMA BitsAre ==
  ASSUME NEW n \in Nat
  PROVE  Circuit!Bits(n) = {b \in 0..30 : IsBit(n, b)}
<1> SUFFICES ASSUME NEW b \in 0..30
             PROVE  (n \div 2^b) % 2 = 1 <=> IsBit(n, b)
  BY DEF Circuit!Bits
<1>0. CASE b = 0
  BY <1>0 DEF IsBit
<1>1. CASE b = 1
  BY <1>1 DEF IsBit
<1>2. CASE b = 2
  BY <1>2 DEF IsBit
<1>3. CASE b = 3
  BY <1>3 DEF IsBit
<1>4. CASE b = 4
  BY <1>4 DEF IsBit
<1>5. CASE b = 5
  BY <1>5 DEF IsBit
<1>6. CASE b = 6
  BY <1>6 DEF IsBit
<1>7. CASE b = 7
  BY <1>7 DEF IsBit
<1>8. CASE b = 8
  BY <1>8 DEF IsBit
<1>9. CASE b = 9
  BY <1>9 DEF IsBit
<1>10. CASE b = 10
  BY <1>10 DEF IsBit
<1>11. CASE b = 11
  BY <1>11 DEF IsBit
<1>12. CASE b = 12
  BY <1>12 DEF IsBit
<1>13. CASE b = 13
  BY <1>13 DEF IsBit
<1>14. CASE b = 14
  BY <1>14 DEF IsBit
<1>15. CASE b = 15
  BY <1>15 DEF IsBit
<1>16. CASE b = 16
  BY <1>16 DEF IsBit
<1>17. CASE b = 17
  BY <1>17 DEF IsBit
<1>18. CASE b = 18
  BY <1>18 DEF IsBit
<1>19. CASE b = 19
  BY <1>19 DEF IsBit
<1>20. CASE b = 20
  BY <1>20 DEF IsBit
<1>21. CASE b = 21
  BY <1>21 DEF IsBit
<1>22. CASE b = 22
  BY <1>22 DEF IsBit
<1>23. CASE b = 23
  BY <1>23 DEF IsBit
<1>24. CASE b = 24
  BY <1>24 DEF IsBit
<1>25. CASE b = 25
  BY <1>25 DEF IsBit
<1>26. CASE b = 26
  BY <1>26 DEF IsBit
<1>27. CASE b = 27
  BY <1>27 DEF IsBit
<1>28. CASE b = 28
  BY <1>28 DEF IsBit
<1>29. CASE b = 29
  BY <1>29 DEF IsBit
<1>30. CASE b = 30
  BY <1>30 DEF IsBit
<1> QED BY <1>0, <1>1, <1>2, <1>3, <1>4, <1>5, <1>6, <1>7, <1>8, <1>9, <1>10, <1>11,
           <1>12, <1>13, <1>14, <1>15, <1>16, <1>17, <1>18, <1>19, <1>20, <1>21,
           <1>22, <1>23, <1>24, <1>25, <1>26, <1>27, <1>28, <1>29, <1>30

LEMMA Durations ==
  /\ Circuit!Seconds(10) = Doubled(0) /\ Circuit!Seconds(20) = Doubled(1)
  /\ Circuit!Seconds(40) = Doubled(2)
  /\ Circuit!Seconds(80) = Doubled(3) /\ Circuit!Seconds(160) = Doubled(4)
  /\ Circuit!Seconds(300) = Cap
<1>1. Circuit!Seconds(10) = Doubled(0)
  <2>1. Circuit!Bits(19531250) = {1, 4, 5, 6, 7, 8, 10, 17, 19, 21, 24}
    BY BitsAre DEF IsBit
  <2> QED BY <2>1 DEF Circuit!Seconds, Circuit!Shifted, Circuit!Word, Doubled, Ten
<1>2. Circuit!Seconds(20) = Doubled(1)
  <2>1. Circuit!Bits(39062500) = {2, 5, 6, 7, 8, 9, 11, 18, 20, 22, 25}
    BY BitsAre DEF IsBit
  <2> QED BY <2>1 DEF Circuit!Seconds, Circuit!Shifted, Circuit!Word, Doubled, Ten
<1>3. Circuit!Seconds(40) = Doubled(2)
  <2>1. Circuit!Bits(78125000) = {3, 6, 7, 8, 9, 10, 12, 19, 21, 23, 26}
    BY BitsAre DEF IsBit
  <2> QED BY <2>1 DEF Circuit!Seconds, Circuit!Shifted, Circuit!Word, Doubled, Ten
<1>4. Circuit!Seconds(80) = Doubled(3)
  <2>1. Circuit!Bits(156250000) = {4, 7, 8, 9, 10, 11, 13, 20, 22, 24, 27}
    BY BitsAre DEF IsBit
  <2> QED BY <2>1 DEF Circuit!Seconds, Circuit!Shifted, Circuit!Word, Doubled, Ten
<1>5. Circuit!Seconds(160) = Doubled(4)
  <2>1. Circuit!Bits(312500000) = {5, 8, 9, 10, 11, 12, 14, 21, 23, 25, 28}
    BY BitsAre DEF IsBit
  <2> QED BY <2>1 DEF Circuit!Seconds, Circuit!Shifted, Circuit!Word, Doubled, Ten
<1>6. Circuit!Seconds(300) = Cap
  <2>1. Circuit!Bits(585937500) =
          {2, 3, 4, 6, 9, 12, 13, 15, 18, 19, 21, 22, 23, 25, 29}
    BY BitsAre DEF IsBit
  <2> QED BY <2>1 DEF Circuit!Seconds, Circuit!Shifted, Circuit!Word, Cap
<1> QED BY <1>1, <1>2, <1>3, <1>4, <1>5, <1>6

\* The shift of RecordFailure, while no bit leaves the 64.
LEMMA ProductIs ==
  ASSUME NEW k \in 0..29
  PROVE  Circuit!Product(k) = Doubled(k)
<1>1. Circuit!circuitBreakerBaseBackoff = Ten
  <2>1. Doubled(0) = Ten
    BY DEF Doubled, Ten
  <2> QED BY <2>1, Durations DEF Circuit!circuitBreakerBaseBackoff
<1>2. Doubled(k) \subseteq Circuit!Word
  BY DEF Doubled, Ten, Circuit!Word
<1> QED BY <1>1, <1>2 DEF Circuit!Product, Circuit!Shifted, Doubled

\* Up to 160 seconds the product is not above the cap: the cap's bit 38 is.
LEMMA BelowCap ==
  ASSUME NEW k \in 0..4
  PROVE  ~Circuit!Greater(Doubled(k), Cap)
<1>1. 63 \notin Doubled(k) /\ 63 \notin Cap
  BY DEF Doubled, Ten, Cap
<1>2. \A d \in Doubled(k) : d \in Nat /\ d <= 37
  BY DEF Doubled, Ten
<1>3. 38 \in Cap \ Doubled(k)
  BY <1>2 DEF Cap
<1> QED BY <1>1, <1>2, <1>3 DEF Circuit!Greater, Circuit!Negative

\* From 320 seconds on it is.
LEMMA AboveCap ==
  ASSUME NEW k \in 5..29
  PROVE  Circuit!Greater(Doubled(k), Cap)
<1>1. 63 \notin Doubled(k) /\ 63 \notin Cap
  BY DEF Doubled, Ten, Cap
<1>2. CASE k = 5
  <2>1. Doubled(k) = {15, 18, 19, 20, 21, 22, 24, 31, 33, 35, 38}
    BY <1>2 DEF Doubled, Ten
  <2>2. 35 \in Doubled(k) \ Cap
    BY <2>1 DEF Cap
  <2>3. \A e \in (Doubled(k) \ Cap) \cup (Cap \ Doubled(k)) : e <= 35
    BY <2>1 DEF Cap
  <2> QED BY <1>1, <2>2, <2>3 DEF Circuit!Greater, Circuit!Negative
<1>3. CASE k \in 6..29
  <2>1. 33 + k \in Doubled(k) \ Cap
    BY <1>3 DEF Doubled, Ten, Cap
  <2>2. \A e \in (Doubled(k) \ Cap) \cup (Cap \ Doubled(k)) : e <= 33 + k
    BY <1>3 DEF Doubled, Ten, Cap
  <2> QED BY <1>1, <2>1, <2>2 DEF Circuit!Greater, Circuit!Negative
<1> QED BY <1>2, <1>3

\* What the code adds to the time: ten seconds doubled, and the cap.
LEMMA BackoffIs ==
  ASSUME NEW n \in 3..32
  PROVE  Circuit!BackoffAfter(n) = IF n <= 7 THEN Doubled(n - 3) ELSE Cap
<1>1. Circuit!Product(n - 3) = Doubled(n - 3)
  BY ProductIs
<1>2. Circuit!circuitBreakerMaxBackoff = Cap
  BY Durations DEF Circuit!circuitBreakerMaxBackoff
<1>3. CASE n <= 7
  BY <1>1, <1>2, <1>3, BelowCap
     DEF Circuit!BackoffAfter, Circuit!circuitBreakerThreshold
<1>4. CASE n > 7
  BY <1>1, <1>2, <1>4, AboveCap
     DEF Circuit!BackoffAfter, Circuit!circuitBreakerThreshold
<1> QED BY <1>3, <1>4

\* The equation of the recursive function.
LEMMA DocumentedIs ==
  \A n \in Nat : Circuit!Documented[n] =
    IF n <= 3 THEN 10
    ELSE IF 2 * Circuit!Documented[n - 1] > 300 THEN 300
    ELSE 2 * Circuit!Documented[n - 1]
<1> DEFINE F(g) == [n \in Nat |-> IF n <= Circuit!circuitBreakerThreshold THEN 10
                    ELSE IF 2 * g[n - 1] > 300 THEN 300 ELSE 2 * g[n - 1]]
           table == [n \in Nat |-> IF n <= 3 THEN 10 ELSE IF n = 4 THEN 20
                     ELSE IF n = 5 THEN 40 ELSE IF n = 6 THEN 80
                     ELSE IF n = 7 THEN 160 ELSE 300]
<1>1. table = F(table)
  <2> SUFFICES ASSUME NEW n \in Nat
               PROVE  table[n] = F(table)[n]
    OBVIOUS
  <2>1. n > 3 => n - 1 \in Nat
    OBVIOUS
  <2> QED BY <2>1 DEF Circuit!circuitBreakerThreshold
<1>2. Circuit!Documented = CHOOSE g : g = F(g)
  BY DEF Circuit!Documented
<1> HIDE DEF table
<1>3. Circuit!Documented = F(Circuit!Documented)
  BY <1>1, <1>2
<1> QED BY <1>3 DEF Circuit!circuitBreakerThreshold

LEMMA DocumentedValues ==
  /\ Circuit!Documented[3] = 10 /\ Circuit!Documented[4] = 20
  /\ Circuit!Documented[5] = 40
  /\ Circuit!Documented[6] = 80 /\ Circuit!Documented[7] = 160
  /\ \A n \in 8..32 : Circuit!Documented[n] = 300
<1>1. /\ Circuit!Documented[3] = 10 /\ Circuit!Documented[4] = 20
      /\ Circuit!Documented[5] = 40
  BY DocumentedIs
<1>2. /\ Circuit!Documented[6] = 80 /\ Circuit!Documented[7] = 160
      /\ Circuit!Documented[8] = 300
  BY <1>1, DocumentedIs
<1>3. \A n \in 9..32 :
        Circuit!Documented[n - 1] = 300 => Circuit!Documented[n] = 300
  BY DocumentedIs
<1>4. \A n \in 8..14 : Circuit!Documented[n] = 300
  BY <1>2, <1>3
<1>5. \A n \in 14..20 : Circuit!Documented[n] = 300
  BY <1>4, <1>3
<1>6. \A n \in 20..26 : Circuit!Documented[n] = 300
  BY <1>5, <1>3
<1>7. \A n \in 26..32 : Circuit!Documented[n] = 300
  BY <1>6, <1>3
<1> QED BY <1>1, <1>2, <1>4, <1>5, <1>6, <1>7

\* The code's durations are the documented ones, and all of them are positive.
LEMMA BackoffRight ==
  ASSUME NEW n \in 3..32
  PROVE  /\ Circuit!BackoffAfter(n) = Circuit!Seconds(Circuit!Documented[n])
         /\ Circuit!Greater(Circuit!BackoffAfter(n), {})
<1>1. Circuit!BackoffAfter(n) = Circuit!Seconds(Circuit!Documented[n])
  <2>1. CASE n \in 3..7
    <3>1. n = 3 \/ n = 4 \/ n = 5 \/ n = 6 \/ n = 7
      BY <2>1
    <3> QED BY <3>1, Durations, DocumentedValues, BackoffIs
  <2>2. CASE n \in 8..32
    BY <2>2, Durations, DocumentedValues, BackoffIs
  <2> QED BY <2>1, <2>2
<1>2. Circuit!Greater(Circuit!BackoffAfter(n), {})
  <2>1. CASE n \in 3..7
    <3>1. Circuit!BackoffAfter(n) = Doubled(n - 3)
      BY <2>1, BackoffIs
    <3>2. 63 \notin Doubled(n - 3) /\ 33 + (n - 3) \in Doubled(n - 3)
      BY <2>1 DEF Doubled, Ten
    <3>3. \A e \in Doubled(n - 3) : e <= 33 + (n - 3)
      BY <2>1 DEF Doubled, Ten
    <3> QED BY <3>1, <3>2, <3>3 DEF Circuit!Greater, Circuit!Negative
  <2>2. CASE n \in 8..32
    <3>1. Circuit!BackoffAfter(n) = Cap
      BY <2>2, BackoffIs
    <3>2. 38 \in Cap /\ 63 \notin Cap /\ \A e \in Cap : e <= 38
      BY DEF Cap
    <3> QED BY <3>1, <3>2 DEF Circuit!Greater, Circuit!Negative
  <2> QED BY <2>1, <2>2
<1> QED BY <1>1, <1>2

InRange == cb_failures \in 0..32

CircuitInv == InRange /\ Circuit!BackoffAsDocumented

LEMMA CircuitKept ==
  ASSUME cb_MaxFailures \in Nat, cb_MaxFailures <= 32
  PROVE  Circuit!Spec => []CircuitInv
<1> USE DEF CircuitInv, InRange, Circuit!BackoffAsDocumented,
           Circuit!circuitBreakerThreshold
<1>1. Circuit!Init => CircuitInv
  BY DEF Circuit!Init
<1>2. CircuitInv /\ [Circuit!Next]_Circuit!vars => CircuitInv'
  <2> SUFFICES ASSUME CircuitInv, [Circuit!Next]_Circuit!vars
               PROVE  CircuitInv'
    OBVIOUS
  <2>1. CASE Circuit!Fail
    <3>1. cb_failures' = cb_failures + 1 /\ cb_failures' \in 1..32
      BY <2>1 DEF Circuit!Fail
    <3>2. CASE cb_failures' >= 3
      <4>1. cb_backoff' = Circuit!BackoffAfter(cb_failures')
        BY <2>1, <3>1, <3>2 DEF Circuit!Fail, Circuit!Trips
      <4> QED BY <3>1, <3>2, <4>1, BackoffRight
    <3> QED BY <3>1, <3>2
  <2>2. CASE Circuit!Succeed
    BY <2>2 DEF Circuit!Succeed
  <2>3. CASE Circuit!Start
    BY <2>3 DEF Circuit!Start
  <2>4. CASE Circuit!Skip
    BY <2>4 DEF Circuit!Skip
  <2>5. CASE Circuit!Expire
    BY <2>5 DEF Circuit!Expire
  <2>6. CASE UNCHANGED Circuit!vars
    BY <2>6 DEF Circuit!vars
  <2> QED BY <2>1, <2>2, <2>3, <2>4, <2>5, <2>6 DEF Circuit!Next
<1> QED BY <1>1, <1>2, PTL DEF Circuit!Spec

\* RecordFailure's backoff doubles from 10 s, up to 300 s, in 64-bit nanoseconds,
\* for any number of workers, while no more than 32 failures follow each other:
\* with the 33rd the product is negative (cb_outage.cfg).
THEOREM BackoffDoubles ==
  ASSUME cb_MaxFailures \in Nat, cb_MaxFailures <= 32
  PROVE  Circuit!Spec => []BackoffAsDocumented
<1>1. CircuitInv => BackoffAsDocumented
  BY DEF CircuitInv, BackoffAsDocumented
<1> QED BY <1>1, CircuitKept, PTL

\* Action property: every failure from the third on holds the mirror back
\* (RecordFailure, Dequeue), while no more than 32 follow each other.
THEOREM TrippedHolds ==
  ASSUME cb_MaxFailures \in Nat, cb_MaxFailures <= 32
  PROVE  Circuit!Spec => HeldWhenTripped
<1>1. CircuitInv /\ [Circuit!Next]_Circuit!vars
        => [cb_failures' > cb_failures /\ cb_failures' >= 3
              => cb_held']_Circuit!vars
  <2> SUFFICES ASSUME CircuitInv, Circuit!Next, cb_failures' > cb_failures,
                      cb_failures' >= 3
               PROVE  cb_held'
    BY DEF Circuit!vars
  <2>1. Circuit!Fail
    BY DEF Circuit!Next, Circuit!Start, Circuit!Succeed, Circuit!Skip,
           Circuit!Expire, CircuitInv, InRange
  <2>2. cb_failures' = cb_failures + 1 /\ cb_failures' \in 3..32
    BY <2>1 DEF Circuit!Fail, CircuitInv, InRange
  <2>3. cb_held' = Circuit!Greater(Circuit!BackoffAfter(cb_failures'), {})
    BY <2>1, <2>2 DEF Circuit!Fail, Circuit!Trips, Circuit!circuitBreakerThreshold
  <2> QED BY <2>2, <2>3, BackoffRight
<1> QED BY <1>1, CircuitKept, PTL
           DEF Circuit!Spec, Circuit!HeldWhenTripped, HeldWhenTripped

=============================================================================
