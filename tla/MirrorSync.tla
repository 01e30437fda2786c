----------------------------- MODULE MirrorSync -----------------------------
(***************************************************************************)
(* One file of one mirror: the user's copy, the remote's copy and the row  *)
(* of the state database, and the handlers that bring them together        *)
(* (internal/sync/sync.go): syncSingleFile and deleteRemoteFile, which     *)
(* exclude each other by the file's lock, and syncFullProject with its     *)
(* backfill, which has another lock and runs beside them.                  *)
(*                                                                         *)
(* A handler stops between any two calls that look at or change something  *)
(* the others share: the user goes on writing, the other handler goes on.  *)
(* Tasks are here as the queue promises them (WorkList): syncs of the file *)
(* merge into one, deletes wait in a list; which of the waiting tasks gets *)
(* the file's lock first is open, because a worker holds its task already  *)
(* while it waits for the lock.                                            *)
(*                                                                         *)
(* A content stands for its hash.  The time of the last change is the      *)
(* number of the edit that made it, 0 a time the database does not know.   *)
(***************************************************************************)
EXTENDS Integers, Sequences, SequencesExt

CONSTANTS
  Contents,      \* the contents the file can have
  Nothing,       \* no file, no remote file, no row
  Policy,        \* the mirror's delete_policy: "ignore", "delete" or "quarantine"
  GlobalPolicy,  \* the configuration's, which the watcher asks instead
  MaxEdits,      \* bound on the user's edits
  MaxFaults,     \* bound on the rclone calls and database accesses that fail
  MaxStops       \* bound on the times the program stops or crashes

FileType == [data : Contents, mtime : 0..MaxEdits]

Row == [hash : Contents, mtime : 0..MaxEdits, failed : BOOLEAN,
        remoteHash : Contents \cup {Nothing}, verified : BOOLEAN]

ASSUME MirrorSyncAssumption ==
  /\ Nothing \notin Contents \cup FileType \cup Row
  /\ {Policy, GlobalPolicy} \subseteq {"ignore", "delete", "quarantine"}
  /\ MaxEdits \in Nat /\ MaxFaults \in Nat /\ MaxStops \in Nat

VARIABLES
  file,      \* the user's file: [data, mtime] or Nothing
  remote,    \* the content on the remote, or Nothing
  row,       \* the file's row of sync_state, or Nothing
  syncDue,   \* a sync of the file is queued
  deletes,   \* the queued deletes: ForceDelete of each
  fullDue,   \* a full sync of the mirror is queued
  single,    \* the handler that has the file's lock
  full,      \* the handler that has the mirror's lock
  watching,  \* the watcher has started
  edits, faults, stops,
  calm       \* nothing has happened yet that no handler can know of, see below

tasks == <<syncDue, deletes, fullDue>>
counts == <<edits, faults, stops>>
vars == <<file, remote, row, tasks, single, full, watching, counts, calm>>

\* Where the handlers are, and their local variables:
\*   mtime of info, hash, what rclone has read (seen), whether the copy was
\*   tried before, whether rclone's exit code is not 0.
NoSingle == [at |-> "idle", mtime |-> 0, hash |-> Nothing, seen |-> Nothing,
             retried |-> FALSE, failed |-> FALSE]
NoFull == [at |-> "idle", mtime |-> 0, hash |-> Nothing, seen |-> Nothing]

-----------------------------------------------------------------------------
(* The row. *)

\* UpdateFileState: INSERT ... ON CONFLICT DO UPDATE, which leaves what is
\* known of the remote as it is.
Upserted(hash, mtime, failed) ==
  IF row = Nothing
  THEN [hash |-> hash, mtime |-> mtime, failed |-> failed,
        remoteHash |-> Nothing, verified |-> FALSE]
  ELSE [row EXCEPT !.hash = hash, !.mtime = mtime, !.failed = failed]

\* n calls fail.
Fail(n) == faults + n <= MaxFaults /\ faults' = faults + n

\* A write of the row.  Its callers ignore the error: when it fails, the row
\* stays as it is and the handler goes on.
Save(r) ==
  \/ row' = r /\ UNCHANGED faults
  \/ UNCHANGED row /\ Fail(1)

\* The program starts: it asks for a full sync, the watcher comes later.  The
\* file is new, or an older version has synced it and kept no mtime.
Init ==
  /\ \/ file = Nothing /\ remote = Nothing /\ row = Nothing
     \/ \E d \in Contents :
          /\ file = [data |-> d, mtime |-> 0]
          /\ remote = d
          /\ row = [hash |-> d, mtime |-> 0, failed |-> FALSE,
                    remoteHash |-> Nothing, verified |-> FALSE]
  /\ syncDue = FALSE /\ deletes = <<>> /\ fullDue = TRUE
  /\ single = NoSingle /\ full = NoFull
  /\ watching = FALSE
  /\ edits = 0 /\ faults = 0 /\ stops = 0
  /\ calm = TRUE

\* The file handler relies on what it has read of the file.
Relying == single.at \in {"decide", "copy", "upload", "record", "verify", "touch"}

-----------------------------------------------------------------------------
(* The user and the watcher. *)

Write(d, heard) ==
  /\ file' = [data |-> d, mtime |-> edits + 1]
  /\ syncDue' = (syncDue \/ heard)
  /\ UNCHANGED deletes

\* Remove, or rename away (force): the delete goes to the front of the queue.
RemoveFile(force, heard) ==
  /\ file # Nothing
  /\ file' = Nothing
  /\ deletes' = IF heard /\ (force \/ GlobalPolicy # "ignore")
                THEN <<force>> \o deletes ELSE deletes
  /\ UNCHANGED syncDue

\* The watcher hears of an edit, unless it has not started or the file system
\* does not tell it.
Edit ==
  /\ edits < MaxEdits
  /\ \E heard \in {watching, FALSE} :
       \/ \E d \in Contents : Write(d, heard)
       \/ \E force \in BOOLEAN : RemoveFile(force, heard)
  /\ edits' = edits + 1
  /\ calm' = (calm /\ ~Relying /\ full.at = "idle")
  /\ UNCHANGED <<remote, row, fullDue, single, full, watching, faults, stops>>

\* The watcher starts, then the workers and the heartbeat.
StartWatcher ==
  /\ ~watching
  /\ watching' = TRUE
  /\ UNCHANGED <<file, remote, row, tasks, single, full, counts, calm>>

\* The periodic reconciliation of heartbeatLoop.
Reconcile ==
  /\ watching /\ ~fullDue
  /\ fullDue' = TRUE
  /\ UNCHANGED <<file, remote, row, syncDue, deletes, single, full, watching,
                 counts, calm>>
-----------------------------------------------------------------------------
(* syncSingleFile. *)

\* The parts of the state a step of the file handler changes at most.
SingleFrame == UNCHANGED <<file, full, watching, fullDue, edits, stops>>

\* quiesceFile looks at the file ...
BeginSync ==
  /\ single.at = "idle" /\ syncDue
  /\ syncDue' = FALSE
  /\ single' = IF file = Nothing THEN NoSingle
               ELSE [NoSingle EXCEPT !.at = "quiesce", !.mtime = file.mtime]
  /\ calm' = (calm /\ full.at = "idle")
  /\ SingleFrame /\ UNCHANGED <<remote, row, deletes, faults>>

\* ... and looks again 200 ms later.  A file that is gone, still changing or
\* locked is left alone.
Quiesce ==
  /\ single.at = "quiesce"
  /\ \/ /\ file # Nothing /\ file.mtime = single.mtime
        /\ single' = [single EXCEPT !.at = "hash"]
     \/ single' = NoSingle
  /\ SingleFrame /\ UNCHANGED <<remote, row, syncDue, deletes, faults, calm>>

HashFile ==
  /\ single.at = "hash"
  /\ single' = IF file = Nothing THEN NoSingle
               ELSE [single EXCEPT !.at = "decide", !.hash = file.data]
  /\ SingleFrame /\ UNCHANGED <<remote, row, syncDue, deletes, faults, calm>>

\* "Unchanged since last sync": same hash, and that sync did not fail.
Unchanged(hash) == row # Nothing /\ row.hash = hash /\ ~row.failed

\* The content-addressed skip: the remote already has this hash.
RemoteHas(hash) == row # Nothing /\ row.remoteHash = hash /\ row.verified

Decide ==
  /\ single.at = "decide"
  /\ \/ /\ Unchanged(single.hash) /\ row.mtime = 0     \* UpdateMtimeOnly
        /\ Save([row EXCEPT !.mtime = single.mtime])
        /\ single' = NoSingle
     \/ /\ Unchanged(single.hash) /\ row.mtime # 0
        /\ single' = IF row.mtime = single.mtime THEN NoSingle
                     ELSE [single EXCEPT !.at = "touch"]
        /\ UNCHANGED <<row, faults>>
     \/ /\ ~Unchanged(single.hash) /\ RemoteHas(single.hash)
        /\ Save(Upserted(single.hash, single.mtime, FALSE))
        /\ single' = NoSingle
     \/ /\ ~Unchanged(single.hash) /\ ~RemoteHas(single.hash)
        /\ single' = [single EXCEPT !.at = "copy"]
        /\ UNCHANGED <<row, faults>>
     \/ /\ Fail(1)              \* GetFileState: as if there were no row
        /\ single' = [single EXCEPT !.at = "copy"]
        /\ UNCHANGED row
  /\ SingleFrame /\ UNCHANGED <<remote, syncDue, deletes, calm>>

\* syncMtime: rclone touch does not change the content, and the row is
\* written as for a success whatever its exit code.
SyncMtime ==
  /\ single.at = "touch"
  /\ Save(Upserted(single.hash, single.mtime, FALSE))
  /\ single' = NoSingle
  /\ SingleFrame /\ UNCHANGED <<remote, syncDue, deletes, calm>>

\* rclone copyto opens the file; without one it fails.
CopyRead ==
  /\ single.at = "copy"
  /\ single' = IF file = Nothing
               THEN [single EXCEPT !.at = "record", !.failed = TRUE]
               ELSE [single EXCEPT !.at = "upload", !.seen = file.data]
  /\ SingleFrame /\ UNCHANGED <<remote, row, syncDue, deletes, faults, calm>>

CopySucceeds ==
  /\ remote' = single.seen
  /\ single' = [single EXCEPT !.at = "record"]
  /\ UNCHANGED <<faults, calm>>

\* rclone fails, is killed or loses the connection, before or after the remote
\* has the file.  Exit codes 1 and 5 are retried, once.
CopyFails ==
  /\ Fail(1)
  /\ remote' \in {remote, single.seen}
  /\ calm' = (calm /\ remote' = remote)
  /\ \/ ~single.retried /\ single' = [single EXCEPT !.at = "copy", !.retried = TRUE]
     \/ single' = [single EXCEPT !.at = "record", !.failed = TRUE]

Upload ==
  /\ single.at = "upload"
  /\ CopySucceeds \/ CopyFails
  /\ SingleFrame /\ UNCHANGED <<row, syncDue, deletes>>

\* Mutant of Recorded: the exit code is not recorded.
RecordedAsSuccess == Upserted(single.hash, single.mtime, FALSE)

\* UpdateFileState after the copy
Recorded == Upserted(single.hash, single.mtime, single.failed)

Record ==
  /\ single.at = "record"
  /\ Save(Recorded)
  /\ calm' = (calm /\ (single.failed \/ row' = Recorded))
  /\ single' = IF single.failed THEN NoSingle ELSE [single EXCEPT !.at = "verify"]
  /\ SingleFrame /\ UNCHANGED <<remote, syncDue, deletes>>

\* UpdateRemoteVerification and MarkRemoteVerificationStale, which do nothing
\* when the record before them was lost and there is no row.
Verified ==
  IF row = Nothing THEN row
  ELSE [row EXCEPT !.remoteHash = single.hash, !.verified = TRUE]
MarkedStale == IF row = Nothing THEN row ELSE [row EXCEPT !.verified = FALSE]

\* The first, the second when the first fails, or neither.
Verify ==
  /\ single.at = "verify"
  /\ \/ row' = Verified /\ UNCHANGED <<faults, calm>>
     \/ row' = MarkedStale /\ Fail(1) /\ UNCHANGED calm
     \/ UNCHANGED row /\ Fail(2) /\ calm' = (calm /\ row = MarkedStale)
  /\ single' = NoSingle
  /\ SingleFrame /\ UNCHANGED <<remote, syncDue, deletes>>
-----------------------------------------------------------------------------
(* deleteRemoteFile. *)

\* A file that was never synced, or whose deletes are ignored, stays, and so
\* does one whose row cannot be read.
BeginDelete ==
  /\ single.at = "idle"
  /\ \E i \in DOMAIN deletes :
       /\ deletes' = RemoveAt(deletes, i)
       /\ \/ /\ single' = IF row # Nothing /\ (deletes[i] \/ Policy # "ignore")
                          THEN [NoSingle EXCEPT !.at = "delete"] ELSE NoSingle
             /\ UNCHANGED faults
          \/ single' = NoSingle /\ Fail(1)
  /\ calm' = (calm /\ full.at = "idle")
  /\ SingleFrame /\ UNCHANGED <<remote, row, syncDue>>

\* rclone deletefile or moveto; without a remote file they fail.
DeleteRemote ==
  /\ single.at = "delete"
  /\ \/ /\ remote # Nothing /\ remote' = Nothing
        /\ single' = [single EXCEPT !.at = "forget"]
        /\ UNCHANGED <<faults, calm>>
     \/ /\ remote = Nothing
        /\ single' = NoSingle
        /\ UNCHANGED <<remote, faults, calm>>
     \/ /\ Fail(1)
        /\ remote' \in {remote, Nothing}
        /\ calm' = (calm /\ remote' = remote)
        /\ single' = NoSingle
  /\ SingleFrame /\ UNCHANGED <<row, syncDue, deletes>>

\* deleteFileState
Forget ==
  /\ single.at = "forget"
  /\ Save(Nothing)
  /\ calm' = (calm /\ row' = Nothing)
  /\ single' = NoSingle
  /\ SingleFrame /\ UNCHANGED <<remote, syncDue, deletes>>
-----------------------------------------------------------------------------
(* syncFullProject. *)

FullFrame == UNCHANGED <<file, syncDue, deletes, single, watching, edits, stops>>

\* rclone copy --checksum, or sync, lists the files and reads them ...
BeginFull ==
  /\ full.at = "idle" /\ fullDue /\ watching
  /\ fullDue' = FALSE
  /\ full' = [NoFull EXCEPT !.at = "transfer",
                !.seen = IF file = Nothing THEN Nothing ELSE file.data]
  /\ calm' = (calm /\ single.at = "idle")
  /\ FullFrame /\ UNCHANGED <<remote, row, faults>>

\* Mutant of Mirrored: an orphan on the remote stays.
MirroredWithout(seen) == IF seen = Nothing THEN remote ELSE seen

\* ... and makes the remote equal.  Only sync, which delete_policy=delete
\* calls for, removes what is not there any more.
Mirrored(seen) == IF seen = Nothing /\ Policy # "delete" THEN remote ELSE seen

\* When it fails, the handler returns and leaves no trace in the rows.
Transfer ==
  /\ full.at = "transfer"
  /\ \/ /\ remote' = Mirrored(full.seen)
        /\ full' = [full EXCEPT !.at = "backfill"]
        /\ UNCHANGED faults
     \/ /\ Fail(1)
        /\ remote' \in {remote, Mirrored(full.seen)}
        /\ full' = NoFull
  /\ calm' = (calm /\ remote' = remote)
  /\ FullFrame /\ UNCHANGED <<row, fullDue>>

\* backfillStateAfterBatchSync: a file without a row, or whose row cannot be
\* read ...
Backfill ==
  /\ full.at = "backfill"
  /\ \/ /\ file # Nothing
        /\ (row = Nothing /\ UNCHANGED faults) \/ Fail(1)
        /\ full' = [full EXCEPT !.at = "fillhash", !.mtime = file.mtime]
     \/ /\ file = Nothing \/ row # Nothing
        /\ full' = [full EXCEPT !.at = "clear"]
        /\ UNCHANGED faults
  /\ FullFrame /\ UNCHANGED <<remote, row, fullDue, calm>>

\* ... is hashed as it is now ...
BackfillHash ==
  /\ full.at = "fillhash"
  /\ full' = IF file = Nothing THEN [full EXCEPT !.at = "clear"]
             ELSE [full EXCEPT !.at = "fill", !.hash = file.data]
  /\ FullFrame /\ UNCHANGED <<remote, row, fullDue, faults, calm>>

\* ... and recorded as synced.
BackfillRecord ==
  /\ full.at = "fill"
  /\ Save(Upserted(full.hash, full.mtime, FALSE))
  /\ full' = [full EXCEPT !.at = "clear"]
  /\ FullFrame /\ UNCHANGED <<remote, fullDue, calm>>

Failed == row # Nothing /\ row.failed

\* ClearStaleExitCodes: a failure is forgotten whatever content it was about.
ClearExitCodes ==
  /\ full.at = "clear"
  /\ Save(IF Failed THEN [row EXCEPT !.failed = FALSE] ELSE row)
  /\ full' = NoFull
  /\ calm' = (calm /\ row' = row)
  /\ FullFrame /\ UNCHANGED <<remote, fullDue>>
-----------------------------------------------------------------------------
\* The program is stopped or crashes and starts again: handlers and tasks are
\* gone, an rclone that was running may or may not have come to its end.
Interrupted ==
  {remote} \cup (IF single.at = "upload" THEN {single.seen} ELSE {})
           \cup (IF single.at = "delete" THEN {Nothing} ELSE {})
           \cup (IF full.at = "transfer" THEN {Mirrored(full.seen)} ELSE {})

Restart ==
  /\ stops < MaxStops /\ stops' = stops + 1
  /\ remote' \in Interrupted
  /\ single' = NoSingle /\ full' = NoFull
  /\ syncDue' = FALSE /\ deletes' = <<>> /\ fullDue' = TRUE
  /\ watching' = FALSE
  /\ calm' = FALSE
  /\ UNCHANGED <<file, row, edits, faults>>

Sync == BeginSync \/ Quiesce \/ HashFile \/ Decide \/ SyncMtime \/ CopyRead
          \/ Upload \/ Record \/ Verify
Delete == BeginDelete \/ DeleteRemote \/ Forget
FullSync == BeginFull \/ Transfer \/ Backfill \/ BackfillHash
              \/ BackfillRecord \/ ClearExitCodes

Next ==
  Edit \/ StartWatcher \/ Reconcile \/ Sync \/ Delete \/ FullSync \/ Restart

Spec == Init /\ [][Next]_vars

(***************************************************************************)
(* Fairness.  The reconcile ticker ticks, the watcher starts, the queue    *)
(* hands tasks out (see FairQueue) and rclone ends (see Supervisor).  That *)
(* rclone succeeds in the end is the bound on faults: an outage passes.    *)
(***************************************************************************)
FairSpec ==
  Spec /\ WF_vars(Reconcile) /\ WF_vars(StartWatcher)
       /\ WF_vars(Sync \/ Delete) /\ WF_vars(FullSync)
-----------------------------------------------------------------------------
SingleType ==
  [at : {"idle", "quiesce", "hash", "decide", "touch", "copy", "upload",
         "record", "verify", "delete", "forget"},
   mtime : 0..MaxEdits, hash : Contents \cup {Nothing},
   seen : Contents \cup {Nothing}, retried : BOOLEAN, failed : BOOLEAN]

FullType ==
  [at : {"idle", "transfer", "backfill", "fillhash", "fill", "clear"},
   mtime : 0..MaxEdits, hash : Contents \cup {Nothing},
   seen : Contents \cup {Nothing}]

\* The variables have their types.
TypeOK ==
  /\ file \in FileType \cup {Nothing}
  /\ remote \in Contents \cup {Nothing}
  /\ row \in Row \cup {Nothing}
  /\ syncDue \in BOOLEAN /\ deletes \in Seq(BOOLEAN) /\ fullDue \in BOOLEAN
  /\ single \in SingleType /\ full \in FullType
  /\ watching \in BOOLEAN /\ calm \in BOOLEAN
  /\ edits \in 0..MaxEdits /\ faults \in 0..MaxFaults /\ stops \in 0..MaxStops

\* A sync that leaves the content alone, because the row says it is on the
\* remote, is right: the remote has it.
Skips ==
  /\ single.at = "decide" /\ single'.at # "copy"
  /\ single' # single /\ stops' = stops

SkipsJustified == [][Skips => remote = single.hash]_vars

\* The same as long as calm holds: no edit hit a handler between its hash and
\* its record or hit a full sync, no rclone call failed after it had its effect,
\* no row write was lost that tells of a copy or a delete just made (Record,
\* Forget, both writes of Verify), the file's handler and the full sync did not
\* overlap, no full sync changed the remote or cleared a failure, the program
\* did not stop.  Every other row access may fail without ending the calm.
SkipsJustifiedWhenCalm == [][calm /\ Skips => remote = single.hash]_vars

\* The full syncs heal everything: once the user, the faults and the crashes
\* pause, the remote becomes equal to the file and stays so, whatever the rows
\* of the database say, and whatever tasks are still under way.
Equal ==
  /\ file # Nothing => remote = file.data
  /\ file = Nothing /\ Policy = "delete" => remote = Nothing

Heals == <>[]Equal
=============================================================================
