---------------------------- MODULE RemoteDelete ----------------------------
(***************************************************************************)
(* Everything that takes files off the remote of one mirror                *)
(* (internal/sync/sync.go): the delete tasks of files and directories      *)
(* (deleteRemoteFile, deleteRemoteDir) in the daemon, and the ghost        *)
(* cleanup of sync-now (findGhosts, ClassifyGhost, CleanupGhosts), which   *)
(* lists the remote, walks the local tree and then deletes file by file    *)
(* while the user goes on working.  The instance lock keeps the two apart. *)
(* MirrorSync models what is copied; here a copy is one step.              *)
(***************************************************************************)
EXTENDS FiniteSets, Naturals

CONSTANTS
  Files, Dirs, Root,  \* the directories include Root
  DirOf,              \* the directory of each file
  Excl,               \* the files the filter excludes
  Policies,           \* the delete policies to start with
  Duplicates,         \* whether the remote may have duplicate directories, in
                      \* which deletefile misses a file that is listed
  MaxOps              \* bound on the user's operations

\* Assumed of the constants.
DeleteAssumption ==
  /\ Policies \subseteq {"ignore", "delete", "quarantine"}
  /\ Root \in Dirs /\ Excl \subseteq Files

VARIABLES
  local,       \* the local files
  mounted,     \* the local path can be read
  remote,
  quarantine,  \* files with a copy under .quarantine/
  rows,        \* files with a row in the state database
  policy,      \* delete_policy
  doubled,     \* the remote has duplicate directories
  tasks,       \* queued deletes: [files, dir, force]
  proc,        \* the procedure under way: [at, files, dir, force]
  wasGone,     \* files not visible at some time since the remote was listed
  ops

userVars == <<local, mounted, wasGone, tasks, ops>>
settings == <<policy, doubled>>
vars == <<userVars, remote, quarantine, rows, settings, proc>>

Idle == [at |-> "idle", files |-> {}, dir |-> Root, force |-> FALSE]
Under(d) == {f \in Files : d = Root \/ DirOf[f] = d}

\* findGhosts' walk skips what it cannot read, the root included.
Visible == IF mounted THEN local \ Excl ELSE {}

-----------------------------------------------------------------------------
Init ==
  /\ local = {} /\ mounted = TRUE
  /\ remote = Excl /\ rows = Excl   \* synced before they were excluded
  /\ quarantine = {}
  /\ policy \in Policies /\ doubled \in Duplicates
  /\ tasks = {} /\ proc = Idle /\ wasGone = {} /\ ops = 0

(* The user; the watcher queues the delete tasks. *)

Operate ==
  /\ ops < MaxOps /\ ops' = ops + 1
  /\ UNCHANGED <<remote, quarantine, rows, settings, proc>>

Create(f) ==
  /\ Operate /\ mounted /\ f \notin local
  /\ local' = local \cup {f}
  /\ UNCHANGED <<mounted, wasGone, tasks>>

Gone(files) ==
  /\ local' = local \ files
  /\ wasGone' = wasGone \cup files
  /\ UNCHANGED mounted

Remove(f) ==
  /\ Operate /\ mounted /\ f \in local
  /\ Gone({f})
  /\ tasks' = IF policy = "ignore" \/ f \in Excl THEN tasks
              ELSE tasks \cup {[files |-> {f}, dir |-> Root, force |-> FALSE]}

\* handleRename: whatever the policy, the old path is deleted by force.
MoveOut(d) ==
  /\ Operate /\ mounted /\ d # Root /\ Under(d) \cap local # {}
  /\ Gone(Under(d))
  /\ tasks' = tasks \cup {[files |-> {}, dir |-> d, force |-> TRUE]}

Unmount ==
  /\ Operate /\ mounted
  /\ mounted' = FALSE /\ wasGone' = Files
  /\ UNCHANGED <<local, tasks>>

Mount ==
  /\ ~mounted
  /\ mounted' = TRUE
  /\ UNCHANGED <<local, wasGone, tasks, ops, remote, quarantine, rows, settings, proc>>
-----------------------------------------------------------------------------
(* The daemon. *)

SyncFile(f) ==
  /\ proc.at \notin {"list", "walk", "clean"} /\ f \in Visible
  /\ remote' = remote \cup {f} /\ rows' = rows \cup {f}
  /\ UNCHANGED <<userVars, quarantine, settings, proc>>

\* policy, or DeleteDelete for a forced task.
Forced(force) == IF force THEN "delete" ELSE policy

\* GetFilesUnderDir
RowsUnder(d) == Under(d) \cap rows

\* A worker takes a delete task.  A path without a row may be a directory.
BeginDelete(t) ==
  /\ proc.at = "idle" /\ t \in tasks
  /\ tasks' = tasks \ {t}
  /\ LET files == IF t.files # {} THEN t.files ELSE RowsUnder(t.dir)
     IN proc' = IF files = {} \/ Forced(t.force) = "ignore" THEN Idle
                ELSE [at |-> IF t.files = {} /\ Forced(t.force) = "delete"
                             THEN "purge" ELSE "each",
                      files |-> files, dir |-> t.dir, force |-> t.force]
  /\ UNCHANGED <<local, mounted, wasGone, ops, remote, quarantine, rows, settings>>

\* rclone purge of the directory, whatever is in it now.
Purge ==
  /\ proc.at = "purge"
  /\ remote' = remote \ Under(proc.dir)
  /\ rows' = rows \ proc.files
  /\ proc' = Idle
  /\ UNCHANGED <<userVars, quarantine, settings>>

\* A purge that fails may have deleted some files; then each one in turn.
PurgeFails ==
  /\ proc.at = "purge"
  /\ \E purged \in SUBSET (Under(proc.dir) \cap remote) : remote' = remote \ purged
  /\ proc' = [proc EXCEPT !.at = "each"]
  /\ UNCHANGED <<userVars, quarantine, rows, settings>>

Done(f) ==
  proc' = IF proc.files = {f} THEN Idle ELSE [proc EXCEPT !.files = @ \ {f}]

\* Mutant of TakeOff: a file to be quarantined is deleted.
TakeOffAlways(f, by) ==
  /\ remote' = remote \ {f} /\ rows' = rows \ {f}
  /\ UNCHANGED quarantine

\* deletefile, or moveto .quarantine/, succeeds.
TakeOff(f, by) ==
  /\ f \in remote
  /\ remote' = remote \ {f} /\ rows' = rows \ {f}
  /\ quarantine' = IF by = "quarantine" THEN quarantine \cup {f} ELSE quarantine

\* deleteRemoteFile
DeleteEach(f) ==
  /\ proc.at = "each" /\ f \in proc.files
  /\ f \in rows /\ Forced(proc.force) # "ignore"
  /\ TakeOff(f, Forced(proc.force))
  /\ Done(f)
  /\ UNCHANGED <<userVars, settings>>

\* No row, or rclone failed: the file is left alone.
SkipEach(f) ==
  /\ proc.at = "each" /\ f \in proc.files
  /\ Done(f)
  /\ UNCHANGED <<userVars, remote, quarantine, rows, settings>>
-----------------------------------------------------------------------------
(* sync-now *)

\* SyncFullProject with the daemon not running; rclone fails when the local
\* path is missing, and the cleanup follows all the same.
SyncNow ==
  /\ proc.at = "idle"
  /\ proc' = [Idle EXCEPT !.at = "list"]
  /\ tasks' = {}
  /\ IF mounted
     THEN /\ remote' = Visible \cup (IF policy = "delete" THEN remote \cap Excl ELSE remote)
          /\ rows' = rows \cup Visible
     ELSE UNCHANGED <<remote, rows>>
  /\ UNCHANGED <<local, mounted, wasGone, ops, quarantine, settings>>

\* Mutant of Looks: the local tree is walked before the remote is listed.
LooksReversed == <<"local", "remote">>

\* findGhosts lists the remote, then walks the local tree.
Looks == <<"remote", "local">>

\* What the n-th look leaves of the files that may be ghosts.
Left(n, files) == IF Looks[n] = "remote" THEN files \cap remote ELSE files \ Visible

\* wasGone starts with the listing.
FromListing(n) ==
  wasGone' = IF Looks[n] = "remote" THEN Files \ Visible ELSE wasGone

List ==
  /\ proc.at = "list"
  /\ proc' = [proc EXCEPT !.at = "walk", !.files = Left(1, Files)]
  /\ FromListing(1)
  /\ UNCHANGED <<local, mounted, tasks, ops, remote, quarantine, rows, settings>>

ListFails ==
  /\ proc.at = "list"
  /\ proc' = Idle
  /\ UNCHANGED <<userVars, remote, quarantine, rows, settings>>

Walk ==
  /\ proc.at = "walk"
  /\ LET ghosts == Left(2, proc.files)
     IN proc' = IF ghosts = {} THEN Idle ELSE [proc EXCEPT !.at = "clean", !.files = ghosts]
  /\ FromListing(2)
  /\ UNCHANGED <<local, mounted, tasks, ops, remote, quarantine, rows, settings>>

\* ClassifyGhost
Kind(f) ==
  IF f \in Excl THEN "LEAK"
  ELSE IF f \in rows THEN (IF policy = "ignore" THEN "RETAINED" ELSE "STALE")
  ELSE "ORPHAN"

\* A leak is deleted whatever the policy.
GhostPolicy(f) == IF Kind(f) = "LEAK" THEN "delete" ELSE policy

CleanGhost(f) ==
  /\ proc.at = "clean" /\ f \in proc.files
  /\ GhostPolicy(f) # "ignore" /\ TakeOff(f, GhostPolicy(f))
  /\ Done(f)
  /\ UNCHANGED <<userVars, settings>>

\* The policy is "ignore", or rclone failed.
SkipGhost(f) ==
  /\ proc.at = "clean" /\ f \in proc.files
  /\ Done(f)
  /\ UNCHANGED <<userVars, remote, quarantine, rows, settings>>

\* deletefile answers "not found": rclone delete --rmdirs on the directory.
CleanParent(f) ==
  /\ proc.at = "clean" /\ f \in proc.files
  /\ GhostPolicy(f) = "delete" /\ (doubled \/ f \notin remote) /\ DirOf[f] # Root
  /\ remote' = remote \ Under(DirOf[f])
  /\ rows' = rows \ {f}
  /\ Done(f)
  /\ UNCHANGED <<userVars, quarantine, settings>>

Next ==
  \/ \E f \in Files : Create(f) \/ Remove(f)
  \/ \E d \in Dirs : MoveOut(d)
  \/ Unmount \/ Mount
  \/ \E f \in Files : SyncFile(f)
  \/ \E t \in tasks : BeginDelete(t)
  \/ Purge \/ PurgeFails
  \/ \E f \in Files : DeleteEach(f) \/ SkipEach(f)
  \/ SyncNow \/ List \/ ListFails \/ Walk
  \/ \E f \in Files : CleanGhost(f) \/ SkipGhost(f) \/ CleanParent(f)

Spec == Init /\ [][Next]_vars
-----------------------------------------------------------------------------
TypeOK ==
  /\ local \subseteq Files /\ remote \subseteq Files /\ quarantine \subseteq Files
  /\ rows \subseteq Files /\ wasGone \subseteq Files /\ mounted \in BOOLEAN
  /\ policy \in {"ignore", "delete", "quarantine"} /\ doubled \in BOOLEAN /\ ops \in Nat
  /\ proc.at \in {"idle", "purge", "each", "list", "walk", "clean"}
  /\ proc.files \subseteq Files /\ proc.dir \in Dirs /\ proc.force \in BOOLEAN

ByForce == proc.at \in {"purge", "each"} /\ proc.force

\* The delete policy holds on every path that takes files off the remote, file
\* by file, by purge and by cleanup: under "ignore" nothing goes but leaks and
\* what was renamed away, and under "quarantine" everything else has its copy.
\* (A remote with duplicate directories is the exception, see CleanParent.)
PolicyKept ==
  [][\A f \in remote \ remote' :
       \/ f \in Excl \/ ByForce \/ doubled
       \/ policy = "delete"
       \/ policy = "quarantine" /\ f \in quarantine']_vars

\* The cleanup takes no file for a ghost that was there all the time since the
\* remote was listed, though the user goes on creating files.
GhostWasGone ==
  [][proc.at = "clean" /\ ~doubled => \A f \in remote \ remote' : f \in wasGone]_vars

\* "`ignore` policy SHALL preserve remote files when local files are deleted"
\* (docs/SRS.md, FR-DEL-02).
IgnorePreserves ==
  [][policy = "ignore" => \A f \in remote \ remote' : f \in Excl \/ ByForce]_vars
=============================================================================
