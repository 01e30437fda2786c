------------------------------ MODULE SelfUpdate ------------------------------
(* cmd/smirror/selfupdate.go: replacing the running binary, smirror.exe, by   *)
(* way of smirror.exe.bak, with the service stopped and started around it.    *)
(* Nothing keeps two updates apart but the file system: Windows (the only     *)
(* system with release assets) lets a running image be renamed, but neither   *)
(* removed nor replaced, and a file being written not even renamed.           *)
EXTENDS FiniteSets

CONSTANTS
  Updaters,
  Service      \* the service, as the process it runs in

Nobody == "nobody"

\* Assumed of the constants.
UpdateAssumption == Service \notin Updaters /\ Nobody \notin Updaters

Content == {"none", "torn", "old", "new"}
Complete == {"old", "new"}

VARIABLES
  exe, bak,    \* what the two paths hold
  inExe, inBak,\* processes whose image is there
  writer,      \* who has smirror.exe open for writing
  pc,
  ran,         \* updaters whose preflight saw the service run
  died         \* an updater was killed on its way

files == <<exe, bak, inExe, inBak, writer>>
vars == <<files, pc, ran, died>>

Init ==
  /\ exe = "old" /\ bak = "none"
  /\ inExe \in {{}, {Service}} /\ inBak = {}
  /\ writer = Nobody
  /\ pc = [u \in Updaters |-> "idle"]
  /\ ran = {}
  /\ died = FALSE

Step(u, from, to) == pc[u] = from /\ pc' = [pc EXCEPT ![u] = to]
ExeReplaceable == inExe = {} /\ writer = Nobody
BakReplaceable == inBak = {}
Running == Service \in inExe \cup inBak

(* Phases 1 and 2: a newer release, and preflight's look at the service.      *)
Preflight(u) ==
  /\ Step(u, "idle", "asked")
  /\ exe = "old" /\ writer = Nobody
  /\ inExe' = inExe \cup {u}
  /\ ran' = IF Running THEN ran \cup {u} ELSE ran
  /\ UNCHANGED <<exe, bak, inBak, writer, died>>

Leave(u) ==
  /\ inExe' = inExe \ {u} /\ inBak' = inBak \ {u}
  /\ ran' = ran \ {u}
  /\ UNCHANGED <<exe, bak, writer, died>>

(* Phases 3 and 4: the user agrees; the release is downloaded to a staging    *)
(* directory, compared with its checksum, unpacked and run, or the command    *)
(* ends.                                                                      *)
Stage(u) ==
  \/ Step(u, "asked", "ready") /\ UNCHANGED <<files, ran, died>>
  \/ Step(u, "asked", "idle") /\ Leave(u)

(* service.Stop: the service's process ends. *)
ServiceStops == inExe' = inExe \ {Service} /\ inBak' = inBak \ {Service}

(* Phase 5, when the service ran at preflight: stop it and wait.  One that    *)
(* was stopped meanwhile, or does not stop in time, ends the command.         *)
StopService(u) ==
  \/ /\ Step(u, "ready", "remove")
     /\ IF u \in ran THEN Running /\ ServiceStops ELSE UNCHANGED <<inExe, inBak>>
     /\ UNCHANGED <<exe, bak, writer, ran, died>>
  \/ u \in ran /\ Step(u, "ready", "idle") /\ Leave(u)

(* swapBinary: a leftover backup, if it can be removed; *)
RemoveLeftover(u) ==
  /\ Step(u, "remove", "backup")
  /\ bak' = IF BakReplaceable THEN "none" ELSE bak
  /\ UNCHANGED <<exe, inExe, inBak, writer, ran, died>>

(* rename smirror.exe to the backup; *)
Backup(u) ==
  /\ \/ /\ exe # "none" /\ writer = Nobody /\ BakReplaceable
        /\ Step(u, "backup", "create")
        /\ bak' = exe /\ exe' = "none"
        /\ inBak' = inExe /\ inExe' = {}
     \/ /\ exe = "none" \/ writer # Nobody \/ ~BakReplaceable
        /\ Step(u, "backup", "rollback")
        /\ UNCHANGED <<exe, bak, inExe, inBak>>
  /\ UNCHANGED <<writer, ran, died>>

(* create smirror.exe and copy the staged binary into it, which may fail. *)
Create(u) ==
  /\ \/ /\ ExeReplaceable
        /\ Step(u, "create", "copy")
        /\ exe' = "torn" /\ writer' = u
     \/ Step(u, "create", "rollback") /\ UNCHANGED <<exe, writer>>
  /\ UNCHANGED <<bak, inExe, inBak, ran, died>>

Copy(u) ==
  /\ \/ Step(u, "copy", "verify") /\ exe' = "new"
     \/ Step(u, "copy", "rollback") /\ UNCHANGED exe
  /\ writer' = Nobody
  /\ UNCHANGED <<bak, inExe, inBak, ran, died>>

RestoreNever == FALSE  \* a mutant of MayRestore
MayRestore == bak # "none"

(* os.Rename of the backup over smirror.exe, after a failed swap or, with     *)
(* smirror.exe removed before, a failed verification.                         *)
Restore ==
  IF MayRestore /\ ExeReplaceable
  THEN exe' = bak /\ bak' = "none" /\ inExe' = inBak /\ inBak' = {}
  ELSE UNCHANGED <<exe, bak, inExe, inBak>>

Rollback(u) ==
  /\ Step(u, "rollback", "restart")
  /\ Restore
  /\ UNCHANGED <<writer, ran, died>>

(* Post-upgrade verification runs what is at the path now; then the backup,   *)
(* if it can be removed: it is this process's own image.                      *)
Verify(u) ==
  /\ \/ /\ exe \in Complete
        /\ Step(u, "verify", "restart")
        /\ bak' = IF BakReplaceable THEN "none" ELSE bak
        /\ UNCHANGED exe
     \/ /\ Step(u, "verify", "rollback")
        /\ exe' = IF ExeReplaceable THEN "none" ELSE exe
        /\ UNCHANGED bak
  /\ UNCHANGED <<inExe, inBak, writer, ran, died>>

(* service.Start fails when it runs already, or cannot be run. *)
ServiceStarts == ~Running /\ exe \in Complete /\ writer = Nobody

(* Phase 7: whoever stopped the service starts it; then the process ends. *)
Restart(u) ==
  /\ Step(u, "restart", "idle")
  /\ inExe' = (inExe \ {u}) \cup IF u \in ran /\ ServiceStarts THEN {Service} ELSE {}
  /\ inBak' = inBak \ {u}
  /\ ran' = ran \ {u}
  /\ UNCHANGED <<exe, bak, writer, died>>

Die(u) ==
  /\ pc[u] # "idle"
  /\ pc' = [pc EXCEPT ![u] = "idle"]
  /\ inExe' = inExe \ {u} /\ inBak' = inBak \ {u}
  /\ writer' = IF writer = u THEN Nobody ELSE writer
  /\ ran' = ran \ {u}
  /\ died' = TRUE
  /\ UNCHANGED <<exe, bak>>

Next ==
  \E u \in Updaters :
    \/ Preflight(u) \/ Stage(u) \/ StopService(u) \/ RemoveLeftover(u) \/ Backup(u)
    \/ Create(u) \/ Copy(u) \/ Rollback(u) \/ Verify(u) \/ Restart(u) \/ Die(u)

Spec == Init /\ [][Next]_vars
-------------------------------------------------------------------------------
TypeOK ==
  /\ {exe, bak} \subseteq Content
  /\ inExe \cup inBak \subseteq Updaters \cup {Service} /\ inExe \cap inBak = {}
  /\ writer \in Updaters \cup {Nobody}

(* selfupdate.go, phases 6 and 7: when no update is under way and none was    *)
(* killed, a complete binary is installed, however updates overlapped and     *)
(* whichever of their steps failed; and even when one was killed, one of the  *)
(* two paths has a complete binary to go on with.                             *)
EndsRunnable ==
  /\ (\A u \in Updaters : pc[u] = "idle") /\ ~died => exe \in Complete
  /\ {exe, bak} \cap Complete # {}

(* Which binary is another matter: an update that reported success may be     *)
(* undone by the rollback of one that failed.                                 *)
UpdatesStay == [][exe = "new" => exe' = "new"]_vars
===============================================================================
