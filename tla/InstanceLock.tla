----------------------------- MODULE InstanceLock -----------------------------
(* The single-instance lock of internal/lock: a file under the data directory *)
(* (or next to config.yaml) whose operating-system lock a process holds while *)
(* it runs (start, service, sync-now) or edits the configuration.             *)
(*                                                                            *)
(* AcquirePath opens the file, locks it, and writes its pid; Release unlocks, *)
(* closes and removes, three calls.  IsLocked locks for a moment to find out  *)
(* whether somebody else does.  A file is an object that a path may name: a   *)
(* removed file lives on, without a name, in the processes that have it open. *)
EXTENDS Integers, FiniteSets

CONSTANTS
  Processes,
  Files,        \* the files that can exist under the name, one after the other
  KeepsOpen     \* TRUE on Windows: a file that is open cannot be removed, and
                \* a locked one cannot be read

VARIABLES
  name,     \* the file the path names, or NoFile
  open,     \* the file each process has open
  owner,    \* the process that holds the lock of each file
  pid,      \* the process each file records
  pc,
  answer    \* what the last Acquire of each process told its caller

vars == <<name, open, owner, pid, pc, answer>>

NoFile == "none"
Nobody == "nobody"

\* Assumed of the constants: the two marks are not a file and a process.
InstanceAssumption == NoFile \notin Files /\ Nobody \notin Processes

PCs == {"idle", "trylock", "failed", "truncate", "write", "held", "close", "remove",
        "probe", "unprobe", "crashed"}
Answers == {"none", "ok", "running", "stale"}

Init ==
  /\ name = NoFile
  /\ open = [p \in Processes |-> NoFile]
  /\ owner = [f \in Files |-> Nobody]
  /\ pid = [f \in Files |-> Nobody]
  /\ pc = [p \in Processes |-> "idle"]
  /\ answer = [p \in Processes |-> "none"]

Goto(p, s) == pc' = [pc EXCEPT ![p] = s]
Answer(p, a) == answer' = [answer EXCEPT ![p] = a]

OpenBy(f) == {p \in Processes : open[p] = f}

(* os.OpenFile with O_CREATE: the named file, or a new one. *)
OpenFile(p) ==
  /\ \/ /\ name # NoFile
        /\ open' = [open EXCEPT ![p] = name]
        /\ UNCHANGED <<name, pid>>
     \/ /\ name = NoFile
        /\ \E f \in Files :
             /\ OpenBy(f) = {}
             /\ name' = f
             /\ open' = [open EXCEPT ![p] = f]
             /\ pid' = [pid EXCEPT ![f] = Nobody]
  /\ UNCHANGED <<owner, answer>>

Acquire(p) == pc[p] = "idle" /\ OpenFile(p) /\ Goto(p, "trylock")
IsLocked(p) == pc[p] = "idle" /\ OpenFile(p) /\ Goto(p, "probe")

(* flock with LOCK_NB, LockFileEx with FAIL_IMMEDIATELY; a failure closes. *)
TryLock(p) ==
  /\ pc[p] = "trylock"
  /\ \/ /\ owner[open[p]] = Nobody
        /\ owner' = [owner EXCEPT ![open[p]] = p]
        /\ Goto(p, "truncate")
        /\ UNCHANGED open
     \/ /\ owner[open[p]] # Nobody
        /\ open' = [open EXCEPT ![p] = NoFile]
        /\ Goto(p, "failed")
        /\ UNCHANGED owner
  /\ UNCHANGED <<name, pid, answer>>

Readable == name # NoFile /\ (KeepsOpen => owner[name] = Nobody)
Alive(q) == pc[q] # "crashed"

(* readLockPID and isProcessAlive, on whatever file has the name by now. *)
Classify(p) ==
  /\ pc[p] = "failed"
  /\ Goto(p, "idle")
  /\ Answer(p, IF Readable /\ pid[name] # Nobody /\ ~Alive(pid[name])
               THEN "stale" ELSE "running")
  /\ UNCHANGED <<name, open, owner, pid>>

Truncate(p) ==
  /\ pc[p] = "truncate"
  /\ pid' = [pid EXCEPT ![open[p]] = Nobody]
  /\ Goto(p, "write")
  /\ UNCHANGED <<name, open, owner, answer>>

WritePID(p) ==
  /\ pc[p] = "write"
  /\ pid' = [pid EXCEPT ![open[p]] = p]
  /\ Goto(p, "held")
  /\ Answer(p, "ok")
  /\ UNCHANGED <<name, open, owner>>

Unlock(p, from, to) ==
  /\ pc[p] = from
  /\ owner' = [owner EXCEPT ![open[p]] = Nobody]
  /\ Goto(p, to)
  /\ UNCHANGED <<name, open, pid, answer>>

CloseFile(p, from, to) ==
  /\ pc[p] = from
  /\ open' = [open EXCEPT ![p] = NoFile]
  /\ Goto(p, to)
  /\ UNCHANGED <<name, owner, pid, answer>>

RemovableAlways == name # NoFile  \* a mutant of Removable
Removable == name # NoFile /\ (KeepsOpen => OpenBy(name) = {})

(* os.Remove removes whatever the path names now; its error is dropped. *)
Remove(p) ==
  /\ pc[p] = "remove"
  /\ name' = IF Removable THEN NoFile ELSE name
  /\ Goto(p, "idle")
  /\ UNCHANGED <<open, owner, pid, answer>>

Release(p) ==
  \/ Unlock(p, "held", "close")
  \/ CloseFile(p, "close", "remove")
  \/ Remove(p)

Probe(p) ==
  \/ /\ pc[p] = "probe"
     /\ \/ /\ owner[open[p]] = Nobody
           /\ owner' = [owner EXCEPT ![open[p]] = p]
           /\ Goto(p, "unprobe")
           /\ UNCHANGED open
        \/ /\ owner[open[p]] # Nobody
           /\ open' = [open EXCEPT ![p] = NoFile]
           /\ Goto(p, "idle")
           /\ UNCHANGED owner
     /\ UNCHANGED <<name, pid, answer>>
  \/ /\ pc[p] = "unprobe"
     /\ owner' = [owner EXCEPT ![open[p]] = Nobody]
     /\ open' = [open EXCEPT ![p] = NoFile]
     /\ Goto(p, "idle")
     /\ UNCHANGED <<name, pid, answer>>

(* The process dies: the system closes its files, the name stays. *)
Crash(p) ==
  /\ pc[p] # "crashed"
  /\ owner' = [f \in Files |-> IF owner[f] = p THEN Nobody ELSE owner[f]]
  /\ open' = [open EXCEPT ![p] = NoFile]
  /\ Goto(p, "crashed")
  /\ Answer(p, "none")
  /\ UNCHANGED <<name, pid>>

(* A new process; the system may give it the number of the dead one. *)
Relaunch(p) ==
  /\ pc[p] = "crashed"
  /\ Goto(p, "idle")
  /\ UNCHANGED <<name, open, owner, pid, answer>>

Next ==
  \E p \in Processes :
    \/ Acquire(p) \/ TryLock(p) \/ Classify(p) \/ Truncate(p) \/ WritePID(p)
    \/ Release(p) \/ IsLocked(p) \/ Probe(p) \/ Crash(p) \/ Relaunch(p)

Spec == Init /\ [][Next]_vars
-------------------------------------------------------------------------------
TypeOK ==
  /\ name \in Files \cup {NoFile}
  /\ open \in [Processes -> Files \cup {NoFile}]
  /\ owner \in [Files -> Processes \cup {Nobody}]
  /\ pid \in [Files -> Processes \cup {Nobody}]
  /\ pc \in [Processes -> PCs]
  /\ answer \in [Processes -> Answers]

Running == {p \in Processes : pc[p] \in {"truncate", "write", "held"}}

(* lock.go:1: no two processes are past AcquirePath at a time, whatever the   *)
(* others do to the file meanwhile: take it between Unlock and Remove, probe  *)
(* it, crash, come back.  It rests on the file of the holder keeping its name,*)
(* which Windows guarantees and Unix does not (il_unix.cfg).                  *)
OneInstance == \A p, q \in Running : p = q

(* An answer of "stale" (lock.go:19) tells the user to delete the file: then  *)
(* nobody holds it.  Not so: the holder may not have written its pid yet over *)
(* that of a crashed one (il_stale.cfg).                                      *)
StaleMeansFree ==
  [][\A p \in Processes : answer'[p] = "stale" /\ answer[p] # "stale"
       => Running = {}]_vars
===============================================================================
