-------------------------------- MODULE Daemon --------------------------------
(* cmd/smirror/main.go: what the daemon (cmdStart, and serviceMain's start    *)
(* function, which does the same) and sync-now make of the configuration, the *)
(* state database and the remote across runs.                                 *)
(*                                                                            *)
(* Files are seen mirror by mirror: a mirror has its files, or an outdated    *)
(* version of them, at a set of remotes.  Changes the watcher cannot see      *)
(* (WSL, network drives) and changes while nothing runs are the ones that     *)
(* matter here; the watcher's own path to a remote is Watcher and MirrorSync. *)
EXTENDS Naturals, FiniteSets

CONSTANTS
  Mirrors,
  Remotes,
  Exact,       \* delete_policy mirror: a full sync is rclone sync, else copy
  MaxChanges,  \* edits of files and of config.yaml, and failures
  MaxQueue     \* full syncs of one mirror waiting

NoRemote == "none"

VARIABLES
  remote,      \* config.yaml: the remote of each mirror, NoRemote if unmirrored
  loaded,      \* the configuration the running process has
  noted,       \* meta remote_<name> in the state database
  copies,      \* <<m, r>>: files of m are at r
  fresh,       \* those that match the local files
  left,        \* copies unmirror left at a remote, "NOT deleted"
  pc,          \* of the process that holds the instance lock
  todo,        \* mirrors detectRemoteChanges has still to look at
  queue,       \* full syncs enqueued
  busy,        \* mirrors a worker is syncing
  waits,       \* mirrors whose first full sync holds back the ghost scan
  ended,       \* mirrors a full sync of this process has ended for
  scan,        \* the ghost scan: "off", "waiting", "on", "done"
  up,          \* rclone can reach the remotes
  changes

conf == <<remote, left>>
run == <<loaded, todo>>
work == <<queue, busy, waits, ended, scan>>
vars == <<conf, run, noted, copies, fresh, pc, work, up, changes>>

Configured(c) == {m \in Mirrors : c[m] # NoRemote}
Nothing == [m \in Mirrors |-> 0]

Init ==
  /\ remote \in [Mirrors -> Remotes]
  /\ loaded = [m \in Mirrors |-> NoRemote]
  /\ noted = loaded
  /\ copies = {} /\ fresh = {} /\ left = {}
  /\ pc = "down"
  /\ todo = {} /\ queue = Nothing /\ busy = {} /\ waits = {} /\ ended = {}
  /\ scan = "off"
  /\ up = TRUE
  /\ changes = 0

Bounded == changes < MaxChanges /\ changes' = changes + 1
Idle == queue' = Nothing /\ busy' = {} /\ waits' = {} /\ ended' = {} /\ scan' = "off"
-------------------------------------------------------------------------------
(* The environment. *)

(* A local change nobody is told of: every copy is out of date. *)
Change(m) ==
  /\ Bounded
  /\ fresh' = {c \in fresh : c[1] # m}
  /\ UNCHANGED <<conf, run, noted, copies, pc, work, up>>

(* The remote of a mirror is edited, or a mirror is added; its name may be    *)
(* one that was unmirrored before.  A running process does not see it.        *)
SetRemote(m) ==
  /\ Bounded
  /\ \E r \in Remotes \ {remote[m]} :
       /\ remote' = [remote EXCEPT ![m] = r]
       /\ left' = left \ {<<m, r>>}
  /\ fresh' = IF remote[m] = NoRemote THEN {c \in fresh : c[1] # m} ELSE fresh
  /\ UNCHANGED <<run, noted, copies, pc, work, up>>

(* cmdUnmirror: the entry and the mirror's rows of sync_state go, its         *)
(* remote_<name> stays noted.  With --purge-remote everything at the remote   *)
(* goes first; if that fails nothing is changed.                              *)
Unmirror(m) ==
  /\ Bounded
  /\ remote[m] # NoRemote
  /\ remote' = [remote EXCEPT ![m] = NoRemote]
  /\ \/ /\ left' = left \cup {c \in copies : c = <<m, remote[m]>>}
        /\ UNCHANGED <<copies, fresh>>
     \/ /\ up
        /\ LET kept(cs) == {c \in cs : c[2] # remote[m]} IN
           left' = kept(left) /\ copies' = kept(copies) /\ fresh' = kept(fresh)
  /\ UNCHANGED <<run, noted, pc, work, up>>

Reach == Bounded /\ up' = ~up /\ UNCHANGED <<conf, run, noted, copies, fresh, pc, work>>
-------------------------------------------------------------------------------
(* A process: the daemon, or sync-now when no daemon holds the lock. *)

Load(as) ==
  /\ pc = "down"
  /\ Configured(remote) # {}
  /\ pc' = as
  /\ loaded' = remote
  /\ todo' = Configured(remote)
  /\ UNCHANGED <<conf, noted, copies, fresh, work, up, changes>>

Start == Load("starting")
SyncNowAlone == Load("alone")

Migrating(m) == pc \in {"starting", "alone"} /\ m \in todo

(* MigrateRemote: rclone moveto moves everything that is at the old remote,   *)
(* whoever's it is, or nothing when it fails.                                 *)
MovedTo(cs, old, new) ==
  {c \in cs : c[2] # old} \cup {<<c[1], new>> : c \in {d \in cs : d[2] = old}}

MustMove(m) == noted[m] \notin {NoRemote, loaded[m]}

Move(m) ==
  /\ Migrating(m)
  /\ MustMove(m)
  /\ up
  /\ copies' = MovedTo(copies, noted[m], loaded[m])
  /\ fresh' = MovedTo(fresh, noted[m], loaded[m])
  /\ noted' = [noted EXCEPT ![m] = loaded[m]]
  /\ todo' = todo \ {m}
  /\ UNCHANGED <<conf, loaded, pc, work, up, changes>>

(* The process dies between the move and its note: the next run tries again,  *)
(* with nothing left to move.                                                 *)
MoveAndDie(m) ==
  /\ Bounded
  /\ Migrating(m)
  /\ MustMove(m)
  /\ up
  /\ copies' = MovedTo(copies, noted[m], loaded[m])
  /\ fresh' = MovedTo(fresh, noted[m], loaded[m])
  /\ pc' = "down"
  /\ todo' = {}
  /\ loaded' = [n \in Mirrors |-> NoRemote]
  /\ UNCHANGED <<conf, noted, work, up>>

(* Nothing to move, or rclone fails: "will re-sync", and noted all the same. *)
Note(m) ==
  /\ Migrating(m)
  /\ MustMove(m) => ~up
  /\ noted' = [noted EXCEPT ![m] = loaded[m]]
  /\ todo' = todo \ {m}
  /\ UNCHANGED <<conf, loaded, copies, fresh, pc, work, up, changes>>
-------------------------------------------------------------------------------
(* reconcileAll, the workers, and the loops that enqueue. *)

ScanAtOnce == {}  \* a mutant of HeldBack
HeldBack == Configured(loaded)

(* Every mirror's first full sync is counted; the scan waits for all of them. *)
Reconcile ==
  /\ pc = "starting" /\ todo = {}
  /\ pc' = "running"
  /\ queue' = [m \in Mirrors |-> IF loaded[m] # NoRemote THEN 1 ELSE 0]
  /\ waits' = HeldBack
  /\ scan' = "waiting"
  /\ UNCHANGED <<conf, run, noted, copies, fresh, busy, ended, up, changes>>

(* A mutant of Again: mirrors that were synced once are left to the watcher. *)
NotYetEnded == {m \in Configured(loaded) : m \notin ended}
Again == Configured(loaded)

(* heartbeatLoop's reconcile ticker, whose period varies between the          *)
(* configured one and 30 minutes; a sync-now signal does the same.            *)
Tick ==
  /\ pc = "running"
  /\ \A m \in Mirrors : queue[m] < MaxQueue
  /\ queue' = [m \in Mirrors |-> queue[m] + IF m \in Again THEN 1 ELSE 0]
  /\ UNCHANGED <<conf, run, noted, copies, fresh, pc, busy, waits, ended, scan, up, changes>>

Take(m) ==
  /\ pc = "running"
  /\ queue[m] > 0 /\ m \notin busy
  /\ queue' = [queue EXCEPT ![m] = @ - 1]
  /\ busy' = busy \cup {m}
  /\ UNCHANGED <<conf, run, noted, copies, fresh, pc, waits, ended, scan, up, changes>>

(* syncFullProject.  Done is called whether it succeeded or not. *)
Synced(m) ==
  IF up THEN LET there(cs) == IF Exact THEN {c \in cs : c[2] # loaded[m]} ELSE cs IN
             /\ copies' = there(copies) \cup {<<m, loaded[m]>>}
             /\ fresh' = there(fresh) \cup {<<m, loaded[m]>>}
        ELSE UNCHANGED <<copies, fresh>>

Finish(m) ==
  /\ m \in busy
  /\ Synced(m)
  /\ busy' = busy \ {m}
  /\ waits' = waits \ {m}
  /\ ended' = ended \cup {m}
  /\ UNCHANGED <<conf, run, noted, pc, queue, scan, up, changes>>

(* scanForGhosts lists each mirror's remote and reports; it deletes nothing. *)
Scan ==
  /\ \/ scan = "waiting" /\ waits = {} /\ scan' = "on"
     \/ scan = "on" /\ scan' = "done"
  /\ UNCHANGED <<conf, run, noted, copies, fresh, pc, queue, busy, waits, ended, up, changes>>

(* sync-now's own full syncs, one mirror (or the one asked for) after the     *)
(* other, then ghost cleanup (RemoteDelete).                                  *)
SyncAlone(m) ==
  /\ pc = "alone" /\ todo = {}
  /\ loaded[m] # NoRemote /\ m \notin ended
  /\ Synced(m)
  /\ ended' = ended \cup {m}
  /\ UNCHANGED <<conf, run, noted, pc, queue, busy, waits, scan, up, changes>>

(* Ctrl+C, service stop, sync-now's end, or a crash: what was queued is gone, *)
(* and so are the workers with the process.                                   *)
Stop ==
  /\ pc # "down"
  /\ IF pc = "alone" /\ ended # {} THEN UNCHANGED changes ELSE Bounded
  /\ pc' = "down"
  /\ Idle
  /\ loaded' = [m \in Mirrors |-> NoRemote]
  /\ todo' = {}
  /\ UNCHANGED <<conf, noted, copies, fresh, up>>

Next ==
  \/ Reach \/ Start \/ SyncNowAlone \/ Reconcile \/ Tick \/ Scan \/ Stop
  \/ \E m \in Mirrors :
       \/ Change(m) \/ SetRemote(m) \/ Unmirror(m)
       \/ Move(m) \/ MoveAndDie(m) \/ Note(m)
       \/ Take(m) \/ Finish(m) \/ SyncAlone(m)

Spec == Init /\ [][Next]_vars

(* The process goes on; the ticker fires; a worker takes what waits. *)
Fairness ==
  /\ WF_vars(Reconcile) /\ WF_vars(Tick) /\ WF_vars(Scan)
  /\ \A m \in Mirrors :
       WF_vars(Move(m)) /\ WF_vars(Note(m)) /\ WF_vars(Take(m)) /\ WF_vars(Finish(m))
FairSpec == Spec /\ Fairness
-------------------------------------------------------------------------------
TypeOK ==
  /\ remote \in [Mirrors -> Remotes \cup {NoRemote}]
  /\ loaded \in [Mirrors -> Remotes \cup {NoRemote}]
  /\ noted \in [Mirrors -> Remotes \cup {NoRemote}]
  /\ copies \subseteq Mirrors \X Remotes /\ fresh \subseteq copies
  /\ pc \in {"down", "starting", "alone", "running"}
  /\ queue \in [Mirrors -> 0..MaxQueue] /\ busy \subseteq Mirrors

(* SM-054: the startup ghost scan looks at the remotes only when a full sync  *)
(* of every mirror has ended in this process.                                 *)
ScanAfterSyncs == scan \in {"on", "done"} => Configured(loaded) \subseteq ended

(* Once the daemon stays up and the remotes are reachable, every mirror's     *)
(* files reach the remote it was started with, also after changes the watcher *)
(* did not see, after a move that failed or was cut short, and after crashes. *)
FilesArrive ==
  <>[](pc = "running" /\ up)
    => <>[](\A m \in Configured(loaded) : <<m, loaded[m]>> \in fresh)

(* cmdunmirror.go:120 "The remote files are NOT deleted": what unmirror left  *)
(* at a remote is still there until something is mirrored there again.        *)
UnmirroredKept == left \subseteq copies
===============================================================================
