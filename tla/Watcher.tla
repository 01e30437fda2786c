------------------------------- MODULE Watcher -------------------------------
(***************************************************************************)
(* The file watcher (internal/watcher/watcher.go): fsnotify events of one  *)
(* project tree become tasks of the queue.                                 *)
(*                                                                         *)
(* One goroutine, eventLoop, takes the events in order.  A created         *)
(* directory is first watched, with everything below it, and then listed,  *)
(* so that what was put into it before the watch existed is found.  A file *)
(* of a project with debounce_sec > 0 waits for its timer; the callback of *)
(* a timer runs in a goroutine of its own and takes the project's mutex.   *)
(* Meanwhile the user goes on changing files.                              *)
(*                                                                         *)
(* Timers are anonymous: a file has at most one entry in pending, whose    *)
(* timer is armed or spent (it fired, and its callback has not removed the *)
(* entry yet), and any number of armed timers that lost their entry to the *)
(* callback of an older one.                                               *)
(***************************************************************************)
EXTENDS Naturals, Sequences, FiniteSets

CONSTANTS
  Dirs, Files,   \* the paths of the tree; the directories include Root
  Root,          \* the project's LocalPath
  Above,         \* Above[p]: the directories p lies under
  Excluded,      \* what the filter excludes; it does not change here
  Oversize,      \* files over the size limit, or not regular
  Debounced,     \* files of projects with debounce_sec > 0
  Recursive,     \* supportsRecursiveWatch: TRUE on Windows only
  DeleteIgnored, \* the global delete policy is "ignore"
  Burst,         \* burstDeleteThreshold
  MaxOps         \* bound on the user's operations

Paths == Dirs \cup Files

\* Assumed of the constants: the paths are a tree, that is, the directories
\* above a path are in a line, the lowest is the one the path lies in, and from
\* each of them the next one down leads to the path.
WatcherAssumption ==
  /\ Dirs \cap Files = {} /\ Root \in Dirs
  /\ Above \in [Paths -> SUBSET Dirs] /\ Above[Root] = {}
  /\ \A p \in Paths \ {Root} :
       Root \in Above[p] /\ \E d \in Above[p] : Above[p] = Above[d] \cup {d}
  /\ \A p \in Paths : p \notin Above[p]
  /\ \A p \in Paths : \A d \in Above[p] : Above[d] \subseteq Above[p]
  /\ \A p \in Paths : \A d, e \in Above[p] : d = e \/ d \in Above[e] \/ e \in Above[d]
  /\ \A p \in Paths : \A d \in Above[p] :
       \E c \in Above[p] \cup {p} : Above[c] = Above[d] \cup {d}
  /\ Root \notin Excluded
  /\ \A p \in Paths : Above[p] \cap Excluded # {} => p \in Excluded
  /\ Recursive \in BOOLEAN /\ DeleteIgnored \in BOOLEAN

VARIABLES
  disk,       \* the paths that exist
  watched,    \* the directories with a watch of their own
  events,     \* fsnotify's channel: [op, path], oldest first
  loop,       \* the event loop: [at, root, todo], see Visit and List
  entry,      \* entry[f]: "none", "armed" or "spent", in pending
  strays,     \* strays[f]: armed timers without an entry
  called,     \* called[f]: callbacks that wait for the mutex
  passed,     \* passed[f]: callbacks that removed the entry, before Enqueue
  fullSync,   \* a full sync is queued
  deletes,    \* deleteCount of the present window
  sleepers,   \* goroutines that sleep burstReconcileDelay
  ctx,        \* "live", "done", or "clean" after timerCleanupLoop
  \* What no code keeps:
  stale,      \* files changed since a sync of theirs was last queued
  ops

loopVars == <<watched, events, loop>>
timerVars == <<entry, strays, called, passed>>
burstVars == <<deletes, sleepers>>
vars == <<disk, loopVars, timerVars, fullSync, burstVars, ctx, stale, ops>>

Under(d) == {p \in Paths : d \in Above[p]}
Parent(p) == CHOOSE d \in Above[p] : \A e \in Above[p] : e = d \/ e \in Above[d]
Watched(d) == Recursive \/ d \in watched
Idle == [at |-> "select", root |-> Root, todo |-> {}]
Walk(at, d) == [at |-> at, root |-> d, todo |-> {d}]

-----------------------------------------------------------------------------
\* The full sync of reconcileAll is queued before Start walks the tree, and
\* the engine starts after it (cmdStart).
Init ==
  /\ disk = {Root} /\ watched = {} /\ events = <<>>
  /\ loop = Walk("start", Root)
  /\ entry = [f \in Paths |-> "none"]
  /\ strays = [f \in Paths |-> 0]
  /\ called = [f \in Paths |-> 0]
  /\ passed = [f \in Paths |-> 0]
  /\ fullSync = TRUE
  /\ deletes = 0 /\ sleepers = 0
  /\ ctx = "live" /\ stale = {} /\ ops = 0

(* The user and the kernel. *)

Notify(op, p) ==
  events' = IF p # Root /\ Watched(Parent(p))
            THEN Append(events, [op |-> op, path |-> p]) ELSE events

Operate ==
  /\ ops < MaxOps /\ ops' = ops + 1
  /\ UNCHANGED <<loop, timerVars, fullSync, burstVars, ctx>>

Write(f) ==
  /\ Operate
  /\ f \in Files /\ Parent(f) \in disk
  /\ disk' = disk \cup {f}
  /\ stale' = stale \cup {f}
  /\ Notify(IF f \in disk THEN "write" ELSE "create", f)
  /\ UNCHANGED watched

\* A directory is made, or moved in together with what it holds.
MoveIn(d, contents) ==
  /\ Operate
  /\ d \in Dirs \ disk /\ Parent(d) \in disk
  /\ contents \subseteq Under(d)
  /\ \A p \in contents : Above[p] \cap Under(d) \subseteq contents
  /\ disk' = disk \cup {d} \cup contents
  /\ stale' = stale \cup (contents \cap Files)
  /\ Notify("create", d)
  /\ UNCHANGED watched

\* The kernel drops the watch of a directory that is gone.
Remove(p) ==
  /\ Operate
  /\ p \in disk \ {Root} /\ Under(p) \cap disk = {}
  /\ disk' = disk \ {p}
  /\ stale' = stale \ {p}
  /\ watched' = watched \ {p}
  /\ Notify("remove", p)

MoveOut(p) ==
  /\ Operate
  /\ p \in disk \ {Root}
  /\ disk' = disk \ ({p} \cup Under(p))
  /\ stale' = stale \ ({p} \cup Under(p))
  /\ watched' = watched \ ({p} \cup Under(p))
  /\ Notify("rename", p)
-----------------------------------------------------------------------------
(* Start and the walks over a tree. *)

Children(d) == {p \in disk \ Excluded : p # Root /\ Parent(p) = d}

\* addRecursive, one directory: the watch is added before the entries are read.
Visit(d) ==
  /\ loop.at \in {"start", "watch"} /\ d \in loop.todo
  /\ loop' = [loop EXCEPT !.todo = (@ \ {d}) \cup
                 (IF d \in disk \ Excluded THEN Children(d) \cap Dirs ELSE {})]
  /\ watched' = IF d \in disk \ Excluded THEN watched \cup {d} ELSE watched
  /\ UNCHANGED <<disk, events, timerVars, fullSync, burstVars, ctx, stale, ops>>

\* Start returns: now the engine and the event loop run.
Started ==
  /\ loop.at = "start" /\ loop.todo = {}
  /\ loop' = Idle
  /\ UNCHANGED <<disk, watched, events, timerVars, fullSync, burstVars, ctx,
                 stale, ops>>

\* Mutant of Watching: the directory is listed before it is watched.
ListFirst ==
  /\ loop.at = "watch" /\ loop.todo = {}
  /\ loop' = Idle
  /\ UNCHANGED <<disk, watched, events, timerVars, fullSync, burstVars, ctx,
                 stale, ops>>

\* The tree is watched; queueFilesInDir lists it.
Watching ==
  /\ loop.at = "watch" /\ loop.todo = {}
  /\ loop' = Walk("list", loop.root)
  /\ UNCHANGED <<disk, watched, events, timerVars, fullSync, burstVars, ctx,
                 stale, ops>>

\* queueFilesInDir, one directory: its files are queued at once.
List(d) ==
  /\ loop.at = "list" /\ d \in loop.todo
  /\ IF d \in disk \ Excluded
     THEN /\ loop' = [loop EXCEPT !.todo = (@ \ {d}) \cup (Children(d) \cap Dirs)]
          /\ stale' = stale \ (Children(d) \ Oversize)
     ELSE /\ loop' = [loop EXCEPT !.todo = @ \ {d}]
          /\ UNCHANGED stale
  /\ UNCHANGED <<disk, watched, events, timerVars, fullSync, burstVars, ctx, ops>>

Listed ==
  /\ loop.at = "list" /\ loop.todo = {}
  /\ loop' = Idle
  /\ UNCHANGED <<disk, watched, events, timerVars, fullSync, burstVars, ctx,
                 stale, ops>>
-----------------------------------------------------------------------------
(* eventLoop *)

Take(op) ==
  /\ loop.at = "select" /\ events # <<>> /\ Head(events).op \in op
  /\ events' = Tail(events)

\* Reset of the pending timer, or AfterFunc.
Arm(f) == entry' = [entry EXCEPT ![f] = "armed"]

\* handleEvent, Create and Write of anything but a directory.  An Lstat that
\* fails rejects nothing.
Accepted(p) == p \notin Excluded /\ ~(p \in disk /\ p \in Oversize)

HandleFile ==
  /\ Take({"create", "write"})
  /\ LET e == Head(events)
     IN /\ ~(e.op = "create" /\ e.path \in Dirs \cap disk)
        /\ IF ~Accepted(e.path) THEN UNCHANGED <<entry, stale>>
           ELSE IF e.path \in Debounced THEN Arm(e.path) /\ UNCHANGED stale
           ELSE stale' = stale \ {e.path} /\ UNCHANGED entry
  /\ UNCHANGED <<disk, watched, loop, strays, called, passed, fullSync, burstVars,
                 ctx, ops>>

\* handleEvent, Create of a directory.
HandleDir ==
  /\ Take({"create"})
  /\ LET d == Head(events).path
     IN /\ d \in Dirs \cap disk
        /\ loop' = Walk(IF Recursive THEN "list" ELSE "watch", d)
  /\ UNCHANGED <<disk, watched, timerVars, fullSync, burstVars, ctx, stale, ops>>

\* The entries a Remove or Rename of p clears.
Cancelled(p) == {p} \cup Under(p)

StopTimers(p) ==
  entry' = [f \in Paths |-> IF f \in Cancelled(p) THEN "none" ELSE entry[f]]

Unwatch(p) ==
  watched' = IF Recursive THEN watched ELSE watched \ ({p} \cup Under(p))

\* trackDeleteBurst within a window; a count beyond the threshold does nothing.
Count ==
  /\ deletes' = IF deletes <= Burst THEN deletes + 1 ELSE deletes
  /\ sleepers' = IF deletes' = Burst THEN sleepers + 1 ELSE sleepers

\* handleRemove; that the delete task is queued shows in no variable here.
HandleRemove ==
  /\ Take({"remove"})
  /\ LET p == Head(events).path
     IN /\ Unwatch(p) /\ StopTimers(p)
        /\ IF ~DeleteIgnored /\ p \in Excluded THEN UNCHANGED burstVars ELSE Count
  /\ UNCHANGED <<disk, loop, strays, called, passed, fullSync, ctx, stale, ops>>

\* handleRename
HandleRename ==
  /\ Take({"rename"})
  /\ LET p == Head(events).path IN Unwatch(p) /\ StopTimers(p)
  /\ UNCHANGED <<disk, loop, strays, called, passed, fullSync, burstVars, ctx,
                 stale, ops>>

\* case <-ctx.Done(): the loop may take it while events wait.
Quit ==
  /\ loop.at = "select" /\ ctx # "live"
  /\ loop' = [Idle EXCEPT !.at = "quit"]
  /\ UNCHANGED <<disk, watched, events, timerVars, fullSync, burstVars, ctx,
                 stale, ops>>
-----------------------------------------------------------------------------
(* The timers and their callbacks. *)

FireEntry(f) ==
  /\ entry[f] = "armed"
  /\ entry' = [entry EXCEPT ![f] = "spent"]
  /\ called' = [called EXCEPT ![f] = @ + 1]
  /\ UNCHANGED <<disk, loopVars, strays, passed, fullSync, burstVars, ctx, stale, ops>>

FireStray(f) ==
  /\ strays[f] > 0
  /\ strays' = [strays EXCEPT ![f] = @ - 1]
  /\ called' = [called EXCEPT ![f] = @ + 1]
  /\ UNCHANGED <<disk, loopVars, entry, passed, fullSync, burstVars, ctx, stale, ops>>

\* The callback removes the path's entry, be it its own or a newer timer's.
RemoveEntry(f) ==
  /\ called[f] > 0
  /\ called' = [called EXCEPT ![f] = @ - 1]
  /\ passed' = [passed EXCEPT ![f] = @ + 1]
  /\ strays' = IF entry[f] = "armed" THEN [strays EXCEPT ![f] = @ + 1] ELSE strays
  /\ entry' = [entry EXCEPT ![f] = "none"]
  /\ UNCHANGED <<disk, loopVars, fullSync, burstVars, ctx, stale, ops>>

EnqueueFile(f) ==
  /\ passed[f] > 0
  /\ passed' = [passed EXCEPT ![f] = @ - 1]
  /\ stale' = stale \ {f}
  /\ UNCHANGED <<disk, loopVars, entry, strays, called, fullSync, burstVars, ctx, ops>>

\* The rolling window of trackDeleteBurst ends.
CloseWindow ==
  /\ deletes > 0
  /\ deletes' = 0
  /\ UNCHANGED <<disk, loopVars, timerVars, fullSync, sleepers, ctx, stale, ops>>

\* The delay of 30 s outlasts the window of 5 s.
Accelerate ==
  /\ sleepers > 0 /\ deletes < Burst
  /\ sleepers' = sleepers - 1
  /\ fullSync' = TRUE
  /\ UNCHANGED <<disk, loopVars, timerVars, deletes, ctx, stale, ops>>

\* Mutant of SyncAll: the engine starts before the tree is watched.
SyncAllEarly ==
  /\ fullSync
  /\ fullSync' = FALSE
  /\ stale' = {}
  /\ UNCHANGED <<disk, loopVars, timerVars, burstVars, ctx, ops>>

\* A worker runs the full sync: it copies whatever is there.
SyncAll ==
  /\ fullSync /\ loop.at # "start"
  /\ fullSync' = FALSE
  /\ stale' = {}
  /\ UNCHANGED <<disk, loopVars, timerVars, burstVars, ctx, ops>>

Cancel ==
  /\ ctx = "live" /\ loop.at # "start"
  /\ ctx' = "done"
  /\ UNCHANGED <<disk, loopVars, timerVars, fullSync, burstVars, stale, ops>>

\* timerCleanupLoop
CleanTimers ==
  /\ ctx = "done"
  /\ ctx' = "clean"
  /\ entry' = [f \in Paths |-> "none"]
  /\ UNCHANGED <<disk, loopVars, strays, called, passed, fullSync, burstVars, stale, ops>>

User ==
  \/ \E f \in Files : Write(f)
  \/ \E d \in Dirs : \E contents \in SUBSET Under(d) : MoveIn(d, contents)
  \/ \E p \in Paths : Remove(p)
  \/ \E p \in Paths : MoveOut(p)

Loop ==
  \/ \E d \in Dirs : Visit(d)
  \/ Started
  \/ Watching
  \/ \E d \in Dirs : List(d)
  \/ Listed
  \/ HandleFile
  \/ HandleDir
  \/ HandleRemove
  \/ HandleRename

Timer(f) == FireEntry(f) \/ FireStray(f) \/ RemoveEntry(f) \/ EnqueueFile(f)

Next ==
  \/ User
  \/ Loop
  \/ Quit
  \/ \E f \in Paths : Timer(f)
  \/ CloseWindow
  \/ Accelerate
  \/ SyncAll
  \/ Cancel
  \/ CleanTimers

Spec == Init /\ [][Next]_vars

(***************************************************************************)
(* Fairness.  The event loop goes on, timers fire and their callbacks get  *)
(* the mutex, time passes, and a worker runs the full syncs.  The user     *)
(* owes nothing.                                                           *)
(***************************************************************************)
FairSpec ==
  /\ Spec
  /\ WF_vars(Loop)
  /\ \A f \in Paths : WF_vars(Timer(f))
  /\ WF_vars(CloseWindow) /\ WF_vars(Accelerate)
-----------------------------------------------------------------------------
TypeOK ==
  /\ disk \subseteq Paths /\ watched \subseteq Dirs
  /\ events \in Seq([op : {"create", "write", "remove", "rename"}, path : Paths])
  /\ loop \in [at : {"start", "watch", "list", "select", "quit"},
               root : Dirs, todo : SUBSET Dirs]
  /\ entry \in [Paths -> {"none", "armed", "spent"}]
  /\ strays \in [Paths -> Nat]
  /\ called \in [Paths -> Nat]
  /\ passed \in [Paths -> Nat]
  /\ fullSync \in BOOLEAN /\ deletes \in Nat /\ sleepers \in Nat
  /\ ctx \in {"live", "done", "clean"}
  /\ stale \subseteq Files /\ ops \in Nat

Created(p) == \E i \in DOMAIN events : events[i].op = "create" /\ events[i].path = p

\* The events, or the walk under way, still lead to p.
Coming(p) ==
  \/ \E d \in Above[p] : Created(d)
  \/ loop.at = "watch" /\ loop.root \in Above[p]
  \/ loop.at = "list" /\ loop.todo \cap Above[p] # {}

\* A directory that lies deeper than in Root has lost its watch: the event of
\* an earlier directory of its path was handled after it was watched.
Forgotten(f) == \E d \in Above[f] : ~Watched(d) /\ Above[d] \ {Root} # {}

\* No change of a file is lost between the kernel and the queue: until its
\* task is queued, an event, a walk, a timer or a callback leads to it, unless
\* a directory above it is forgotten.  The races are those of a directory
\* filled while its watch is being added, of late events about what has been
\* made again, and of a timer Reset after it fired.
ChangeCovered ==
  ctx = "live" =>
    \A f \in stale \ (Excluded \cup Oversize) :
      \/ fullSync
      \/ \E i \in DOMAIN events :
           events[i].op \in {"create", "write"} /\ events[i].path = f
      \/ Coming(f)
      \/ entry[f] = "armed" \/ strays[f] + called[f] + passed[f] > 0
      \/ Forgotten(f)

\* So every change is queued once the user stops (he stops after MaxOps).
ChangesQueued ==
  \A f \in Files \ (Excluded \cup Oversize) :
    f \in stale ~> f \notin stale \/ fullSync \/ ctx # "live" \/ Forgotten(f)

\* handleEvent's "manually add new subdirectories": with no event left, every
\* directory is watched.  The code forgets one (wa_forgotten.cfg).
NoneForgotten ==
  ctx = "live" /\ events = <<>> /\ loop.at = "select" =>
    \A d \in (disk \cap Dirs) \ Excluded : Watched(d)
=============================================================================
