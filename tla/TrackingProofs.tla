-------------------------- MODULE TrackingProofs ---------------------------
(***************************************************************************)
(* Theorems about the components that keep track of something: the rules   *)
(* of .syncignore, the mirrors that a scan waits for, and the tree that a  *)
(* watcher watches.                                                        *)
(***************************************************************************)
EXTENDS LivenessParts, Integers, Sequences, TLAPS

-----------------------------------------------------------------------------
(***************************************************************************)
(* RcloneAgrees, for all files and all lists of rules.  A rule whose       *)
(* meaning the translation keeps applies to the same files in both         *)
(* readings (SameFiles).  Then the order decides (RulesAgree): rclone      *)
(* takes the first line that matches, from a list in which the rules are   *)
(* reversed and some excluding ones hoisted.                               *)
(***************************************************************************)

\* Rule i of the merged list, when it is hoisted, excludes.
LEMMA HoistedExcludes ==
  ASSUME Filter!RulesAssumption, NEW rs \in Seq(Filter!Rule),
         NEW i \in DOMAIN Filter!Merged(rs), Filter!Hoisted(i)
  PROVE  ~Filter!Merged(rs)[i].neg
BY DEF Filter!RulesAssumption, Filter!Merged, Filter!Hoisted

LEMMA Indices ==
  ASSUME Filter!RulesAssumption, NEW rs \in Seq(Filter!Rule)
  PROVE  DOMAIN Filter!Merged(rs) \subseteq Nat
BY DEF Filter!RulesAssumption, Filter!Merged

\* With the same anchor a pattern fits at the same depths; one that fits the
\* file itself, or is for directories and excludes, is taken alike.
LEMMA SameFiles ==
  ASSUME NEW r, NEW f, ~Filter!Mistranslates(r, f)
  PROVE  Filter!LineMatches(r, f) <=> Filter!Matches(r, f)
<1> DEFINE Either == Filter!Matches(r, f) \/ Filter!LineMatches(r, f)
<1>1. CASE ~Either
  BY <1>1
<1>2. CASE Either
  <2>1. /\ Filter!Anchored(r) => r.root
        /\ ~(r.dir /\ r.neg)
        /\ ~r.dir => Len(f) \in Filter!Fits(r, f, r.root)
    BY <1>2 DEF Filter!Mistranslates
  <2>2. Filter!Fits(r, f, Filter!Anchored(r)) = Filter!Fits(r, f, r.root)
    BY <2>1 DEF Filter!Fits, Filter!Anchored
  <2>3. CASE r.dir
    BY <2>1, <2>2, <2>3 DEF Filter!Matches, Filter!LineMatches
  <2>4. CASE ~r.dir
    BY <1>2, <2>1, <2>2, <2>4 DEF Filter!Matches, Filter!LineMatches
  <2> QED BY <2>3, <2>4
<1> QED BY <1>1, <1>2

LEMMA RulesAgree ==
  ASSUME Filter!RulesAssumption, NEW rs \in Seq(Filter!Rule)
  PROVE  Filter!Agrees(rs)
<1> SUFFICES ASSUME NEW f \in fr_Files \ fr_Nested,
                    ~Filter!Mistranslated(rs, f), ~Filter!Shadowed(rs, f)
             PROVE  Filter!IsExcluded(rs, f) <=> Filter!RcloneExcludes(rs, f)
  BY DEF Filter!Agrees
<1> DEFINE D == DOMAIN Filter!Merged(rs)
           M(i) == Filter!Matches(Filter!Merged(rs)[i], f)
           N(i) == Filter!Merged(rs)[i].neg
<1>1. \A i \in D : Filter!Hoisted(i) => ~N(i)
  BY HoistedExcludes
<1>2. \A i \in D : Filter!LineMatches(Filter!Merged(rs)[i], f) <=> M(i)
  BY SameFiles DEF Filter!Mistranslated
<1>3. \A i, j \in D : Filter!Hoisted(i) /\ M(i) /\ M(j) => ~N(j)
  BY DEF Filter!Shadowed
<1>4. D \subseteq Nat
  BY Indices
\* Up to rules that exclude anyway, the order of the lines is that of the
\* rules reversed.
<1>5. ASSUME NEW i \in D, M(i), ~N(i)
      PROVE  (\A j \in D : j > i /\ M(j) => ~N(j))
               <=> (\A j \in D : Filter!Before(j, i) /\ M(j) => ~N(j))
  <2>1. CASE Filter!Hoisted(i)
    BY <1>3, <1>5, <2>1
  <2>2. CASE ~Filter!Hoisted(i)
    BY <1>1, <2>2 DEF Filter!Before
  <2> QED BY <2>1, <2>2
<1>6. Filter!IsExcluded(rs, f)
        <=> f \in fr_Control \/ \E i \in D : /\ M(i) /\ ~N(i)
                                          /\ \A j \in D : j > i /\ M(j) => ~N(j)
  BY DEF Filter!IsExcluded
<1>7. Filter!RcloneExcludes(rs, f)
        <=> f \in fr_Control \/ \E i \in D : /\ M(i) /\ ~N(i)
                                          /\ \A j \in D :
                                            Filter!Before(j, i) /\ M(j) => ~N(j)
  BY <1>2 DEF Filter!RcloneExcludes
<1> QED BY <1>5, <1>6, <1>7

Reloads == [at : {"free", "read", "confirm", "commit", "notify"},
            new : fr_Contents]

RulesInv ==
  /\ fr_rules \in Seq(Filter!Rule)
  /\ fr_file \in fr_Contents
  /\ fr_reload \in [Filter!Slots -> Reloads]

LEMMA InitRules == ASSUME Filter!RulesAssumption, Filter!Init PROVE RulesInv
  BY DEF Filter!RulesAssumption, Filter!Init, RulesInv, Reloads, Filter!NoReload

LEMMA StepRules ==
  ASSUME Filter!RulesAssumption, RulesInv, [Filter!Next]_Filter!vars
  PROVE  RulesInv'
<1> USE DEF Filter!RulesAssumption, RulesInv, Filter!fileVars, Filter!filterVars
<1>1. ASSUME NEW c \in fr_Contents, Filter!Edit(c)
      PROVE  RulesInv'
  BY <1>1 DEF Filter!Edit
<1>2. CASE Filter!Delete
  BY <1>2 DEF Filter!Delete
<1>3. ASSUME NEW s \in Filter!Slots,
             \/ Filter!Fire(s) \/ Filter!Notify(s)
             \/ \E c \in fr_Contents, ok \in BOOLEAN :
                  Filter!Read(s, c, ok) \/ Filter!Confirm(s, c, ok)
      PROVE  RulesInv'
  <2>1. Filter!NoReload \in Reloads
    BY DEF Filter!NoReload, Reloads
  <2>2. CASE Filter!Fire(s)
    BY <2>2 DEF Filter!Fire, Reloads
  <2>3. ASSUME NEW c \in fr_Contents, NEW ok \in BOOLEAN, Filter!Read(s, c, ok)
        PROVE  RulesInv'
    <3>1. ASSUME NEW a \in {"confirm", "commit"}
          PROVE  [at |-> a, new |-> c] \in Reloads
      BY DEF Reloads
    <3> QED BY <2>1, <2>3, <3>1 DEF Filter!Read
  <2>4. ASSUME NEW c \in fr_Contents, NEW ok \in BOOLEAN,
               Filter!Confirm(s, c, ok)
        PROVE  RulesInv'
    <3>1. [fr_reload[s] EXCEPT !.at = "commit"] \in Reloads
      BY DEF Reloads
    <3> QED BY <2>1, <2>4, <3>1 DEF Filter!Confirm
  <2>5. CASE Filter!Notify(s)
    BY <2>1, <2>5 DEF Filter!Notify
  <2> QED BY <1>3, <2>2, <2>3, <2>4, <2>5
<1>4. ASSUME NEW s \in Filter!Slots, Filter!Commit(s)
      PROVE  RulesInv'
  <2>1. fr_rules' \in Seq(Filter!Rule) /\ fr_file' = fr_file
    BY <1>4 DEF Filter!Commit, Reloads
  <2>2. CASE fr_reload' =
               [fr_reload EXCEPT ![s] = [Filter!NoReload EXCEPT !.at = "notify"]]
    BY <2>1, <2>2 DEF Filter!NoReload, Reloads
  <2>3. CASE fr_reload' = [fr_reload EXCEPT ![s] = Filter!NoReload]
    BY <2>1, <2>3 DEF Filter!NoReload, Reloads
  <2> QED BY <1>4, <2>2, <2>3 DEF Filter!Commit
<1>5. CASE \/ Filter!Cleaning \/ Filter!Full \/ Filter!Reconcile
           \/ (\E f \in fr_Files : Filter!BeginSingle(f) \/ Filter!EndSingle(f))
  BY <1>5
     DEF Filter!Cleaning, Filter!Full, Filter!Reconcile, Filter!BeginSingle,
         Filter!EndSingle, Filter!Scan, Filter!DeleteLeak, Filter!Cleaned,
              Filter!BeginFull, Filter!Generate, Filter!Check, Filter!Copy
<1>6. CASE UNCHANGED Filter!vars
  BY <1>6 DEF Filter!vars
<1> QED
  BY <1>1, <1>2, <1>3, <1>4, <1>5, <1>6 DEF Filter!Next, Filter!Reloading

\* ToRcloneFilter against IsExcluded: whatever is edited, read in vain and
\* reloaded, the rules in force exclude for rclone what they exclude for the
\* daemon, of every file that no rule with another meaning for rclone is about.
THEOREM BothFiltersAgree ==
  Filter!Spec => []RcloneAgrees
<1> USE LivenessPartsAssumption
<1>1. Filter!Init => RulesInv
  BY InitRules
<1>2. RulesInv /\ [Filter!Next]_Filter!vars => RulesInv'
  BY StepRules
<1>3. RulesInv => Filter!RcloneAgrees
  BY RulesAgree DEF RulesInv, Filter!RcloneAgrees
<1> QED BY <1>1, <1>2, <1>3, PTL DEF Filter!Spec, RcloneAgrees

-----------------------------------------------------------------------------
(***************************************************************************)
(* ScanAfterSyncs, for any mirrors, remotes and number of restarts.        *)
(***************************************************************************)

DaemonTypes ==
  /\ dm_pc \in {"down", "starting", "alone", "running"}
  /\ dm_scan \in {"off", "waiting", "on", "done"}
  /\ dm_waits \subseteq dm_Mirrors

\* What one process did is not known to the next: nothing is under way and
\* nothing has ended when a process begins.
FreshStart ==
  /\ dm_pc # "running" => dm_busy = {} /\ dm_waits = {} /\ dm_scan = "off"
  /\ dm_pc \in {"down", "starting"} \/ dm_todo # {} => dm_ended = {}
  /\ dm_pc = "running" => dm_scan # "off"
  /\ dm_pc \in {"down", "running"} => dm_todo = {}

\* The scan waits for every configured mirror whose first sync has not ended.
Waited ==
  /\ dm_scan = "waiting" =>
       Daemons!Configured(dm_loaded) \subseteq dm_waits \cup dm_ended
  /\ dm_scan \in {"on", "done"} => Daemons!Configured(dm_loaded) \subseteq dm_ended

DaemonInv == DaemonTypes /\ FreshStart /\ Waited

LEMMA InitDaemon == Daemons!Init => DaemonInv
  BY DEF Daemons!Init, DaemonInv, DaemonTypes, FreshStart, Waited

LEMMA StepDaemon == ASSUME DaemonInv, [Daemons!Next]_Daemons!vars PROVE DaemonInv'
<1> USE DEF DaemonInv, DaemonTypes, FreshStart, Daemons!conf, Daemons!run,
            Daemons!work
<1>1. CASE \/ Daemons!Reach
           \/ \E m \in dm_Mirrors :
                Daemons!Change(m) \/ Daemons!SetRemote(m) \/ Daemons!Unmirror(m)
  BY <1>1
     DEF Daemons!Reach, Daemons!Change, Daemons!SetRemote, Daemons!Unmirror, Waited,
         Daemons!Configured
<1>2. CASE Daemons!Start \/ Daemons!SyncNowAlone
  BY <1>2
     DEF Daemons!Start, Daemons!SyncNowAlone, Daemons!Load, Waited,
         Daemons!Configured
<1>3. ASSUME NEW m \in dm_Mirrors, Daemons!Move(m) \/ Daemons!Note(m)
      PROVE  DaemonInv'
  BY <1>3
     DEF Daemons!Move, Daemons!Note, Daemons!Migrating, Waited, Daemons!Configured
<1>4. ASSUME NEW m \in dm_Mirrors, Daemons!MoveAndDie(m)
      PROVE  DaemonInv'
  BY <1>4 DEF Daemons!MoveAndDie, Daemons!Migrating, Waited, Daemons!Configured
<1>5. CASE Daemons!Reconcile
  BY <1>5 DEF Daemons!Reconcile, Daemons!HeldBack, Waited, Daemons!Configured
<1>6. CASE Daemons!Tick
  BY <1>6 DEF Daemons!Tick, Waited, Daemons!Configured
<1>7. ASSUME NEW m \in dm_Mirrors, Daemons!Take(m)
      PROVE  DaemonInv'
  BY <1>7 DEF Daemons!Take, Waited, Daemons!Configured
<1>8. ASSUME NEW m \in dm_Mirrors, Daemons!Finish(m)
      PROVE  DaemonInv'
  BY <1>8 DEF Daemons!Finish, Waited, Daemons!Configured
<1>9. CASE Daemons!Scan
  BY <1>9 DEF Daemons!Scan, Waited, Daemons!Configured
<1>10. ASSUME NEW m \in dm_Mirrors, Daemons!SyncAlone(m)
      PROVE  DaemonInv'
  BY <1>10 DEF Daemons!SyncAlone, Waited, Daemons!Configured
<1>11. CASE Daemons!Stop
  BY <1>11 DEF Daemons!Stop, Daemons!Idle, Waited, Daemons!Configured
<1>12. CASE UNCHANGED Daemons!vars
  BY <1>12 DEF Daemons!vars, Waited, Daemons!Configured
<1> QED
  BY <1>1, <1>2, <1>3, <1>4, <1>5, <1>6, <1>7, <1>8, <1>9, <1>10, <1>11, <1>12
     DEF Daemons!Next

\* SM-054: in every process the startup ghost scan waits for a full sync of every
\* configured mirror, whatever the processes before it did, one that was killed in
\* the middle of a migration included.
THEOREM ScansAfterSyncs == Daemons!Spec => []ScanAfterSyncs
<1>1. DaemonInv => Daemons!ScanAfterSyncs
  BY DEF DaemonInv, Waited, Daemons!ScanAfterSyncs
<1> QED BY <1>1, InitDaemon, StepDaemon, PTL DEF Daemons!Spec, ScanAfterSyncs

-----------------------------------------------------------------------------
(***************************************************************************)
(* ChangeCovered, for every tree.  What leads to a changed file: its event *)
(* is queued, or that of a directory above it; a walk is to list it; a     *)
(* timer or a callback of the debouncer holds it; or a directory above it  *)
(* is not watched.  The invariant says of each that no event queued behind *)
(* it takes it back (Led), and of the directories in the root that they    *)
(* are watched or going to be (FlatWatched): only one that lies deeper can *)
(* lose its watch.                                                         *)
(***************************************************************************)

\* Nothing tells of the root itself.
Event ==
  [op : {"create", "write", "remove", "rename"}, path : Watching!Paths \ {wa_Root}]

\* The events that lead to p, and those that make the loop forget p.
LeadTo(p) ==
  {e \in Event : \/ e.op \in {"create", "write"} /\ e.path = p
                 \/ e.op = "create" /\ e.path \in wa_Above[p]}
Making(d) == {[op |-> "create", path |-> d]}
Ending(p) ==
  {e \in Event : e.op \in {"remove", "rename"} /\ e.path \in wa_Above[p] \cup {p}}

\* An event of S is queued and none of E after it; or none of E at all.
Last(S, E) ==
  \E i \in DOMAIN wa_events :
    wa_events[i] \in S /\ \A j \in DOMAIN wa_events : j > i => wa_events[j] \notin E
Free(E) == \A j \in DOMAIN wa_events : wa_events[j] \notin E

WatchTypes ==
  /\ wa_disk \subseteq Watching!Paths /\ wa_watched \subseteq wa_Dirs
  /\ wa_events \in Seq(Event)
  /\ wa_loop \in [at : {"start", "watch", "list", "select", "quit"},
               root : wa_Dirs, todo : SUBSET wa_Dirs]
  /\ wa_entry \in [Watching!Paths -> {"none", "armed", "spent"}]
  /\ wa_strays \in [Watching!Paths -> Nat]
  /\ wa_called \in [Watching!Paths -> Nat]
  /\ wa_passed \in [Watching!Paths -> Nat]

\* What is on the disk lies in directories that are there; a walk stays below
\* its root; until Start is done a full sync is queued; and the root is watched
\* before anything else.
Places ==
  /\ wa_Root \in wa_disk /\ \A p \in wa_disk : wa_Above[p] \subseteq wa_disk
  /\ wa_stale \subseteq wa_disk \cap wa_Files
  /\ wa_loop.at \in {"watch", "list"} =>
       wa_loop.todo \subseteq {wa_loop.root} \cup Watching!Under(wa_loop.root)
  /\ wa_loop.at = "start" => wa_fullSync
  /\ \/ Watching!Watched(wa_Root)
     \/ /\ wa_loop.at = "start" /\ wa_loop.todo = {wa_Root} /\ wa_watched = {}
        /\ wa_events = <<>>

Walking(f) ==
  \/ wa_loop.at = "watch" /\ wa_loop.root \in wa_Above[f]
  \/ wa_loop.at = "list" /\ wa_loop.todo \cap wa_Above[f] # {}

\* What leads to a changed file is not undone by an event before it is used.
Led(f) ==
  \/ wa_fullSync
  \/ wa_strays[f] + wa_called[f] + wa_passed[f] > 0
  \/ Walking(f)
  \/ Last(LeadTo(f), Ending(f))
  \/ wa_entry[f] = "armed" /\ Free(Ending(f))
  \/ \E d \in wa_Above[f] : ~Watching!Watched(d)

AllLed ==
  wa_ctx = "live" => \A f \in wa_stale \ (wa_Excluded \cup wa_Oversize) : Led(f)

\* A directory in the root is watched, or will be.
Held(d) ==
  /\ Free(Ending(d))
  /\ \/ Watching!Watched(d)
     \/ wa_loop.at \in {"start", "watch"} /\ d \in wa_loop.todo
     \/ wa_loop.at = "start" /\ wa_Root \in wa_loop.todo

FlatWatched ==
  \A d \in (wa_Dirs \cap wa_disk) \ wa_Excluded :
    wa_Above[d] = {wa_Root} => Held(d) \/ Last(Making(d), Ending(d))

WatchInv == WatchTypes /\ Places /\ AllLed /\ FlatWatched

LEMMA Tree ==
  ASSUME Watching!WatcherAssumption, NEW p \in Watching!Paths
  PROVE  /\ wa_Above[p] \subseteq wa_Dirs /\ wa_Dirs \subseteq Watching!Paths
         /\ p \notin wa_Above[p]
         /\ \A d \in wa_Above[p] : wa_Above[d] \subseteq wa_Above[p]
         /\ wa_Above[p] \cap wa_Excluded # {} => p \in wa_Excluded
         /\ p # wa_Root => wa_Root \in wa_Above[p]
         /\ wa_Above[wa_Root] = {} /\ wa_Root \in wa_Dirs
         /\ wa_Root \in Watching!Paths
BY DEF Watching!WatcherAssumption, Watching!Paths

LEMMA ParentOf ==
  ASSUME Watching!WatcherAssumption, NEW p \in Watching!Paths \ {wa_Root}
  PROVE  /\ Watching!Parent(p) \in wa_Above[p]
         /\ wa_Above[p] = wa_Above[Watching!Parent(p)] \cup {Watching!Parent(p)}
<1>1. PICK d \in wa_Above[p] : wa_Above[p] = wa_Above[d] \cup {d}
  BY DEF Watching!WatcherAssumption
<1>2. \A e \in wa_Above[p] : e = d \/ e \in wa_Above[d]
  BY <1>1
<1>3. /\ Watching!Parent(p) \in wa_Above[p]
      /\ \A e \in wa_Above[p] :
           e = Watching!Parent(p) \/ e \in wa_Above[Watching!Parent(p)]
  BY <1>1, <1>2 DEF Watching!Parent
<1>4. d \in Watching!Paths /\ Watching!Parent(p) \in Watching!Paths
  BY <1>1, <1>3, Tree
<1>5. Watching!Parent(p) = d
  BY <1>1, <1>2, <1>3, <1>4, Tree
<1> QED BY <1>1, <1>5

LEMMA ChildOf ==
  ASSUME Watching!WatcherAssumption, NEW c \in Watching!Paths,
         NEW d \in Watching!Paths, wa_Above[c] = wa_Above[d] \cup {d}
  PROVE  c # wa_Root /\ Watching!Parent(c) = d
<1>1. c # wa_Root
  BY Tree
<1>2. /\ Watching!Parent(c) \in wa_Above[c]
      /\ wa_Above[c] = wa_Above[Watching!Parent(c)] \cup {Watching!Parent(c)}
  BY <1>1, ParentOf
<1>3. Watching!Parent(c) \in Watching!Paths
  BY <1>2, Tree
<1> QED BY <1>1, <1>2, <1>3, Tree

\* The queue of events.
LEMMA Appending ==
  ASSUME wa_events \in Seq(Event), NEW e \in Event,
         wa_events' = Append(wa_events, e)
  PROVE  /\ wa_events' \in Seq(Event)
         /\ \A S : e \in S => \A E : Last(S, E)'
         /\ \A E : e \notin E => (Free(E) => Free(E)')
         /\ \A S, E : e \notin E => (Last(S, E) => Last(S, E)')
<1>1. /\ Len(wa_events) \in Nat /\ Len(wa_events') = Len(wa_events) + 1
      /\ \A i \in 1..Len(wa_events) : wa_events'[i] = wa_events[i]
      /\ wa_events'[Len(wa_events) + 1] = e
      /\ DOMAIN wa_events = 1..Len(wa_events)
      /\ DOMAIN wa_events' = 1..(Len(wa_events) + 1)
      /\ wa_events' \in Seq(Event)
  OBVIOUS
<1> QED BY <1>1 DEF Last, Free

LEMMA Taking ==
  ASSUME wa_events \in Seq(Event), wa_events # <<>>, wa_events' = Tail(wa_events)
  PROVE  /\ wa_events' \in Seq(Event) /\ Head(wa_events) \in Event
         /\ \A E : Free(E) => Free(E)' /\ Head(wa_events) \notin E
         /\ \A S, E : Last(S, E) =>
              Last(S, E)' \/ (Head(wa_events) \in S /\ Free(E)')
<1>1. /\ Len(wa_events) \in Nat \ {0} /\ Head(wa_events) = wa_events[1]
      /\ Head(wa_events) \in Event
      /\ \A i \in 1..(Len(wa_events) - 1) : wa_events'[i] = wa_events[i + 1]
      /\ DOMAIN wa_events = 1..Len(wa_events)
      /\ DOMAIN wa_events' = 1..(Len(wa_events) - 1)
      /\ wa_events' \in Seq(Event)
  OBVIOUS
<1>2. ASSUME NEW E, Free(E)
      PROVE  Free(E)' /\ Head(wa_events) \notin E
  BY <1>1, <1>2 DEF Free
<1>3. ASSUME NEW S, NEW E, Last(S, E)
      PROVE  Last(S, E)' \/ (Head(wa_events) \in S /\ Free(E)')
  <2>1. PICK i \in 1..Len(wa_events) :
          /\ wa_events[i] \in S
          /\ \A j \in 1..Len(wa_events) : j > i => wa_events[j] \notin E
    BY <1>1, <1>3 DEF Last
  <2>2. CASE i = 1
    BY <1>1, <2>1, <2>2 DEF Free
  <2>3. CASE i # 1
    <3>1. i - 1 \in 1..(Len(wa_events) - 1) /\ wa_events'[i - 1] \in S
      BY <1>1, <2>1, <2>3
    <3>2. \A j \in 1..(Len(wa_events) - 1) : j > i - 1 => wa_events'[j] \notin E
      BY <1>1, <2>1
    <3> QED BY <1>1, <3>1, <3>2 DEF Last
  <2> QED BY <2>2, <2>3
<1> QED BY <1>1, <1>2, <1>3

LEMMA Telling ==
  ASSUME WatchTypes, NEW op \in {"create", "write", "remove", "rename"},
         NEW p \in Watching!Paths, Watching!Notify(op, p)
  PROVE  /\ wa_events' \in Seq(Event)
         /\ p # wa_Root /\ Watching!Watched(Watching!Parent(p)) =>
              \A S, E : [op |-> op, path |-> p] \in S => Last(S, E)'
         /\ ~(p # wa_Root /\ Watching!Watched(Watching!Parent(p))) =>
              wa_events' = wa_events
         /\ \A E : [op |-> op, path |-> p] \notin E =>
              /\ Free(E) => Free(E)'
              /\ \A S : Last(S, E) => Last(S, E)'
<1> DEFINE e == [op |-> op, path |-> p]
<1>1. CASE p # wa_Root /\ Watching!Watched(Watching!Parent(p))
  <2>1. e \in Event /\ wa_events' = Append(wa_events, e)
    BY <1>1 DEF Watching!Notify, Event
  <2> QED BY <1>1, <2>1, Appending DEF WatchTypes
<1>2. CASE ~(p # wa_Root /\ Watching!Watched(Watching!Parent(p)))
  BY <1>2 DEF Watching!Notify, WatchTypes, Last, Free
<1> QED BY <1>1, <1>2

LEMMA TypesStep ==
  ASSUME Watching!WatcherAssumption, WatchTypes, Watching!Next
  PROVE  WatchTypes'
<1>1. ASSUME NEW f \in wa_Files, Watching!Write(f)
      PROVE  WatchTypes'
  <2>1. f \in Watching!Paths
    BY DEF Watching!Paths
  <2>2. wa_events' \in Seq(Event)
    <3>1. CASE f \in wa_disk
      BY <1>1, <2>1, <3>1, Telling DEF Watching!Write
    <3>2. CASE f \notin wa_disk
      BY <1>1, <2>1, <3>2, Telling DEF Watching!Write
    <3> QED BY <3>1, <3>2
  <2> QED BY <1>1, <2>1, <2>2
             DEF Watching!Write, Watching!Operate, Watching!timerVars, WatchTypes
<1>2. ASSUME NEW d \in wa_Dirs, NEW contents \in SUBSET Watching!Under(d),
             Watching!MoveIn(d, contents)
      PROVE  WatchTypes'
  <2>1. d \in Watching!Paths /\ contents \subseteq Watching!Paths
    BY DEF Watching!Paths, Watching!Under
  <2>2. wa_events' \in Seq(Event)
    BY <1>2, <2>1, Telling DEF Watching!MoveIn
  <2>3. wa_disk' \subseteq Watching!Paths
    BY <1>2, <2>1 DEF Watching!MoveIn, WatchTypes
  <2> QED BY <1>2, <2>2, <2>3
             DEF Watching!MoveIn, Watching!Operate, Watching!timerVars, WatchTypes
<1>3. ASSUME NEW p \in Watching!Paths, Watching!Remove(p)
      PROVE  WatchTypes'
  <2>1. wa_events' \in Seq(Event)
    BY <1>3, Telling DEF Watching!Remove
  <2> QED BY <1>3, <2>1
             DEF Watching!Remove, Watching!Operate, Watching!timerVars, WatchTypes
<1>4. ASSUME NEW p \in Watching!Paths, Watching!MoveOut(p)
      PROVE  WatchTypes'
  <2>1. wa_events' \in Seq(Event)
    BY <1>4, Telling DEF Watching!MoveOut
  <2> QED BY <1>4, <2>1
             DEF Watching!MoveOut, Watching!Operate, Watching!timerVars, WatchTypes
<1>5. ASSUME NEW d \in wa_Dirs, Watching!Visit(d)
      PROVE  WatchTypes'
  BY <1>5 DEF Watching!Visit, Watching!timerVars, WatchTypes
<1>6. ASSUME NEW d \in wa_Dirs, Watching!List(d)
      PROVE  WatchTypes'
  <2>1. wa_loop.todo \subseteq wa_Dirs /\ wa_loop.root \in wa_Dirs
    BY DEF WatchTypes
  <2>2. \E t \in SUBSET wa_Dirs : wa_loop' = [wa_loop EXCEPT !.todo = t]
    BY <1>6, <2>1 DEF Watching!List
  <2>3. wa_loop' \in [at : {"start", "watch", "list", "select", "quit"},
                  root : wa_Dirs, todo : SUBSET wa_Dirs]
    BY <2>2 DEF WatchTypes
  <2> QED BY <1>6, <2>3 DEF Watching!List, Watching!timerVars, WatchTypes
<1>7. CASE Watching!Started \/ Watching!Watching \/ Watching!Listed \/ Watching!Quit
  <2>1. /\ UNCHANGED <<wa_disk, wa_watched, wa_events, wa_entry, wa_strays,
                       wa_called, wa_passed>>
        /\ \/ wa_loop' = Watching!Idle
           \/ wa_loop' = Watching!Walk("list", wa_loop.root)
           \/ wa_loop' = [Watching!Idle EXCEPT !.at = "quit"]
    BY <1>7
       DEF Watching!Started, Watching!Watching, Watching!Listed, Watching!Quit,
           Watching!timerVars
  <2>2. wa_Root \in wa_Dirs /\ wa_loop.root \in wa_Dirs
    BY DEF Watching!WatcherAssumption, WatchTypes
  <2>3. wa_loop' \in [at : {"start", "watch", "list", "select", "quit"},
                  root : wa_Dirs, todo : SUBSET wa_Dirs]
    BY <2>1, <2>2 DEF Watching!Idle, Watching!Walk
  <2> QED BY <2>1, <2>3 DEF WatchTypes
<1>8. CASE Watching!HandleFile
  <2>1. Head(wa_events) \in Event /\ wa_events' \in Seq(Event)
    BY <1>8, Taking DEF Watching!HandleFile, Watching!Take, WatchTypes
  <2>2. wa_entry' = wa_entry \/ Watching!Arm(Head(wa_events).path)
    BY <1>8 DEF Watching!HandleFile
  <2>3. wa_entry' \in [Watching!Paths -> {"none", "armed", "spent"}]
    BY <2>2 DEF Watching!Arm, WatchTypes
  <2> QED BY <1>8, <2>1, <2>3 DEF Watching!HandleFile, WatchTypes
<1>9. CASE Watching!HandleDir
  <2>1. wa_events' \in Seq(Event)
    BY <1>9, Taking DEF Watching!HandleDir, Watching!Take, WatchTypes
  <2> QED BY <1>9, <2>1
             DEF Watching!HandleDir, Watching!Walk, Watching!timerVars, WatchTypes
<1>10. CASE Watching!HandleRemove \/ Watching!HandleRename
  <2>1. wa_events' \in Seq(Event)
    BY <1>10, Taking
       DEF Watching!HandleRemove, Watching!HandleRename, Watching!Take, WatchTypes
  <2>2. wa_entry' \in [Watching!Paths -> {"none", "armed", "spent"}]
    BY <1>10
       DEF Watching!HandleRemove, Watching!HandleRename, Watching!StopTimers,
           WatchTypes
  <2>3. wa_watched' \subseteq wa_Dirs
    BY <1>10
       DEF Watching!HandleRemove, Watching!HandleRename, Watching!Unwatch,
           WatchTypes
  <2> QED BY <1>10, <2>1, <2>2, <2>3
             DEF Watching!HandleRemove, Watching!HandleRename, WatchTypes
<1>11. ASSUME NEW f \in Watching!Paths, Watching!Timer(f)
       PROVE  WatchTypes'
  <2>1. CASE Watching!FireEntry(f)
    BY <2>1 DEF Watching!FireEntry, Watching!loopVars, WatchTypes
  <2>2. CASE Watching!FireStray(f)
    BY <2>2 DEF Watching!FireStray, Watching!loopVars, WatchTypes
  <2>3. CASE Watching!RemoveEntry(f)
    <3>1. /\ wa_called[f] - 1 \in Nat /\ wa_passed[f] + 1 \in Nat
          /\ wa_strays[f] + 1 \in Nat
      BY <2>3 DEF Watching!RemoveEntry, WatchTypes
    <3>2. /\ wa_called' \in [Watching!Paths -> Nat]
          /\ wa_passed' \in [Watching!Paths -> Nat]
      BY <2>3, <3>1 DEF Watching!RemoveEntry, WatchTypes
    <3>3. wa_strays' \in [Watching!Paths -> Nat]
      BY <2>3, <3>1 DEF Watching!RemoveEntry, WatchTypes
    <3>4. wa_entry' \in [Watching!Paths -> {"none", "armed", "spent"}]
      BY <2>3 DEF Watching!RemoveEntry, WatchTypes
    <3> QED BY <2>3, <3>2, <3>3, <3>4
               DEF Watching!RemoveEntry, Watching!loopVars, WatchTypes
  <2>4. CASE Watching!EnqueueFile(f)
    BY <2>4 DEF Watching!EnqueueFile, Watching!loopVars, WatchTypes
  <2> QED BY <1>11, <2>1, <2>2, <2>3, <2>4 DEF Watching!Timer
<1>12. CASE \/ Watching!CloseWindow \/ Watching!Accelerate \/ Watching!SyncAll
            \/ Watching!Cancel
  BY <1>12
     DEF Watching!CloseWindow, Watching!Accelerate, Watching!SyncAll,
         Watching!Cancel, Watching!loopVars, Watching!timerVars, WatchTypes
<1>13. CASE Watching!CleanTimers
  BY <1>13 DEF Watching!CleanTimers, Watching!loopVars, WatchTypes
<1> QED BY <1>1, <1>2, <1>3, <1>4, <1>5, <1>6, <1>7, <1>8, <1>9, <1>10, <1>11,
           <1>12, <1>13
        DEF Watching!Next, Watching!User, Watching!Loop

LEMMA PlacesStep ==
  ASSUME Watching!WatcherAssumption, WatchTypes, Places, Watching!Next
  PROVE  Places'
<1> USE DEF Places
<1>1. ASSUME NEW f \in wa_Files, Watching!Write(f)
      PROVE  Places'
  <2>1. f \in Watching!Paths /\ f # wa_Root
    BY DEF Watching!Paths, Watching!WatcherAssumption
  <2>2. wa_Above[f] \subseteq wa_disk
    BY <1>1, <2>1, ParentOf DEF Watching!Write
  <2>3. wa_Root \in wa_disk' /\ \A p \in wa_disk' : wa_Above[p] \subseteq wa_disk'
    BY <1>1, <2>2 DEF Watching!Write
  <2>4. wa_stale' \subseteq wa_disk' \cap wa_Files
    BY <1>1 DEF Watching!Write
  <2>5. \/ Watching!Watched(wa_Root)
        \/ wa_events' = wa_events
    BY <1>1 DEF Watching!Write, Watching!Notify, Watching!Watched
  <2> QED BY <1>1, <2>3, <2>4, <2>5
             DEF Watching!Write, Watching!Operate, Watching!Watched
<1>2. ASSUME NEW d \in wa_Dirs, NEW contents \in SUBSET Watching!Under(d),
             Watching!MoveIn(d, contents)
      PROVE  Places'
  <2>1. d \in Watching!Paths /\ d # wa_Root /\ contents \subseteq Watching!Paths
    BY <1>2 DEF Watching!Paths, Watching!Under, Watching!MoveIn
  <2>2. wa_Above[d] \subseteq wa_disk
    BY <1>2, <2>1, ParentOf DEF Watching!MoveIn
  <2>3. ASSUME NEW p \in contents, NEW x \in wa_Above[p]
        PROVE  x \in wa_disk'
    <3>1. p \in Watching!Paths /\ d \in wa_Above[p] /\ x \in Watching!Paths
      BY <2>1, Tree DEF Watching!Under
    <3>2. x = d \/ x \in wa_Above[d] \/ d \in wa_Above[x]
      BY <3>1 DEF Watching!WatcherAssumption
    <3>3. d \in wa_Above[x] => x \in contents
      BY <1>2, <3>1 DEF Watching!MoveIn, Watching!Under
    <3> QED BY <1>2, <2>2, <3>2, <3>3 DEF Watching!MoveIn
  <2>4. wa_Root \in wa_disk' /\ \A p \in wa_disk' : wa_Above[p] \subseteq wa_disk'
    BY <1>2, <2>2, <2>3 DEF Watching!MoveIn
  <2>5. wa_stale' \subseteq wa_disk' \cap wa_Files
    BY <1>2 DEF Watching!MoveIn
  <2>6. \/ Watching!Watched(wa_Root)
        \/ wa_events' = wa_events
    BY <1>2 DEF Watching!MoveIn, Watching!Notify, Watching!Watched
  <2> QED BY <1>2, <2>4, <2>5, <2>6
             DEF Watching!MoveIn, Watching!Operate, Watching!Watched
<1>3. ASSUME NEW p \in Watching!Paths, Watching!Remove(p)
      PROVE  Places'
  <2>1. wa_Root \in wa_disk' /\ \A q \in wa_disk' : wa_Above[q] \subseteq wa_disk'
    BY <1>3 DEF Watching!Remove, Watching!Under, WatchTypes
  <2>2. wa_stale' \subseteq wa_disk' \cap wa_Files
    BY <1>3 DEF Watching!Remove
  <2>3. \/ Watching!Watched(wa_Root)
        \/ wa_events' = wa_events
    BY <1>3 DEF Watching!Remove, Watching!Notify, Watching!Watched
  <2> QED BY <1>3, <2>1, <2>2, <2>3
             DEF Watching!Remove, Watching!Operate, Watching!Watched
<1>4. ASSUME NEW p \in Watching!Paths, Watching!MoveOut(p)
      PROVE  Places'
  <2>1. wa_Root \in wa_disk' /\ wa_Root \notin Watching!Under(p)
    BY <1>4, Tree DEF Watching!MoveOut, Watching!Under
  <2>2. ASSUME NEW q \in wa_disk', NEW x \in wa_Above[q]
        PROVE  x \in wa_disk'
    <3>1. q \in wa_disk /\ q \in Watching!Paths /\ x \in wa_disk /\ x # p
      BY <1>4 DEF Watching!MoveOut, Watching!Under, WatchTypes
    <3>2. wa_Above[x] \subseteq wa_Above[q]
      BY <3>1, Tree
    <3> QED BY <1>4, <3>1, <3>2 DEF Watching!MoveOut, Watching!Under
  <2>3. wa_stale' \subseteq wa_disk' \cap wa_Files
    BY <1>4 DEF Watching!MoveOut
  <2>4. \/ Watching!Watched(wa_Root)
        \/ wa_events' = wa_events
    BY <1>4 DEF Watching!MoveOut, Watching!Notify, Watching!Watched
  <2> QED BY <1>4, <2>1, <2>2, <2>3, <2>4
             DEF Watching!MoveOut, Watching!Operate, Watching!Watched
<1>5. ASSUME NEW d \in wa_Dirs, Watching!Visit(d)
      PROVE  Places'
  <2>1. /\ wa_loop'.at = wa_loop.at /\ wa_loop'.root = wa_loop.root
        /\ wa_loop'.todo \subseteq (wa_loop.todo \ {d}) \cup Watching!Children(d)
    BY <1>5 DEF Watching!Visit, WatchTypes
  <2>2. ASSUME wa_loop.at = "watch", NEW c \in Watching!Children(d)
        PROVE  c \in Watching!Under(wa_loop.root)
    <3>1. c \in Watching!Paths \ {wa_Root} /\ Watching!Parent(c) = d
      BY DEF Watching!Children, WatchTypes
    <3>2. d \in wa_Above[c] /\ wa_Above[d] \subseteq wa_Above[c]
      BY <3>1, ParentOf
    <3>3. d = wa_loop.root \/ wa_loop.root \in wa_Above[d]
      BY <1>5, <2>2 DEF Watching!Visit, Watching!Under
    <3> QED BY <3>1, <3>2, <3>3 DEF Watching!Under
  <2>3. \/ Watching!Watched(wa_Root)'
        \/ /\ wa_loop.at = "start" /\ wa_loop.todo = {wa_Root} /\ wa_watched = {}
           /\ d = wa_Root
    BY <1>5 DEF Watching!Visit, Watching!Watched
  <2>4. Watching!Watched(wa_Root)'
    <3>1. d = wa_Root => d \in wa_disk \ wa_Excluded
      BY DEF Watching!WatcherAssumption
    <3> QED BY <1>5, <2>3, <3>1 DEF Watching!Visit, Watching!Watched
  <2>5. wa_loop.at \in {"start", "watch"}
    BY <1>5 DEF Watching!Visit
  <2> QED BY <1>5, <2>1, <2>2, <2>4, <2>5 DEF Watching!Visit
<1>6. ASSUME NEW d \in wa_Dirs, Watching!List(d)
      PROVE  Places'
  <2>1. wa_loop'.at = "list" /\ wa_loop'.root = wa_loop.root
        /\ wa_loop'.todo \subseteq (wa_loop.todo \ {d}) \cup Watching!Children(d)
    BY <1>6 DEF Watching!List, WatchTypes
  <2>2. ASSUME NEW c \in Watching!Children(d)
        PROVE  c \in Watching!Under(wa_loop.root)
    <3>1. c \in Watching!Paths \ {wa_Root} /\ Watching!Parent(c) = d
      BY DEF Watching!Children, WatchTypes
    <3>2. d \in wa_Above[c] /\ wa_Above[d] \subseteq wa_Above[c]
      BY <3>1, ParentOf
    <3>3. d = wa_loop.root \/ wa_loop.root \in wa_Above[d]
      BY <1>6 DEF Watching!List, Watching!Under
    <3> QED BY <3>1, <3>2, <3>3 DEF Watching!Under
  <2>3. Watching!Watched(wa_Root)' /\ wa_stale' \subseteq wa_stale
    BY <1>6 DEF Watching!List, Watching!Watched
  <2> QED BY <1>6, <2>1, <2>2, <2>3 DEF Watching!List
<1>7. CASE Watching!Started \/ Watching!Watching \/ Watching!Listed \/ Watching!Quit
  BY <1>7
     DEF Watching!Started, Watching!Watching, Watching!Listed, Watching!Quit,
         Watching!Idle, Watching!Walk, Watching!Watched
<1>8. CASE Watching!HandleFile
  BY <1>8 DEF Watching!HandleFile, Watching!Take, Watching!Watched
<1>9. CASE Watching!HandleDir
  BY <1>9 DEF Watching!HandleDir, Watching!Take, Watching!Watched, Watching!Walk
<1>10. CASE Watching!HandleRemove \/ Watching!HandleRename
  <2>1. Head(wa_events) \in Event
    BY <1>10, Taking
       DEF Watching!HandleRemove, Watching!HandleRename, Watching!Take, WatchTypes
  <2>2. /\ Head(wa_events).path # wa_Root
        /\ wa_Root \notin Watching!Under(Head(wa_events).path)
    BY <2>1, Tree DEF Event, Watching!Under
  <2>3. Watching!Watched(wa_Root)'
    BY <1>10, <2>2
       DEF Watching!HandleRemove, Watching!HandleRename, Watching!Take,
           Watching!Unwatch, Watching!Watched
  <2> QED BY <1>10, <2>3
             DEF Watching!HandleRemove, Watching!HandleRename, Watching!Take
<1>11. ASSUME NEW f \in Watching!Paths, Watching!Timer(f)
       PROVE  Places'
  BY <1>11
     DEF Watching!Timer, Watching!FireEntry, Watching!FireStray,
         Watching!RemoveEntry, Watching!EnqueueFile, Watching!loopVars,
         Watching!Watched
<1>12. CASE \/ Watching!CloseWindow \/ Watching!Accelerate \/ Watching!SyncAll
            \/ Watching!Cancel \/ Watching!CleanTimers
  BY <1>12
     DEF Watching!CloseWindow, Watching!Accelerate, Watching!SyncAll,
         Watching!Cancel, Watching!CleanTimers, Watching!loopVars, Watching!Watched
<1> QED BY <1>1, <1>2, <1>3, <1>4, <1>5, <1>6, <1>7, <1>8, <1>9, <1>10, <1>11, <1>12
        DEF Watching!Next, Watching!User, Watching!Loop

LEMMA Undisturbed ==
  ASSUME NEW f, Led(f), wa_loop' = wa_loop, wa_watched' \subseteq wa_watched,
         wa_fullSync => wa_fullSync',
         wa_entry[f] = "armed" => wa_entry'[f] = "armed",
         wa_strays[f] + wa_called[f] + wa_passed[f] > 0 =>
           wa_strays'[f] + wa_called'[f] + wa_passed'[f] > 0,
         Free(Ending(f)) => Free(Ending(f))',
         Last(LeadTo(f), Ending(f)) => Last(LeadTo(f), Ending(f))'
  PROVE  Led(f)'
BY DEF Led, Walking, Watching!Watched

\* What the user does leads to the file, or does not disturb what does.
LEMMA LedUser ==
  ASSUME Watching!WatcherAssumption, WatchTypes, Places, Watching!User,
         NEW f \in wa_stale', f \in wa_stale => Led(f),
         f \notin wa_Excluded
  PROVE  Led(f)'
<1>1. ASSUME NEW g \in wa_Files, Watching!Write(g)
      PROVE  Led(f)'
  <2>1. g \in Watching!Paths \ {wa_Root}
    BY DEF Watching!Paths, Watching!WatcherAssumption
  <2> DEFINE op == IF g \in wa_disk THEN "write" ELSE "create"
             e == [op |-> op, path |-> g]
  <2>2. /\ op \in {"create", "write"} /\ Watching!Notify(op, g)
        /\ wa_watched' = wa_watched
    BY <1>1 DEF Watching!Write
  <2>3. e \in Event /\ e.path = g /\ e.op = op
    BY <2>1, <2>2 DEF Event
  <2>4. e \notin Ending(f)
    BY <2>2, <2>3 DEF Ending
  <2>5. CASE f = g
    <3>1. e \in LeadTo(f)
      BY <2>2, <2>3, <2>5 DEF LeadTo
    <3>2. CASE Watching!Watched(Watching!Parent(g))
      <4>1. Last(LeadTo(f), Ending(f))'
        BY <2>1, <2>2, <3>1, <3>2, Telling
      <4> QED BY <4>1 DEF Led
    <3>3. CASE ~Watching!Watched(Watching!Parent(g))
      <4>1. /\ Watching!Parent(g) \in wa_Above[f]
            /\ ~Watching!Watched(Watching!Parent(g))'
        BY <2>1, <2>2, <2>5, <3>3, ParentOf DEF Watching!Watched
      <4> QED BY <4>1 DEF Led
    <3> QED BY <3>2, <3>3
  <2>6. CASE f # g
    <3>1. /\ Free(Ending(f)) => Free(Ending(f))'
          /\ Last(LeadTo(f), Ending(f)) => Last(LeadTo(f), Ending(f))'
      BY <2>1, <2>2, <2>4, Telling
    <3>2. Led(f)
      BY <1>1, <2>6 DEF Watching!Write
    <3> QED BY <1>1, <3>1, <3>2, Undisturbed
               DEF Watching!Write, Watching!Operate, Watching!timerVars
  <2> QED BY <2>5, <2>6
<1>2. ASSUME NEW d \in wa_Dirs, NEW contents \in SUBSET Watching!Under(d),
             Watching!MoveIn(d, contents)
      PROVE  Led(f)'
  <2> DEFINE e == [op |-> "create", path |-> d]
  <2>1. /\ d \in Watching!Paths \ {wa_Root} /\ Watching!Notify("create", d)
        /\ wa_watched' = wa_watched
    BY <1>2 DEF Watching!Paths, Watching!MoveIn, Places
  <2>2. e \in Event /\ e.path = d /\ e.op = "create"
    BY <2>1 DEF Event
  <2>3. e \notin Ending(f)
    BY <2>2 DEF Ending
  <2>4. CASE f \in contents
    <3>1. /\ f \in Watching!Paths /\ d \in wa_Above[f]
          /\ wa_Above[d] \subseteq wa_Above[f]
      BY <2>4, Tree DEF Watching!Under
    <3>2. e \in LeadTo(f)
      BY <2>2, <3>1 DEF LeadTo
    <3>3. CASE Watching!Watched(Watching!Parent(d))
      <4>1. Last(LeadTo(f), Ending(f))'
        BY <2>1, <3>2, <3>3, Telling
      <4> QED BY <4>1 DEF Led
    <3>4. CASE ~Watching!Watched(Watching!Parent(d))
      <4>1. /\ Watching!Parent(d) \in wa_Above[f]
            /\ ~Watching!Watched(Watching!Parent(d))'
        BY <2>1, <3>1, <3>4, ParentOf DEF Watching!Watched
      <4> QED BY <4>1 DEF Led
    <3> QED BY <3>3, <3>4
  <2>5. CASE f \notin contents
    <3>1. /\ Free(Ending(f)) => Free(Ending(f))'
          /\ Last(LeadTo(f), Ending(f)) => Last(LeadTo(f), Ending(f))'
      BY <2>1, <2>3, Telling
    <3>2. Led(f)
      BY <1>2, <2>5 DEF Watching!MoveIn
    <3> QED BY <1>2, <3>1, <3>2, Undisturbed
               DEF Watching!MoveIn, Watching!Operate, Watching!timerVars
  <2> QED BY <2>4, <2>5
<1>3. ASSUME NEW p \in Watching!Paths, Watching!Remove(p)
      PROVE  Led(f)'
  <2>1. /\ Watching!Notify("remove", p) /\ wa_watched' \subseteq wa_watched
        /\ f \in wa_stale /\ f # p
    BY <1>3 DEF Watching!Remove
  <2>2. p \notin wa_Above[f]
    BY <1>3, <2>1 DEF Watching!Remove, Watching!Under, Places, WatchTypes
  <2>3. [op |-> "remove", path |-> p] \notin Ending(f)
    BY <2>1, <2>2 DEF Ending
  <2>4. /\ Free(Ending(f)) => Free(Ending(f))'
        /\ Last(LeadTo(f), Ending(f)) => Last(LeadTo(f), Ending(f))'
    BY <2>1, <2>3, Telling
  <2> QED BY <1>3, <2>1, <2>4, Undisturbed
             DEF Watching!Remove, Watching!Operate, Watching!timerVars
<1>4. ASSUME NEW p \in Watching!Paths, Watching!MoveOut(p)
      PROVE  Led(f)'
  <2>1. /\ Watching!Notify("rename", p) /\ wa_watched' \subseteq wa_watched
        /\ f \in wa_stale /\ f # p
    BY <1>4 DEF Watching!MoveOut
  <2>2. p \notin wa_Above[f]
    BY <1>4, <2>1 DEF Watching!MoveOut, Watching!Under, Places, WatchTypes
  <2>3. [op |-> "rename", path |-> p] \notin Ending(f)
    BY <2>1, <2>2 DEF Ending
  <2>4. /\ Free(Ending(f)) => Free(Ending(f))'
        /\ Last(LeadTo(f), Ending(f)) => Last(LeadTo(f), Ending(f))'
    BY <2>1, <2>3, Telling
  <2> QED BY <1>4, <2>1, <2>4, Undisturbed
             DEF Watching!MoveOut, Watching!Operate, Watching!timerVars
<1> QED BY <1>1, <1>2, <1>3, <1>4 DEF Watching!User

\* The event loop goes on to the file, from the event and through the walks.
LEMMA LedLoop ==
  ASSUME Watching!WatcherAssumption, WatchTypes, Places, Watching!Loop,
         NEW f \in wa_stale', f \in wa_stale, Led(f),
         f \notin wa_Excluded \cup wa_Oversize
  PROVE  Led(f)'
<1>0. /\ f \in wa_Files /\ f \in Watching!Paths /\ f \in wa_disk
      /\ wa_Above[f] \subseteq wa_disk
      /\ wa_Above[f] \subseteq wa_Dirs /\ wa_Above[f] \cap wa_Excluded = {}
  BY Tree DEF Places, WatchTypes
<1>1. ASSUME NEW d \in wa_Dirs, Watching!Visit(d)
      PROVE  Led(f)'
  <2>1. /\ wa_loop'.at = wa_loop.at /\ wa_loop'.root = wa_loop.root
        /\ wa_loop.at \in {"start", "watch"} /\ d \in wa_loop.todo
        /\ wa_watched' \subseteq wa_watched \cup {d}
        /\ UNCHANGED <<wa_events, wa_entry, wa_strays, wa_called, wa_passed,
                       wa_fullSync>>
    BY <1>1 DEF Watching!Visit, Watching!timerVars, WatchTypes
  <2>2. CASE wa_loop.at = "start"
    BY <2>1, <2>2 DEF Led, Places
  <2>3. CASE wa_loop.at = "watch" /\ d \in wa_Above[f]
    <3>1. d = wa_loop.root \/ wa_loop.root \in wa_Above[d]
      BY <2>1, <2>3 DEF Places, Watching!Under
    <3>2. wa_loop.root \in wa_Above[f]
      BY <1>0, <2>3, <3>1, Tree
    <3> QED BY <2>1, <2>3, <3>2 DEF Led, Walking
  <2>4. CASE wa_loop.at = "watch" /\ d \notin wa_Above[f]
    BY <2>1, <2>4 DEF Led, Walking, Watching!Watched, Last, Free
  <2> QED BY <2>1, <2>2, <2>3, <2>4
<1>2. CASE Watching!Started
  BY <1>2 DEF Watching!Started, Led, Places
<1>3. CASE Watching!Watching
  <2>1. Walking(f) => Walking(f)'
    BY <1>3 DEF Watching!Watching, Watching!Walk, Walking
  <2> QED BY <1>3, <2>1
             DEF Watching!Watching, Watching!timerVars, Led, Watching!Watched, Last,
                 Free
<1>4. ASSUME NEW d \in wa_Dirs, Watching!List(d)
      PROVE  Led(f)'
  <2>1. /\ wa_loop'.at = "list" /\ wa_loop.at = "list"
        /\ UNCHANGED <<wa_events, wa_watched, Watching!timerVars, wa_fullSync>>
    BY <1>4 DEF Watching!List, WatchTypes
  <2>2. CASE d \notin wa_Above[f]
    <3>1. Walking(f) => Walking(f)'
      BY <1>4, <2>2 DEF Watching!List, Walking, WatchTypes
    <3> QED BY <2>1, <3>1 DEF Watching!timerVars, Led, Watching!Watched, Last, Free
  <2>3. CASE d \in wa_Above[f]
    <3>1. d \in wa_disk \ wa_Excluded
      BY <1>0, <2>3
    <3>2. PICK c \in wa_Above[f] \cup {f} : wa_Above[c] = wa_Above[d] \cup {d}
      BY <1>0, <2>3 DEF Watching!WatcherAssumption
    <3>3. c \in Watching!Paths /\ d \in Watching!Paths
      BY <1>0 DEF Watching!Paths
    <3>4. c \in Watching!Children(d)
      BY <1>0, <3>2, <3>3, ChildOf DEF Watching!Children
    <3>5. c # f
      BY <1>4, <3>1, <3>4 DEF Watching!List
    <3>6. c \in wa_loop'.todo /\ c \in wa_Above[f]
      BY <1>0, <1>4, <3>1, <3>2, <3>4, <3>5 DEF Watching!List, WatchTypes
    <3> QED BY <2>1, <3>6 DEF Led, Walking
  <2> QED BY <2>2, <2>3
<1>5. CASE Watching!Listed
  <2>1. ~Walking(f)
    BY <1>5 DEF Watching!Listed, Walking
  <2> QED BY <1>5, <2>1
             DEF Watching!Listed, Watching!timerVars, Led, Watching!Watched, Last,
                 Free
<1>6. CASE Watching!HandleFile
  <2> DEFINE e == Head(wa_events)
  <2>1. /\ wa_events # <<>> /\ wa_events' = Tail(wa_events) /\ e \in Event
        /\ ~Walking(f)
        /\ UNCHANGED <<wa_loop, wa_watched, wa_strays, wa_called, wa_passed,
                       wa_fullSync>>
    BY <1>6, Taking DEF Watching!HandleFile, Watching!Take, Walking, WatchTypes
  <2>2. wa_entry[f] = "armed" => wa_entry'[f] = "armed"
    BY <1>0, <1>6 DEF Watching!HandleFile, Watching!Arm, WatchTypes
  <2>3. /\ Free(Ending(f)) => Free(Ending(f))'
        /\ Last(LeadTo(f), Ending(f)) =>
             Last(LeadTo(f), Ending(f))' \/ (e \in LeadTo(f) /\ Free(Ending(f))')
    BY <2>1, Taking DEF WatchTypes
  <2>4. CASE e \in LeadTo(f)
    <3>1. e.path = f
      BY <1>0, <1>6, <2>4 DEF Watching!HandleFile, LeadTo
    <3>2. wa_entry'[f] = "armed"
      BY <1>0, <1>6, <3>1
         DEF Watching!HandleFile, Watching!Accepted, Watching!Arm, WatchTypes
    <3> QED BY <2>1, <2>3, <3>2 DEF Led, Watching!Watched
  <2>5. CASE e \notin LeadTo(f)
    BY <2>1, <2>2, <2>3, <2>5, Undisturbed
  <2> QED BY <2>4, <2>5
<1>7. CASE Watching!HandleDir
  <2> DEFINE e == Head(wa_events)
  <2>1. /\ wa_events # <<>> /\ wa_events' = Tail(wa_events) /\ e \in Event
        /\ ~Walking(f)
        /\ UNCHANGED <<wa_watched, wa_entry, wa_strays, wa_called, wa_passed,
                       wa_fullSync>>
    BY <1>7, Taking
       DEF Watching!HandleDir, Watching!Take, Walking, Watching!timerVars,
           WatchTypes
  <2>2. /\ Free(Ending(f)) => Free(Ending(f))'
        /\ Last(LeadTo(f), Ending(f)) =>
             Last(LeadTo(f), Ending(f))' \/ e \in LeadTo(f)
    BY <2>1, Taking DEF WatchTypes
  <2>3. CASE e \in LeadTo(f)
    <3>1. e.path \in wa_Above[f]
      BY <1>0, <1>7, <2>3 DEF Watching!HandleDir, LeadTo, Watching!WatcherAssumption
    <3>2. Walking(f)'
      BY <1>7, <3>1 DEF Watching!HandleDir, Watching!Walk, Walking
    <3> QED BY <3>2 DEF Led
  <2>4. CASE e \notin LeadTo(f)
    BY <2>1, <2>2, <2>4 DEF Led, Watching!Watched
  <2> QED BY <2>3, <2>4
<1>8. CASE Watching!HandleRemove \/ Watching!HandleRename
  <2> DEFINE e == Head(wa_events)
  <2>1. /\ wa_events # <<>> /\ wa_events' = Tail(wa_events) /\ e \in Event
        /\ e.op \in {"remove", "rename"} /\ wa_watched' \subseteq wa_watched
        /\ Watching!StopTimers(e.path)
        /\ UNCHANGED <<wa_loop, wa_strays, wa_called, wa_passed, wa_fullSync>>
    BY <1>8, Taking
       DEF Watching!HandleRemove, Watching!HandleRename, Watching!Take,
           Watching!Unwatch, WatchTypes
  <2>2. e \notin LeadTo(f)
    BY <2>1 DEF LeadTo
  <2>3. /\ Free(Ending(f)) => Free(Ending(f))' /\ e \notin Ending(f)
        /\ Last(LeadTo(f), Ending(f)) => Last(LeadTo(f), Ending(f))'
    BY <2>1, <2>2, Taking DEF WatchTypes
  <2>4. Free(Ending(f)) => wa_entry'[f] = wa_entry[f]
    <3>1. e \notin Ending(f) => e.path \notin wa_Above[f] \cup {f}
      BY <2>1 DEF Ending
    <3> QED BY <1>0, <2>1, <2>3, <3>1
               DEF Watching!StopTimers, Watching!Cancelled, Watching!Under
  <2> QED BY <2>1, <2>3, <2>4 DEF Led, Walking, Watching!Watched
<1> QED BY <1>1, <1>2, <1>3, <1>4, <1>5, <1>6, <1>7, <1>8 DEF Watching!Loop

LEMMA LedStep ==
  ASSUME Watching!WatcherAssumption, WatchTypes, Places, AllLed, Watching!Next
  PROVE  AllLed'
<1> SUFFICES ASSUME wa_ctx' = "live",
                    NEW f \in wa_stale' \ (wa_Excluded \cup wa_Oversize)
             PROVE  Led(f)'
  BY DEF AllLed
<1>1. CASE Watching!User
  <2>1. wa_ctx = "live"
    BY <1>1
       DEF Watching!User, Watching!Write, Watching!MoveIn, Watching!Remove,
           Watching!MoveOut, Watching!Operate
  <2> QED BY <1>1, <2>1, LedUser DEF AllLed
<1>2. CASE Watching!Loop
  <2>1. wa_ctx = "live" /\ wa_stale' \subseteq wa_stale
    BY <1>2
       DEF Watching!Loop, Watching!Visit, Watching!Started, Watching!Watching,
           Watching!List, Watching!Listed, Watching!HandleFile, Watching!HandleDir,
                Watching!HandleRemove, Watching!HandleRename
  <2> QED BY <1>2, <2>1, LedLoop DEF AllLed
<1>3. CASE Watching!Quit \/ Watching!Cancel \/ Watching!CleanTimers
  BY <1>3 DEF Watching!Quit, Watching!Cancel, Watching!CleanTimers
<1>4. ASSUME NEW g \in Watching!Paths, Watching!Timer(g)
      PROVE  Led(f)'
  <2>1. /\ f \in wa_stale /\ wa_ctx = "live"
        /\ UNCHANGED <<wa_loop, wa_watched, wa_events, wa_fullSync>>
    BY <1>4
       DEF Watching!Timer, Watching!FireEntry, Watching!FireStray,
           Watching!RemoveEntry, Watching!EnqueueFile, Watching!loopVars
  <2>2. Led(f) /\ f \in Watching!Paths
    BY <2>1 DEF AllLed, Places, WatchTypes
  <2>3. /\ wa_strays[f] \in Nat /\ wa_called[f] \in Nat /\ wa_passed[f] \in Nat
        /\ wa_strays[g] \in Nat /\ wa_called[g] \in Nat /\ wa_passed[g] \in Nat
    BY <2>2 DEF WatchTypes
  <2>4. \/ wa_strays'[f] + wa_called'[f] + wa_passed'[f] > 0
        \/ UNCHANGED <<wa_entry[f], wa_strays[f], wa_called[f], wa_passed[f]>>
    <3>1. CASE Watching!FireEntry(g)
      BY <2>2, <2>3, <3>1 DEF Watching!FireEntry, WatchTypes
    <3>2. CASE Watching!FireStray(g)
      BY <2>2, <2>3, <3>2 DEF Watching!FireStray, WatchTypes
    <3>3. CASE Watching!RemoveEntry(g)
      <4>1. CASE f = g
        <5>1. /\ wa_passed'[f] = wa_passed[f] + 1
              /\ wa_called'[f] = wa_called[f] - 1 /\ wa_called[f] > 0
          BY <2>2, <3>3, <4>1 DEF Watching!RemoveEntry, WatchTypes
        <5>2. wa_strays'[f] = wa_strays[f] \/ wa_strays'[f] = wa_strays[f] + 1
          BY <2>2, <3>3, <4>1 DEF Watching!RemoveEntry, WatchTypes
        <5> QED BY <2>3, <5>1, <5>2
      <4>2. CASE f # g
        BY <2>2, <3>3, <4>2 DEF Watching!RemoveEntry, WatchTypes
      <4> QED BY <4>1, <4>2
    <3>4. CASE Watching!EnqueueFile(g)
      BY <2>2, <2>3, <3>4 DEF Watching!EnqueueFile, WatchTypes
    <3> QED BY <1>4, <3>1, <3>2, <3>3, <3>4 DEF Watching!Timer
  <2>5. CASE wa_strays'[f] + wa_called'[f] + wa_passed'[f] > 0
    BY <2>5 DEF Led
  <2>6. CASE UNCHANGED <<wa_entry[f], wa_strays[f], wa_called[f], wa_passed[f]>>
    BY <2>1, <2>2, <2>6 DEF Led, Walking, Watching!Watched, Last, Free
  <2> QED BY <2>4, <2>5, <2>6
<1>5. CASE Watching!CloseWindow \/ Watching!Accelerate
  BY <1>5
     DEF Watching!CloseWindow, Watching!Accelerate, Watching!loopVars,
         Watching!timerVars, AllLed, Led, Walking, Watching!Watched,
              Last, Free
<1>6. CASE Watching!SyncAll
  BY <1>6 DEF Watching!SyncAll
<1> QED BY <1>1, <1>2, <1>3, <1>4, <1>5, <1>6 DEF Watching!Next

LEMMA FlatStep ==
  ASSUME Watching!WatcherAssumption, WatchTypes, Places, FlatWatched, Watching!Next
  PROVE  FlatWatched'
<1> SUFFICES ASSUME NEW d \in (wa_Dirs \cap wa_disk') \ wa_Excluded,
                    wa_Above[d] = {wa_Root}
             PROVE  Held(d)' \/ Last(Making(d), Ending(d))'
  BY DEF FlatWatched
<1> DEFINE Made == Last(Making(d), Ending(d))
<1>0. /\ d \in Watching!Paths \ {wa_Root} /\ Watching!Parent(d) = wa_Root
      /\ wa_Root \in Watching!Paths
      /\ wa_Above[wa_Root] = {} /\ wa_Root \in wa_disk \ wa_Excluded
      /\ d \in wa_disk => Held(d) \/ Made
  <2>1. /\ d \in Watching!Paths \ {wa_Root} /\ wa_Root \in Watching!Paths
        /\ wa_Above[wa_Root] = {}
    BY DEF Watching!Paths, Watching!WatcherAssumption
  <2> QED BY <2>1, ParentOf DEF FlatWatched, Places, Watching!WatcherAssumption
<1>1. ASSUME NEW f \in wa_Files, Watching!Write(f)
      PROVE  Held(d)' \/ Made'
  <2>1. f \in Watching!Paths /\ d \in wa_disk
    BY <1>1 DEF Watching!Paths, Watching!Write, Watching!WatcherAssumption
  <2>2. PICK op \in {"create", "write"} : Watching!Notify(op, f)
    BY <1>1 DEF Watching!Write
  <2>3. [op |-> op, path |-> f] \notin Ending(d)
    BY <2>2 DEF Ending
  <2>4. (Free(Ending(d)) => Free(Ending(d))') /\ (Made => Made')
    BY <2>1, <2>2, <2>3, Telling
  <2> QED BY <1>0, <1>1, <2>1, <2>4
             DEF Watching!Write, Watching!Operate, Held, Watching!Watched
<1>2. ASSUME NEW x \in wa_Dirs, NEW contents \in SUBSET Watching!Under(x),
             Watching!MoveIn(x, contents)
      PROVE  Held(d)' \/ Made'
  <2>1. /\ x \in Watching!Paths /\ Watching!Notify("create", x)
        /\ wa_watched' = wa_watched /\ wa_loop' = wa_loop
    BY <1>2 DEF Watching!Paths, Watching!MoveIn, Watching!Operate
  <2>2. [op |-> "create", path |-> x] \notin Ending(d)
    BY DEF Ending
  <2>3. (Free(Ending(d)) => Free(Ending(d))') /\ (Made => Made')
    BY <2>1, <2>2, Telling
  <2>4. d \notin contents
    BY <1>0, <1>2 DEF Watching!MoveIn, Watching!Under
  <2>5. CASE d = x /\ Watching!Watched(wa_Root)
    <3>1. [op |-> "create", path |-> x] \in Making(d)
      BY <2>5 DEF Making
    <3>2. Made'
      BY <1>0, <2>1, <2>5, <3>1, Telling
    <3> QED BY <3>2
  <2>6. CASE d = x /\ ~Watching!Watched(wa_Root)
    <3>1. wa_events' = <<>> /\ wa_loop'.at = "start" /\ wa_Root \in wa_loop'.todo
      BY <1>0, <2>1, <2>6, Telling DEF Places
    <3> QED BY <3>1 DEF Held, Free
  <2>7. CASE d # x
    <3>1. d \in wa_disk
      BY <1>2, <2>4, <2>7 DEF Watching!MoveIn
    <3> QED BY <1>0, <2>1, <2>3, <3>1 DEF Held, Watching!Watched
  <2> QED BY <2>5, <2>6, <2>7
<1>3. ASSUME NEW p \in Watching!Paths, Watching!Remove(p)
      PROVE  Held(d)' \/ Made'
  <2>1. /\ Watching!Notify("remove", p) /\ wa_loop' = wa_loop /\ d \in wa_disk
        /\ d # p /\ p # wa_Root
    BY <1>3 DEF Watching!Remove, Watching!Operate
  <2>2. [op |-> "remove", path |-> p] \notin Ending(d)
    BY <2>1 DEF Ending
  <2>3. (Free(Ending(d)) => Free(Ending(d))') /\ (Made => Made')
    BY <2>1, <2>2, Telling
  <2>4. Watching!Watched(d) => Watching!Watched(d)'
    BY <1>3, <2>1 DEF Watching!Remove, Watching!Watched
  <2> QED BY <1>0, <2>1, <2>3, <2>4 DEF Held
<1>4. ASSUME NEW p \in Watching!Paths, Watching!MoveOut(p)
      PROVE  Held(d)' \/ Made'
  <2>1. /\ Watching!Notify("rename", p) /\ wa_loop' = wa_loop /\ d \in wa_disk
        /\ d # p /\ p # wa_Root
    BY <1>4 DEF Watching!MoveOut, Watching!Operate
  <2>2. [op |-> "rename", path |-> p] \notin Ending(d)
    BY <2>1 DEF Ending
  <2>3. (Free(Ending(d)) => Free(Ending(d))') /\ (Made => Made')
    BY <2>1, <2>2, Telling
  <2>4. Watching!Watched(d) => Watching!Watched(d)'
    BY <1>4, <2>1 DEF Watching!MoveOut, Watching!Watched, Watching!Under
  <2> QED BY <1>0, <2>1, <2>3, <2>4 DEF Held
<1>5. ASSUME NEW x \in wa_Dirs, Watching!Visit(x)
      PROVE  Held(d)' \/ Made'
  <2>1. /\ d \in wa_disk /\ wa_events' = wa_events /\ wa_loop'.at = wa_loop.at
        /\ x \in wa_disk \ wa_Excluded => x \in wa_watched'
        /\ wa_watched \subseteq wa_watched'
        /\ wa_loop.todo \ {x} \subseteq wa_loop'.todo
        /\ x \in wa_disk \ wa_Excluded =>
             Watching!Children(x) \cap wa_Dirs \subseteq wa_loop'.todo
    BY <1>5 DEF Watching!Visit, WatchTypes
  <2>2. d \in Watching!Children(wa_Root) \cap wa_Dirs
    BY <1>0, <2>1 DEF Watching!Children
  <2>3. Watching!Watched(d) => Watching!Watched(d)'
    BY <2>1 DEF Watching!Watched
  <2>4. d \in wa_loop.todo => d \in wa_loop'.todo \/ Watching!Watched(d)'
    BY <2>1 DEF Watching!Watched
  <2>5. wa_Root \in wa_loop.todo => wa_Root \in wa_loop'.todo \/ d \in wa_loop'.todo
    BY <1>0, <2>1, <2>2
  <2> QED BY <1>0, <2>1, <2>3, <2>4, <2>5 DEF Held, Last, Free
<1>6. CASE Watching!Started \/ Watching!Watching
  BY <1>0, <1>6
     DEF Watching!Started, Watching!Watching, Held, Last, Free, Watching!Watched
<1>7. ASSUME NEW x \in wa_Dirs, Watching!List(x)
      PROVE  Held(d)' \/ Made'
  BY <1>0, <1>7 DEF Watching!List, Held, Last, Free, Watching!Watched
<1>8. CASE Watching!Listed \/ Watching!Quit
  BY <1>0, <1>8
     DEF Watching!Listed, Watching!Quit, Held, Last, Free, Watching!Watched
<1>9. CASE Watching!HandleFile
  <2> DEFINE e == Head(wa_events)
  <2>1. /\ wa_events # <<>> /\ wa_events' = Tail(wa_events) /\ d \in wa_disk
        /\ wa_loop' = wa_loop
        /\ wa_watched' = wa_watched /\ wa_loop.at = "select"
    BY <1>9 DEF Watching!HandleFile, Watching!Take
  <2>2. e \notin Making(d)
    BY <1>9, <2>1 DEF Watching!HandleFile, Making
  <2>3. (Free(Ending(d)) => Free(Ending(d))') /\ (Made => Made')
    BY <2>1, <2>2, Taking DEF WatchTypes
  <2> QED BY <1>0, <2>1, <2>3 DEF Held, Watching!Watched
<1>10. CASE Watching!HandleDir
  <2> DEFINE e == Head(wa_events)
  <2>1. /\ wa_events # <<>> /\ wa_events' = Tail(wa_events) /\ d \in wa_disk
        /\ wa_watched' = wa_watched /\ wa_loop.at = "select"
    BY <1>10 DEF Watching!HandleDir, Watching!Take
  <2>2. /\ Free(Ending(d)) => Free(Ending(d))'
        /\ Made => Made' \/ (e \in Making(d) /\ Free(Ending(d))')
    BY <2>1, Taking DEF WatchTypes
  <2>3. e \in Making(d) =>
          Watching!Watched(d)' \/ (wa_loop'.at = "watch" /\ d \in wa_loop'.todo)
    BY <1>10 DEF Watching!HandleDir, Making, Watching!Walk, Watching!Watched
  <2> QED BY <1>0, <2>1, <2>2, <2>3 DEF Held, Watching!Watched
<1>11. CASE Watching!HandleRemove \/ Watching!HandleRename
  <2> DEFINE e == Head(wa_events)
  <2>1. /\ wa_events # <<>> /\ wa_events' = Tail(wa_events) /\ e \in Event
        /\ d \in wa_disk
        /\ e.op \in {"remove", "rename"} /\ wa_loop' = wa_loop
        /\ wa_loop.at = "select"
        /\ Watching!Unwatch(e.path)
    BY <1>11, Taking
       DEF Watching!HandleRemove, Watching!HandleRename, Watching!Take, WatchTypes
  <2>2. e \notin Making(d)
    BY <2>1 DEF Making
  <2>3. /\ Free(Ending(d)) => Free(Ending(d))' /\ e \notin Ending(d)
        /\ Made => Made'
    BY <2>1, <2>2, Taking DEF WatchTypes
  <2>4. e \notin Ending(d) => e.path \notin wa_Above[d] \cup {d}
    BY <2>1 DEF Ending
  <2>5. e \notin Ending(d) /\ Watching!Watched(d) => Watching!Watched(d)'
    BY <2>1, <2>4 DEF Watching!Unwatch, Watching!Watched, Watching!Under
  <2> QED BY <1>0, <2>1, <2>3, <2>5 DEF Held
<1>12. ASSUME NEW f \in Watching!Paths, Watching!Timer(f)
       PROVE  Held(d)' \/ Made'
  <2>1. UNCHANGED <<wa_disk, wa_watched, wa_events, wa_loop>>
    BY <1>12
       DEF Watching!Timer, Watching!FireEntry, Watching!FireStray,
           Watching!RemoveEntry, Watching!EnqueueFile, Watching!loopVars
  <2> QED BY <1>0, <2>1 DEF Held, Last, Free, Watching!Watched
<1>13. CASE \/ Watching!CloseWindow \/ Watching!Accelerate \/ Watching!SyncAll
            \/ Watching!Cancel \/ Watching!CleanTimers
  <2>1. UNCHANGED <<wa_disk, wa_watched, wa_events, wa_loop>>
    BY <1>13
       DEF Watching!CloseWindow, Watching!Accelerate, Watching!SyncAll,
           Watching!Cancel, Watching!CleanTimers, Watching!loopVars
  <2> QED BY <1>0, <2>1 DEF Held, Last, Free, Watching!Watched
<1> QED BY <1>1, <1>2, <1>3, <1>4, <1>5, <1>6, <1>7, <1>8, <1>9, <1>10, <1>11,
           <1>12, <1>13
        DEF Watching!Next, Watching!User, Watching!Loop

\* When the file is not where the model's property looks for it, a directory
\* right below the root has no watch yet.
LEMMA LedCovers ==
  ASSUME Watching!WatcherAssumption, WatchTypes, Places, FlatWatched,
         NEW f \in wa_stale \ (wa_Excluded \cup wa_Oversize), Led(f)
  PROVE  \/ wa_fullSync
         \/ \E i \in DOMAIN wa_events :
              wa_events[i].op \in {"create", "write"} /\ wa_events[i].path = f
         \/ Watching!Coming(f)
         \/ wa_entry[f] = "armed" \/ wa_strays[f] + wa_called[f] + wa_passed[f] > 0
         \/ Watching!Forgotten(f)
<1>0. /\ f \in Watching!Paths /\ wa_Above[f] \subseteq wa_disk \cap wa_Dirs
      /\ wa_Above[f] \cap wa_Excluded = {}
  BY Tree DEF Places, WatchTypes
<1>1. CASE \/ wa_fullSync \/ wa_strays[f] + wa_called[f] + wa_passed[f] > 0
           \/ wa_entry[f] = "armed"
  BY <1>1
<1>2. CASE Walking(f)
  BY <1>2 DEF Walking, Watching!Coming
<1>3. CASE Last(LeadTo(f), Ending(f))
  BY <1>3 DEF Last, LeadTo, Watching!Coming, Watching!Created
<1>4. ASSUME NEW d \in wa_Above[f], ~Watching!Watched(d), ~Watching!Forgotten(f)
      PROVE  wa_fullSync \/ Watching!Coming(f)
  <2>1. wa_Above[d] \subseteq {wa_Root} /\ d \in Watching!Paths
    BY <1>0, <1>4 DEF Watching!Forgotten, Watching!Paths
  <2>2. CASE d = wa_Root
    BY <1>4, <2>2 DEF Places
  <2>3. CASE d # wa_Root
    <3>1. wa_Above[d] = {wa_Root}
      BY <2>1, <2>3, Tree
    <3>2. CASE Held(d)
      <4>1. CASE wa_loop.at = "start"
        BY <4>1 DEF Places
      <4>2. CASE wa_loop.at = "watch" /\ d \in wa_loop.todo
        <5>1. d = wa_loop.root \/ wa_loop.root \in wa_Above[d]
          BY <4>2 DEF Places, Watching!Under
        <5>2. wa_loop.root \in wa_Above[f]
          BY <1>0, <1>4, <5>1, Tree
        <5> QED BY <4>2, <5>2 DEF Watching!Coming
      <4> QED BY <1>4, <3>2, <4>1, <4>2 DEF Held
    <3>3. CASE Last(Making(d), Ending(d))
      BY <1>4, <3>3 DEF Last, Making, Watching!Coming, Watching!Created
    <3> QED BY <1>0, <1>4, <3>1, <3>2, <3>3 DEF FlatWatched
  <2> QED BY <2>2, <2>3
<1> QED BY <1>1, <1>2, <1>3, <1>4 DEF Led

\* The event loop, addRecursive and the debouncer (watcher.go): while the watcher
\* runs, a file that was changed and not queued yet still has something on its way
\* that will queue it, unless its directory lies deeper and has lost its watch.
THEOREM ChangesCovered ==
  Watching!Spec => []ChangeCovered
<1> USE LivenessPartsAssumption
<1>1. Watching!Init => WatchInv
  <2> SUFFICES ASSUME Watching!Init
               PROVE  WatchInv
    OBVIOUS
  <2>1. wa_Root \in wa_Dirs /\ wa_Root \in Watching!Paths /\ wa_Above[wa_Root] = {}
    BY DEF Watching!WatcherAssumption, Watching!Paths
  <2>2. WatchTypes
    BY <2>1 DEF Watching!Init, Watching!Walk, WatchTypes
  <2>3. Places
    BY <2>1 DEF Watching!Init, Watching!Walk, Places
  <2>4. AllLed /\ FlatWatched
    BY <2>1 DEF Watching!Init, AllLed, FlatWatched
  <2> QED BY <2>2, <2>3, <2>4 DEF WatchInv
<1>2. WatchInv /\ [Watching!Next]_Watching!vars => WatchInv'
  <2> SUFFICES ASSUME WatchInv, [Watching!Next]_Watching!vars
               PROVE  WatchInv'
    OBVIOUS
  <2>1. CASE Watching!Next
    BY <2>1, TypesStep, PlacesStep, LedStep, FlatStep DEF WatchInv
  <2>2. CASE UNCHANGED Watching!vars
    <3>1. UNCHANGED <<wa_disk, wa_watched, wa_events, wa_loop, wa_entry,
                      wa_strays, wa_called, wa_passed, wa_fullSync, wa_ctx,
                      wa_stale>>
      BY <2>2 DEF Watching!vars, Watching!loopVars, Watching!timerVars
    <3>2. WatchTypes' /\ Places'
      BY <3>1 DEF WatchInv, WatchTypes, Places, Watching!Watched
    <3>3. AllLed'
      BY <3>1 DEF WatchInv, AllLed, Led, Walking, Watching!Watched, Last, Free
    <3>4. FlatWatched'
      BY <3>1 DEF WatchInv, FlatWatched, Held, Watching!Watched, Last, Free
    <3> QED BY <3>2, <3>3, <3>4 DEF WatchInv
  <2> QED BY <2>1, <2>2
<1>3. WatchInv => Watching!ChangeCovered
  BY LedCovers DEF WatchInv, AllLed, Watching!ChangeCovered
<1> QED BY <1>1, <1>2, <1>3, PTL DEF Watching!Spec, ChangeCovered

=============================================================================
