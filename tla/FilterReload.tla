---------------------------- MODULE FilterReload ----------------------------
(***************************************************************************)
(* The hot reload of a mirror's .syncignore and what follows from it:      *)
(* scheduleFilterReload and reloadFilter (internal/watcher/watcher.go),    *)
(* Reload (internal/filter/filter.go), and in internal/sync/sync.go the    *)
(* full sync and CleanupLeaks it sets off, and the file syncs under way.   *)
(*                                                                         *)
(* The user edits .syncignore; a timer of 200 ms is started anew with each *)
(* event, and its callback reads the file, tries the rules and commits     *)
(* them.  A change of the rules queues a full sync and starts the removal  *)
(* of the files now excluded, one goroutine at a time.  All of them read   *)
(* the rules while the user edits on.  The local files stay as they are.   *)
(***************************************************************************)
EXTENDS FilterRules, FiniteSets

CONSTANTS
  Contents,    \* RulesOf: what a content of .syncignore says
  RulesOf,
  Empty,       \* the content of an empty or missing file
  MaxEdits,    \* bound on the user's edits
  MaxReloads   \* Reload calls that may overlap; the timer stops none of them

VARIABLES
  file,        \* the content of .syncignore
  rules,       \* projectRules
  hash,        \* committedContentHash
  generation,
  timer,       \* filterReloadTimer is armed
  reload,      \* the Reload calls: [at, new] for each slot
  fullSync,    \* a full sync is queued
  full,        \* the full sync under way: [at, gen, rules]
  single,      \* the files whose sync passed the filter check
  running,     \* filterChangeRunning
  pending,     \* filterChangePending
  cleanup,     \* the goroutine of OnFilterChange: [at, leaks]
  remote,      \* the files on the remote
  \* What no code keeps:
  missed,      \* no reload to come takes up what .syncignore says now
  scanned,     \* the generation the latest scan for leaks saw, or failed at
  edits

fileVars == <<file, missed, edits>>
filterVars == <<rules, hash, generation>>
syncVars == <<fullSync, full, single>>
cleanupVars == <<running, pending, cleanup, scanned>>
vars == <<fileVars, filterVars, timer, reload, syncVars, cleanupVars, remote>>

Slots == 1..MaxReloads
NoReload == [at |-> "free", new |-> Empty]
NoFull == [at |-> "idle", gen |-> 0, rules |-> <<>>]

Refused(c) ==
  \E i \in DOMAIN Merged(RulesOf[c]) : Merged(RulesOf[c])[i].bad

\* New: the malformed rules of the file are left out.
Loaded(c) == SelectSeq(RulesOf[c], LAMBDA r : ~r.bad)

\* Assumed of the constants.
RulesAssumption ==
  /\ Globals \in Seq(Rule)
  /\ RulesOf \in [Contents -> Seq(Rule)]
  /\ Empty \in Contents /\ Loaded(Empty) = <<>>

-----------------------------------------------------------------------------
Init ==
  /\ file = Empty /\ missed = FALSE /\ edits = 0
  /\ rules = Loaded(Empty) /\ hash = Empty /\ generation = 0
  /\ timer = FALSE
  /\ reload = [s \in Slots |-> NoReload]
  /\ fullSync = TRUE /\ full = NoFull /\ single = {}
  /\ running = FALSE /\ pending = FALSE
  /\ cleanup = [at |-> "off", leaks |-> {}] /\ scanned = 0
  /\ remote = {}

\* Mutant of Scheduled: an event during a reload is dropped.
ScheduledWhenIdle == timer \/ \A s \in Slots : reload[s].at = "free"

\* scheduleFilterReload stops the old timer and starts a new one.
Scheduled == TRUE

\* A write of .syncignore, a truncation included.
Edit(c) ==
  /\ edits < MaxEdits /\ c # file
  /\ file' = c /\ edits' = edits + 1
  /\ missed' = FALSE
  /\ timer' = Scheduled
  /\ UNCHANGED <<filterVars, reload, syncVars, cleanupVars, remote>>

\* .syncignore is removed: handleRemove finds the path excluded and returns.
Delete ==
  /\ edits < MaxEdits /\ file # Empty
  /\ file' = Empty /\ edits' = edits + 1
  /\ missed' = TRUE
  /\ UNCHANGED <<filterVars, timer, reload, syncVars, cleanupVars, remote>>
-----------------------------------------------------------------------------
(* Reload *)

Fire(s) ==
  /\ timer /\ reload[s].at = "free"
  /\ timer' = FALSE
  /\ reload' = [reload EXCEPT ![s].at = "read"]
  /\ UNCHANGED <<fileVars, filterVars, syncVars, cleanupVars, remote>>

Occurrences(s, r) == Cardinality({i \in DOMAIN s : s[i] = r})

\* isStrictSubset, repetitions counted.
StrictSubset(new, old) ==
  /\ Len(new) < Len(old)
  /\ \A i \in DOMAIN new : Occurrences(new, new[i]) <= Occurrences(old, new[i])

\* Something besides call s may still commit what the file says: the timer,
\* or a call that has not read the file yet or has read just that.
Coming(s) ==
  \/ timer
  \/ \E t \in Slots \ {s} :
       \/ reload[t].at = "read"
       \/ reload[t].at \in {"confirm", "commit"} /\ reload[t].new = file

\* Call s reads content c, or has an error.  When the file cannot be looked
\* for (Stat), that is taken for an empty file.  No failure is tried again.
ReadRules(s, c, ok) ==
  /\ c \in {file, Empty}
  /\ missed' = (missed \/ (~(ok /\ c = file) /\ ~Coming(s)))

\* An error, content known or malformed ends the call.
Read(s, c, ok) ==
  /\ reload[s].at = "read"
  /\ ReadRules(s, c, ok)
  /\ reload' = [reload EXCEPT ![s] =
       IF ~ok \/ c = hash \/ Refused(c) THEN NoReload
       ELSE [at |-> IF StrictSubset(RulesOf[c], rules) THEN "confirm" ELSE "commit",
             new |-> c]]
  /\ UNCHANGED <<file, edits, filterVars, timer, syncVars, cleanupVars, remote>>

\* Fewer rules: read again after 50 ms, and give up when the file changed.
Confirm(s, c, ok) ==
  /\ reload[s].at = "confirm"
  /\ ReadRules(s, c, ok)
  /\ reload' = [reload EXCEPT ![s] =
       IF ok /\ c = reload[s].new THEN [@ EXCEPT !.at = "commit"] ELSE NoReload]
  /\ UNCHANGED <<file, edits, filterVars, timer, syncVars, cleanupVars, remote>>

\* What was read is committed, whatever the file says by now and whatever a
\* call that began later has committed.
Commit(s) ==
  /\ reload[s].at = "commit"
  /\ rules' = RulesOf[reload[s].new]
  /\ hash' = reload[s].new
  /\ missed' = (hash' # file /\ (missed \/ ~Coming(s)))
  /\ IF rules' # rules
     THEN /\ generation' = generation + 1
          /\ reload' = [reload EXCEPT ![s] = [NoReload EXCEPT !.at = "notify"]]
     ELSE /\ UNCHANGED generation
          /\ reload' = [reload EXCEPT ![s] = NoReload]
  /\ UNCHANGED <<file, edits, timer, syncVars, cleanupVars, remote>>

\* Mutant of Coalesce: a change during a run is forgotten.
CoalesceNothing ==
  /\ running' = TRUE
  /\ cleanup' = IF running THEN cleanup ELSE [cleanup EXCEPT !.at = "scan"]
  /\ UNCHANGED pending

\* A running cleanup is told to run once more, or one is started.
Coalesce ==
  IF running THEN pending' = TRUE /\ UNCHANGED <<running, cleanup>>
  ELSE /\ running' = TRUE /\ UNCHANGED pending
       /\ cleanup' = [cleanup EXCEPT !.at = "scan"]

\* reloadFilter after a change of the rules.
Notify(s) ==
  /\ reload[s].at = "notify"
  /\ reload' = [reload EXCEPT ![s] = NoReload]
  /\ fullSync' = TRUE
  /\ Coalesce
  /\ UNCHANGED <<fileVars, filterVars, timer, full, single, scanned, remote>>
-----------------------------------------------------------------------------
(* CleanupLeaks *)

\* findGhosts: the files of the listing that are excluded now, or an error,
\* which is logged.
Scan ==
  /\ cleanup.at = "scan"
  /\ \E leaks \in {remote \cap Excluded(rules), {}} :
       cleanup' = [at |-> "delete", leaks |-> leaks]
  /\ scanned' = generation
  /\ UNCHANGED <<fileVars, filterVars, timer, reload, syncVars, running, pending, remote>>

\* A file that cannot be deleted stays.
DeleteLeak(f) ==
  /\ cleanup.at = "delete" /\ f \in cleanup.leaks
  /\ cleanup' = [cleanup EXCEPT !.leaks = @ \ {f}]
  /\ remote' \in {remote \ {f}, remote}
  /\ UNCHANGED <<fileVars, filterVars, timer, reload, syncVars, running, pending, scanned>>

\* The callback returns: once more for the changes that came meanwhile.
Cleaned ==
  /\ cleanup.at = "delete" /\ cleanup.leaks = {}
  /\ pending' = FALSE
  /\ running' = pending
  /\ cleanup' = [cleanup EXCEPT !.at = IF pending THEN "scan" ELSE "off"]
  /\ UNCHANGED <<fileVars, filterVars, timer, reload, syncVars, scanned, remote>>
-----------------------------------------------------------------------------
(* The syncs. *)

\* syncFullProject notes the generation, then generates the filter file.
BeginFull ==
  /\ fullSync /\ full.at = "idle"
  /\ fullSync' = FALSE
  /\ full' = [at |-> "generate", gen |-> generation, rules |-> <<>>]
  /\ UNCHANGED <<fileVars, filterVars, timer, reload, single, cleanupVars, remote>>

Generate ==
  /\ full.at = "generate"
  /\ full' = [full EXCEPT !.at = "check", !.rules = rules]
  /\ UNCHANGED <<fileVars, filterVars, timer, reload, fullSync, single, cleanupVars, remote>>

\* A sync with old rules is skipped: another one is queued.
Check ==
  /\ full.at = "check"
  /\ full' = IF generation # full.gen THEN NoFull ELSE [full EXCEPT !.at = "copy"]
  /\ UNCHANGED <<fileVars, filterVars, timer, reload, fullSync, single, cleanupVars, remote>>

\* rclone copies what its filter file includes.
Copy ==
  /\ full.at = "copy"
  /\ remote' = remote \cup {f \in Files : ~RcloneExcludes(full.rules, f)}
  /\ full' = NoFull
  /\ UNCHANGED <<fileVars, filterVars, timer, reload, fullSync, single, cleanupVars>>

\* syncSingleFile asks the filter first, and copies some time later.
BeginSingle(f) ==
  /\ f \notin single \cup Excluded(rules)
  /\ single' = single \cup {f}
  /\ UNCHANGED <<fileVars, filterVars, timer, reload, fullSync, full, cleanupVars, remote>>

EndSingle(f) ==
  /\ f \in single
  /\ single' = single \ {f}
  /\ remote' = remote \cup {f}
  /\ UNCHANGED <<fileVars, filterVars, timer, reload, fullSync, full, cleanupVars>>

\* The ticker of heartbeatLoop.
Reconcile ==
  /\ ~fullSync
  /\ fullSync' = TRUE
  /\ UNCHANGED <<fileVars, filterVars, timer, reload, full, single, cleanupVars, remote>>

Reloading(s) ==
  \/ Fire(s) \/ Commit(s) \/ Notify(s)
  \/ \E c \in Contents, ok \in BOOLEAN : Read(s, c, ok) \/ Confirm(s, c, ok)
Cleaning == Scan \/ (\E f \in Files : DeleteLeak(f)) \/ Cleaned
Full == BeginFull \/ Generate \/ Check \/ Copy

Next ==
  \/ \E c \in Contents : Edit(c)
  \/ Delete
  \/ \E s \in Slots : Reloading(s)
  \/ Cleaning
  \/ Full
  \/ \E f \in Files : BeginSingle(f) \/ EndSingle(f)
  \/ Reconcile

Spec == Init /\ [][Next]_vars

\* Timers fire, Reload, the cleanup and the syncs go on, and the reconcile
\* ticker ticks.  Nobody need edit the file.
FairSpec ==
  /\ Spec
  /\ \A s \in Slots : WF_vars(Reloading(s))
  /\ WF_vars(Cleaning) /\ WF_vars(Full) /\ WF_vars(Reconcile)
  /\ \A f \in Files : WF_vars(EndSingle(f))
-----------------------------------------------------------------------------
TypeOK ==
  /\ file \in Contents /\ hash \in Contents /\ generation \in Nat
  /\ rules \in {Loaded(c) : c \in Contents} \cup {RulesOf[c] : c \in Contents}
  /\ timer \in BOOLEAN /\ fullSync \in BOOLEAN
  /\ \A s \in Slots :
       reload[s].at \in {"free", "read", "confirm", "commit", "notify"}
  /\ full.at \in {"idle", "generate", "check", "copy"}
  /\ cleanup.at \in {"off", "scan", "delete"}
  /\ running \in BOOLEAN /\ pending \in BOOLEAN
  /\ single \subseteq Files /\ remote \subseteq Files /\ cleanup.leaks \subseteq Files

\* IsExcluded and the filter file of rclone agree about every file under
\* whatever rules were committed.
RcloneAgrees == Agrees(rules)

\* The rules come to be those of the file, unless it is malformed, through
\* truncations, deferred shrinks, coalesced timers and overlapping reloads.
\* Nothing is promised when .syncignore was removed, which is not noticed, or
\* when the last reload there was could not read it or was overtaken: such a
\* reload is not repeated and the old rules stay.
Settles == file # hash ~> file = hash \/ Refused(file) \/ missed

\* Every change of the rules is followed by a scan for leaks under those rules
\* or later ones, although a change may come while a cleanup is running.  (The
\* scan may fail, and is not repeated then.)
ChangeScanned == scanned < generation ~> scanned = generation

\* "Auto-clean LEAKs when .syncignore filter rules change" (main.go:782): in
\* the end no file stays on the remote that the rules exclude.
LeaksGone == <>[](remote \cap Excluded(rules) = {})
=============================================================================
