------------------------------ MODULE ConfigEdit ------------------------------
(* config.yaml under concurrent commands: addmirror, unmirror and remote (the *)
(* default), each a process of its own that may die between any two steps.    *)
(*                                                                            *)
(* withConfigLock brackets read, modify and atomic rename.  What a command    *)
(* does outside the bracket is the interesting part: addmirror chooses a name *)
(* and checks paths against a configuration it loaded earlier, writes a fresh *)
(* file when it could not load one, and validates the result afterwards,      *)
(* taking its mirror out again when that fails.                               *)
EXTENDS Naturals, FiniteSets

CONSTANTS
  Commands,   \* processes
  Paths,
  Base,       \* last element of a path, the name a mirror gets
  Within,     \* pairs of paths, the first inside the second
  Begins,     \* what the file may be at first: subset of Forms
  MaxRuns     \* commands run in a behaviour

Forms == {"absent", "broken", "yaml"}

VARIABLES
  form,       \* of the file: none, not parseable, parseable
  mirrors,    \* its entries
  lock,       \* holder of config.yaml.lock
  pc, path, name,
  copy,       \* what each command read under the lock
  told,       \* mirrors there at first or reported as added, less those unmirrored
  cut,        \* a process died, or gave up waiting for the lock to revert
  runs

vars == <<form, mirrors, lock, pc, path, name, copy, told, cut, runs>>

Nobody == "nobody"

\* Assumed of the constants by the proofs: at first the file is there and can be
\* parsed (ce_created.cfg begins without it), and the mark is not a command.
EditAssumption == Begins \subseteq {"yaml"} /\ Nobody \notin Commands

Names == {Base[p] : p \in Paths} \cup {"second"}
Mirror == [name : Names, path : Paths]

(* validateNoLocalPathOverlap: no path is another's, or inside it. *)
NoOverlap(ms) ==
  \A m, n \in ms : m # n => m.path # n.path /\ <<m.path, n.path>> \notin Within

(* Validate: at least one mirror, and their names differ. *)
Valid(ms) ==
  /\ ms # {}
  /\ \A m, n \in ms : m # n => m.name # n.name
  /\ NoOverlap(ms)

Loadable == form = "yaml" /\ Valid(mirrors)

Init ==
  /\ form \in Begins
  /\ mirrors \in IF form = "absent" THEN {{}}
                 ELSE {{[name |-> Base[p], path |-> p]} : p \in Paths}
  /\ lock = Nobody
  /\ pc = [c \in Commands |-> "idle"]
  /\ path = [c \in Commands |-> CHOOSE p \in Paths : TRUE]
  /\ name = [c \in Commands |-> "second"]
  /\ copy = [c \in Commands |-> {}]
  /\ told = mirrors
  /\ runs = 0
  /\ cut = FALSE

Goto(c, s) == pc' = [pc EXCEPT ![c] = s]
Step(c, from, to) == pc[c] = from /\ Goto(c, to)
Same(vs) == UNCHANGED vs

Unique(p, ms) == IF Base[p] \in {m.name : m \in ms} THEN "second" ELSE Base[p]

(* What the command loaded: by Load, or by LoadRaw when Load refuses. *)
Known == IF form = "yaml" THEN mirrors ELSE {}

(* addOneMirror up to config.AddMirror: the name is unique among those        *)
(* loaded, which may have changed by the time it is written.                  *)
AddOne(c, p) ==
  /\ path' = [path EXCEPT ![c] = p]
  /\ name' = [name EXCEPT ![c] = Unique(p, Known)]

(* cmdAddMirror.  A path that is a mirror already is refused; a file neither  *)
(* Load nor LoadRaw can read is "created".                                    *)
AddMirror(c) ==
  /\ runs < MaxRuns
  /\ \E p \in Paths \ {m.path : m \in Known} : AddOne(c, p)
  /\ Step(c, "idle", IF form = "yaml" THEN "add" ELSE "create")
  /\ runs' = runs + 1
  /\ Same(<<form, mirrors, lock, copy, told, cut>>)

(* os.WriteFile of the initial text, without the lock. *)
Create(c) ==
  /\ Step(c, "create", "add")
  /\ form' = "yaml"
  /\ mirrors' = {}
  /\ Same(<<lock, path, name, copy, told, cut, runs>>)

(* findMirror: the argument is a name, else a local path (or a remote, left *)
(* out here). *)
Found(arg) ==
  LET named == {m \in mirrors : m.name = arg} IN
  IF named # {} THEN named ELSE {m \in mirrors : m.path = arg}

(* loadConfig of unmirror is strict, findMirror picks an entry. *)
Unmirror(c) ==
  /\ runs < MaxRuns
  /\ Loadable
  /\ \E arg \in Names \cup Paths : \E m \in Found(arg) : name' = [name EXCEPT ![c] = m.name]
  /\ Step(c, "idle", "remove")
  /\ runs' = runs + 1
  /\ Same(<<form, mirrors, lock, path, copy, told, cut>>)

SetRemote(c) ==
  /\ runs < MaxRuns
  /\ Step(c, "idle", "set")
  /\ runs' = runs + 1
  /\ Same(<<form, mirrors, lock, path, name, copy, told, cut>>)

LockFreeAlways == TRUE  \* a mutant of LockFree
LockFree == lock = Nobody

(* withConfigLock polls until the lock is free or five seconds have passed. *)
TakeLock(c, from, to) ==
  /\ \/ /\ LockFree
        /\ Step(c, from, to)
        /\ lock' = c
        /\ copy' = [copy EXCEPT ![c] = mirrors]
     \/ /\ lock # Nobody
        /\ Step(c, from, "idle")
        /\ Same(<<lock, copy>>)
  /\ cut' = (cut \/ (from = "revert" /\ pc'[c] = "idle"))
  /\ Same(<<form, mirrors, path, name, told, runs>>)

DropLock == lock' = Nobody

(* addMirrorLocked: an entry of the same name is an error; otherwise the text *)
(* that was read, with the new entry, is renamed over the file.               *)
Append(c) ==
  LET m == [name |-> name[c], path |-> path[c]]
      taken == \E n \in copy[c] : n.name = name[c] IN
  /\ DropLock
  /\ IF taken THEN Step(c, "adding", "idle") /\ Same(mirrors)
              ELSE Step(c, "adding", "validate") /\ mirrors' = copy[c] \cup {m}
  /\ Same(<<form, path, name, copy, told, cut, runs>>)

RevertsNever(ok) == FALSE  \* a mutant of Reverts
Reverts(ok) == ~ok

(* config.Load of the result; "Reverting: removing mirror from config". *)
Validate(c) ==
  /\ IF Reverts(Loadable)
     THEN Step(c, "validate", "revert") /\ Same(told)
     ELSE /\ Step(c, "validate", "idle")
          /\ told' = told \cup {m \in mirrors : m.name = name[c] /\ m.path = path[c]}
  /\ Same(<<form, mirrors, lock, path, name, copy, cut, runs>>)

(* removeMirrorLocked, by name: for unmirror, or to revert an addmirror. *)
Remove(c) ==
  /\ \/ Step(c, "removing", "idle") /\ told' = {m \in told : m.name # name[c]}
     \/ Step(c, "reverting", "idle") /\ Same(told)
  /\ DropLock
  /\ mirrors' = {m \in copy[c] : m.name # name[c]}
  /\ Same(<<form, path, name, copy, cut, runs>>)

(* setFieldLocked: a missing file is written with the one field. *)
WriteField(c) ==
  /\ Step(c, "setting", "idle")
  /\ DropLock
  /\ IF form = "absent" THEN form' = "yaml" /\ Same(mirrors)
                        ELSE mirrors' = copy[c] /\ Same(form)
  /\ Same(<<path, name, copy, told, cut, runs>>)

(* The process dies: the system frees its lock, its temporary file stays. *)
Crash(c) ==
  /\ pc[c] # "idle"
  /\ Goto(c, "idle")
  /\ lock' = IF lock = c THEN Nobody ELSE lock
  /\ cut' = TRUE
  /\ Same(<<form, mirrors, path, name, copy, told, runs>>)

Next ==
  \E c \in Commands :
    \/ AddMirror(c) \/ Create(c) \/ Unmirror(c) \/ SetRemote(c)
    \/ TakeLock(c, "add", "adding") \/ TakeLock(c, "remove", "removing")
    \/ TakeLock(c, "revert", "reverting") \/ TakeLock(c, "set", "setting")
    \/ Append(c) \/ Validate(c) \/ Remove(c) \/ WriteField(c) \/ Crash(c)

Spec == Init /\ [][Next]_vars
-------------------------------------------------------------------------------
TypeOK ==
  /\ form \in Forms /\ mirrors \subseteq Mirror /\ told \subseteq Mirror
  /\ lock \in Commands \cup {Nobody}
  /\ path \in [Commands -> Paths] /\ name \in [Commands -> Names]
  /\ copy \in [Commands -> SUBSET Mirror]

(* edit.go:26-40: no edit is lost and none comes back, whatever commands edit *)
(* at the same time: a mirror goes when a command that removes its name ends, *)
(* and comes when a command that adds it has written.  The lock gives this as *)
(* long as the file exists and can be parsed; Create writes without it        *)
(* (ce_created.cfg).                                                          *)
EditsKept ==
  [][/\ \A m \in mirrors \ mirrors' : \E c \in Commands :
          pc[c] \in {"removing", "reverting"} /\ pc'[c] = "idle" /\ m.name = name[c]
     /\ \A m \in mirrors' \ mirrors : \E c \in Commands :
          /\ pc[c] = "adding" /\ pc'[c] = "validate"
          /\ m = [name |-> name[c], path |-> path[c]]]_vars

(* That a mirror which was there, or was reported as added, only goes by      *)
(* unmirror does not follow: addmirror reverts by name, and the name may be   *)
(* another command's by then (ce_reverted.cfg).                               *)
ReportedKept == told \subseteq mirrors

(* cmdaddmirror.go, the revert: commands that ran to their end leave a        *)
(* configuration start accepts, whatever overlapping mirrors they were adding *)
(* at the same time.  A command that cannot revert says it needs repair.      *)
LoadableAtRest ==
  (\A c \in Commands : pc[c] = "idle") /\ ~cut /\ mirrors # {} => Loadable
===============================================================================
