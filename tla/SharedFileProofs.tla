-------------------------- MODULE SharedFileProofs --------------------------
(***************************************************************************)
(* Theorems about the components in which processes share a file: the      *)
(* instance lock, the state database, the configuration and the binary.    *)
(* Each invariant relates what is in the file to the place every process   *)
(* has got to.                                                             *)
(***************************************************************************)
EXTENDS SafetyParts, TLAPS

-----------------------------------------------------------------------------
(***************************************************************************)
(* OneInstance, where a file that is open cannot be removed (Windows, the  *)
(* platform the lock was written for).  Mutual exclusion follows from the  *)
(* operating system's lock only if all processes lock the same file; so    *)
(* the invariant says that every file that is open is the one the path     *)
(* names.                                                                  *)
(***************************************************************************)

Opened == {"trylock", "truncate", "write", "held", "close", "probe", "unprobe"}
Locking == {"truncate", "write", "held", "unprobe"}

\* An open file has the name; a closed handle is none.
Named ==
  \A p \in il_Processes :
    IF il_pc[p] \in Opened THEN il_open[p] \in il_Files /\ il_open[p] = il_name
                        ELSE il_open[p] = Instance!NoFile

\* Whoever has acquired or is probing owns the lock of the file it has open.
Owned == \A p \in il_Processes : il_pc[p] \in Locking => il_owner[il_open[p]] = p

InstanceInv == Instance!TypeOK /\ Named /\ Owned

LEMMA InitLocked == Instance!Init => InstanceInv
  BY DEF Instance!Init, InstanceInv, Instance!TypeOK, Named, Owned, Instance!PCs,
         Instance!Answers, Opened, Locking

LEMMA OpenKeeps ==
  ASSUME Instance!InstanceAssumption, InstanceInv, NEW p \in il_Processes,
         il_pc[p] = "idle",
         NEW s \in {"trylock", "probe"}, Instance!OpenFile(p), Instance!Goto(p, s)
  PROVE  InstanceInv'
<1>1. il_name' \in il_Files /\ il_open' = [il_open EXCEPT ![p] = il_name']
      /\ il_owner' = il_owner /\ il_answer' = il_answer
      /\ \A q \in il_Processes \ {p} :
           il_open[q] # Instance!NoFile => il_name' = il_name
  BY DEF Instance!OpenFile, InstanceInv, Instance!TypeOK, Named,
         Instance!InstanceAssumption
<1>2. Instance!TypeOK'
  BY <1>1
     DEF Instance!OpenFile, Instance!Goto, InstanceInv, Instance!TypeOK,
         Instance!PCs
<1>3. Named'
  BY <1>1
     DEF Instance!Goto, InstanceInv, Instance!TypeOK, Named,
         Instance!InstanceAssumption, Opened
<1>4. Owned'
  BY <1>1 DEF Instance!Goto, InstanceInv, Instance!TypeOK, Owned, Locking
<1> QED
  BY <1>2, <1>3, <1>4 DEF InstanceInv

\* A lock that is free may be taken.
LEMMA LockKeeps ==
  ASSUME Instance!InstanceAssumption, InstanceInv, NEW p \in il_Processes,
         NEW from \in {"trylock", "probe"}, NEW to \in {"truncate", "unprobe"},
         il_pc[p] = from, il_owner[il_open[p]] = Instance!Nobody,
         il_owner' = [il_owner EXCEPT ![il_open[p]] = p], Instance!Goto(p, to),
         UNCHANGED <<il_name, il_open, il_pid, il_answer>>
  PROVE  InstanceInv'
<1>1. il_open[p] \in il_Files /\ il_open[p] = il_name
  BY DEF InstanceInv, Named, Opened
<1>2. Instance!TypeOK'
  BY <1>1 DEF Instance!Goto, InstanceInv, Instance!TypeOK, Instance!PCs
<1>3. Named'
  BY <1>1 DEF Instance!Goto, InstanceInv, Instance!TypeOK, Named, Opened
<1>4. Owned'
  <2> SUFFICES ASSUME NEW q \in il_Processes, il_pc'[q] \in Locking
               PROVE  il_owner'[il_open'[q]] = q
    BY DEF Owned
  <2>1. CASE q = p
    BY <2>1, <1>1 DEF InstanceInv, Instance!TypeOK
  <2>2. CASE q # p
    <3>1. il_pc[q] \in Locking
      BY <2>2 DEF Instance!Goto, InstanceInv, Instance!TypeOK
    <3>2. il_open[q] = il_name /\ il_owner[il_name] = q
      BY <3>1 DEF InstanceInv, Named, Owned, Opened, Locking
    <3> QED
      BY <3>2, <1>1 DEF Instance!InstanceAssumption
  <2> QED
    BY <2>1, <2>2
<1> QED
  BY <1>2, <1>3, <1>4 DEF InstanceInv

\* Leaving the lock, the file or both behind disturbs nobody else.
LEMMA LeaveKeeps ==
  ASSUME Instance!InstanceAssumption, InstanceInv, NEW p \in il_Processes,
         NEW to \in {"failed", "idle", "close", "remove", "crashed"},
         Instance!Goto(p, to), il_name' = il_name, il_pid' = il_pid,
         il_open' = IF to = "close" THEN il_open
                    ELSE [il_open EXCEPT ![p] = Instance!NoFile],
         to = "close" => il_pc[p] = "held",
         il_owner' \in [il_Files -> il_Processes \cup {Instance!Nobody}],
         \A f \in il_Files : il_owner[f] # p => il_owner'[f] = il_owner[f],
         il_answer' \in [il_Processes -> Instance!Answers]
  PROVE  InstanceInv'
<1>1. Instance!TypeOK'
  BY DEF Instance!Goto, InstanceInv, Instance!TypeOK, Instance!PCs
<1>2. Named'
  BY DEF Instance!Goto, InstanceInv, Instance!TypeOK, Named, Opened
<1>3. Owned'
  BY DEF Instance!Goto, InstanceInv, Instance!TypeOK, Named, Owned, Opened, Locking
<1> QED
  BY <1>1, <1>2, <1>3 DEF InstanceInv

LEMMA StepLocked ==
  ASSUME Instance!InstanceAssumption, il_KeepsOpen, InstanceInv,
         [Instance!Next]_Instance!vars
  PROVE  InstanceInv'
<1>1. CASE UNCHANGED Instance!vars
  BY <1>1 DEF Instance!vars, InstanceInv, Instance!TypeOK, Named, Owned
<1>2. ASSUME NEW p \in il_Processes, Instance!Acquire(p) \/ Instance!IsLocked(p)
      PROVE  InstanceInv'
  BY <1>2, OpenKeeps DEF Instance!Acquire, Instance!IsLocked
<1>3. ASSUME NEW p \in il_Processes, Instance!TryLock(p)
      PROVE  InstanceInv'
  <2>1. CASE il_owner[il_open[p]] = Instance!Nobody
    BY <1>3, <2>1, LockKeeps DEF Instance!TryLock, InstanceInv, Named, Opened
  <2>2. CASE il_owner[il_open[p]] # Instance!Nobody
    BY <1>3, <2>2, LeaveKeeps DEF Instance!TryLock, InstanceInv, Instance!TypeOK
  <2> QED
    BY <2>1, <2>2
<1>4. ASSUME NEW p \in il_Processes, Instance!Classify(p)
      PROVE  InstanceInv'
  <2>1. Instance!TypeOK'
    BY <1>4
       DEF Instance!Classify, Instance!Goto, Instance!Answer, InstanceInv,
           Instance!TypeOK, Instance!PCs, Instance!Answers
  <2>2. Named' /\ Owned'
    BY <1>4
       DEF Instance!Classify, Instance!Goto, InstanceInv, Instance!TypeOK, Named,
           Owned, Opened, Locking
  <2> QED
    BY <2>1, <2>2 DEF InstanceInv
<1>5. ASSUME NEW p \in il_Processes, Instance!Truncate(p) \/ Instance!WritePID(p)
      PROVE  InstanceInv'
  <2>1. il_open[p] \in il_Files
    BY <1>5 DEF Instance!Truncate, Instance!WritePID, InstanceInv, Named, Opened
  <2>2. Instance!TypeOK'
    BY <1>5, <2>1
       DEF Instance!Truncate, Instance!WritePID, Instance!Goto, Instance!Answer,
           InstanceInv, Instance!TypeOK, Instance!PCs, Instance!Answers
  <2>3. Named' /\ Owned'
    BY <1>5
       DEF Instance!Truncate, Instance!WritePID, Instance!Goto, InstanceInv,
           Instance!TypeOK, Named, Owned, Opened, Locking
  <2> QED
    BY <2>2, <2>3 DEF InstanceInv
<1>6. ASSUME NEW p \in il_Processes, Instance!Release(p)
      PROVE  InstanceInv'
  <2>1. CASE Instance!Unlock(p, "held", "close")
    BY <2>1, LeaveKeeps
       DEF Instance!Unlock, InstanceInv, Instance!TypeOK, Named, Owned, Opened,
           Locking
  <2>2. CASE Instance!CloseFile(p, "close", "remove")
    BY <2>2, LeaveKeeps DEF Instance!CloseFile, InstanceInv, Instance!TypeOK
  <2>3. CASE Instance!Remove(p)
    <3>1. \/ il_name' = il_name
          \/ il_name' = Instance!NoFile /\ \A q \in il_Processes : il_open[q] # il_name
      BY <2>3 DEF Instance!Remove, Instance!Removable, Instance!OpenBy
    <3>2. Instance!TypeOK'
      BY <2>3
         DEF Instance!Remove, Instance!Goto, InstanceInv, Instance!TypeOK,
             Instance!PCs
    <3>3. Named' /\ Owned'
      BY <2>3, <3>1
         DEF Instance!Remove, Instance!Goto, InstanceInv, Instance!TypeOK, Named,
             Owned, Opened, Locking
    <3> QED
      BY <3>2, <3>3 DEF InstanceInv
  <2> QED
    BY <1>6, <2>1, <2>2, <2>3 DEF Instance!Release
<1>7. ASSUME NEW p \in il_Processes, Instance!Probe(p)
      PROVE  InstanceInv'
  <2>1. CASE il_pc[p] = "probe" /\ il_owner[il_open[p]] = Instance!Nobody
    BY <1>7, <2>1, LockKeeps DEF Instance!Probe
  <2>2. CASE il_pc[p] = "probe" /\ il_owner[il_open[p]] # Instance!Nobody
    BY <1>7, <2>2, LeaveKeeps DEF Instance!Probe, InstanceInv, Instance!TypeOK
  <2>3. CASE il_pc[p] = "unprobe"
    BY <1>7, <2>3, LeaveKeeps
       DEF Instance!Probe, InstanceInv, Instance!TypeOK, Named, Owned, Opened,
           Locking
  <2> QED
    BY <1>7, <2>1, <2>2, <2>3 DEF Instance!Probe
<1>8. ASSUME NEW p \in il_Processes, Instance!Crash(p)
      PROVE  InstanceInv'
  BY <1>8, LeaveKeeps
     DEF Instance!Crash, Instance!Answer, InstanceInv, Instance!TypeOK,
         Instance!Answers
<1>9. ASSUME NEW p \in il_Processes, Instance!Relaunch(p)
      PROVE  InstanceInv'
  <2>1. Instance!TypeOK'
    BY <1>9
       DEF Instance!Relaunch, Instance!Goto, InstanceInv, Instance!TypeOK,
           Instance!PCs
  <2>2. Named' /\ Owned'
    BY <1>9
       DEF Instance!Relaunch, Instance!Goto, InstanceInv, Instance!TypeOK, Named,
           Owned, Opened, Locking
  <2> QED
    BY <2>1, <2>2 DEF InstanceInv
<1> QED
  BY <1>1, <1>2, <1>3, <1>4, <1>5, <1>6, <1>7, <1>8, <1>9 DEF Instance!Next

LEMMA LockedExcludes ==
  ASSUME Instance!InstanceAssumption, InstanceInv
  PROVE  Instance!OneInstance
BY DEF InstanceInv, Named, Owned, Instance!OneInstance, Instance!Running, Opened,
       Locking

\* lock.go:1: at most one process is past AcquirePath, through takings between
\* another's unlock and remove, probes, crashes and new processes that get the
\* number of a dead one, as long as an open file keeps its name.
THEOREM OneInstanceAtATime ==
  ASSUME il_KeepsOpen
  PROVE  Instance!Spec => []OneInstance
<1> USE SafetyPartsAssumption
<1>1. Instance!Init => InstanceInv
  BY InitLocked
<1>2. InstanceInv /\ [Instance!Next]_Instance!vars => InstanceInv'
  BY StepLocked
<1>3. InstanceInv => Instance!OneInstance
  BY LockedExcludes
<1> QED
  BY <1>1, <1>2, <1>3, PTL DEF Instance!Spec, OneInstance

-----------------------------------------------------------------------------
(***************************************************************************)
(* SchemaFits, for any number of migrations each binary knows.  The        *)
(* recorded version alone does not tell which migrations were made: it is  *)
(* written last, and may fall again.  The invariant relates it, and the    *)
(* place each opener has got to, to the columns that are there.            *)
(***************************************************************************)

\* The first n migrations have been made.
Made(n) == \A i \in 0 .. n - 1 : i \in so_applied

\* How many migrations an opener has seen to, from the place it is at.
Seen(p) ==
  IF so_pc[p] \in {"begin", "commit"} THEN so_step[p]
  ELSE IF so_pc[p] \in {"integrity", "read", "record", "open"} THEN so_Knows[p]
  ELSE 0

SchemaTypes ==
  /\ so_applied \subseteq Nat
  /\ so_version \in Nat \cup {Opening!Unset}
  /\ so_pc \in [so_Openers -> Opening!PCs]
  /\ so_step \in [so_Openers -> Nat]

SchemaInv ==
  /\ SchemaTypes
  /\ Made(Opening!Recorded)
  /\ \A p \in so_Openers : Made(Seen(p))

LEMMA InitSchema == ASSUME Opening!OpenAssumption, Opening!Init PROVE SchemaInv
  BY DEF Opening!OpenAssumption, Opening!Init, SchemaInv, SchemaTypes, Made, Seen,
         Opening!Recorded, Opening!Unset, Opening!PCs

\* One opener goes on; no migration is undone, and it has seen to no more than
\* what is made.
LEMMA OneGoesOn ==
  ASSUME Opening!OpenAssumption, SchemaInv, NEW p \in so_Openers,
         NEW s \in Opening!PCs,
         so_pc' = [so_pc EXCEPT ![p] = s], so_step' \in [so_Openers -> Nat],
         \A q \in so_Openers \ {p} : so_step'[q] = so_step[q],
         so_applied \subseteq so_applied', so_applied' \subseteq Nat,
         so_version' \in Nat \cup {Opening!Unset},
         Made(Opening!Recorded)', Made(Seen(p))'
  PROVE  SchemaInv'
<1>1. SchemaTypes'
  BY DEF SchemaInv, SchemaTypes
<1>2. ASSUME NEW q \in so_Openers
      PROVE  Made(Seen(q))'
  <2>1. CASE q = p
    BY <2>1
  <2>2. CASE q # p
    <3>1. Seen(q)' = Seen(q)
      BY <2>2 DEF Seen, SchemaInv, SchemaTypes
    <3> QED
      BY <3>1 DEF Made, SchemaInv
  <2> QED
    BY <2>1, <2>2
<1> QED
  BY <1>1, <1>2 DEF SchemaInv

\* A step that neither migrates nor records only has to say where it leads.
LEMMA OneMoves ==
  ASSUME Opening!OpenAssumption, SchemaInv, NEW p \in so_Openers,
         NEW s \in Opening!PCs,
         so_pc' = [so_pc EXCEPT ![p] = s], so_step' = so_step,
         so_applied' = so_applied,
         so_version' = so_version,
         \/ s \notin {"begin", "commit", "integrity", "read", "record", "open"}
         \/ s \in {"begin", "commit"} /\ so_pc[p] \in {"begin", "commit"}
         \/ /\ s \in {"integrity", "read", "record", "open"}
            /\ \/ so_pc[p] \in {"integrity", "read", "record", "open"}
               \/ so_pc[p] = "begin" /\ so_step[p] >= so_Knows[p]
  PROVE  SchemaInv'
<1>1. Made(Opening!Recorded)'
  BY DEF SchemaInv, Made, Opening!Recorded
<1>2. Seen(p)' <= Seen(p) /\ Seen(p)' \in Nat /\ Seen(p) \in Nat
  BY DEF Seen, SchemaInv, SchemaTypes, Opening!OpenAssumption
<1>3. Made(Seen(p))'
  BY <1>2 DEF SchemaInv, Made
<1> QED
  BY <1>1, <1>3, OneGoesOn DEF SchemaInv, SchemaTypes

LEMMA StepSchema ==
  ASSUME Opening!OpenAssumption, SchemaInv, [Opening!Next]_Opening!vars
  PROVE  SchemaInv'
<1>1. CASE UNCHANGED Opening!vars \/ Opening!Tear
  BY <1>1
     DEF Opening!vars, Opening!Tear, SchemaInv, SchemaTypes, Made, Seen,
         Opening!Recorded
<1>2. ASSUME NEW p \in so_Openers,
             \/ Opening!Stat(p) \/ Opening!Schema(p) \/ Opening!RefuseNewer(p)
             \/ Opening!Integrity(p) \/ Opening!ReadVersion(p)
      PROVE  SchemaInv'
  <2>1. Opening!Stat(p) => SchemaInv'
    BY OneMoves DEF Opening!Stat, Opening!Pause, Opening!Goto, Opening!PCs
  <2>2. Opening!Schema(p) => SchemaInv'
    BY OneMoves DEF Opening!Schema, Opening!Pause, Opening!Goto, Opening!PCs
  <2>3. Opening!RefuseNewer(p) => SchemaInv'
    BY OneMoves DEF Opening!RefuseNewer, Opening!Pause, Opening!Goto, Opening!PCs
  <2>4. Opening!Integrity(p) => SchemaInv'
    BY OneMoves DEF Opening!Integrity, Opening!Pause, Opening!Goto, Opening!PCs
  <2>5. Opening!ReadVersion(p) => SchemaInv'
    BY OneMoves DEF Opening!ReadVersion, Opening!Pause, Opening!Goto, Opening!PCs
  <2> QED
    BY <1>2, <2>1, <2>2, <2>3, <2>4, <2>5
<1>3. ASSUME NEW p \in so_Openers, Opening!From(p)
      PROVE  SchemaInv'
  <2>1. Opening!Recorded \in Nat
    BY DEF Opening!Recorded, Opening!Unset, SchemaInv, SchemaTypes
  <2>2. so_step' = [so_step EXCEPT ![p] = Opening!Recorded]
    BY <1>3 DEF Opening!From, Opening!FirstPending
  <2>3. Seen(p)' = Opening!Recorded /\ Opening!Recorded' = Opening!Recorded
    BY <1>3, <2>2
       DEF Opening!From, Opening!Pause, Opening!Goto, Seen, Opening!Recorded,
           SchemaInv, SchemaTypes
  <2>4. Made(Opening!Recorded)' /\ Made(Seen(p))'
    BY <1>3, <2>3 DEF Opening!From, Made, SchemaInv
  <2> QED
    BY <1>3, <2>1, <2>2, <2>4, OneGoesOn
       DEF Opening!From, Opening!Pause, Opening!Goto, Opening!PCs, SchemaInv,
           SchemaTypes
<1>4. ASSUME NEW p \in so_Openers, Opening!Begin(p)
      PROVE  SchemaInv'
  BY <1>4, OneMoves
     DEF Opening!Begin, Opening!Goto, Opening!PCs, SchemaInv, SchemaTypes,
         Opening!OpenAssumption
<1>5. ASSUME NEW p \in so_Openers, Opening!Commit(p)
      PROVE  SchemaInv'
  <2>1. CASE /\ so_applied' = so_applied \cup {so_step[p]}
             /\ so_step' = [so_step EXCEPT ![p] = @ + 1]
             /\ Opening!Goto(p, "begin")
    <3>1. so_step[p] \in Nat /\ Seen(p) = so_step[p] /\ Seen(p)' = so_step[p] + 1
      BY <1>5, <2>1 DEF Opening!Commit, Opening!Goto, Seen, SchemaInv, SchemaTypes
    <3>2. Made(Seen(p))'
      BY <2>1, <3>1 DEF Made, SchemaInv
    <3>3. Made(Opening!Recorded)'
      BY <1>5, <2>1 DEF Opening!Commit, Made, Opening!Recorded, SchemaInv
    <3>4. so_pc' = [so_pc EXCEPT ![p] = "begin"] /\ "begin" \in Opening!PCs
      BY <2>1 DEF Opening!Goto, Opening!PCs
    <3>5. /\ so_step' \in [so_Openers -> Nat]
          /\ \A q \in so_Openers \ {p} : so_step'[q] = so_step[q]
      BY <2>1, <3>1 DEF SchemaInv, SchemaTypes
    <3>6. so_applied \subseteq so_applied' /\ so_applied' \subseteq Nat
      BY <2>1, <3>1 DEF SchemaInv, SchemaTypes
    <3>7. so_version' \in Nat \cup {Opening!Unset}
      BY <1>5 DEF Opening!Commit, SchemaInv, SchemaTypes
    <3> QED
      BY <3>2, <3>3, <3>4, <3>5, <3>6, <3>7, OneGoesOn
  <2>2. CASE Opening!Goto(p, "failed") /\ UNCHANGED <<so_applied, so_step>>
    BY <1>5, <2>2, OneMoves DEF Opening!Commit, Opening!Goto, Opening!PCs
  <2> QED
    BY <1>5, <2>1, <2>2 DEF Opening!Commit
<1>6. ASSUME NEW p \in so_Openers, Opening!Record(p)
      PROVE  SchemaInv'
  <2>1. CASE UNCHANGED so_version
    BY <1>6, <2>1, OneMoves
       DEF Opening!Record, Opening!Pause, Opening!Goto, Opening!PCs
  <2>2. CASE so_version' = so_Knows[p]
    <3>1. so_Knows[p] \in Nat /\ Seen(p) = so_Knows[p] /\ Seen(p)' = so_Knows[p]
          /\ Opening!Recorded' = so_Knows[p]
      BY <1>6, <2>2
         DEF Opening!Record, Opening!Pause, Opening!Goto, Seen, Opening!Recorded,
             Opening!Unset, SchemaInv, SchemaTypes, Opening!OpenAssumption
    <3>2. Made(Seen(p))' /\ Made(Opening!Recorded)'
      BY <1>6, <3>1 DEF Opening!Record, Made, SchemaInv
    <3> QED
      BY <1>6, <2>2, <3>1, <3>2, OneGoesOn
         DEF Opening!Record, Opening!Pause, Opening!Goto, Opening!PCs, SchemaInv,
             SchemaTypes
  <2> QED
    BY <1>6, <2>1, <2>2 DEF Opening!Record
<1>7. ASSUME NEW p \in so_Openers, Opening!Leave(p)
      PROVE  SchemaInv'
  <2>1. Seen(p)' = 0
    BY <1>7 DEF Opening!Leave, Opening!Goto, Seen, SchemaInv, SchemaTypes
  <2>2. Made(Seen(p))' /\ Made(Opening!Recorded)'
    BY <1>7, <2>1 DEF Opening!Leave, Made, Opening!Recorded, SchemaInv
  <2> QED
    BY <1>7, <2>2, OneGoesOn
       DEF Opening!Leave, Opening!Goto, Opening!PCs, SchemaInv, SchemaTypes
<1> QED
  BY <1>1, <1>2, <1>3, <1>4, <1>5, <1>6, <1>7 DEF Opening!Next

LEMMA SchemaFitsThen == ASSUME SchemaInv PROVE Opening!SchemaFits
  BY DEF SchemaInv, Opening!SchemaFits, Made, Seen

\* migrate and Open (state.go:240-330): a process that has the database open
\* finds every column its statements name, whatever the others' binaries know,
\* in whatever order they migrate and wherever they stop or fail.
THEOREM SchemaAlwaysFits ==
  Opening!Spec => []SchemaFits
<1> USE SafetyPartsAssumption
<1>1. Opening!Init => SchemaInv
  BY InitSchema
<1>2. SchemaInv /\ [Opening!Next]_Opening!vars => SchemaInv'
  BY StepSchema
<1>3. SchemaInv => Opening!SchemaFits
  BY SchemaFitsThen
<1> QED
  BY <1>1, <1>2, <1>3, PTL DEF Opening!Spec, SchemaFits

-----------------------------------------------------------------------------
(***************************************************************************)
(* LoadableAtRest and EditsKept.  The lock of config.yaml makes one        *)
(* command at a time read and write it, so what a command holds in its     *)
(* copy is what is in the file; and of two entries that overlap, one is    *)
(* still to be validated, or reverted, by the command that added it.       *)
(***************************************************************************)

EditPCs == {"idle", "add", "adding", "validate", "revert", "reverting",
            "remove", "removing", "set", "setting"}
Editors == {"adding", "reverting", "removing", "setting"}

EditTypes ==
  /\ ce_form = "yaml" /\ ce_mirrors \subseteq Editing!Mirror
  /\ ce_lock \in ce_Commands \cup {Editing!Nobody}
  /\ ce_pc \in [ce_Commands -> EditPCs]
  /\ ce_path \in [ce_Commands -> ce_Paths]
  /\ ce_name \in [ce_Commands -> Editing!Names]
  /\ ce_copy \in [ce_Commands -> SUBSET Editing!Mirror]
  /\ ce_cut \in BOOLEAN

\* Whoever edits holds the lock, and what it read is what is there.
Locked ==
  \A c \in ce_Commands : ce_pc[c] \in Editors => ce_lock = c /\ ce_copy[c] = ce_mirrors

\* Two mirrors that Validate refuses.
Overlap(m, n) == m # n /\ (m.path = n.path \/ <<m.path, n.path>> \in ce_Within)

\* Command c will load what is there, or remove m.
Reviews(c, m) == ce_pc[c] \in {"validate", "revert", "reverting"} /\ ce_name[c] = m.name

\* Names differ; and as long as no command was cut short, two mirrors overlap
\* only while the command that added one of them has still to look at both.
Reviewed ==
  /\ \A m, n \in ce_mirrors : m # n => m.name # n.name
  /\ ~ce_cut => \A m, n \in ce_mirrors :
               Overlap(m, n) => \E c \in ce_Commands : Reviews(c, m) \/ Reviews(c, n)

EditInv == EditTypes /\ Locked /\ Reviewed

LEMMA InitEdit == ASSUME Editing!EditAssumption, Editing!Init PROVE EditInv
<1>1. PICK p \in ce_Paths : ce_mirrors = {[name |-> ce_Base[p], path |-> p]}
  BY DEF Editing!EditAssumption, Editing!Init
<1>2. ce_form = "yaml" /\ ce_mirrors \subseteq Editing!Mirror
  BY <1>1 DEF Editing!EditAssumption, Editing!Init, Editing!Mirror, Editing!Names
<1>3. EditTypes
  BY <1>1, <1>2 DEF Editing!Init, EditTypes, EditPCs, Editing!Names
<1>4. Locked
  BY DEF Editing!Init, Locked, Editors
<1>5. Reviewed
  BY <1>1 DEF Editing!Init, Reviewed, Overlap
<1> QED BY <1>3, <1>4, <1>5 DEF EditInv

\* A step that leaves the mirrors alone, and nobody's review undone.
LEMMA MirrorsStay ==
  ASSUME Editing!EditAssumption, EditInv, NEW c \in ce_Commands, NEW s \in EditPCs,
         ce_pc' = [ce_pc EXCEPT ![c] = s], ce_mirrors' = ce_mirrors,
         ce_form' = ce_form,
         ce_lock' \in ce_Commands \cup {Editing!Nobody},
         \A d \in ce_Commands \ {c} : ce_lock = d => ce_lock' = d,
         ce_path' \in [ce_Commands -> ce_Paths],
         ce_name' \in [ce_Commands -> Editing!Names],
         \A d \in ce_Commands \ {c} :
           ce_name'[d] = ce_name[d] /\ ce_copy'[d] = ce_copy[d],
         ce_copy' \in [ce_Commands -> SUBSET Editing!Mirror],
         ce_cut' \in BOOLEAN, ce_cut => ce_cut',
         s \in Editors => ce_lock' = c /\ ce_copy'[c] = ce_mirrors,
         \/ ce_cut'
         \/ Editing!NoOverlap(ce_mirrors)
         \/ ce_pc[c] \notin {"validate", "revert", "reverting"}
         \/ s \in {"revert", "reverting"} /\ ce_name'[c] = ce_name[c]
  PROVE  EditInv'
<1> USE DEF EditInv
<1>1. EditTypes'
  BY DEF EditTypes
<1>2. Locked'
  BY DEF EditTypes, Locked
<1>3. Reviewed'
  <2> SUFFICES ASSUME ~ce_cut', NEW m \in ce_mirrors, NEW n \in ce_mirrors,
                      Overlap(m, n)
               PROVE  \E d \in ce_Commands : Reviews(d, m)' \/ Reviews(d, n)'
    BY DEF Reviewed, Overlap
  <2>1. ~Editing!NoOverlap(ce_mirrors)
    BY DEF Editing!NoOverlap, Overlap
  <2>2. PICK d \in ce_Commands : Reviews(d, m) \/ Reviews(d, n)
    BY DEF Reviewed, EditTypes
  <2>3. CASE d = c
    BY <2>1, <2>2, <2>3 DEF Reviews, EditTypes
  <2>4. CASE d # c
    BY <2>2, <2>4 DEF Reviews, EditTypes
  <2> QED BY <2>3, <2>4
<1> QED BY <1>1, <1>2, <1>3

\* Only one command edits at a time.
LEMMA OneEditor ==
  ASSUME EditInv, NEW c \in ce_Commands, NEW d \in ce_Commands \ {c},
         ce_pc[c] \in Editors
  PROVE  ce_pc[d] \notin Editors
BY DEF EditInv, Locked

LEMMA StepEdit ==
  ASSUME Editing!EditAssumption, EditInv, [Editing!Next]_Editing!vars
  PROVE  EditInv'
<1> USE DEF Editing!EditAssumption, EditInv
<1>0. EditTypes
  OBVIOUS
<1>1. ASSUME NEW c \in ce_Commands, Editing!AddMirror(c)
      PROVE  EditInv'
  <2>1. PICK p \in ce_Paths : Editing!AddOne(c, p)
    BY <1>1 DEF Editing!AddMirror
  <2>2. ce_path' \in [ce_Commands -> ce_Paths] /\ ce_name' \in [ce_Commands -> Editing!Names]
        /\ \A d \in ce_Commands \ {c} : ce_name'[d] = ce_name[d]
    BY <2>1 DEF Editing!AddOne, Editing!Unique, Editing!Names, EditTypes
  <2> QED BY <1>1, <2>2, MirrorsStay
          DEF Editing!AddMirror, Editing!Step, Editing!Goto, Editing!Same,
              EditTypes, EditPCs, Editors
<1>2. ASSUME NEW c \in ce_Commands, Editing!Create(c)
      PROVE  FALSE
  BY <1>2 DEF Editing!Create, Editing!Step, EditTypes, EditPCs
<1>3. ASSUME NEW c \in ce_Commands, Editing!Unmirror(c)
      PROVE  EditInv'
  <2>1. PICK m \in ce_mirrors : ce_name' = [ce_name EXCEPT ![c] = m.name]
    BY <1>3 DEF Editing!Unmirror, Editing!Found
  <2>2. m.name \in Editing!Names
    BY DEF EditTypes, Editing!Mirror
  <2>3. /\ ce_name' \in [ce_Commands -> Editing!Names]
        /\ \A d \in ce_Commands \ {c} : ce_name'[d] = ce_name[d]
    BY <2>1, <2>2 DEF EditTypes
  <2> QED BY <1>3, <2>3, MirrorsStay
          DEF Editing!Unmirror, Editing!Step, Editing!Goto, Editing!Same, EditTypes,
              EditPCs, Editors
<1>4. ASSUME NEW c \in ce_Commands, Editing!SetRemote(c)
      PROVE  EditInv'
  BY <1>4, MirrorsStay
     DEF Editing!SetRemote, Editing!Step, Editing!Goto, Editing!Same, EditTypes,
         EditPCs, Editors
<1>5. ASSUME NEW c \in ce_Commands,
             NEW from \in {"add", "remove", "revert", "set"},
             NEW to \in Editors, from = "revert" => to = "reverting",
             Editing!TakeLock(c, from, to)
      PROVE  EditInv'
  <2>1. CASE Editing!LockFree /\ Editing!Step(c, from, to) /\ ce_lock' = c
             /\ ce_copy' = [ce_copy EXCEPT ![c] = ce_mirrors]
    <3>1. ce_copy' \in [ce_Commands -> SUBSET Editing!Mirror] /\ ce_copy'[c] = ce_mirrors
          /\ \A d \in ce_Commands \ {c} : ce_copy'[d] = ce_copy[d]
      BY <2>1 DEF EditTypes
    <3>2. ce_cut' = ce_cut /\ ce_pc[c] = from /\ ce_pc' = [ce_pc EXCEPT ![c] = to]
      BY <1>5, <2>1
         DEF Editing!TakeLock, Editing!Step, Editing!Goto, EditTypes, Editors
    <3>3. /\ ce_mirrors' = ce_mirrors /\ ce_form' = ce_form /\ ce_path' = ce_path
          /\ ce_name' = ce_name
          /\ ce_lock' = c
      BY <1>5, <2>1 DEF Editing!TakeLock, Editing!Step, Editing!Same
    <3>4. \A d \in ce_Commands \ {c} : ce_lock = d => ce_lock' = d
      BY <2>1 DEF Editing!LockFree
    <3>5. to \in EditPCs /\ ce_cut' \in BOOLEAN /\ ce_path' \in [ce_Commands -> ce_Paths]
          /\ ce_name' \in [ce_Commands -> Editing!Names]
          /\ ce_lock' \in ce_Commands \cup {Editing!Nobody}
      BY <3>2, <3>3 DEF EditTypes, EditPCs, Editors
    <3>6. \/ ce_pc[c] \notin {"validate", "revert", "reverting"}
          \/ to \in {"revert", "reverting"} /\ ce_name'[c] = ce_name[c]
      BY <1>5, <3>2, <3>3
    <3> QED BY <3>1, <3>2, <3>3, <3>4, <3>5, <3>6, MirrorsStay
  <2>2. CASE Editing!Step(c, from, "idle") /\ Editing!Same(<<ce_lock, ce_copy>>)
    <3>1. ce_pc' = [ce_pc EXCEPT ![c] = "idle"] /\ ce_pc[c] = from /\ ce_pc'[c] = "idle"
      BY <2>2 DEF Editing!Step, Editing!Goto, EditTypes
    <3>2. ce_cut' = (ce_cut \/ from = "revert")
      BY <1>5, <3>1 DEF Editing!TakeLock
    <3> QED BY <1>5, <2>2, <3>1, <3>2, MirrorsStay
            DEF Editing!TakeLock, Editing!Same, EditTypes, EditPCs, Editors
  <2>3. \/ /\ Editing!LockFree /\ Editing!Step(c, from, to) /\ ce_lock' = c
           /\ ce_copy' = [ce_copy EXCEPT ![c] = ce_mirrors]
        \/ Editing!Step(c, from, "idle") /\ Editing!Same(<<ce_lock, ce_copy>>)
    BY <1>5 DEF Editing!TakeLock
  <2> QED BY <2>1, <2>2, <2>3
<1>6. ASSUME NEW c \in ce_Commands, Editing!Append(c)
      PROVE  EditInv'
  <2> DEFINE m == [name |-> ce_name[c], path |-> ce_path[c]]
             taken == \E n \in ce_copy[c] : n.name = ce_name[c]
  <2>1. ce_pc[c] = "adding" /\ ce_lock = c /\ ce_copy[c] = ce_mirrors
    BY <1>6 DEF Editing!Append, Editing!Step, Locked, Editors
  <2>2. CASE taken
    BY <1>6, <2>1, <2>2, MirrorsStay
       DEF Editing!Append, Editing!DropLock, Editing!Step, Editing!Goto,
           Editing!Same, EditTypes, EditPCs, Editors
  <2>3. CASE ~taken
    <3>1. /\ ce_mirrors' = ce_mirrors \cup {m}
          /\ ce_pc' = [ce_pc EXCEPT ![c] = "validate"]
          /\ ce_lock' = Editing!Nobody
          /\ UNCHANGED <<ce_form, ce_path, ce_name, ce_copy, ce_cut>>
      BY <1>6, <2>1, <2>3
         DEF Editing!Append, Editing!DropLock, Editing!Step, Editing!Goto,
             Editing!Same
    <3>2. m \in Editing!Mirror
      BY DEF Editing!Mirror, EditTypes
    <3>3. EditTypes'
      BY <3>1, <3>2 DEF EditTypes, EditPCs
    <3>4. Locked'
      BY <2>1, <3>1, OneEditor DEF Locked, Editors, EditTypes
    <3>5. \A n \in ce_mirrors : n.name # m.name
      BY <2>1, <2>3
    <3>6. Reviewed'
      <4>1. \A k, n \in ce_mirrors' : k # n => k.name # n.name
        BY <3>1, <3>5 DEF Reviewed
      <4>2. ASSUME NEW k \in ce_mirrors', NEW n \in ce_mirrors', Overlap(k, n),
                   ~ce_cut'
            PROVE  \E d \in ce_Commands : Reviews(d, k)' \/ Reviews(d, n)'
        <5>1. CASE k = m \/ n = m
          BY <3>1, <5>1 DEF Reviews, EditTypes
        <5>2. CASE k # m /\ n # m
          <6>1. PICK d \in ce_Commands : Reviews(d, k) \/ Reviews(d, n)
            BY <3>1, <4>2, <5>2 DEF Reviewed, EditTypes
          <6> QED BY <2>1, <3>1, <6>1 DEF Reviews, EditTypes
        <5> QED BY <5>1, <5>2
      <4> QED BY <4>1, <4>2 DEF Reviewed, Overlap
    <3> QED BY <3>3, <3>4, <3>6
  <2> QED BY <2>2, <2>3
<1>7. ASSUME NEW c \in ce_Commands, Editing!Validate(c)
      PROVE  EditInv'
  <2>1. CASE Editing!Loadable
    <3>1. Editing!NoOverlap(ce_mirrors)
      BY <2>1 DEF Editing!Loadable, Editing!Valid
    <3> QED BY <1>7, <2>1, <3>1, MirrorsStay
            DEF Editing!Validate, Editing!Reverts, Editing!Step, Editing!Goto,
                Editing!Same, EditTypes, EditPCs, Editors
  <2>2. CASE ~Editing!Loadable
    BY <1>7, <2>2, MirrorsStay
       DEF Editing!Validate, Editing!Reverts, Editing!Step, Editing!Goto,
           Editing!Same, EditTypes, EditPCs, Editors
  <2> QED BY <2>1, <2>2
<1>8. ASSUME NEW c \in ce_Commands, Editing!Remove(c)
      PROVE  EditInv'
  <2>1. /\ ce_pc[c] \in {"removing", "reverting"}
        /\ ce_pc' = [ce_pc EXCEPT ![c] = "idle"]
        /\ ce_lock' = Editing!Nobody
        /\ UNCHANGED <<ce_form, ce_path, ce_name, ce_copy, ce_cut>>
        /\ ce_mirrors' = {m \in ce_mirrors : m.name # ce_name[c]}
    BY <1>8
       DEF Editing!Remove, Editing!DropLock, Editing!Step, Editing!Goto,
           Editing!Same, Locked, Editors
  <2>2. EditTypes'
    BY <2>1 DEF EditTypes, EditPCs
  <2>3. Locked'
    BY <2>1, OneEditor DEF Locked, Editors, EditTypes
  <2>4. Reviewed'
    <3>1. ASSUME NEW m \in ce_mirrors', NEW n \in ce_mirrors', Overlap(m, n), ~ce_cut'
          PROVE  \E d \in ce_Commands : Reviews(d, m)' \/ Reviews(d, n)'
      <4>1. PICK d \in ce_Commands : Reviews(d, m) \/ Reviews(d, n)
        BY <2>1, <3>1 DEF Reviewed, EditTypes
      <4>2. d # c
        BY <2>1, <4>1 DEF Reviews
      <4> QED BY <2>1, <4>1, <4>2 DEF Reviews, EditTypes
    <3> QED BY <2>1, <3>1 DEF Reviewed, Overlap
  <2> QED BY <2>2, <2>3, <2>4
<1>9. ASSUME NEW c \in ce_Commands, Editing!WriteField(c)
      PROVE  EditInv'
  <2>1. ce_pc[c] = "setting" /\ ce_lock = c /\ ce_copy[c] = ce_mirrors
    BY <1>9 DEF Editing!WriteField, Editing!Step, Locked, Editors
  <2> QED BY <1>9, <2>1, MirrorsStay
          DEF Editing!WriteField, Editing!DropLock, Editing!Step, Editing!Goto,
              Editing!Same, EditTypes, EditPCs, Editors
<1>10. ASSUME NEW c \in ce_Commands, Editing!Crash(c)
       PROVE  EditInv'
  BY <1>10, MirrorsStay
     DEF Editing!Crash, Editing!Goto, Editing!Same, EditTypes, EditPCs, Editors
<1>11. CASE UNCHANGED Editing!vars
  BY <1>11 DEF Editing!vars, EditTypes, Locked, Reviewed, Reviews, Overlap
<1>12. ASSUME NEW c \in ce_Commands, 
              \/ Editing!TakeLock(c, "add", "adding")
              \/ Editing!TakeLock(c, "remove", "removing")
              \/ Editing!TakeLock(c, "revert", "reverting")
              \/ Editing!TakeLock(c, "set", "setting")
       PROVE  EditInv'
  BY <1>5, <1>12 DEF Editors
<1> QED
  BY <1>1, <1>2, <1>3, <1>4, <1>6, <1>7, <1>8, <1>9, <1>10, <1>11, <1>12
     DEF Editing!Next

\* AddMirror and RemoveMirror (edit.go) and the validation of cmdaddmirror.go: when
\* no command is at work, none was cut short and there is a mirror, the daemon can
\* load the configuration, however the commands were interleaved.
THEOREM ConfigLoadable ==
  Editing!Spec => []LoadableAtRest
<1> USE SafetyPartsAssumption
<1>1. Editing!Init => EditInv
  BY InitEdit
<1>2. EditInv /\ [Editing!Next]_Editing!vars => EditInv'
  BY StepEdit
<1>3. EditInv => Editing!LoadableAtRest
  <2> SUFFICES ASSUME EditInv, \A c \in ce_Commands : ce_pc[c] = "idle", ~ce_cut,
                      ce_mirrors # {}
               PROVE  Editing!Loadable
    BY DEF Editing!LoadableAtRest
  <2>1. \A m, n \in ce_mirrors : ~Overlap(m, n)
    BY DEF EditInv, Reviewed, Reviews
  <2>2. Editing!NoOverlap(ce_mirrors)
    BY <2>1 DEF Editing!NoOverlap, Overlap
  <2> QED BY <2>2 DEF EditInv, EditTypes, Reviewed, Editing!Loadable, Editing!Valid
<1> QED BY <1>1, <1>2, <1>3, PTL DEF Editing!Spec, LoadableAtRest

\* withConfigLock (edit.go): no command overwrites what another one wrote.  Only the
\* command that takes a mirror out, or reverts it, makes its entry go away, and
\* only the one that adds it makes it appear.
THEOREM NoEditLost ==
  Editing!Spec => EditsKept
<1> USE SafetyPartsAssumption
<1>1. Editing!Init => EditInv
  BY InitEdit
<1>2. EditInv /\ [Editing!Next]_Editing!vars => EditInv'
  BY StepEdit
<1> DEFINE Gone(m) == \E c \in ce_Commands :
             ce_pc[c] \in {"removing", "reverting"} /\ ce_pc'[c] = "idle"
               /\ m.name = ce_name[c]
           Come(m) == \E c \in ce_Commands :
             /\ ce_pc[c] = "adding" /\ ce_pc'[c] = "validate"
             /\ m = [name |-> ce_name[c], path |-> ce_path[c]]
<1>3. ASSUME EditInv, [Editing!Next]_Editing!vars
      PROVE  /\ \A m \in ce_mirrors \ ce_mirrors' : Gone(m)
             /\ \A m \in ce_mirrors' \ ce_mirrors : Come(m)
  <2> USE <1>3 DEF EditInv
  <2>1. ASSUME NEW c \in ce_Commands, Editing!Append(c)
        PROVE  /\ \A m \in ce_mirrors \ ce_mirrors' : Gone(m)
               /\ \A m \in ce_mirrors' \ ce_mirrors : Come(m)
    <3>1. ce_pc[c] = "adding" /\ ce_copy[c] = ce_mirrors
      BY <2>1 DEF Editing!Append, Editing!Step, Locked, Editors
    <3>2. \/ ce_mirrors' = ce_mirrors
          \/ /\ ce_pc'[c] = "validate"
             /\ ce_mirrors' = ce_mirrors \cup {[name |-> ce_name[c], path |-> ce_path[c]]}
      BY <2>1, <3>1
         DEF Editing!Append, Editing!Step, Editing!Goto, Editing!Same, EditTypes
    <3> QED BY <3>1, <3>2
  <2>2. ASSUME NEW c \in ce_Commands, Editing!Remove(c)
        PROVE  /\ \A m \in ce_mirrors \ ce_mirrors' : Gone(m)
               /\ \A m \in ce_mirrors' \ ce_mirrors : Come(m)
    <3>1. ce_pc[c] \in {"removing", "reverting"} /\ ce_pc'[c] = "idle"
          /\ ce_mirrors' = {m \in ce_mirrors : m.name # ce_name[c]}
      BY <2>2
         DEF Editing!Remove, Editing!Step, Editing!Goto, EditTypes, Locked, Editors
    <3> QED BY <3>1
  <2>3. ASSUME NEW c \in ce_Commands, Editing!WriteField(c)
        PROVE  ce_mirrors' = ce_mirrors
    BY <2>3
       DEF Editing!WriteField, Editing!Step, Editing!Same, EditTypes, Locked,
           Editors
  <2>4. ASSUME NEW c \in ce_Commands, Editing!Create(c)
        PROVE  FALSE
    BY <2>4 DEF Editing!Create, Editing!Step, EditTypes, EditPCs
  <2>5. ASSUME NEW c \in ce_Commands,
               \/ Editing!AddMirror(c) \/ Editing!Unmirror(c) \/ Editing!SetRemote(c)
               \/ Editing!TakeLock(c, "add", "adding")
               \/ Editing!TakeLock(c, "remove", "removing")
               \/ Editing!TakeLock(c, "revert", "reverting")
               \/ Editing!TakeLock(c, "set", "setting")
               \/ Editing!Validate(c) \/ Editing!Crash(c)
        PROVE  ce_mirrors' = ce_mirrors
    BY <2>5
       DEF Editing!AddMirror, Editing!Unmirror, Editing!SetRemote, Editing!TakeLock,
           Editing!Validate, Editing!Crash, Editing!Same
  <2>6. CASE UNCHANGED Editing!vars
    BY <2>6 DEF Editing!vars
  <2> QED BY <2>1, <2>2, <2>3, <2>4, <2>5, <2>6 DEF Editing!Next
<1>4. EditInv /\ [Editing!Next]_Editing!vars =>
        [/\ \A m \in ce_mirrors \ ce_mirrors' : Gone(m)
         /\ \A m \in ce_mirrors' \ ce_mirrors : Come(m)]_Editing!vars
  BY <1>3
<1> QED BY <1>1, <1>2, <1>4, PTL DEF Editing!Spec, Editing!EditsKept, EditsKept

-----------------------------------------------------------------------------
(***************************************************************************)
(* EndsRunnable.  While smirror.exe is not complete its backup is, and     *)
(* either an update that has not ended is going to put it right, or one    *)
(* was killed.                                                             *)
(***************************************************************************)

\* A worker of the update on its way to put exe right.
Mending == {u \in su_Updaters : su_pc[u] \in {"create", "copy", "rollback"}}

UpdateTypes ==
  /\ su_exe \in Updating!Content /\ su_bak \in {"none", "old", "new"}
  /\ su_inExe \subseteq su_Updaters \cup {su_Service}
  /\ su_inBak \subseteq su_Updaters \cup {su_Service}
  /\ su_writer \in su_Updaters \cup {Updating!Nobody}
  /\ su_pc \in [su_Updaters -> {"idle", "asked", "ready", "remove", "backup", "create",
                          "copy", "verify", "rollback", "restart"}]
  /\ su_died \in BOOLEAN

\* An image that runs is complete, and an update runs from one of the two.
Images ==
  /\ su_inExe # {} => su_exe \in Updating!Complete
  /\ su_inBak # {} => su_bak \in Updating!Complete
  /\ \A u \in su_Updaters : su_pc[u] # "idle" => u \in su_inExe \cup su_inBak

Writing == \A u \in su_Updaters : su_writer = u <=> su_pc[u] = "copy"

Repairable ==
  su_exe \notin Updating!Complete =>
    /\ su_bak \in Updating!Complete
    /\ su_died \/ Mending # {}
UpdateInv == UpdateTypes /\ Images /\ Writing /\ Repairable

LEMMA InitUpdate == ASSUME Updating!UpdateAssumption, Updating!Init PROVE UpdateInv
  BY DEF Updating!UpdateAssumption, Updating!Init, UpdateInv, UpdateTypes, Images,
         Writing, Repairable, Updating!Content, Updating!Complete

LEMMA StepUpdate ==
  ASSUME Updating!UpdateAssumption, UpdateInv, [Updating!Next]_Updating!vars
  PROVE  UpdateInv'
<1> USE DEF Updating!UpdateAssumption, UpdateInv
<1>1. ASSUME NEW u \in su_Updaters, Updating!Preflight(u)
      PROVE  UpdateInv'
  <2>1. UpdateTypes'
    BY <1>1
       DEF Updating!Preflight, Updating!Step, Updating!Running, UpdateTypes, Images,
           Updating!Content, Updating!Complete
  <2>2. Images'
    BY <1>1
       DEF Updating!Preflight, Updating!Step, Updating!Running, UpdateTypes, Images,
           Writing, Repairable, Updating!Content, Updating!Complete
  <2>3. Writing'
    BY <1>1
       DEF Updating!Preflight, Updating!Step, Updating!Running, UpdateTypes, Images,
           Writing, Updating!Content, Updating!Complete
  <2>4. Repairable'
    BY <1>1
       DEF Updating!Preflight, Updating!Step, Updating!Running, UpdateTypes, Images,
           Writing, Repairable, Mending, Updating!Content, Updating!Complete
  <2> QED BY <2>1, <2>2, <2>3, <2>4
<1>2. ASSUME NEW u \in su_Updaters, Updating!Stage(u)
      PROVE  UpdateInv'
  <2>1. UpdateTypes'
    BY <1>2
       DEF Updating!Stage, Updating!Step, Updating!Leave, Updating!files,
           UpdateTypes, Images, Updating!Content, Updating!Complete
  <2>2. Images'
    BY <1>2
       DEF Updating!Stage, Updating!Step, Updating!Leave, Updating!files,
           UpdateTypes, Images, Writing, Repairable, Updating!Content,
           Updating!Complete
  <2>3. Writing'
    BY <1>2
       DEF Updating!Stage, Updating!Step, Updating!Leave, Updating!files,
           UpdateTypes, Images, Writing, Updating!Content, Updating!Complete
  <2>4. Repairable'
    BY <1>2
       DEF Updating!Stage, Updating!Step, Updating!Leave, Updating!files,
           UpdateTypes, Images, Writing, Repairable, Mending, Updating!Content,
           Updating!Complete
  <2> QED BY <2>1, <2>2, <2>3, <2>4
<1>3. ASSUME NEW u \in su_Updaters, Updating!StopService(u)
      PROVE  UpdateInv'
  <2>1. UpdateTypes'
    BY <1>3
       DEF Updating!StopService, Updating!Step, Updating!ServiceStops,
           Updating!Running, Updating!Leave, UpdateTypes, Images, Updating!Content,
           Updating!Complete
  <2>2. Images'
    BY <1>3
       DEF Updating!StopService, Updating!Step, Updating!ServiceStops,
           Updating!Running, Updating!Leave, UpdateTypes, Images, Writing,
           Repairable, Updating!Content, Updating!Complete
  <2>3. Writing'
    BY <1>3
       DEF Updating!StopService, Updating!Step, Updating!ServiceStops,
           Updating!Running, Updating!Leave, UpdateTypes, Images, Writing,
           Updating!Content, Updating!Complete
  <2>4. Repairable'
    BY <1>3
       DEF Updating!StopService, Updating!Step, Updating!ServiceStops,
           Updating!Running, Updating!Leave, UpdateTypes, Images, Writing,
           Repairable, Mending, Updating!Content, Updating!Complete
  <2> QED BY <2>1, <2>2, <2>3, <2>4
<1>4. ASSUME NEW u \in su_Updaters, Updating!RemoveLeftover(u)
      PROVE  UpdateInv'
  <2>1. UpdateTypes'
    BY <1>4
       DEF Updating!RemoveLeftover, Updating!Step, Updating!BakReplaceable,
           UpdateTypes, Images, Updating!Content, Updating!Complete
  <2>2. Images'
    BY <1>4
       DEF Updating!RemoveLeftover, Updating!Step, Updating!BakReplaceable,
           UpdateTypes, Images, Writing, Repairable, Updating!Content,
           Updating!Complete
  <2>3. Writing'
    BY <1>4
       DEF Updating!RemoveLeftover, Updating!Step, Updating!BakReplaceable,
           UpdateTypes, Images, Writing, Updating!Content, Updating!Complete
  <2>4. Repairable'
    BY <1>4
       DEF Updating!RemoveLeftover, Updating!Step, Updating!BakReplaceable,
           UpdateTypes, Images, Writing, Repairable, Mending, Updating!Content,
           Updating!Complete
  <2> QED BY <2>1, <2>2, <2>3, <2>4
<1>5. ASSUME NEW u \in su_Updaters, Updating!Backup(u)
      PROVE  UpdateInv'
  <2>1. UpdateTypes'
    BY <1>5
       DEF Updating!Backup, Updating!Step, Updating!BakReplaceable, UpdateTypes,
           Images, Updating!Content, Updating!Complete
  <2>2. Images'
    BY <1>5
       DEF Updating!Backup, Updating!Step, Updating!BakReplaceable, UpdateTypes,
           Images, Writing, Repairable, Updating!Content, Updating!Complete
  <2>3. Writing'
    BY <1>5
       DEF Updating!Backup, Updating!Step, Updating!BakReplaceable, UpdateTypes,
           Images, Writing, Updating!Content, Updating!Complete
  <2>4. Repairable'
    BY <1>5
       DEF Updating!Backup, Updating!Step, Updating!BakReplaceable, UpdateTypes,
           Images, Writing, Repairable, Mending, Updating!Content, Updating!Complete
  <2> QED BY <2>1, <2>2, <2>3, <2>4
<1>6. ASSUME NEW u \in su_Updaters, Updating!Create(u)
      PROVE  UpdateInv'
  <2>1. UpdateTypes'
    BY <1>6
       DEF Updating!Create, Updating!Step, Updating!ExeReplaceable, UpdateTypes,
           Images, Updating!Content, Updating!Complete
  <2>2. Images'
    BY <1>6
       DEF Updating!Create, Updating!Step, Updating!ExeReplaceable, UpdateTypes,
           Images, Writing, Repairable, Updating!Content, Updating!Complete
  <2>3. Writing'
    BY <1>6
       DEF Updating!Create, Updating!Step, Updating!ExeReplaceable, UpdateTypes,
           Images, Writing, Updating!Content, Updating!Complete
  <2>4. Repairable'
    BY <1>6
       DEF Updating!Create, Updating!Step, Updating!ExeReplaceable, UpdateTypes,
           Images, Writing, Repairable, Mending, Updating!Content, Updating!Complete
  <2> QED BY <2>1, <2>2, <2>3, <2>4
<1>7. ASSUME NEW u \in su_Updaters, Updating!Copy(u)
      PROVE  UpdateInv'
  <2>1. UpdateTypes'
    BY <1>7
       DEF Updating!Copy, Updating!Step, UpdateTypes, Images, Updating!Content,
           Updating!Complete
  <2>2. Images'
    BY <1>7
       DEF Updating!Copy, Updating!Step, UpdateTypes, Images, Writing, Repairable,
           Updating!Content, Updating!Complete
  <2>3. Writing'
    BY <1>7
       DEF Updating!Copy, Updating!Step, UpdateTypes, Images, Writing,
           Updating!Content, Updating!Complete
  <2>4. Repairable'
    BY <1>7
       DEF Updating!Copy, Updating!Step, UpdateTypes, Images, Writing, Repairable,
           Mending, Updating!Content, Updating!Complete
  <2> QED BY <2>1, <2>2, <2>3, <2>4
<1>8. ASSUME NEW u \in su_Updaters, Updating!Rollback(u)
      PROVE  UpdateInv'
  <2>1. UpdateTypes'
    BY <1>8
       DEF Updating!Rollback, Updating!Step, Updating!Restore, Updating!MayRestore,
           Updating!ExeReplaceable, UpdateTypes, Images, Updating!Content,
           Updating!Complete
  <2>2. Images'
    BY <1>8
       DEF Updating!Rollback, Updating!Step, Updating!Restore, Updating!MayRestore,
           Updating!ExeReplaceable, UpdateTypes, Images, Writing, Repairable,
           Updating!Content, Updating!Complete
  <2>3. Writing'
    BY <1>8
       DEF Updating!Rollback, Updating!Step, Updating!Restore, Updating!MayRestore,
           Updating!ExeReplaceable, UpdateTypes, Images, Writing, Updating!Content,
           Updating!Complete
  <2>4. Repairable'
    BY <1>8
       DEF Updating!Rollback, Updating!Step, Updating!Restore, Updating!MayRestore,
           Updating!ExeReplaceable, UpdateTypes, Images, Writing, Repairable,
           Mending, Updating!Content, Updating!Complete
  <2> QED BY <2>1, <2>2, <2>3, <2>4
<1>9. ASSUME NEW u \in su_Updaters, Updating!Verify(u)
      PROVE  UpdateInv'
  <2>1. UpdateTypes'
    BY <1>9
       DEF Updating!Verify, Updating!Step, Updating!BakReplaceable,
           Updating!ExeReplaceable, UpdateTypes, Images, Updating!Content,
           Updating!Complete
  <2>2. Images'
    BY <1>9
       DEF Updating!Verify, Updating!Step, Updating!BakReplaceable,
           Updating!ExeReplaceable, UpdateTypes, Images, Writing, Repairable,
           Updating!Content, Updating!Complete
  <2>3. Writing'
    BY <1>9
       DEF Updating!Verify, Updating!Step, Updating!BakReplaceable,
           Updating!ExeReplaceable, UpdateTypes, Images, Writing, Updating!Content,
           Updating!Complete
  <2>4. Repairable'
    BY <1>9
       DEF Updating!Verify, Updating!Step, Updating!BakReplaceable,
           Updating!ExeReplaceable, UpdateTypes, Images, Writing, Repairable,
           Mending, Updating!Content, Updating!Complete
  <2> QED BY <2>1, <2>2, <2>3, <2>4
<1>10. ASSUME NEW u \in su_Updaters, Updating!Restart(u)
      PROVE  UpdateInv'
  <2>1. UpdateTypes'
    BY <1>10
       DEF Updating!Restart, Updating!Step, Updating!Running,
           Updating!ServiceStarts, UpdateTypes, Images, Updating!Content,
           Updating!Complete
  <2>2. Images'
    BY <1>10
       DEF Updating!Restart, Updating!Step, Updating!Running,
           Updating!ServiceStarts, UpdateTypes, Images, Writing, Repairable,
           Updating!Content, Updating!Complete
  <2>3. Writing'
    BY <1>10
       DEF Updating!Restart, Updating!Step, Updating!Running,
           Updating!ServiceStarts, UpdateTypes, Images, Writing, Updating!Content,
           Updating!Complete
  <2>4. Repairable'
    BY <1>10
       DEF Updating!Restart, Updating!Step, Updating!Running,
           Updating!ServiceStarts, UpdateTypes, Images, Writing, Repairable,
           Mending, Updating!Content, Updating!Complete
  <2> QED BY <2>1, <2>2, <2>3, <2>4
<1>11. ASSUME NEW u \in su_Updaters, Updating!Die(u)
      PROVE  UpdateInv'
  <2>1. UpdateTypes'
    BY <1>11
       DEF Updating!Die, Updating!Step, UpdateTypes, Images, Updating!Content,
           Updating!Complete
  <2>2. Images'
    BY <1>11
       DEF Updating!Die, Updating!Step, UpdateTypes, Images, Writing, Repairable,
           Updating!Content, Updating!Complete
  <2>3. Writing'
    BY <1>11
       DEF Updating!Die, Updating!Step, UpdateTypes, Images, Writing,
           Updating!Content, Updating!Complete
  <2>4. Repairable'
    BY <1>11
       DEF Updating!Die, Updating!Step, UpdateTypes, Images, Writing, Repairable,
           Mending, Updating!Content, Updating!Complete
  <2> QED BY <2>1, <2>2, <2>3, <2>4
<1>12. CASE UNCHANGED Updating!vars
  BY <1>12
     DEF Updating!vars, Updating!files, UpdateTypes, Images, Writing, Repairable,
         Mending
<1> QED BY <1>1, <1>2, <1>3, <1>4, <1>5, <1>6, <1>7, <1>8, <1>9, <1>10, <1>11, <1>12
           DEF Updating!Next

LEMMA RunnableThen ==
  ASSUME Updating!UpdateAssumption, UpdateInv
  PROVE  Updating!EndsRunnable
  BY DEF UpdateInv, Updating!EndsRunnable, Repairable, Mending, UpdateTypes,
         Updating!Content, Updating!Complete

\* The phases of selfupdate.go: when the updates have ended and none was killed on
\* its way, smirror.exe is a complete binary, whichever copies, verifications and
\* rollbacks failed and however the updates overlapped; and at any time it or its
\* backup is.
THEOREM UpdatesEndRunnable ==
  Updating!Spec => []EndsRunnable
<1> USE SafetyPartsAssumption
<1>1. Updating!Init => UpdateInv
  BY InitUpdate
<1>2. UpdateInv /\ [Updating!Next]_Updating!vars => UpdateInv'
  BY StepUpdate
<1>3. UpdateInv => Updating!EndsRunnable
  BY RunnableThen
<1> QED BY <1>1, <1>2, <1>3, PTL DEF Updating!Spec, EndsRunnable

=============================================================================
