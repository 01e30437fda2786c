------------------------------- MODULE StateOpen -------------------------------
(* Opening the state database (internal/state): the daemon, a command at the  *)
(* terminal and the update check open the same file, possibly with binaries   *)
(* of different versions, and any of them may stop between two statements.    *)
(*                                                                            *)
(* Open stats the file, creates the base schema (three tries when the file is *)
(* busy), refuses a schema newer than the binary, applies the missing         *)
(* migrations, one transaction each, checks the integrity and records the     *)
(* version.  Each SQL statement is atomic; between them anything may happen.  *)
EXTENDS Integers, FiniteSets

CONSTANTS
  Openers,
  Knows,      \* the number of migrations the binary of each opener knows
  MaxBusy     \* how often the file may be found busy in a behaviour

\* Assumed of the constants.
OpenAssumption == Knows \in [Openers -> Nat]

VARIABLES
  file,       \* "absent" | "empty" | "schema" | "torn"
  applied,    \* the migrations whose columns the tables have
  version,    \* meta schema_version, Unset before the first
  pc,
  tries,      \* attempts at the base schema left
  step,       \* the migration each opener is at
  fresh,      \* WasFreshOpen, WasZeroByteOpen
  writer,     \* who has a write transaction open
  busy        \* busy answers left

vars == <<file, applied, version, pc, tries, step, fresh, writer, busy>>

Unset == -1
Nobody == "nobody"
Recorded == IF version = Unset THEN 0 ELSE version
Tries == 3

PCs == {"idle", "schema", "refuse", "from", "begin", "commit", "integrity",
        "read", "record", "open", "failed"}

Init ==
  /\ file \in {"absent", "empty"}
  /\ applied = {}
  /\ version = Unset
  /\ pc = [p \in Openers |-> "idle"]
  /\ tries = [p \in Openers |-> Tries]
  /\ step = [p \in Openers |-> 0]
  /\ fresh = [p \in Openers |-> FALSE]
  /\ writer = Nobody
  /\ busy = MaxBusy

Goto(p, s) == pc' = [pc EXCEPT ![p] = s]
Pause(p, from, to) == pc[p] = from /\ Goto(p, to)

Stat(p) ==
  /\ Pause(p, "idle", "schema")
  /\ fresh' = [fresh EXCEPT ![p] = file \in {"absent", "empty"}]
  /\ tries' = [tries EXCEPT ![p] = Tries]
  /\ UNCHANGED <<file, applied, version, step, writer, busy>>

(* CREATE TABLE IF NOT EXISTS, or SQLITE_BUSY and another try. *)
Schema(p) ==
  \/ /\ Pause(p, "schema", "refuse")
     /\ writer = Nobody
     /\ file' = IF file \in {"absent", "empty"} THEN "schema" ELSE file
     /\ UNCHANGED <<applied, version, tries, step, fresh, writer, busy>>
  \/ /\ pc[p] = "schema" /\ busy > 0
     /\ tries' = [tries EXCEPT ![p] = @ - 1]
     /\ Goto(p, IF tries[p] = 1 THEN "failed" ELSE "schema")
     /\ busy' = busy - 1
     /\ UNCHANGED <<file, applied, version, step, fresh, writer>>

Newer(p) == Recorded > Knows[p]

RefuseNewer(p) ==
  /\ Pause(p, "refuse", IF Newer(p) THEN "failed" ELSE "from")
  /\ UNCHANGED <<file, applied, version, tries, step, fresh, writer, busy>>

FirstPendingSkips == Recorded + 1  \* a mutant of FirstPending
FirstPending == Recorded

From(p) ==
  /\ Pause(p, "from", "begin")
  /\ step' = [step EXCEPT ![p] = FirstPending]
  /\ UNCHANGED <<file, applied, version, tries, fresh, writer, busy>>

(* BEGIN and the ALTERs; a duplicate column is no error. *)
Begin(p) ==
  /\ pc[p] = "begin"
  /\ \/ /\ step[p] < Knows[p] /\ writer = Nobody
        /\ writer' = p
        /\ Goto(p, "commit")
        /\ UNCHANGED busy
     \/ /\ step[p] < Knows[p] /\ busy > 0
        /\ busy' = busy - 1
        /\ Goto(p, "failed")
        /\ UNCHANGED writer
     \/ /\ step[p] >= Knows[p]
        /\ Goto(p, "integrity")
        /\ UNCHANGED <<writer, busy>>
  /\ UNCHANGED <<file, applied, version, tries, step, fresh>>

(* COMMIT; an ALTER or the commit that fails rolls the whole step back. *)
Commit(p) ==
  /\ pc[p] = "commit"
  /\ writer' = Nobody
  /\ \/ /\ applied' = applied \cup {step[p]}
        /\ step' = [step EXCEPT ![p] = @ + 1]
        /\ Goto(p, "begin")
        /\ UNCHANGED busy
     \/ /\ busy > 0
        /\ busy' = busy - 1
        /\ Goto(p, "failed")
        /\ UNCHANGED <<applied, step>>
  /\ UNCHANGED <<file, version, tries, fresh>>

Integrity(p) ==
  /\ Pause(p, "integrity", IF file = "torn" THEN "failed" ELSE "read")
  /\ UNCHANGED <<file, applied, version, tries, step, fresh, writer, busy>>

(* The recorded version is read and, if lower, written: two statements. *)
ReadVersion(p) ==
  /\ Pause(p, "read", IF version < Knows[p] THEN "record" ELSE "open")
  /\ UNCHANGED <<file, applied, version, tries, step, fresh, writer, busy>>

Record(p) ==
  /\ Pause(p, "record", "open")
  /\ \/ writer = Nobody /\ version' = Knows[p] /\ UNCHANGED busy
     \/ busy > 0 /\ busy' = busy - 1 /\ UNCHANGED version
  /\ UNCHANGED <<file, applied, tries, step, fresh, writer>>

(* Close, an error handed to the user, or the death of the process at any     *)
(* point: an open transaction is rolled back.                                 *)
Leave(p) ==
  /\ pc[p] # "idle"
  /\ Goto(p, "idle")
  /\ writer' = IF writer = p THEN Nobody ELSE writer
  /\ step' = [step EXCEPT ![p] = 0]
  /\ fresh' = [fresh EXCEPT ![p] = FALSE]
  /\ UNCHANGED <<file, applied, version, tries, busy>>

(* A power cut may tear the file, once everybody is gone. *)
Tear ==
  /\ file = "schema" /\ \A p \in Openers : pc[p] = "idle"
  /\ file' = "torn"
  /\ UNCHANGED <<applied, version, pc, tries, step, fresh, writer, busy>>

Next ==
  \/ \E p \in Openers :
       \/ Stat(p) \/ Schema(p) \/ RefuseNewer(p) \/ From(p) \/ Begin(p)
       \/ Commit(p) \/ Integrity(p) \/ ReadVersion(p) \/ Record(p) \/ Leave(p)
  \/ Tear

Spec == Init /\ [][Next]_vars
-------------------------------------------------------------------------------
TypeOK ==
  /\ file \in {"absent", "empty", "schema", "torn"}
  /\ applied \subseteq Nat
  /\ version \in Nat \cup {Unset}
  /\ pc \in [Openers -> PCs]
  /\ tries \in [Openers -> Int]
  /\ step \in [Openers -> Nat]
  /\ fresh \in [Openers -> BOOLEAN]
  /\ writer \in Openers \cup {Nobody}
  /\ busy \in Int

(* Whoever has the database open finds the columns its statements name, in    *)
(* whatever order two binaries migrated, however often they stopped half way, *)
(* and although the version of a newer one may have been overwritten.         *)
SchemaFits ==
  \A p \in Openers : pc[p] = "open" => \A i \in 0 .. Knows[p] - 1 : i \in applied

(* "schema_version: never downgrade" (state.go:245).  It may fall all the     *)
(* same: the older binary reads an unset version, the newer one records its   *)
(* own, the older one then writes.                                            *)
NeverDowngraded == [][version' >= version]_version
===============================================================================
