--------------------------- MODULE InstallEvents ---------------------------
(***************************************************************************)
(* The install census of internal/telemetry: a started daemon reports to   *)
(* the cloud that this installation was seen (first_seen, once) and that   *)
(* its version changed (upgrade), from a goroutine of its own that nothing *)
(* waits for.  What was reported is remembered in the meta table of the    *)
(* state database, after the answer.  The errors of its reads and writes   *)
(* are ignored: a row that cannot be read counts as absent.  The answer    *)
(* may be lost; the daemon may die at every step.                          *)
(* `smirror telemetry <tier>` writes the same table from a process of its  *)
(* own.  The server is external: it counts every report that reaches it.   *)
(***************************************************************************)
EXTENDS Naturals

CONSTANTS
  Versions,      \* versions of the binary
  Signed,        \* those built with a signing key (HasBuildKey)
  Registry,      \* the tier the Windows installer left, "" elsewhere
  MaxAttempts,   \* 5: failures before an event is given up
  MaxStarts, MaxInstalls    \* bounds of the model

\* Assumed of the constants.
CensusAssumption == MaxAttempts \in Nat /\ MaxStarts \in Nat /\ MaxInstalls \in Nat

Kinds == {"first_seen", "upgrade"}
Tiers == {"none", "standard", "reliability"}

VARIABLES
  meta,        \* the meta table: tier, id, first (seen), recorded, tries
  installed,   \* the version on disk
  pc, running, \* the daemon's goroutine, and its version
  reply,       \* the answer it has: "none", "ok", "failed"
  cli,         \* the `telemetry` command
  counted,     \* the server's count of each kind
  unkept,      \* reports the server counted and the daemon has no record of
  misread,     \* times a record of first_seen was taken for none
  starts, installs

vars == <<meta, installed, pc, running, reply, cli, counted, unkept, misread,
          starts, installs>>
server == <<counted, unkept, misread>>
daemon == <<pc, running, reply>>

\* A row of the meta table that is not there.
Unset == "unset"

\* first_seen_at is a time, is absent, or is something else.
Stamps == {Unset, "time", "garbled"}

\* What GetMeta may return of v: v, or what the caller makes of an error.
Got(v, absent) == {v, absent}

Init ==
  /\ meta = [tier |-> Unset, id |-> FALSE, first |-> Unset, recorded |-> Unset,
             tries |-> [k \in Kinds |-> 0]]
  /\ installed \in Versions
  /\ pc = "down" /\ running = installed /\ reply = "none"
  /\ cli = "idle"
  /\ counted = [k \in Kinds |-> 0] /\ unkept = [k \in Kinds |-> 0]
  /\ misread = 0
  /\ starts = 0 /\ installs = 0

\* The tier: the database first; the registry only while it has none.
Tier ==
  IF meta.tier # Unset THEN meta.tier
  ELSE IF Registry \in Tiers THEN Registry ELSE "none"

\* ReadTier: None when the database cannot be read.
ReadTier == Got(Tier, "none")

\* cmdTelemetrySet: the tier is written, then an identifier if there is none.
SetTier(t) ==
  /\ cli = "idle"
  /\ \E previous \in ReadTier : previous # t
  /\ meta' = [meta EXCEPT !.tier = t]
  /\ cli' = IF t = "none" THEN "idle" ELSE "id"
  /\ UNCHANGED <<installed, daemon, server, starts, installs>>

SetId ==
  /\ cli = "id"
  /\ \E kept \in BOOLEAN : meta' = [meta EXCEPT !.id = @ \/ kept]
  /\ cli' = "idle"
  /\ UNCHANGED <<installed, daemon, server, starts, installs>>

\* Another version is installed; the daemon that runs keeps the one it has.
Install(v) ==
  /\ v # installed /\ installs < MaxInstalls
  /\ installed' = v /\ installs' = installs + 1
  /\ UNCHANGED <<meta, daemon, cli, server, starts>>

\* The value of first_seen_at is damaged, in the file or by hand.
Damage ==
  /\ meta.first = "time"
  /\ meta' = [meta EXCEPT !.first = "garbled"]
  /\ UNCHANGED <<installed, daemon, cli, server, starts, installs>>

\* cmdStart and serviceMain: fireInstallEventsAtStartup reads the tier once.
\* An identifier that is missing is made up; if it cannot be kept nothing is sent.
Start ==
  /\ pc = "down" /\ starts < MaxStarts
  /\ starts' = starts + 1
  /\ running' = installed
  /\ \E tier \in ReadTier, id \in Got(meta.id, FALSE), kept \in BOOLEAN :
       LET goes == tier # "none" /\ installed \in Signed /\ (id \/ kept) IN
       /\ pc' = IF goes THEN "first" ELSE "up"
       /\ meta' = IF goes THEN [meta EXCEPT !.id = TRUE] ELSE meta
  /\ UNCHANGED <<installed, reply, cli, server, installs>>

\* readAttempts: a counter that cannot be read counts as 0.
Attempts(k) == Got(meta.tries[k], 0)

\* Contribute: the report reaches the server or not, and its answer, if it is
\* an ok, comes back or not (a timeout, a reset, a body that cannot be read).
\* known: the report is on record already.
Contribute(k, known) ==
  /\ \E reached, answered \in BOOLEAN :
       /\ answered => reached
       /\ counted' = IF reached THEN [counted EXCEPT ![k] = @ + 1] ELSE counted
       /\ unkept' = IF reached /\ ~answered THEN [unkept EXCEPT ![k] = @ + 1] ELSE unkept
       /\ misread' = IF reached /\ known THEN misread + 1 ELSE misread
       /\ reply' = IF answered THEN "ok" ELSE "failed"
  /\ UNCHANGED <<meta, installed, pc, running, cli, starts, installs>>

\* maybeSendFirstSeen, with what it has read.
FirstDue(first, tries) == first = Unset /\ tries < MaxAttempts

SendFirst ==
  /\ pc = "first" /\ reply = "none"
  /\ \E first \in Got(meta.first, Unset), tries \in Attempts("first_seen") :
       FirstDue(first, tries)
  /\ Contribute("first_seen", meta.first # Unset)

SkipFirst ==
  /\ pc = "first" /\ reply = "none"
  /\ \E first \in Got(meta.first, Unset), tries \in Attempts("first_seen") :
       ~FirstDue(first, tries)
  /\ pc' = "upgrade"
  /\ UNCHANGED <<meta, installed, running, reply, cli, server, starts, installs>>

\* maybeSendUpgrade, with what it has read.
Behind(recorded, tries) == recorded \notin {Unset, running} /\ tries < MaxAttempts

SendUpgrade ==
  /\ pc = "upgrade" /\ reply = "none"
  /\ \E tries \in Attempts("upgrade") : Behind(meta.recorded, tries)
  /\ meta.first = "time"
  /\ Contribute("upgrade", FALSE)

\* The daemon has no more to do; the write that ends it may fail.
Done(written) ==
  /\ pc = "upgrade" /\ reply = "none"
  /\ meta' \in {meta, written}
  /\ pc' = "up"
  /\ UNCHANGED <<installed, running, reply, cli, counted, unkept, starts, installs>>

\* A version never recorded is recorded, not reported.  Any may be taken for
\* one: the read may fail.
RecordVersion == Done([meta EXCEPT !.recorded = running]) /\ UNCHANGED misread

\* A first_seen_at that is no time is forgotten: it will be reported again.
ResetFirst ==
  /\ \E tries \in Attempts("upgrade") : Behind(meta.recorded, tries)
  /\ meta.first = "garbled"
  /\ Done([meta EXCEPT !.first = Unset])
  /\ misread' = IF meta'.first = Unset THEN misread + 1 ELSE misread

\* The version is on record, or was given up, or first_seen_at is absent, or
\* cannot be read.
SkipUpgrade == meta.recorded # Unset /\ Done(meta) /\ UNCHANGED misread

\* Mutant of Succeeded: an upgrade that was reported leaves the version on record.
SucceededKeepsVersion(k) ==
  [meta EXCEPT !.first = IF k = "first_seen" THEN "time" ELSE @]

\* What a success puts on record.
Succeeded(k) ==
  [meta EXCEPT !.first = IF k = "first_seen" THEN "time" ELSE @,
               !.recorded = IF k = "upgrade" THEN running ELSE @]

\* The answer is noted: the event (kept), then its failures (cleared), or one
\* failure more.  A write that fails is not noticed.
Noted(k, kept, cleared, tries) ==
  IF reply = "ok"
  THEN [(IF kept THEN Succeeded(k) ELSE meta)
          EXCEPT !.tries[k] = IF cleared THEN 0 ELSE @]
  ELSE [meta EXCEPT !.tries[k] = IF kept THEN tries + 1 ELSE @]

Following(k) == IF k = "first_seen" THEN "upgrade" ELSE "up"

Note(k) ==
  /\ pc = (IF k = "first_seen" THEN "first" ELSE "upgrade") /\ reply # "none"
  /\ \E kept, cleared \in BOOLEAN, tries \in Attempts(k) :
       /\ meta' = Noted(k, kept, cleared, tries)
       /\ unkept' = IF ~kept /\ reply = "ok" THEN [unkept EXCEPT ![k] = @ + 1] ELSE unkept
  /\ pc' = Following(k) /\ reply' = "none"
  /\ UNCHANGED <<installed, running, cli, counted, misread, starts, installs>>

\* The daemon stops or dies; an answer not yet noted is lost with it.
Stop ==
  /\ pc # "down"
  /\ pc' = "down" /\ reply' = "none"
  /\ unkept' = IF reply # "ok" THEN unkept
               ELSE [unkept EXCEPT ![IF pc = "first" THEN "first_seen" ELSE "upgrade"] = @ + 1]
  /\ UNCHANGED <<meta, installed, running, cli, counted, misread, starts, installs>>

Next ==
  \/ \E t \in Tiers : SetTier(t)
  \/ SetId
  \/ \E v \in Versions : Install(v)
  \/ Damage
  \/ Start \/ SendFirst \/ SkipFirst
  \/ SendUpgrade \/ RecordVersion \/ ResetFirst \/ SkipUpgrade
  \/ \E k \in Kinds : Note(k)
  \/ Stop

Spec == Init /\ [][Next]_vars

-----------------------------------------------------------------------------
(* The shape of the state. *)
TypeOK ==
  /\ meta \in [tier : Tiers \cup {Unset}, id : BOOLEAN, first : Stamps,
               recorded : Versions \cup {Unset}, tries : [Kinds -> Nat]]
  /\ installed \in Versions /\ running \in Versions
  /\ pc \in {"down", "first", "upgrade", "up"} /\ reply \in {"none", "ok", "failed"}
  /\ cli \in {"idle", "id"}
  /\ counted \in [Kinds -> Nat] /\ unkept \in [Kinds -> Nat]
  /\ misread \in Nat
  /\ starts \in 0..MaxStarts /\ installs \in 0..MaxInstalls

(* The census is not inflated by retries and restarts: first_seen is counted *)
(* once, an upgrade once for each installation of another version.  Counted  *)
(* again is only a report whose record the daemon could not keep, and        *)
(* first_seen once for each time its record could not be read or parsed.     *)
CountedOnce ==
  /\ counted["first_seen"] <= 1 + unkept["first_seen"] + misread
  /\ counted["upgrade"] <= installs + unkept["upgrade"]
=============================================================================
