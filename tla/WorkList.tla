------------------------------ MODULE WorkList ------------------------------
(***************************************************************************)
(* What the sync engine's callers are promised of its task queue, said     *)
(* without a queue: a file that was requested is owed a sync until a       *)
(* worker starts one, requests for a file that is already owed merge, and  *)
(* each full sync asked for is started once.                               *)
(***************************************************************************)
EXTENDS Naturals

CONSTANTS Workers, Mirrors, Keys, NoFile, NoJob

VARIABLES
  owed,   \* files with a request that no worker has started on
  fulls,  \* full syncs asked for and not started, per mirror
  job     \* what each worker is on: <<mirror, file>>, <<mirror, NoFile>> or NoJob

vars == <<owed, fulls, job>>

Init ==
  /\ owed = {}
  /\ fulls = [m \in Mirrors |-> 0]
  /\ job = [w \in Workers |-> NoJob]

Request(k) ==
  /\ owed' = owed \cup {k}
  /\ UNCHANGED <<fulls, job>>

RequestFull(m) ==
  /\ fulls' = [fulls EXCEPT ![m] = @ + 1]
  /\ UNCHANGED <<owed, job>>

Start(w, k) ==
  /\ job[w] = NoJob /\ k \in owed
  /\ owed' = owed \ {k}
  /\ job' = [job EXCEPT ![w] = k]
  /\ UNCHANGED fulls

StartFull(w, m) ==
  /\ job[w] = NoJob /\ fulls[m] > 0
  /\ fulls' = [fulls EXCEPT ![m] = @ - 1]
  /\ job' = [job EXCEPT ![w] = <<m, NoFile>>]
  /\ UNCHANGED owed

Finish(w) ==
  /\ job[w] # NoJob
  /\ job' = [job EXCEPT ![w] = NoJob]
  /\ UNCHANGED <<owed, fulls>>

Next ==
  \/ \E k \in Keys : Request(k)
  \/ \E m \in Mirrors : RequestFull(m)
  \/ \E w \in Workers :
       \/ \E k \in Keys : Start(w, k)
       \/ \E m \in Mirrors : StartFull(w, m)
       \/ Finish(w)

Spec == Init /\ [][Next]_vars
=============================================================================
