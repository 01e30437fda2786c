----------------------------- MODULE MCFairQueue -----------------------------
(* Constants and environments for model checking FairQueue. *)
EXTENDS FairQueue

CONSTANTS m1, m2, f1, f2

FileSyncs(fs, done) == {SyncTask(m1, f, done) : f \in fs}
FullSyncs(done) == {SyncTask(m1, NoFile, done)}

NoTasks == {}
TwoFiles == FileSyncs({f1, f2}, FALSE)
TwoFilesAndFull == TwoFiles \cup FullSyncs(TRUE)
FileWithDone == FileSyncs({f1}, TRUE) \cup FileSyncs({f2}, FALSE)
TwoMirrors == FileSyncs({f1}, FALSE) \cup {SyncTask(m2, f1, FALSE)} \cup FullSyncs(TRUE)
OneDelete == {DeleteTask(m1, f1)}
TwoDeletes == OneDelete \cup {DeleteTask(m1, f2)}
NoDurations == {}
OneTick == {1}
TwoTicks == {2}

(***************************************************************************)
(* An environment in which the cold file is not requested again while it   *)
(* is queued; the hot file and full syncs are requested at will, for ever. *)
(***************************************************************************)
Cold == <<m1, f1>>

ColdRequested ==
  /\ items' # items
  /\ \E t \in SyncTasks : \E i \in 1..Len(items) :
       HasKey(t, Cold) /\ Displaced(t, i) /\ items' = Append(Rest(i), t)

ColdNext == (Call /\ ~ColdRequested) \/ Run

ColdSpec == Init /\ [][ColdNext]_vars /\ Fairness

\* "hot files naturally cycle to the back while cold files advance": a file
\* requested once is taken in the end, however often other files of its
\* mirror are requested, fail, cool down and trip the circuit.
ColdFileAdvances ==
  SyncQueued(items, Cold) ~> (~SyncQueued(items, Cold) \/ cancelled)

Symmetric == Permutations(Workers)
=============================================================================
