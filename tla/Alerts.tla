-------------------------------- MODULE Alerts --------------------------------
(* internal/anomaly and internal/notify/webhook.go: the anomaly recorder that *)
(* workers, the watcher and the heartbeat share, its log files, the goroutine *)
(* that hands anomalies to the webhook, and the webhook's incidents.          *)
(*                                                                            *)
(* Time is what it decides: an incident has been silent for ResolveAfter, has *)
(* been open long enough for the next escalation, a day has passed.           *)
EXTENDS Naturals, Sequences, FiniteSets

CONSTANTS
  Recorders,   \* goroutines that record
  Kinds,       \* anomaly kinds severe enough for the webhook
  Before,      \* what precedes the first colon of a kind, Plain without one
  Projects,
  Buffer,      \* capacity of callbackQueue
  MaxRecords,  \* anomalies recorded
  MaxDays

None == <<>>
Plain == ""    \* of Before: no colon
Panic == "Panic"
Overflow == <<"Queue:DepthWarning", "">>
Anomaly == Kinds \X Projects

VARIABLES
  queue,       \* callbackQueue
  closed,
  readers,     \* goroutines in Record's critical section, sendMu's read lock
  panicked,    \* a send on the closed channel
  announced,   \* overflowAnnounced
  at,          \* what each goroutine is recording
  calling,     \* the anomaly OnRecord is running for
  closer,      \* of Close: "no", "waiting", "done"
  records,
  incidents,   \* open ones, with how often they were escalated and
  silent, due, \* those for which the time has come to resolve, to escalate
  flying,      \* alerts being delivered, each by a goroutine
  opened,      \* <<kind, project>> of incidents that were ever open
  day,
  handle,      \* the day whose log is open
  logs         \* days that have a log

chan == <<queue, closed, readers, panicked, announced, at, closer, records>>
hook == <<incidents, silent, due, flying, opened>>
disk == <<day, handle, logs>>
vars == <<chan, calling, hook, disk>>

(* NewWebhookSender: no incident, nothing in flight. *)
NoIncidents ==
  incidents = {} /\ silent = {} /\ due = {} /\ flying = {} /\ opened = {}

Init ==
  /\ queue = <<>> /\ closed = FALSE /\ readers = {} /\ panicked = FALSE
  /\ announced = FALSE
  /\ at = [r \in Recorders |-> None]
  /\ calling = None /\ closer = "no" /\ records = 0
  /\ NoIncidents
  /\ day = 1 /\ handle = 0 /\ logs = {}
-------------------------------------------------------------------------------
(* Record: Writer.Write first, then the hand-over.  ensureFile opens the log  *)
(* of the day, also when Close has closed it.                                 *)
Write(r) ==
  /\ records < MaxRecords
  /\ at[r] = None
  /\ \E a \in Anomaly : at' = [at EXCEPT ![r] = a]
  /\ records' = records + 1
  /\ handle' = day
  /\ logs' = IF handle = day THEN logs ELSE logs \cup {day}
  /\ UNCHANGED <<queue, closed, readers, panicked, announced, calling, closer, hook, day>>

(* RLock and the check of closed. *)
Check(r) ==
  /\ at[r] # None /\ r \notin readers
  /\ IF closed THEN at' = [at EXCEPT ![r] = None] /\ UNCHANGED readers
               ELSE readers' = readers \cup {r} /\ UNCHANGED at
  /\ UNCHANGED <<queue, closed, panicked, announced, calling, closer, records, hook, disk>>

(* The send, which never blocks.  An anomaly the channel has no room for is   *)
(* dropped; the first time, an overflow notice is sent in its place, the same *)
(* way.                                                                       *)
Send(r) ==
  /\ r \in readers
  /\ panicked' = (panicked \/ closed)
  /\ LET room == Len(queue) < Buffer
         notice == ~room /\ ~announced IN
     /\ queue' = IF room THEN Append(queue, at[r]) ELSE queue
     /\ announced' = (announced \/ notice)
     /\ at' = [at EXCEPT ![r] = IF notice THEN Overflow ELSE None]
     /\ readers' = IF notice THEN readers ELSE readers \ {r}
  /\ UNCHANGED <<closed, calling, closer, records, hook, disk>>

LockFreeClose == TRUE  \* a mutant of NoReader: SM-186, a flag instead of the lock
NoReader == readers = {}

(* Close: under the write lock; then it waits for the consumer to drain. *)
CloseChannel ==
  /\ closer = "no" /\ NoReader
  /\ closed' = TRUE
  /\ closer' = "waiting"
  /\ UNCHANGED <<queue, readers, panicked, announced, at, calling, records, hook, disk>>

Drained == queue = <<>> /\ calling = None

CloseWriter ==
  /\ closer = "waiting" /\ Drained
  /\ closer' = "done"
  /\ handle' = 0
  /\ UNCHANGED <<queue, closed, readers, panicked, announced, at, calling, records, hook, day, logs>>
-------------------------------------------------------------------------------
(* The callback goroutine and WebhookSender.Record. *)

Receive ==
  /\ closer # "done"
  /\ calling = None /\ queue # <<>>
  /\ calling' = queue[1]
  /\ queue' = Tail(queue)
  /\ UNCHANGED <<closed, readers, panicked, announced, at, closer, records, hook, disk>>

Alert(e, k, p) == [event |-> e, kind |-> k, project |-> p]

(* Panics bypass incidents; otherwise open, accumulate or escalate. *)
Record ==
  /\ calling # None
  /\ LET key == calling
         tell(e) == flying' = flying \cup {Alert(e, key[1], key[2])} IN
     IF key[1] = Panic
     THEN tell("opened") /\ UNCHANGED <<incidents, silent, due, opened>>
     ELSE /\ incidents' = incidents \cup {key}
          /\ opened' = opened \cup {key}
          /\ silent' = silent \ {key}
          /\ due' = due \ {key}
          /\ IF key \notin incidents THEN tell("opened")
             ELSE IF key \in due THEN tell("escalated") ELSE UNCHANGED flying
  /\ calling' = None
  /\ UNCHANGED <<chan, disk>>

Time ==
  /\ \E i \in incidents : \/ silent' = silent \cup {i} /\ UNCHANGED due
                          \/ due' = due \cup {i} /\ UNCHANGED silent
  /\ UNCHANGED <<chan, calling, incidents, flying, opened, disk>>

(* parseIncidentKey splits the key kind:project at its first colon; kinds     *)
(* have colons of their own.                                                  *)
Parsed(i) ==
  IF Before[i[1]] = Plain THEN i ELSE <<Before[i[1]], "the rest">>

(* CheckResolved, from the heartbeat. *)
Resolve ==
  /\ silent # {}
  /\ incidents' = incidents \ silent
  /\ due' = due \ silent
  /\ silent' = {}
  /\ flying' = flying \cup {Alert("resolved", Parsed(i)[1], Parsed(i)[2]) : i \in silent}
  /\ UNCHANGED <<chan, calling, opened, disk>>

(* A delivery ends, well or not; none is repeated. *)
Deliver ==
  /\ \E a \in flying : flying' = flying \ {a}
  /\ UNCHANGED <<chan, calling, incidents, silent, due, opened, disk>>
-------------------------------------------------------------------------------
(* A day passes; Rotate, from the reconcile ticker, removes the oldest logs,  *)
(* too old or too large together, the log that is open not excepted.          *)
NextDay ==
  /\ day < MaxDays
  /\ day' = day + 1
  /\ UNCHANGED <<chan, calling, hook, handle, logs>>

Rotate ==
  /\ \E old \in SUBSET logs :
       /\ old # {} /\ \A d \in old, e \in logs \ old : d < e
       /\ logs' = logs \ old
  /\ UNCHANGED <<chan, calling, hook, day, handle>>

Next ==
  \/ \E r \in Recorders : Write(r) \/ Check(r) \/ Send(r)
  \/ CloseChannel \/ CloseWriter \/ Receive \/ Record
  \/ Time \/ Resolve \/ Deliver \/ NextDay \/ Rotate

Spec == Init /\ [][Next]_vars
-------------------------------------------------------------------------------
TypeOK ==
  /\ queue \in Seq(Anomaly \cup {Overflow}) /\ Len(queue) <= Buffer
  /\ readers \subseteq Recorders
  /\ closer \in {"no", "waiting", "done"}
  /\ silent \cup due \subseteq incidents /\ incidents \subseteq opened
  /\ logs \subseteq 1..MaxDays

(* anomaly.go, SM-186: no goroutine ever sends on the closed channel, which   *)
(* would take the process down, however Record and Close overlap.             *)
NeverSendsOnClosed == ~panicked

(* webhook.go:16-22, 43-47: an incident is a (kind, project) pair, and a      *)
(* resolved alert names the kind and the project of an incident there was.    *)
ResolvedIsKnown ==
  \A a \in flying : a.event = "resolved" => <<a.kind, a.project>> \in opened
===============================================================================
