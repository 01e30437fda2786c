------------------------------ MODULE FairQueue ------------------------------
(***************************************************************************)
(* The task queue of the sync engine (internal/sync/fairqueue.go) together *)
(* with the worker goroutines that drain it (Engine.Run, runWorker and the *)
(* calls processTask's handlers make back into the queue).                 *)
(*                                                                         *)
(* The file watcher, the reconciler and the filter reloader call Enqueue   *)
(* and EnqueuePriority at any time.  Every queue operation is one step,    *)
(* because it holds q.mu throughout, except for Dequeue, which gives the   *)
(* mutex up while it waits: on the condition variable when the queue is    *)
(* empty, on a timer when every queued task is in cooldown or its mirror   *)
(* in backoff.  A worker's program counter says where it is:               *)
(*                                                                         *)
(*   scan      calls Dequeue, or was woken in it: wants q.mu               *)
(*   parking   saw an empty queue and a live context, still holds q.mu,    *)
(*             not yet on the condition variable's wait list               *)
(*   parked    on the wait list, q.mu released                             *)
(*   sleeping  in the timed wait, q.mu released                            *)
(*   working   runs the task Dequeue returned                              *)
(*   reporting the file was uploaded and its cooldown set, the mirror's    *)
(*             circuit is not updated yet                                  *)
(*   returned  Dequeue returned false and the worker ended                 *)
(*                                                                         *)
(* Time is relative: a cooldown, a backoff and a timed wait are the ticks  *)
(* left of them.  The length of an adaptive cooldown is any member of      *)
(* CoolDurations; what it is computed from is not modelled here.           *)
(***************************************************************************)
EXTENDS Integers, Sequences, FiniteSets, SequencesExt

CONSTANTS
  Workers,        \* the worker goroutines
  Mirrors,        \* config.Project, by name
  Files,          \* non-empty relative paths
  NoFile,         \* RelPath = "": a full project sync
  NoTask,         \* what a worker without a task holds
  SyncTasks,      \* the sync tasks callers may pass to Enqueue
  DeleteTasks,    \* the delete tasks callers may pass to EnqueuePriority
  HardCap,        \* hardCap in Enqueue
  OverflowAt,     \* overflowThreshold in Enqueue
  DrainAt,        \* drainThreshold in Enqueue
  CoolDurations,  \* the possible adaptive cooldowns, in ticks
  Threshold,      \* circuitBreakerThreshold
  BaseBackoff,    \* circuitBreakerBaseBackoff, in ticks
  MaxBackoff,     \* circuitBreakerMaxBackoff, in ticks
  MaxLen,         \* bound: callers stop at this queue length
  MaxOwed,        \* bound: callers stop passing Done at this many outstanding
  MaxFailures,    \* bound: the failure counter saturates here
  MayClose,       \* whether Close is ever called
  MayCancel       \* whether the context is ever cancelled

Keys == Mirrors \X Files

SyncTask(m, f, d) == [type |-> "sync", mirror |-> m, file |-> f, done |-> d]
DeleteTask(m, f)  == [type |-> "delete", mirror |-> m, file |-> f, done |-> FALSE]

Task == [type : {"sync", "delete"}, mirror : Mirrors,
         file : Files \cup {NoFile}, done : BOOLEAN]

ASSUME FairQueueAssumption ==
  /\ Workers # {} /\ IsFiniteSet(Workers)
  /\ NoFile \notin Files
  /\ NoTask \notin Task
  /\ SyncTasks \subseteq {t \in Task : t.type = "sync"}
  /\ DeleteTasks \subseteq {t \in Task : t.type = "delete" /\ t.file \in Files}
  /\ HardCap \in Nat \ {0}
  /\ OverflowAt \in Nat /\ DrainAt \in Nat /\ DrainAt <= OverflowAt
  /\ CoolDurations \subseteq Nat \ {0}
  /\ Threshold \in Nat \ {0}
  /\ BaseBackoff \in Nat \ {0} /\ MaxBackoff \in Nat \ {0}
  /\ MaxLen \in Nat /\ MaxOwed \in Nat
  /\ MaxFailures \in Nat /\ MaxFailures > Threshold
  /\ \A n \in 0..MaxFailures : 2^n \in Nat
  /\ MayClose \in BOOLEAN /\ MayCancel \in BOOLEAN

VARIABLES
  items,          \* q.items
  pending,        \* q.pending: the keys it maps to true
  cool,           \* q.cooldowns: ticks left, 0 when absent or expired
  failures,       \* circuitState.consecutiveFailures, per mirror
  backoff,        \* circuitState.backoffUntil, per mirror, in ticks left
  closed,         \* q.closed
  overflowFired,  \* q.overflowFired
  cancelled,      \* ctx.Err() # nil
  helpers,        \* workers in Dequeue whose cancel helper has not broadcast
  pc,             \* where each worker is
  hand,           \* the task each worker runs
  sleep,          \* ticks left of each worker's timed wait
  doneOwed        \* Done callbacks handed to the queue and not yet invoked

queueVars  == <<items, pending, cool, failures, backoff, closed, overflowFired>>
workerVars == <<pc, hand, sleep>>
vars == <<queueVars, workerVars, cancelled, helpers, doneOwed>>

PCs == {"scan", "parking", "parked", "sleeping", "working", "reporting", "returned"}

-----------------------------------------------------------------------------
(* Helpers. *)

IsFull(t) == t.file = NoFile
IsSync(t) == t.type = "sync"

\* queueKey; full syncs, whose key is "", are told apart by IsFull.
Key(t) == <<t.mirror, t.file>>

HasKey(t, k) == ~IsFull(t) /\ Key(t) = k

\* A sync of the file k is queued.
SyncQueued(q, k) == \E i \in DOMAIN q : IsSync(q[i]) /\ HasKey(q[i], k)

\* No worker is between its test of the queue and the wait list.
MutexFree == \A w \in Workers : pc[w] # "parking"

\* Positions of the entries with key k.
Entries(q, k) == {i \in DOMAIN q : HasKey(q[i], k)}

\* Dequeue's scan: deletes are always eligible, syncs wait for their
\* mirror's backoff, and syncs of one file for its cooldown too.
Eligible(t) ==
  IsSync(t) => /\ backoff[t.mirror] = 0
               /\ ~IsFull(t) => cool[Key(t)] = 0

\* Ticks until an ineligible task may be looked at again.
Remaining(t) == IF backoff[t.mirror] > 0 THEN backoff[t.mirror] ELSE cool[Key(t)]

\* The backoff after n consecutive failures (see CircuitBackoff for the
\* arithmetic of the code at large n).
BackoffAfter(n) ==
  LET b == BaseBackoff * 2^(n - Threshold)
  IN  IF b > MaxBackoff THEN MaxBackoff ELSE b

\* Mutants of Signal and Broadcast: nobody is woken.
SignalNobody == UNCHANGED pc
BroadcastNobody == UNCHANGED pc

\* sync.Cond: Signal wakes one waiter if there is one, Broadcast wakes all.
Signal ==
  LET waiters == {w \in Workers : pc[w] = "parked"}
  IN  IF waiters = {}
      THEN UNCHANGED pc
      ELSE \E w \in waiters : pc' = [pc EXCEPT ![w] = "scan"]

Broadcast ==
  pc' = [w \in Workers |-> IF pc[w] = "parked" THEN "scan" ELSE pc[w]]

-----------------------------------------------------------------------------
Init ==
  /\ items = <<>>
  /\ pending = {}
  /\ cool = [k \in Keys |-> 0]
  /\ failures = [m \in Mirrors |-> 0]
  /\ backoff = [m \in Mirrors |-> 0]
  /\ closed = FALSE
  /\ overflowFired = FALSE
  /\ cancelled = FALSE
  /\ helpers = Workers
  /\ pc = [w \in Workers |-> "scan"]
  /\ hand = [w \in Workers |-> NoTask]
  /\ sleep = [w \in Workers |-> 0]
  /\ doneOwed = 0

\* A task with a Done callback makes its caller wait for that callback.
Owed(t) == IF t.done THEN 1 ELSE 0

-----------------------------------------------------------------------------
(* Callers. *)

\* Mutants of Displaced: no deduplication; the head goes, whatever its key.
DisplacedNever(t, i) == i = 0

DisplacedHead(t, i) ==
  IF ~IsFull(t) /\ Key(t) \in pending /\ items # <<>> THEN i = 1 ELSE i = 0

\* Deduplication: removeByKey takes the first entry with the key of t, at
\* position i, out of the queue if the key is marked pending; i = 0 stands
\* for nothing to take out.
Displaced(t, i) ==
  IF ~IsFull(t) /\ Key(t) \in pending /\ Entries(items, Key(t)) # {}
  THEN /\ i \in Entries(items, Key(t))
       /\ \A j \in Entries(items, Key(t)) : i <= j
  ELSE i = 0

Rest(i) == IF i = 0 THEN items ELSE RemoveAt(items, i)

\* Mutant of FiredDone: the displaced task's callback is dropped.
FiredDoneDropped(i) == 0

\* removeByKey fires the callback of the task it displaces.
FiredDone(i) == IF i = 0 THEN 0 ELSE Owed(items[i])

\* Enqueue on a closed queue returns at once; the task is gone.
EnqueueClosed(t) ==
  /\ MutexFree
  /\ closed
  /\ doneOwed' = doneOwed + Owed(t)
  /\ UNCHANGED <<queueVars, workerVars, cancelled, helpers>>

\* Enqueue at the hard cap: the deduplication has been done, the task is
\* refused.
EnqueueRefused(t) ==
  /\ MutexFree
  /\ ~closed
  /\ \E i \in 0..Len(items) :
       /\ Displaced(t, i)
       /\ Len(Rest(i)) >= HardCap
       /\ items' = Rest(i)
       /\ pending' = IF i = 0 THEN pending ELSE pending \ {Key(t)}
       /\ doneOwed' = doneOwed + Owed(t) - FiredDone(i)
  /\ UNCHANGED <<cool, failures, backoff, closed, overflowFired, workerVars,
                 cancelled, helpers>>

\* Mutant of Queued: the task is put at the front.
QueuedFirst(q, t) == <<t>> \o q

\* Where Enqueue puts the task: at the back.
Queued(q, t) == Append(q, t)

\* Enqueue: move to the back, raise or reset the overflow alarm, wake a waiter.
EnqueueAccepted(t) ==
  /\ MutexFree
  /\ ~closed
  /\ \E i \in 0..Len(items) :
       /\ Displaced(t, i)
       /\ Len(Rest(i)) < HardCap
       /\ items' = Queued(Rest(i), t)
       /\ doneOwed' = doneOwed + Owed(t) - FiredDone(i)
  /\ pending' = IF IsFull(t) THEN pending ELSE pending \cup {Key(t)}
  /\ overflowFired' =
       (Len(items') >= OverflowAt \/ (overflowFired /\ Len(items') >= DrainAt))
  /\ Signal
  /\ UNCHANGED <<cool, failures, backoff, closed, hand, sleep, cancelled, helpers>>

Enqueue(t) == EnqueueClosed(t) \/ EnqueueRefused(t) \/ EnqueueAccepted(t)

\* EnqueuePriority: to the front, neither deduplicated nor capped.  A closed
\* queue ignores it.
EnqueuePriority(t) ==
  /\ MutexFree
  /\ ~closed
  /\ items' = <<t>> \o items
  /\ Signal
  /\ UNCHANGED <<pending, cool, failures, backoff, closed, overflowFired,
                 hand, sleep, cancelled, helpers, doneOwed>>

Close ==
  /\ MayClose /\ ~closed
  /\ MutexFree
  /\ closed' = TRUE
  /\ Broadcast
  /\ UNCHANGED <<items, pending, cool, failures, backoff, overflowFired,
                 hand, sleep, cancelled, helpers, doneOwed>>

\* The caller cancels the context given to Run.
Cancel ==
  /\ MayCancel /\ ~cancelled
  /\ cancelled' = TRUE
  /\ UNCHANGED <<queueVars, workerVars, helpers, doneOwed>>
-----------------------------------------------------------------------------
(* Dequeue, by a worker. *)

\* Mutant of Unmarked: q.pending is not updated.
StillMarked(t) == pending

\* q.pending once t has been taken; a full sync has no key in it.
Unmarked(t) == pending \ {Key(t)}

\* The scan finds w a task: the first eligible one in queue order.
Take(w) ==
  /\ pc[w] = "scan" /\ MutexFree /\ ~cancelled
  /\ \E i \in DOMAIN items :
       /\ Eligible(items[i])
       /\ \A j \in 1..(i - 1) : ~Eligible(items[j])
       /\ hand' = [hand EXCEPT ![w] = items[i]]
       /\ items' = RemoveAt(items, i)
       /\ pending' = Unmarked(items[i])
  /\ pc' = [pc EXCEPT ![w] = "working"]
  /\ helpers' = helpers \ {w}
  /\ UNCHANGED <<cool, failures, backoff, closed, overflowFired, sleep,
                 cancelled, doneOwed>>

\* Every queued task is in cooldown or backoff: wait for the earliest expiry.
Sleep(w) ==
  /\ pc[w] = "scan" /\ MutexFree /\ ~cancelled
  /\ items # <<>>
  /\ \A i \in DOMAIN items : ~Eligible(items[i])
  /\ \E i \in DOMAIN items :
       /\ \A j \in DOMAIN items : Remaining(items[i]) <= Remaining(items[j])
       /\ sleep' = [sleep EXCEPT ![w] = Remaining(items[i])]
  /\ pc' = [pc EXCEPT ![w] = "sleeping"]
  /\ UNCHANGED <<queueVars, hand, cancelled, helpers, doneOwed>>

\* The timer fires; the worker scans again.
Wake(w) ==
  /\ pc[w] = "sleeping" /\ sleep[w] = 0
  /\ pc' = [pc EXCEPT ![w] = "scan"]
  /\ UNCHANGED <<queueVars, hand, sleep, cancelled, helpers, doneOwed>>

\* The queue is empty, open and the context live: the worker is about to
\* call cond.Wait.  It still holds q.mu.
Park(w) ==
  /\ pc[w] = "scan" /\ MutexFree /\ ~cancelled
  /\ items = <<>> /\ ~closed
  /\ pc' = [pc EXCEPT ![w] = "parking"]
  /\ UNCHANGED <<queueVars, hand, sleep, cancelled, helpers, doneOwed>>

\* cond.Wait adds the worker to the wait list and releases q.mu.
EnterWait(w) ==
  /\ pc[w] = "parking"
  /\ pc' = [pc EXCEPT ![w] = "parked"]
  /\ UNCHANGED <<queueVars, hand, sleep, cancelled, helpers, doneOwed>>

\* Mutant of ReturnFalse: a closed queue is abandoned with tasks in it.
ReturnFalseEarly(w) ==
  /\ MutexFree
  /\ \/ pc[w] = "scan" /\ (cancelled \/ closed)
     \/ pc[w] = "sleeping" /\ cancelled
  /\ pc' = [pc EXCEPT ![w] = "returned"]
  /\ sleep' = [sleep EXCEPT ![w] = 0]
  /\ helpers' = helpers \ {w}
  /\ UNCHANGED <<queueVars, hand, cancelled, doneOwed>>

\* Dequeue returns false: the context is cancelled, or the queue is closed
\* and empty.  runWorker ends.
ReturnFalse(w) ==
  /\ MutexFree
  /\ \/ pc[w] = "scan" /\ (cancelled \/ (closed /\ items = <<>>))
     \/ pc[w] = "sleeping" /\ cancelled
  /\ pc' = [pc EXCEPT ![w] = "returned"]
  /\ sleep' = [sleep EXCEPT ![w] = 0]
  /\ helpers' = helpers \ {w}
  /\ UNCHANGED <<queueVars, hand, cancelled, doneOwed>>

\* The helper goroutine of w's Dequeue call sees the cancelled context and
\* broadcasts, once, without holding q.mu.  The helper of a call that has
\* returned is gone.
CancelBroadcast(w) ==
  /\ cancelled /\ w \in helpers
  /\ helpers' = helpers \ {w}
  /\ Broadcast
  /\ UNCHANGED <<queueVars, hand, sleep, cancelled, doneOwed>>
-----------------------------------------------------------------------------
(* processTask, as far as the queue sees it. *)

\* processTask returns, from a panic too: its deferred Done fires and the worker
\* calls Dequeue again, which starts a new cancel helper.
EndTask(w) ==
  /\ hand' = [hand EXCEPT ![w] = NoTask]
  /\ pc' = [pc EXCEPT ![w] = "scan"]
  /\ helpers' = helpers \cup {w}
  /\ doneOwed' = doneOwed - Owed(hand[w])

\* The handler returns without a word to the queue: every delete, and a sync
\* that found the file unchanged, excluded, gone or still changing, touched
\* only its mtime, panicked, or was cut short by the cancelled context.
FinishQuietly(w) ==
  /\ pc[w] = "working"
  /\ EndTask(w)
  /\ UNCHANGED <<queueVars, sleep, cancelled>>

\* syncSingleFile after rclone exit 0: SetAdaptiveCooldown ...
SetAdaptiveCooldown(w) ==
  /\ pc[w] = "working" /\ IsSync(hand[w]) /\ ~IsFull(hand[w])
  /\ MutexFree
  /\ \E d \in CoolDurations : cool' = [cool EXCEPT ![Key(hand[w])] = d]
  /\ pc' = [pc EXCEPT ![w] = "reporting"]
  /\ UNCHANGED <<items, pending, failures, backoff, closed, overflowFired,
                 hand, sleep, cancelled, helpers, doneOwed>>

\* Mutant of ClearedBackoff: backoffUntil is left as it was.
KeptBackoff(m) == backoff

\* backoffUntil = time.Time{}
ClearedBackoff(m) == [backoff EXCEPT ![m] = 0]

\* ... then RecordSuccess; a full sync calls RecordSuccess alone.
RecordSuccess(w) ==
  /\ \/ pc[w] = "reporting"
     \/ pc[w] = "working" /\ IsSync(hand[w]) /\ IsFull(hand[w])
  /\ MutexFree
  /\ failures' = [failures EXCEPT ![hand[w].mirror] = 0]
  /\ backoff' = ClearedBackoff(hand[w].mirror)
  /\ EndTask(w)
  /\ UNCHANGED <<items, pending, cool, closed, overflowFired, sleep, cancelled>>

\* A sync whose rclone exit is not 0: RecordFailure.
RecordFailure(w) ==
  /\ pc[w] = "working" /\ IsSync(hand[w])
  /\ MutexFree
  /\ LET m == hand[w].mirror
         n == IF failures[m] < MaxFailures THEN failures[m] + 1 ELSE MaxFailures
     IN  /\ failures' = [failures EXCEPT ![m] = n]
         /\ backoff' = [backoff EXCEPT ![m] = IF n >= Threshold
                                              THEN BackoffAfter(n) ELSE @]
  /\ EndTask(w)
  /\ UNCHANGED <<items, pending, cool, closed, overflowFired, sleep, cancelled>>
-----------------------------------------------------------------------------
\* One tick of the clock.
LessOne(f) == [x \in DOMAIN f |-> IF f[x] > 0 THEN f[x] - 1 ELSE 0]

Tick ==
  /\ \/ \E k \in Keys : cool[k] > 0
     \/ \E m \in Mirrors : backoff[m] > 0
     \/ \E w \in Workers : sleep[w] > 0
  /\ cool' = LessOne(cool)
  /\ backoff' = LessOne(backoff)
  /\ sleep' = LessOne(sleep)
  /\ UNCHANGED <<items, pending, failures, closed, overflowFired, pc, hand,
                 cancelled, helpers, doneOwed>>

Call ==
  /\ Len(items) < MaxLen
  /\ \/ \E t \in SyncTasks : (t.done => doneOwed < MaxOwed) /\ Enqueue(t)
     \/ \E t \in DeleteTasks : EnqueuePriority(t)

\* The steps of a worker that wants q.mu, and those that do not.
Dequeue(w) == Take(w) \/ Sleep(w) \/ Park(w) \/ ReturnFalse(w)
Work(w) == FinishQuietly(w) \/ SetAdaptiveCooldown(w) \/ RecordSuccess(w)
             \/ RecordFailure(w)

Run ==
  \/ Close \/ Cancel \/ Tick
  \/ \E w \in Workers :
       Dequeue(w) \/ Wake(w) \/ EnterWait(w) \/ CancelBroadcast(w) \/ Work(w)

Next == Call \/ Run

Spec == Init /\ [][Next]_vars

(***************************************************************************)
(* Fairness.  The Go scheduler runs every runnable goroutine and the clock *)
(* advances; sync.Mutex's starvation mode gives q.mu to every waiter in    *)
(* the end, so the steps that take it are strongly fair.  Callers, Close   *)
(* and Cancel owe nothing.                                                 *)
(***************************************************************************)
Fairness ==
  /\ WF_vars(Tick)
  /\ \A w \in Workers :
       /\ SF_vars(Dequeue(w)) /\ SF_vars(Work(w))
       /\ WF_vars(Wake(w)) /\ WF_vars(EnterWait(w)) /\ WF_vars(CancelBroadcast(w))

FairSpec == Spec /\ Fairness

(***************************************************************************)
(* Properties.                                                             *)
(***************************************************************************)

\* Every variable has the type its declaration in the code gives it.
TypeOK ==
  /\ items \in Seq(Task)
  /\ pending \subseteq Keys
  /\ cool \in [Keys -> Nat]
  /\ failures \in [Mirrors -> 0..MaxFailures]
  /\ backoff \in [Mirrors -> Nat]
  /\ closed \in BOOLEAN /\ overflowFired \in BOOLEAN /\ cancelled \in BOOLEAN
  /\ pc \in [Workers -> PCs]
  /\ hand \in [Workers -> Task \cup {NoTask}]
  /\ sleep \in [Workers -> Nat]
  /\ helpers \subseteq Workers
  /\ doneOwed \in Int

\* A worker holds a task exactly while it works on one, a file's sync
\* while it reports success.
WorkerInv ==
  \A w \in Workers :
    /\ hand[w] # NoTask <=> pc[w] \in {"working", "reporting"}
    /\ pc[w] = "reporting" => IsSync(hand[w]) /\ ~IsFull(hand[w])

\* Between the test of the queue and the wait list the queue stays empty.
ParkingInv == \A w \in Workers : pc[w] = "parking" => items = <<>>

\* The membership map never claims a file that has no sync in the queue:
\* Enqueue, which trusts q.pending, always finds an entry to displace, and a
\* file is never thought to be queued when it is not.
PendingIsQueued == \A k \in pending : SyncQueued(items, k)

\* Deduplication: at most one sync of a file is queued at any time.
OneSyncPerFile ==
  \A k \in Keys :
    Cardinality({i \in Entries(items, k) : IsSync(items[i])}) <= 1

\* No lost wake-up.  While a worker sits on the condition variable, every
\* queued task has a worker of its own that is awake (scanning, or in a timed
\* wait): one Signal per task is enough, whatever the interleaving of callers,
\* of workers coming back from a task and of workers woken but not yet running.
Parked == {w \in Workers : pc[w] = "parked"}
Awake  == {w \in Workers : pc[w] \in {"scan", "sleeping"}}

NoLostWakeup ==
  (~cancelled /\ Parked # {}) => Len(items) <= Cardinality(Awake)

\* A mirror whose failures are below the threshold is not held back: a
\* success in any worker ends the backoff another worker's failures began.
BackoffOnlyWhenTripped ==
  \A m \in Mirrors : backoff[m] > 0 => failures[m] >= Threshold

\* Every Done callback given to the queue is still owed by a queued task or a
\* running one, or has been invoked: reconcileAll's WaitGroup does not hang,
\* also when Enqueue displaces a task that carries a callback.
DoneAccounted ==
  doneOwed = Cardinality({i \in DOMAIN items : items[i].done})
             + Cardinality({w \in Workers : hand[w] # NoTask /\ hand[w].done})

\* A queued sync of a file stays queued (it may move to the back) until some
\* worker takes a sync of that file.
Takes(w, k) ==
  /\ hand[w] = NoTask /\ hand'[w] # NoTask
  /\ IsSync(hand'[w]) /\ HasKey(hand'[w], k)

SyncNeverLost ==
  [][\A k \in Keys :
       SyncQueued(items, k) /\ ~SyncQueued(items', k)
         => \E w \in Workers : Takes(w, k)]_vars

\* Without deletes the queue is, whatever its cooldowns, circuits and waits do,
\* a set of requested files and a bag of full syncs handed to workers one at a
\* time (WorkList): nothing requested is lost or served twice for one request.
NoJob == <<NoTask, NoTask>>

Requests == INSTANCE WorkList WITH
  owed  <- {k \in Keys : SyncQueued(items, k)},
  fulls <- [m \in Mirrors |->
              Cardinality({i \in DOMAIN items : IsFull(items[i]) /\ items[i].mirror = m})],
  job   <- [w \in Workers |-> IF hand[w] = NoTask THEN NoJob ELSE Key(hand[w])]

WorkListSpec == Requests!Spec

\* "Priority tasks are NOT deduplicated - each delete must execute": a delete
\* leaves the queue only into a worker's hands.
DeletesQueued(q, k) == Cardinality({i \in Entries(q, k) : ~IsSync(q[i])})

DeleteNeverLost ==
  [][\A k \in Keys :
       DeletesQueued(items', k) < DeletesQueued(items, k)
         => \E w \in Workers : /\ hand[w] = NoTask /\ hand'[w] # NoTask
                               /\ ~IsSync(hand'[w]) /\ HasKey(hand'[w], k)]_vars

\* "delete events which need prompt execution": a queued delete has a worker
\* that is scanning for it or is busy with another task, it does not wait for
\* the timers of unrelated files and mirrors.
PromptDelete ==
  (\E i \in DOMAIN items : ~IsSync(items[i]))
    => \E w \in Workers : pc[w] \in {"scan", "working", "reporting"}

\* Dequeue "blocks until the earliest cooldown expires, the queue is closed,
\* or the context is cancelled": Close wakes the workers in a timed wait.
CloseWakesSleepers ==
  [][closed' # closed => \A w \in Workers : pc'[w] # "sleeping"]_vars

\* Cancelling the context ends every worker, Run returns.
CancelReturns == cancelled ~> \A w \in Workers : pc[w] = "returned"

\* Closing the queue ends every worker, whether or not the context is
\* cancelled as well, and whatever cooldowns and backoffs the queued tasks
\* wait for: sync-now and addmirror, which close before Run, terminate.
CloseReturns == closed ~> \A w \in Workers : pc[w] = "returned"

\* When every worker has ended after Close alone, nothing was left behind:
\* remaining items are still dequeued.
CloseDrains ==
  (closed /\ ~cancelled /\ \A w \in Workers : pc[w] = "returned") => items = <<>>
=============================================================================
