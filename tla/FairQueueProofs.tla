--------------------------- MODULE FairQueueProofs ---------------------------
(* Theorems about FairQueue and their proofs. *)
EXTENDS FairQueue, TLAPS, FiniteSetTheorems, SequenceTheorems

-----------------------------------------------------------------------------
(* Sequences. *)

\* Taking one element out of a sequence shortens it by one and closes the gap.
LEMMA RemoveAtFacts ==
  ASSUME NEW S, NEW q \in Seq(S), NEW i \in 1..Len(q)
  PROVE  /\ RemoveAt(q, i) \in Seq(S)
         /\ Len(RemoveAt(q, i)) = Len(q) - 1
         /\ \A j \in 1..(Len(q) - 1) :
              RemoveAt(q, i)[j] = IF j < i THEN q[j] ELSE q[j + 1]
<1> DEFINE a == SubSeq(q, 1, i - 1)
           b == SubSeq(q, i + 1, Len(q))
<1>1. a \in Seq(S) /\ Len(a) = i - 1 /\ \A j \in 1..(i - 1) : a[j] = q[j]
  OBVIOUS
<1>2. b \in Seq(S) /\ Len(b) = Len(q) - i
      /\ \A j \in 1..(Len(q) - i) : b[j] = q[j + i]
  OBVIOUS
<1> HIDE DEF a, b
<1>3. /\ a \o b \in Seq(S)
      /\ Len(a \o b) = Len(a) + Len(b)
      /\ \A j \in 1..(Len(a) + Len(b)) :
           (a \o b)[j] = IF j <= Len(a) THEN a[j] ELSE b[j - Len(a)]
  BY <1>1, <1>2, ConcatProperties
<1>4. ASSUME NEW j \in 1..(Len(q) - 1)
      PROVE  (a \o b)[j] = IF j < i THEN q[j] ELSE q[j + 1]
  <2>1. CASE j < i
    BY <2>1, <1>1, <1>2, <1>3
  <2>2. CASE ~(j < i)
    <3>1. (a \o b)[j] = b[j - (i - 1)] /\ j - (i - 1) \in 1..(Len(q) - i)
      BY <2>2, <1>1, <1>2, <1>3
    <3> QED BY <3>1, <2>2, <1>2
  <2> QED BY <2>1, <2>2
<1>5. Len(a \o b) = Len(q) - 1
  BY <1>1, <1>2, <1>3
<1> QED BY <1>3, <1>4, <1>5 DEF RemoveAt, a, b
-----------------------------------------------------------------------------
(* Types. *)

\* Signal and Broadcast move workers from the wait list to the scan and leave
\* every other worker where it is.
LEMMA WakeTypes ==
  ASSUME pc \in [Workers -> PCs], Signal \/ Broadcast
  PROVE  /\ pc' \in [Workers -> PCs]
         /\ \A w \in Workers : pc'[w] # pc[w] => pc[w] = "parked" /\ pc'[w] = "scan"
BY DEF Signal, Broadcast, PCs

\* A worker's task is a member of Task while it works on it.
LEMMA HandType ==
  ASSUME TypeOK, WorkerInv, NEW w \in Workers, pc[w] \in {"working", "reporting"}
  PROVE  /\ hand[w] \in Task
         /\ hand[w].mirror \in Mirrors
         /\ ~IsFull(hand[w]) => Key(hand[w]) \in Keys
BY DEF TypeOK, WorkerInv, Task, IsFull, Key, Keys

\* Deduplication leaves a queue of tasks.
LEMMA RestType ==
  ASSUME TypeOK, NEW i \in 0..Len(items)
  PROVE  /\ Rest(i) \in Seq(Task)
         /\ FiredDone(i) \in Int
<1>1. CASE i = 0
  BY <1>1 DEF TypeOK, Rest, FiredDone
<1>2. CASE i # 0
  BY <1>2, RemoveAtFacts DEF TypeOK, Rest, FiredDone, Owed
<1> QED BY <1>1, <1>2

\* The backoffs are natural numbers.
LEMMA BackoffType ==
  ASSUME NEW n \in Threshold..MaxFailures
  PROVE  BackoffAfter(n) \in Nat
<1>1. 2^(n - Threshold) \in Nat
  <2>1. n - Threshold \in 0..MaxFailures
    BY FairQueueAssumption
  <2> QED BY <2>1, FairQueueAssumption
<1>2. BaseBackoff \in Nat /\ MaxBackoff \in Nat
  BY FairQueueAssumption
<1> DEFINE p == 2^(n - Threshold)
<1> HIDE DEF p
<1>3. BaseBackoff * p \in Nat
  BY <1>1, <1>2 DEF p
<1> QED BY <1>3, <1>2 DEF BackoffAfter, p

\* What each call of a caller leaves in the variables has their types.
LEMMA EnqueueType ==
  ASSUME TypeOK, NEW t \in Task, Enqueue(t) \/ EnqueuePriority(t)
  PROVE  TypeOK'
<1>0. Owed(t) \in Int /\ (~IsFull(t) => Key(t) \in Keys)
  BY DEF Owed, Task, IsFull, Key, Keys
<1>1. CASE EnqueueClosed(t)
  <2>1. UNCHANGED <<queueVars, workerVars, cancelled, helpers>>
    BY <1>1 DEF EnqueueClosed
  <2>2. doneOwed' \in Int
    BY <1>1, <1>0 DEF EnqueueClosed, TypeOK
  <2> QED BY <2>1, <2>2 DEF TypeOK, queueVars, workerVars
<1>2. CASE EnqueueRefused(t)
  <2>1. PICK i \in 0..Len(items) :
          /\ items' = Rest(i)
          /\ pending' = IF i = 0 THEN pending ELSE pending \ {Key(t)}
          /\ doneOwed' = doneOwed + Owed(t) - FiredDone(i)
    BY <1>2 DEF EnqueueRefused
  <2>2. items' \in Seq(Task) /\ doneOwed' \in Int
    BY <1>0, <2>1, RestType DEF TypeOK
  <2>3. pending' \subseteq Keys
    BY <2>1 DEF TypeOK
  <2>4. UNCHANGED <<cool, failures, backoff, closed, overflowFired, workerVars,
                    cancelled, helpers>>
    BY <1>2 DEF EnqueueRefused
  <2> QED BY <2>2, <2>3, <2>4 DEF TypeOK, workerVars
<1>3. CASE EnqueueAccepted(t)
  <2>1. pc' \in [Workers -> PCs]
    BY <1>3, WakeTypes DEF EnqueueAccepted, TypeOK
  <2>2. items' \in Seq(Task) /\ doneOwed' \in Int
    BY <1>3, <1>0, RestType DEF EnqueueAccepted, TypeOK, Queued
  <2>3. pending' \subseteq Keys /\ overflowFired' \in BOOLEAN
    BY <1>3, <1>0 DEF EnqueueAccepted, TypeOK
  <2> QED BY <1>3, <2>1, <2>2, <2>3 DEF EnqueueAccepted, TypeOK
<1>4. CASE EnqueuePriority(t)
  <2>1. pc' \in [Workers -> PCs]
    BY <1>4, WakeTypes DEF EnqueuePriority, TypeOK
  <2>2. items' \in Seq(Task)
    BY <1>4 DEF EnqueuePriority, TypeOK
  <2> QED BY <1>4, <2>1, <2>2 DEF EnqueuePriority, TypeOK
<1> QED BY <1>1, <1>2, <1>3, <1>4 DEF Enqueue

\* The steps of Dequeue.
LEMMA DequeueType ==
  ASSUME TypeOK, NEW w \in Workers,
         Dequeue(w) \/ Wake(w) \/ EnterWait(w) \/ CancelBroadcast(w)
  PROVE  TypeOK'
<1>1. CASE Take(w)
  <2>1. PICK i \in DOMAIN items :
          /\ hand' = [hand EXCEPT ![w] = items[i]]
          /\ items' = RemoveAt(items, i)
          /\ pending' = Unmarked(items[i])
    BY <1>1 DEF Take
  <2>2. i \in 1..Len(items) /\ items[i] \in Task
    BY <2>1 DEF TypeOK
  <2>3. items' \in Seq(Task)
    BY <2>1, <2>2, RemoveAtFacts DEF TypeOK
  <2>4. hand' \in [Workers -> Task \cup {NoTask}] /\ pending' \subseteq Keys
    BY <2>1, <2>2 DEF TypeOK, Unmarked
  <2>5. pc' \in [Workers -> PCs] /\ helpers' \subseteq Workers
    BY <1>1 DEF Take, TypeOK, PCs
  <2> QED BY <1>1, <2>3, <2>4, <2>5 DEF Take, TypeOK
<1>2. CASE Sleep(w)
  <2>1. PICK i \in DOMAIN items : sleep' = [sleep EXCEPT ![w] = Remaining(items[i])]
    BY <1>2 DEF Sleep
  <2>2. items[i] \in Task /\ ~Eligible(items[i])
    BY <1>2 DEF Sleep, TypeOK
  <2>3. Remaining(items[i]) \in Nat
    BY <2>2 DEF Remaining, Eligible, TypeOK, Task, IsFull, Key, Keys
  <2>4. sleep' \in [Workers -> Nat] /\ pc' \in [Workers -> PCs]
    BY <1>2, <2>1, <2>3 DEF Sleep, TypeOK, PCs
  <2> QED BY <1>2, <2>4 DEF Sleep, TypeOK, queueVars
<1>3. CASE Park(w)
  BY <1>3 DEF Park, TypeOK, queueVars, PCs
<1>4. CASE ReturnFalse(w)
  BY <1>4 DEF ReturnFalse, TypeOK, queueVars, PCs
<1>5. CASE Wake(w)
  BY <1>5 DEF Wake, TypeOK, queueVars, PCs
<1>6. CASE EnterWait(w)
  BY <1>6 DEF EnterWait, TypeOK, queueVars, PCs
<1>7. CASE CancelBroadcast(w)
  <2>1. pc' \in [Workers -> PCs]
    BY <1>7, WakeTypes DEF CancelBroadcast, TypeOK
  <2> QED BY <1>7, <2>1 DEF CancelBroadcast, TypeOK, queueVars
<1> QED BY <1>1, <1>2, <1>3, <1>4, <1>5, <1>6, <1>7 DEF Dequeue

\* The steps that end a task, or report on it.
LEMMA WorkType ==
  ASSUME TypeOK, WorkerInv, NEW w \in Workers, Work(w)
  PROVE  TypeOK'
<1>1. Owed(hand[w]) \in Int
  BY DEF Owed
<1>2. ASSUME EndTask(w)
      PROVE  /\ pc' \in [Workers -> PCs]
             /\ hand' \in [Workers -> Task \cup {NoTask}]
             /\ helpers' \subseteq Workers
             /\ doneOwed' \in Int
  BY <1>1, <1>2 DEF EndTask, TypeOK, PCs
<1>3. CASE FinishQuietly(w)
  BY <1>2, <1>3 DEF FinishQuietly, TypeOK, queueVars
<1>4. CASE SetAdaptiveCooldown(w)
  <2>1. cool' \in [Keys -> Nat] /\ pc' \in [Workers -> PCs]
    BY <1>4, FairQueueAssumption DEF SetAdaptiveCooldown, TypeOK, PCs
  <2> QED BY <1>4, <2>1 DEF SetAdaptiveCooldown, TypeOK
<1>5. CASE RecordSuccess(w)
  <2>1. failures' \in [Mirrors -> 0..MaxFailures] /\ backoff' \in [Mirrors -> Nat]
    <3>1. 0 \in Nat /\ 0 \in 0..MaxFailures
      BY FairQueueAssumption
    <3> QED BY <1>5, <3>1 DEF RecordSuccess, TypeOK, ClearedBackoff
  <2> QED BY <1>2, <1>5, <2>1 DEF RecordSuccess, TypeOK
<1>6. CASE RecordFailure(w)
  <2> DEFINE m == hand[w].mirror
             n == IF failures[m] < MaxFailures THEN failures[m] + 1 ELSE MaxFailures
  <2>1. m \in Mirrors
    BY <1>6, HandType DEF RecordFailure
  <2>2. n \in 0..MaxFailures /\ (n >= Threshold => n \in Threshold..MaxFailures)
    BY <2>1, FairQueueAssumption DEF TypeOK
  <2>3. n >= Threshold => BackoffAfter(n) \in Nat
    BY <2>2, BackoffType
  <2>4. /\ failures' = [failures EXCEPT ![m] = n]
        /\ backoff' = [backoff EXCEPT ![m] = IF n >= Threshold
                                             THEN BackoffAfter(n) ELSE @]
    BY <1>6 DEF RecordFailure
  <2> HIDE DEF n
  <2>5. failures' \in [Mirrors -> 0..MaxFailures] /\ backoff' \in [Mirrors -> Nat]
    BY <2>1, <2>2, <2>3, <2>4 DEF TypeOK
  <2> QED BY <1>2, <1>6, <2>5 DEF RecordFailure, TypeOK
<1> QED BY <1>3, <1>4, <1>5, <1>6 DEF Work

\* Every step keeps the types.
LEMMA TypeStep ==
  ASSUME TypeOK, WorkerInv, [Next]_vars
  PROVE  TypeOK'
<1>1. CASE Call
  BY <1>1, EnqueueType, FairQueueAssumption DEF Call
<1>2. CASE Close
  BY <1>2, WakeTypes DEF Close, TypeOK
<1>3. CASE Cancel
  BY <1>3 DEF Cancel, TypeOK, queueVars, workerVars
<1>4. CASE Tick
  BY <1>4 DEF Tick, TypeOK, LessOne
<1>5. CASE \E w \in Workers :
             Dequeue(w) \/ Wake(w) \/ EnterWait(w) \/ CancelBroadcast(w) \/ Work(w)
  BY <1>5, DequeueType, WorkType
<1>6. CASE UNCHANGED vars
  BY <1>6 DEF vars, queueVars, workerVars, TypeOK
<1> QED BY <1>1, <1>2, <1>3, <1>4, <1>5, <1>6 DEF Next, Run
-----------------------------------------------------------------------------
(* Workers and the condition variable. *)

\* Steps of callers and wake-ups change no worker's task, and no worker's
\* place except from the wait list to the scan.
LEMMA WorkerInvWake ==
  ASSUME TypeOK, WorkerInv, UNCHANGED hand, Signal \/ Broadcast \/ UNCHANGED pc
  PROVE  WorkerInv'
BY WakeTypes DEF WorkerInv, TypeOK, PCs

\* A worker holds a task exactly while it works on it.
LEMMA WorkerInvStep ==
  ASSUME TypeOK, WorkerInv, [Next]_vars
  PROVE  WorkerInv'
<1>1. CASE Call
  BY <1>1, WorkerInvWake
     DEF Call, Enqueue, EnqueueClosed, EnqueueRefused, EnqueueAccepted,
         EnqueuePriority, workerVars
<1>2. CASE Close \/ Cancel \/ Tick
  BY <1>2, WorkerInvWake DEF Close, Cancel, Tick, workerVars
<1>3. ASSUME NEW w \in Workers, Dequeue(w)
      PROVE  WorkerInv'
  <2>1. CASE Take(w)
    <3>1. PICK i \in DOMAIN items : hand' = [hand EXCEPT ![w] = items[i]]
      BY <2>1 DEF Take
    <3>2. items[i] # NoTask
      BY FairQueueAssumption DEF TypeOK
    <3> QED BY <2>1, <3>1, <3>2 DEF Take, WorkerInv, TypeOK
  <2>2. CASE Sleep(w) \/ Park(w) \/ ReturnFalse(w)
    BY <2>2 DEF Sleep, Park, ReturnFalse, WorkerInv, TypeOK
  <2> QED BY <1>3, <2>1, <2>2 DEF Dequeue
<1>4. ASSUME NEW w \in Workers, Wake(w) \/ EnterWait(w) \/ CancelBroadcast(w)
      PROVE  WorkerInv'
  <2>1. CASE Wake(w) \/ EnterWait(w)
    BY <2>1 DEF Wake, EnterWait, WorkerInv, TypeOK
  <2>2. CASE CancelBroadcast(w)
    BY <2>2, WorkerInvWake DEF CancelBroadcast
  <2> QED BY <1>4, <2>1, <2>2
<1>5. ASSUME NEW w \in Workers, Work(w)
      PROVE  WorkerInv'
  <2>1. CASE SetAdaptiveCooldown(w)
    BY <2>1 DEF SetAdaptiveCooldown, WorkerInv, TypeOK
  <2>2. CASE EndTask(w)
    BY <2>2 DEF EndTask, WorkerInv, TypeOK
  <2> QED BY <1>5, <2>1, <2>2 DEF Work, FinishQuietly, RecordSuccess, RecordFailure
<1>6. CASE UNCHANGED vars
  BY <1>6, WorkerInvWake DEF vars, workerVars
<1> QED BY <1>1, <1>2, <1>3, <1>4, <1>5, <1>6 DEF Next, Run

LEMMA InitTypes == Init => TypeOK /\ WorkerInv
<1> SUFFICES ASSUME Init PROVE TypeOK /\ WorkerInv
  OBVIOUS
<1>1. 0 \in Nat /\ 0 \in Int /\ 0 \in 0..MaxFailures /\ <<>> \in Seq(Task)
  BY FairQueueAssumption
<1>2. TypeOK
  BY <1>1 DEF Init, TypeOK, PCs
<1>3. WorkerInv
  BY DEF Init, WorkerInv
<1> QED BY <1>2, <1>3

\* Every reachable state is well typed: no queue operation, worker step or
\* tick of the clock leaves a malformed queue, timer or worker behind, for any
\* number of workers, mirrors and files and whatever callers do.
THEOREM TypeCorrect == Spec => [](TypeOK /\ WorkerInv)
<1>1. Init => TypeOK /\ WorkerInv
  BY InitTypes
<1>2. (TypeOK /\ WorkerInv) /\ [Next]_vars => (TypeOK /\ WorkerInv)'
  BY TypeStep, WorkerInvStep
<1> QED BY <1>1, <1>2, PTL DEF Spec
-----------------------------------------------------------------------------
(* The membership map. *)

\* A queued sync of k survives the removal of any entry but a sync of k.
LEMMA SyncStays ==
  ASSUME NEW q \in Seq(Task), NEW i \in 1..Len(q), NEW k,
         SyncQueued(q, k), ~(IsSync(q[i]) /\ HasKey(q[i], k))
  PROVE  SyncQueued(RemoveAt(q, i), k)
<1>1. PICK j \in 1..Len(q) : IsSync(q[j]) /\ HasKey(q[j], k)
  BY DEF SyncQueued
<1> DEFINE r == RemoveAt(q, i)
<1>2. /\ Len(q) \in Nat /\ r \in Seq(Task) /\ Len(r) = Len(q) - 1
      /\ \A n \in 1..(Len(q) - 1) : r[n] = IF n < i THEN q[n] ELSE q[n + 1]
  BY RemoveAtFacts
<1> HIDE DEF r
<1>3. CASE j < i
  <2>1. j \in 1..(Len(q) - 1)
    BY <1>2, <1>3
  <2>2. r[j] = q[j] /\ j \in 1..Len(r)
    BY <1>2, <1>3, <2>1
  <2> QED BY <1>1, <1>2, <2>2 DEF SyncQueued, r
<1>4. CASE j > i
  <2>1. j - 1 \in 1..(Len(q) - 1) /\ ~(j - 1 < i) /\ (j - 1) + 1 = j
    BY <1>2, <1>4
  <2>2. r[j - 1] = q[j] /\ j - 1 \in 1..Len(r)
    BY <1>2, <2>1
  <2> QED BY <1>1, <1>2, <2>2 DEF SyncQueued, r
<1> QED BY <1>1, <1>3, <1>4

\* The same for a new entry at either end.
LEMMA SyncStaysAtEnds ==
  ASSUME NEW q \in Seq(Task), NEW t \in Task, NEW k
  PROVE  /\ SyncQueued(q, k) => SyncQueued(Append(q, t), k)
         /\ SyncQueued(q, k) => SyncQueued(<<t>> \o q, k)
         /\ IsSync(t) /\ HasKey(t, k) => SyncQueued(Append(q, t), k)
<1>1. /\ Append(q, t) \in Seq(Task) /\ Len(Append(q, t)) = Len(q) + 1
      /\ \A j \in 1..Len(q) : Append(q, t)[j] = q[j]
      /\ Append(q, t)[Len(q) + 1] = t
  OBVIOUS
<1>2. /\ <<t>> \o q \in Seq(Task) /\ Len(<<t>> \o q) = Len(q) + 1
      /\ \A j \in 1..Len(q) : (<<t>> \o q)[j + 1] = q[j]
  OBVIOUS
<1>3. SyncQueued(q, k) => SyncQueued(Append(q, t), k)
  BY <1>1 DEF SyncQueued
<1>4. ASSUME SyncQueued(q, k) PROVE SyncQueued(<<t>> \o q, k)
  <2>1. PICK j \in 1..Len(q) : IsSync(q[j]) /\ HasKey(q[j], k)
    BY <1>4 DEF SyncQueued
  <2> DEFINE r == <<t>> \o q
  <2>2. r \in Seq(Task) /\ j + 1 \in 1..Len(r) /\ r[j + 1] = q[j]
    BY <1>2
  <2> HIDE DEF r
  <2>3. SyncQueued(r, k)
    BY <2>1, <2>2 DEF SyncQueued
  <2> QED BY <2>3 DEF r
<1>5. IsSync(t) /\ HasKey(t, k) => SyncQueued(Append(q, t), k)
  BY <1>1 DEF SyncQueued
<1> QED BY <1>3, <1>4, <1>5

\* A displaced entry has the key of the task that displaces it.
LEMMA DisplacedKey ==
  ASSUME TypeOK, NEW t \in Task, NEW i \in 0..Len(items), Displaced(t, i), i # 0
  PROVE  i \in 1..Len(items) /\ ~IsFull(t) /\ HasKey(items[i], Key(t))
BY DEF Displaced, Entries, TypeOK

\* So a sync of another file survives the deduplication.
LEMMA RestKeeps ==
  ASSUME TypeOK, NEW t \in Task, NEW i \in 0..Len(items), Displaced(t, i),
         NEW k, SyncQueued(items, k), k # Key(t) \/ i = 0
  PROVE  SyncQueued(Rest(i), k)
<1>1. CASE i = 0
  BY <1>1 DEF Rest
<1>2. CASE i # 0
  BY <1>2, DisplacedKey, SyncStays DEF Rest, TypeOK, HasKey
<1> QED BY <1>1, <1>2

LEMMA PendingStep ==
  ASSUME TypeOK, WorkerInv, PendingIsQueued, [Next]_vars
  PROVE  PendingIsQueued'
<1>1. ASSUME NEW t \in SyncTasks, Enqueue(t)
      PROVE  PendingIsQueued'
  <2>1. t \in Task /\ IsSync(t)
    BY FairQueueAssumption DEF IsSync
  <2>2. CASE EnqueueClosed(t)
    BY <2>2 DEF EnqueueClosed, queueVars, PendingIsQueued, SyncQueued
  <2>3. CASE EnqueueRefused(t)
    <3>1. PICK i \in 0..Len(items) :
            /\ Displaced(t, i) /\ items' = Rest(i)
            /\ pending' = IF i = 0 THEN pending ELSE pending \ {Key(t)}
      BY <2>3 DEF EnqueueRefused
    <3>2. ASSUME NEW k \in pending' PROVE SyncQueued(items', k)
      BY <2>1, <3>1, <3>2, RestKeeps DEF PendingIsQueued
    <3> QED BY <3>2 DEF PendingIsQueued
  <2>4. CASE EnqueueAccepted(t)
    <3>1. PICK i \in 0..Len(items) : Displaced(t, i) /\ items' = Append(Rest(i), t)
      BY <2>4 DEF EnqueueAccepted, Queued
    <3>2. Rest(i) \in Seq(Task)
      BY RestType
    <3>3. ASSUME NEW k \in pending' PROVE SyncQueued(items', k)
      <4>1. CASE ~IsFull(t) /\ k = Key(t)
        BY <2>1, <3>1, <3>2, <4>1, SyncStaysAtEnds DEF HasKey
      <4>2. CASE ~(~IsFull(t) /\ k = Key(t))
        <5>1. k \in pending /\ (k # Key(t) \/ i = 0)
          BY <2>1, <2>4, <3>1, <4>2, DisplacedKey DEF EnqueueAccepted
        <5>2. SyncQueued(Rest(i), k)
          BY <2>1, <3>1, <5>1, RestKeeps DEF PendingIsQueued
        <5> QED BY <2>1, <3>1, <3>2, <5>2, SyncStaysAtEnds
      <4> QED BY <4>1, <4>2
    <3> QED BY <3>3 DEF PendingIsQueued
  <2> QED BY <1>1, <2>2, <2>3, <2>4 DEF Enqueue
<1>2. ASSUME NEW t \in DeleteTasks, EnqueuePriority(t)
      PROVE  PendingIsQueued'
  <2>1. t \in Task /\ items' = <<t>> \o items /\ pending' = pending
    BY <1>2, FairQueueAssumption DEF EnqueuePriority
  <2> QED BY <2>1, SyncStaysAtEnds DEF PendingIsQueued, TypeOK
<1>3. ASSUME NEW w \in Workers, Take(w)
      PROVE  PendingIsQueued'
  <2>1. PICK i \in DOMAIN items :
          items' = RemoveAt(items, i) /\ pending' = pending \ {Key(items[i])}
    BY <1>3 DEF Take, Unmarked
  <2>2. ASSUME NEW k \in pending' PROVE SyncQueued(items', k)
    BY <2>1, <2>2, SyncStays DEF PendingIsQueued, TypeOK, HasKey
  <2> QED BY <2>2 DEF PendingIsQueued
<1>4. ASSUME items' = items, pending' = pending
      PROVE  PendingIsQueued'
  BY <1>4 DEF PendingIsQueued
<1>5. ASSUME NEW w \in Workers,
             \/ Sleep(w) \/ Park(w) \/ ReturnFalse(w) \/ Wake(w)
             \/ EnterWait(w) \/ CancelBroadcast(w) \/ Work(w)
      PROVE  PendingIsQueued'
  BY <1>4, <1>5 DEF Sleep, Park, ReturnFalse, Wake, EnterWait, CancelBroadcast,
       Work, FinishQuietly, SetAdaptiveCooldown, RecordSuccess, RecordFailure,
       queueVars
<1>6. CASE Close \/ Cancel \/ Tick \/ UNCHANGED vars
  BY <1>4, <1>6 DEF Close, Cancel, Tick, vars, queueVars
<1> QED BY <1>1, <1>2, <1>3, <1>5, <1>6 DEF Next, Run, Call, Dequeue

\* The membership map never claims a file that has no sync in the queue, so
\* Enqueue's deduplication always finds an entry to replace, also with deletes
\* around, at the hard cap and after Close.
THEOREM PendingCorrect == Spec => []PendingIsQueued
<1>1. Init => PendingIsQueued
  BY DEF Init, PendingIsQueued
<1>2. TypeOK /\ WorkerInv /\ PendingIsQueued /\ [Next]_vars => PendingIsQueued'
  BY PendingStep
<1> QED BY <1>1, <1>2, TypeCorrect, PTL DEF Spec
-----------------------------------------------------------------------------
(* The condition variable. *)

\* Between the test and the wait list the queue stays empty, because every
\* change of the queue needs the mutex the worker still holds.
LEMMA ParkingStep ==
  ASSUME TypeOK, ParkingInv, [Next]_vars
  PROVE  ParkingInv'
<1>1. ASSUME MutexFree, Signal \/ Broadcast \/ UNCHANGED pc
      PROVE  ParkingInv'
  BY <1>1, WakeTypes DEF MutexFree, ParkingInv, TypeOK
<1>2. ASSUME UNCHANGED items, Broadcast \/ UNCHANGED pc
      PROVE  ParkingInv'
  BY <1>2, WakeTypes DEF ParkingInv, TypeOK
<1>3. CASE Call
  BY <1>3, <1>1, <1>2
     DEF Call, Enqueue, EnqueueClosed, EnqueueRefused, EnqueueAccepted,
         EnqueuePriority, workerVars, queueVars
<1>4. CASE Close \/ Cancel \/ Tick \/ UNCHANGED vars
  BY <1>4, <1>2 DEF Close, Cancel, Tick, vars, queueVars, workerVars
<1>5. ASSUME NEW w \in Workers, Dequeue(w)
      PROVE  ParkingInv'
  <2>1. CASE Take(w)
    BY <2>1 DEF Take, MutexFree, ParkingInv, TypeOK
  <2>2. CASE Sleep(w) \/ Park(w) \/ ReturnFalse(w)
    BY <2>2 DEF Sleep, Park, ReturnFalse, queueVars, ParkingInv, TypeOK
  <2> QED BY <1>5, <2>1, <2>2 DEF Dequeue
<1>6. ASSUME NEW w \in Workers, Wake(w) \/ EnterWait(w) \/ Work(w)
      PROVE  ParkingInv'
  BY <1>6 DEF Wake, EnterWait, Work, FinishQuietly, SetAdaptiveCooldown,
       RecordSuccess, RecordFailure, EndTask, queueVars, ParkingInv, TypeOK
<1>7. ASSUME NEW w \in Workers, CancelBroadcast(w)
      PROVE  ParkingInv'
  BY <1>7, <1>2 DEF CancelBroadcast, queueVars
<1> QED BY <1>3, <1>4, <1>5, <1>6, <1>7 DEF Next, Run

\* The number of workers awake, when one worker gets up, when one leaves, and
\* when no worker that was awake leaves.
LEMMA AwakeCount ==
  ASSUME TypeOK
  PROVE  /\ IsFiniteSet(Awake) /\ Cardinality(Awake) \in Nat
         /\ \A w \in Workers \ Awake :
              Cardinality(Awake \cup {w}) = Cardinality(Awake) + 1
         /\ \A w \in Awake : Cardinality(Awake \ {w}) = Cardinality(Awake) - 1
<1>1. IsFiniteSet(Awake)
  <2>1. Awake \subseteq Workers /\ IsFiniteSet(Workers)
    BY FairQueueAssumption DEF Awake
  <2> QED BY <2>1, FS_Subset
<1> QED BY <1>1, FS_AddElement, FS_RemoveElement, FS_CardinalityType

\* Deduplication never lengthens the queue.
LEMMA RestLength ==
  ASSUME TypeOK, NEW i \in 0..Len(items)
  PROVE  Rest(i) \in Seq(Task) /\ Len(Rest(i)) \in Nat /\ Len(Rest(i)) <= Len(items)
<1>1. CASE i = 0
  BY <1>1 DEF Rest, TypeOK
<1>2. CASE i # 0
  BY <1>2, RemoveAtFacts DEF Rest, TypeOK
<1> QED BY <1>1, <1>2

\* One Signal per queued task: a call that adds at most one task and wakes a
\* waiter, if there is one, keeps a worker awake for every task.
LEMMA SignalEnough ==
  ASSUME TypeOK, NoLostWakeup, Signal, UNCHANGED cancelled,
         Len(items') \in Nat, Len(items') <= Len(items) + 1
  PROVE  NoLostWakeup'
<1> SUFFICES ASSUME ~cancelled', Parked' # {}
             PROVE  Len(items') <= Cardinality(Awake')
  BY DEF NoLostWakeup
<1>1. PICK w \in Workers : pc[w] = "parked" /\ pc' = [pc EXCEPT ![w] = "scan"]
  BY DEF Signal, Parked
<1>2. Awake' = Awake \cup {w} /\ w \notin Awake
  BY <1>1 DEF Awake, TypeOK
<1>3. Len(items) <= Cardinality(Awake) /\ Len(items) \in Nat
  BY <1>1 DEF NoLostWakeup, Parked, TypeOK
<1> QED BY <1>2, <1>3, AwakeCount

\* A step that neither parks a worker, nor lengthens the queue, nor puts a
\* worker that was awake to work, keeps it too.
LEMMA StillAwake ==
  ASSUME TypeOK, TypeOK', NoLostWakeup,
         cancelled => cancelled', Len(items') <= Len(items),
         Parked' \subseteq Parked, Awake \subseteq Awake'
  PROVE  NoLostWakeup'
<1> SUFFICES ASSUME ~cancelled', Parked' # {}
             PROVE  Len(items') <= Cardinality(Awake')
  BY DEF NoLostWakeup
<1>1. Len(items) <= Cardinality(Awake)
  BY DEF NoLostWakeup, TypeOK
<1>2. IsFiniteSet(Awake')
  <2>1. Awake' \subseteq Workers /\ IsFiniteSet(Workers)
    BY FairQueueAssumption DEF Awake
  <2> QED BY <2>1, FS_Subset
<1>3. Cardinality(Awake) <= Cardinality(Awake') /\ Cardinality(Awake') \in Nat
  BY <1>2, FS_Subset, FS_CardinalityType
<1> QED BY <1>1, <1>3, AwakeCount DEF TypeOK

\* With an empty queue there is nothing to wake up for.
LEMMA NothingQueued ==
  ASSUME TypeOK', items' = <<>>
  PROVE  NoLostWakeup'
<1>1. IsFiniteSet(Awake')
  <2>1. Awake' \subseteq Workers /\ IsFiniteSet(Workers)
    BY FairQueueAssumption DEF Awake
  <2> QED BY <2>1, FS_Subset
<1>2. Cardinality(Awake') \in Nat /\ Len(items') = 0
  BY <1>1, FS_CardinalityType
<1> QED BY <1>2 DEF NoLostWakeup

LEMMA WakeupCall ==
  ASSUME TypeOK, TypeOK', NoLostWakeup, Call
  PROVE  NoLostWakeup'
<1>1. ASSUME NEW t \in SyncTasks, Enqueue(t)
      PROVE  NoLostWakeup'
  <2>1. CASE EnqueueClosed(t)
    BY <2>1, StillAwake DEF EnqueueClosed, queueVars, workerVars, Parked, Awake, TypeOK
  <2>2. CASE EnqueueRefused(t)
    <3>1. Len(items') <= Len(items)
      BY <2>2, RestLength DEF EnqueueRefused
    <3> QED BY <2>2, <3>1, StillAwake DEF EnqueueRefused, workerVars, Parked, Awake
  <2>3. CASE EnqueueAccepted(t)
    <3>1. PICK i \in 0..Len(items) : items' = Append(Rest(i), t)
      BY <2>3 DEF EnqueueAccepted, Queued
    <3>2. Len(items') \in Nat /\ Len(items') <= Len(items) + 1
      BY <3>1, RestLength DEF TypeOK
    <3> QED BY <2>3, <3>2, SignalEnough DEF EnqueueAccepted
  <2> QED BY <1>1, <2>1, <2>2, <2>3 DEF Enqueue
<1>2. ASSUME NEW t \in DeleteTasks, EnqueuePriority(t)
      PROVE  NoLostWakeup'
  <2>1. Len(items') \in Nat /\ Len(items') <= Len(items) + 1
    BY <1>2 DEF EnqueuePriority, TypeOK
  <2> QED BY <1>2, <2>1, SignalEnough DEF EnqueuePriority
<1> QED BY <1>1, <1>2 DEF Call

LEMMA WakeupDequeue ==
  ASSUME TypeOK, TypeOK', ParkingInv, NoLostWakeup, NEW w \in Workers,
         Dequeue(w) \/ Wake(w) \/ EnterWait(w) \/ CancelBroadcast(w)
  PROVE  NoLostWakeup'
<1>1. CASE Take(w)
  <2>1. PICK i \in 1..Len(items) : items' = RemoveAt(items, i)
    BY <1>1 DEF Take, TypeOK
  <2>2. Len(items') = Len(items) - 1 /\ Len(items) \in Nat
    BY <2>1, RemoveAtFacts DEF TypeOK
  <2>3. Parked' = Parked /\ Awake' = Awake \ {w} /\ w \in Awake
    BY <1>1 DEF Take, Parked, Awake, TypeOK
  <2>4. cancelled' = cancelled
    BY <1>1 DEF Take
  <2> QED BY <2>2, <2>3, <2>4, AwakeCount DEF NoLostWakeup
<1>2. CASE Sleep(w) \/ Wake(w)
  <2>1. Parked' = Parked /\ Awake' = Awake /\ items' = items /\ cancelled' = cancelled
    BY <1>2 DEF Sleep, Wake, queueVars, Parked, Awake, TypeOK
  <2> QED BY <2>1 DEF NoLostWakeup
<1>3. CASE Park(w) \/ EnterWait(w)
  BY <1>3, NothingQueued DEF Park, EnterWait, ParkingInv, queueVars
<1>4. CASE ReturnFalse(w)
  <2>1. CASE cancelled
    BY <1>4, <2>1 DEF ReturnFalse, NoLostWakeup
  <2>2. CASE ~cancelled
    BY <1>4, <2>2, NothingQueued DEF ReturnFalse, queueVars
  <2> QED BY <2>1, <2>2
<1>5. CASE CancelBroadcast(w)
  BY <1>5 DEF CancelBroadcast, NoLostWakeup
<1> QED BY <1>1, <1>2, <1>3, <1>4, <1>5 DEF Dequeue

LEMMA WakeupStep ==
  ASSUME TypeOK, WorkerInv, ParkingInv, NoLostWakeup, [Next]_vars
  PROVE  NoLostWakeup'
<1>0. TypeOK'
  BY TypeStep
<1>1. CASE Call
  BY <1>0, <1>1, WakeupCall
<1>2. CASE Close
  BY <1>2 DEF Close, Broadcast, Parked, NoLostWakeup
<1>3. CASE Cancel
  BY <1>3 DEF Cancel, NoLostWakeup
<1>4. CASE Tick \/ UNCHANGED vars
  <2>1. Parked' = Parked /\ Awake' = Awake /\ items' = items /\ cancelled' = cancelled
    BY <1>4 DEF Tick, vars, queueVars, workerVars, Parked, Awake
  <2> QED BY <2>1 DEF NoLostWakeup
<1>5. ASSUME NEW w \in Workers,
             Dequeue(w) \/ Wake(w) \/ EnterWait(w) \/ CancelBroadcast(w)
      PROVE  NoLostWakeup'
  BY <1>0, <1>5, WakeupDequeue
<1>6. ASSUME NEW w \in Workers, Work(w)
      PROVE  NoLostWakeup'
  <2>1. items' = items /\ cancelled' = cancelled
    BY <1>6 DEF Work, FinishQuietly, SetAdaptiveCooldown, RecordSuccess,
         RecordFailure, queueVars
  <2>2. Parked' \subseteq Parked /\ Awake \subseteq Awake'
    BY <1>6 DEF Work, FinishQuietly, SetAdaptiveCooldown, RecordSuccess,
         RecordFailure, EndTask, Parked, Awake, TypeOK
  <2> QED BY <1>0, <2>1, <2>2, StillAwake DEF TypeOK
<1> QED BY <1>1, <1>2, <1>3, <1>4, <1>5, <1>6 DEF Next, Run

\* No lost wake-up: while a worker sits on the condition variable and the
\* context is live, every queued task has a worker of its own that is awake.
\* The protocol of Enqueue, EnqueuePriority, Close and Dequeue with one Signal
\* per task is enough, for any number of workers and any queue length.
THEOREM WakeupCorrect == Spec => []NoLostWakeup
<1>1. Init => ParkingInv /\ NoLostWakeup
  BY DEF Init, ParkingInv, NoLostWakeup, Parked
<1>2. TypeOK /\ WorkerInv /\ (ParkingInv /\ NoLostWakeup) /\ [Next]_vars
        => (ParkingInv /\ NoLostWakeup)'
  BY ParkingStep, WakeupStep
<1> QED BY <1>1, <1>2, TypeCorrect, PTL DEF Spec
-----------------------------------------------------------------------------
(* The circuit breaker. *)

LEMMA BackoffStep ==
  ASSUME TypeOK, WorkerInv, BackoffOnlyWhenTripped, [Next]_vars
  PROVE  BackoffOnlyWhenTripped'
<1>1. ASSUME UNCHANGED <<failures, backoff>>
      PROVE  BackoffOnlyWhenTripped'
  BY <1>1 DEF BackoffOnlyWhenTripped
<1>2. CASE Tick
  BY <1>2 DEF Tick, LessOne, BackoffOnlyWhenTripped, TypeOK
<1>3. CASE Call \/ Close \/ Cancel \/ UNCHANGED vars
  BY <1>3, <1>1
     DEF Call, Enqueue, EnqueueClosed, EnqueueRefused, EnqueueAccepted,
         EnqueuePriority, Close, Cancel, vars, queueVars
<1>4. ASSUME NEW w \in Workers,
             Dequeue(w) \/ Wake(w) \/ EnterWait(w) \/ CancelBroadcast(w)
      PROVE  BackoffOnlyWhenTripped'
  BY <1>4, <1>1 DEF Dequeue, Take, Sleep, Park, ReturnFalse, Wake, EnterWait,
       CancelBroadcast, queueVars
<1>5. ASSUME NEW w \in Workers, Work(w)
      PROVE  BackoffOnlyWhenTripped'
  <2>1. CASE FinishQuietly(w) \/ SetAdaptiveCooldown(w)
    BY <2>1, <1>1 DEF FinishQuietly, SetAdaptiveCooldown, queueVars
  <2>2. CASE RecordSuccess(w)
    BY <2>2 DEF RecordSuccess, ClearedBackoff, BackoffOnlyWhenTripped, TypeOK
  <2>3. CASE RecordFailure(w)
    <3> DEFINE m == hand[w].mirror
               n == IF failures[m] < MaxFailures THEN failures[m] + 1 ELSE MaxFailures
    <3>1. m \in Mirrors
      BY <2>3, HandType DEF RecordFailure
    <3>2. n \in Nat /\ n >= failures[m] /\ failures[m] \in Nat /\ Threshold \in Nat
      BY <3>1, FairQueueAssumption DEF TypeOK
    <3>3. /\ failures' = [failures EXCEPT ![m] = n]
          /\ n < Threshold => backoff' = backoff
          /\ \A x \in Mirrors : x # m => backoff'[x] = backoff[x]
      <4>1. backoff' = [backoff EXCEPT ![m] = IF n >= Threshold
                                              THEN BackoffAfter(n) ELSE @]
        BY <2>3 DEF RecordFailure
      <4>2. failures' = [failures EXCEPT ![m] = n]
        BY <2>3 DEF RecordFailure
      <4> HIDE DEF n
      <4> QED BY <3>1, <3>2, <4>1, <4>2 DEF TypeOK
    <3> HIDE DEF n, m
    <3> QED BY <3>1, <3>2, <3>3 DEF BackoffOnlyWhenTripped, TypeOK
  <2> QED BY <1>5, <2>1, <2>2, <2>3 DEF Work
<1> QED BY <1>2, <1>3, <1>4, <1>5 DEF Next, Run

\* A mirror is held back only while its consecutive failures are at or above
\* the threshold, however the failures and successes of several workers
\* interleave.
THEOREM BackoffCorrect == Spec => []BackoffOnlyWhenTripped
<1>1. Init => BackoffOnlyWhenTripped
  BY DEF Init, BackoffOnlyWhenTripped
<1>2. TypeOK /\ WorkerInv /\ BackoffOnlyWhenTripped /\ [Next]_vars
        => BackoffOnlyWhenTripped'
  BY BackoffStep
<1> QED BY <1>1, <1>2, TypeCorrect, PTL DEF Spec
-----------------------------------------------------------------------------
(* Deduplication, as long as no delete is queued. *)

\* Every entry is a sync, a file's entry is marked pending, and no two entries
\* have one key.
SyncsOnly(q) == \A i \in 1..Len(q) : IsSync(q[i])
Marked(q, p) == \A i \in 1..Len(q) : ~IsFull(q[i]) => Key(q[i]) \in p
Distinct(q) == \A i, j \in 1..Len(q) :
                 ~IsFull(q[i]) /\ HasKey(q[j], Key(q[i])) => i = j
DedupInv == SyncsOnly(items) /\ Marked(items, pending) /\ Distinct(items)

\* Taking the entry at i out keeps all three, also when its key is unmarked,
\* and leaves no entry with its key.
LEMMA DedupTakeOut ==
  ASSUME NEW q \in Seq(Task), NEW p, NEW i \in 1..Len(q),
         SyncsOnly(q), Marked(q, p), Distinct(q)
  PROVE  LET r == RemoveAt(q, i) IN
         /\ SyncsOnly(r) /\ Marked(r, p) /\ Distinct(r)
         /\ Marked(r, p \ {Key(q[i])})
         /\ ~IsFull(q[i]) => \A n \in 1..Len(r) : ~HasKey(r[n], Key(q[i]))
<1> DEFINE r == RemoveAt(q, i)
           From(n) == IF n < i THEN n ELSE n + 1
<1>1. /\ Len(q) \in Nat /\ r \in Seq(Task) /\ Len(r) = Len(q) - 1
      /\ \A n \in 1..(Len(q) - 1) : r[n] = IF n < i THEN q[n] ELSE q[n + 1]
  BY RemoveAtFacts
<1> HIDE DEF r
<1>2. \A n \in 1..Len(r) :
        From(n) \in 1..Len(q) /\ From(n) # i /\ r[n] = q[From(n)]
  BY <1>1
<1>3. \A n, m \in 1..Len(r) : From(n) = From(m) => n = m
  BY <1>1
<1> HIDE DEF From
<1>4. SyncsOnly(r) /\ Marked(r, p)
  BY <1>2 DEF SyncsOnly, Marked
<1>5. Distinct(r)
  BY <1>2, <1>3 DEF Distinct
<1>6. ASSUME NEW n \in 1..Len(r), ~IsFull(q[i])
      PROVE  ~HasKey(r[n], Key(q[i]))
  BY <1>2, <1>6 DEF Distinct
<1>7. ASSUME NEW n \in 1..Len(r), ~IsFull(r[n])
      PROVE  Key(r[n]) # Key(q[i])
  <2>1. From(n) \in 1..Len(q) /\ From(n) # i /\ r[n] = q[From(n)]
    BY <1>2
  <2>2. ~HasKey(q[i], Key(r[n]))
    BY <1>7, <2>1 DEF Distinct
  <2>3. r[n] \in Task /\ q[i] \in Task
    BY <2>1
  <2>4. IsFull(q[i]) => Key(r[n]) # Key(q[i])
    BY <1>7, <2>3 DEF IsFull, Key
  <2> QED BY <2>2, <2>4 DEF HasKey
<1>8. Marked(r, p \ {Key(q[i])})
  BY <1>4, <1>7 DEF Marked
<1> QED BY <1>4, <1>5, <1>6, <1>8 DEF r

\* Adding a file's sync whose key no entry has, or a full sync, keeps them.
LEMMA DedupAdd ==
  ASSUME NEW q \in Seq(Task), NEW p, NEW t \in Task,
         SyncsOnly(q), Marked(q, p), Distinct(q), IsSync(t),
         ~IsFull(t) => Key(t) \in p /\ \A n \in 1..Len(q) : ~HasKey(q[n], Key(t))
  PROVE  LET r == Append(q, t) IN SyncsOnly(r) /\ Marked(r, p) /\ Distinct(r)
<1> DEFINE r == Append(q, t)
<1>1. /\ Len(q) \in Nat /\ Len(r) = Len(q) + 1 /\ r[Len(q) + 1] = t
      /\ \A n \in 1..Len(q) : r[n] = q[n]
  OBVIOUS
<1> HIDE DEF r
<1>2. \A n \in 1..Len(r) : n \in 1..Len(q) \/ n = Len(q) + 1
  BY <1>1
<1>3. SyncsOnly(r) /\ Marked(r, p)
  BY <1>1, <1>2 DEF SyncsOnly, Marked
<1>4. Distinct(r)
  <2> SUFFICES ASSUME NEW i \in 1..Len(r), NEW j \in 1..Len(r),
                      ~IsFull(r[i]), HasKey(r[j], Key(r[i]))
               PROVE  i = j
    BY DEF Distinct
  <2>1. CASE i \in 1..Len(q) /\ j \in 1..Len(q)
    BY <1>1, <2>1 DEF Distinct
  <2>2. CASE i \in 1..Len(q) /\ j = Len(q) + 1
    BY <1>1, <2>2 DEF HasKey
  <2>3. CASE i = Len(q) + 1 /\ j \in 1..Len(q)
    BY <1>1, <2>3 DEF HasKey
  <2> QED BY <1>2, <2>1, <2>2, <2>3
<1> QED BY <1>3, <1>4 DEF r

LEMMA DedupStep ==
  ASSUME DeleteTasks = {}, TypeOK, WorkerInv, PendingIsQueued, DedupInv, [Next]_vars
  PROVE  DedupInv'
<1>1. ASSUME NEW t \in SyncTasks, Enqueue(t)
      PROVE  DedupInv'
  <2>1. t \in Task /\ IsSync(t)
    BY FairQueueAssumption DEF IsSync
  <2>2. CASE EnqueueClosed(t)
    BY <2>2 DEF EnqueueClosed, queueVars, DedupInv
  <2>3. ASSUME NEW i \in 0..Len(items), Displaced(t, i)
        PROVE  /\ Rest(i) \in Seq(Task)
               /\ SyncsOnly(Rest(i)) /\ Marked(Rest(i), pending) /\ Distinct(Rest(i))
               /\ i # 0 => Marked(Rest(i), pending \ {Key(t)})
               /\ ~IsFull(t) => \A n \in 1..Len(Rest(i)) : ~HasKey(Rest(i)[n], Key(t))
    <3>1. CASE i = 0
      <4>1. ASSUME NEW n \in 1..Len(items), ~IsFull(t), HasKey(items[n], Key(t))
            PROVE  FALSE
        <5>1. Key(t) \in pending /\ n \in Entries(items, Key(t))
          BY <4>1 DEF DedupInv, Marked, HasKey, Entries, TypeOK
        <5> QED BY <2>3, <3>1, <4>1, <5>1 DEF Displaced, Entries, TypeOK
      <4> QED BY <3>1, <4>1 DEF Rest, DedupInv, TypeOK
    <3>2. CASE i # 0
      <4>1. i \in 1..Len(items) /\ Key(items[i]) = Key(t) /\ ~IsFull(items[i])
        BY <2>1, <2>3, <3>2, DisplacedKey DEF HasKey
      <4> QED BY <3>2, <4>1, RestType, DedupTakeOut DEF Rest, DedupInv, TypeOK
    <3> QED BY <3>1, <3>2
  <2>4. CASE EnqueueRefused(t)
    <3>1. PICK i \in 0..Len(items) :
            /\ Displaced(t, i) /\ items' = Rest(i)
            /\ pending' = IF i = 0 THEN pending ELSE pending \ {Key(t)}
      BY <2>4 DEF EnqueueRefused
    <3> QED BY <2>3, <3>1 DEF DedupInv
  <2>5. CASE EnqueueAccepted(t)
    <3>1. PICK i \in 0..Len(items) : Displaced(t, i) /\ items' = Append(Rest(i), t)
      BY <2>5 DEF EnqueueAccepted, Queued
    <3>2. pending' = IF IsFull(t) THEN pending ELSE pending \cup {Key(t)}
      BY <2>5 DEF EnqueueAccepted
    <3>3. Marked(Rest(i), pending')
      BY <2>3, <3>1, <3>2 DEF Marked
    <3>4. ~IsFull(t) => Key(t) \in pending'
      BY <3>2
    <3> QED BY <2>1, <2>3, <3>1, <3>3, <3>4, DedupAdd DEF DedupInv
  <2> QED BY <1>1, <2>2, <2>4, <2>5 DEF Enqueue
<1>2. ASSUME NEW w \in Workers, Take(w)
      PROVE  DedupInv'
  <2>1. PICK i \in DOMAIN items :
          items' = RemoveAt(items, i) /\ pending' = pending \ {Key(items[i])}
    BY <1>2 DEF Take, Unmarked
  <2>2. i \in 1..Len(items)
    BY DEF TypeOK
  <2> QED BY <2>1, <2>2, DedupTakeOut DEF DedupInv, TypeOK
<1>3. ASSUME UNCHANGED <<items, pending>>
      PROVE  DedupInv'
  BY <1>3 DEF DedupInv
<1>4. ASSUME NEW w \in Workers,
             \/ Sleep(w) \/ Park(w) \/ ReturnFalse(w) \/ Wake(w)
             \/ EnterWait(w) \/ CancelBroadcast(w) \/ Work(w)
      PROVE  DedupInv'
  BY <1>3, <1>4 DEF Sleep, Park, ReturnFalse, Wake, EnterWait, CancelBroadcast,
       Work, FinishQuietly, SetAdaptiveCooldown, RecordSuccess, RecordFailure,
       queueVars
<1>5. CASE Close \/ Cancel \/ Tick \/ UNCHANGED vars
  BY <1>3, <1>5 DEF Close, Cancel, Tick, vars, queueVars
<1> QED BY <1>1, <1>2, <1>4, <1>5 DEF Next, Run, Call, Dequeue

\* As long as no delete is queued, a file has at most one sync in the queue:
\* Enqueue's deduplication, which looks at the membership map first, misses no
\* entry, for any number of files, workers and full syncs.
THEOREM DedupCorrect ==
  ASSUME DeleteTasks = {}
  PROVE  Spec => []OneSyncPerFile
<1>1. Init => DedupInv
  BY DEF Init, DedupInv, SyncsOnly, Marked, Distinct
<1>2. TypeOK /\ WorkerInv /\ PendingIsQueued /\ DedupInv /\ [Next]_vars => DedupInv'
  BY DedupStep
<1>3. TypeOK /\ DedupInv => OneSyncPerFile
  <2> SUFFICES ASSUME TypeOK, DedupInv, NEW k \in Keys
               PROVE  Cardinality({i \in Entries(items, k) : IsSync(items[i])}) <= 1
    BY DEF OneSyncPerFile
  <2> DEFINE E == {i \in Entries(items, k) : IsSync(items[i])}
  <2>1. ASSUME NEW i \in E, NEW j \in E PROVE i = j
    <3>1. i \in 1..Len(items) /\ j \in 1..Len(items)
      BY DEF Entries, TypeOK
    <3>2. ~IsFull(items[i]) /\ HasKey(items[j], Key(items[i]))
      BY DEF Entries, HasKey
    <3> QED BY <3>1, <3>2 DEF DedupInv, Distinct
  <2> HIDE DEF E
  <2>2. CASE E = {}
    <3>1. Cardinality(E) = 0
      BY <2>2, FS_EmptySet
    <3> QED BY <3>1 DEF E
  <2>3. CASE E # {}
    <3>1. PICK i : E = {i}
      BY <2>1, <2>3
    <3>2. Cardinality(E) = 1
      BY <3>1, FS_Singleton
    <3> QED BY <3>2 DEF E
  <2> QED BY <2>2, <2>3
<1> QED BY <1>1, <1>2, <1>3, TypeCorrect, PendingCorrect, PTL DEF Spec
-----------------------------------------------------------------------------
(* Shutdown. *)

\* A worker has ended only if the context is cancelled or the queue is closed
\* and drained, and then nothing is added to it any more.
ReturnedInv ==
  \A w \in Workers : pc[w] = "returned" => cancelled \/ (closed /\ items = <<>>)

LEMMA ReturnedStep ==
  ASSUME TypeOK, ReturnedInv, [Next]_vars
  PROVE  ReturnedInv'
<1>1. ASSUME cancelled => cancelled',
             closed /\ items = <<>> => closed' /\ items' = <<>>,
             \A w \in Workers : pc'[w] = "returned" => pc[w] = "returned"
      PROVE  ReturnedInv'
  BY <1>1 DEF ReturnedInv
<1>2. CASE Call \/ Close
  <2>1. Signal \/ Broadcast \/ UNCHANGED pc
    BY <1>2 DEF Call, Enqueue, EnqueueClosed, EnqueueRefused, EnqueueAccepted,
         EnqueuePriority, Close, workerVars
  <2>2. \A w \in Workers : pc'[w] = "returned" => pc[w] = "returned"
    BY <2>1, WakeTypes DEF TypeOK
  <2>3. closed => closed' /\ items' = items
    BY <1>2 DEF Call, Enqueue, EnqueueClosed, EnqueueRefused, EnqueueAccepted,
         EnqueuePriority, Close, queueVars
  <2>4. cancelled' = cancelled
    BY <1>2 DEF Call, Enqueue, EnqueueClosed, EnqueueRefused, EnqueueAccepted,
         EnqueuePriority, Close
  <2> QED BY <1>1, <2>2, <2>3, <2>4
<1>3. CASE Cancel \/ Tick \/ UNCHANGED vars
  BY <1>1, <1>3 DEF Cancel, Tick, vars, queueVars, workerVars
<1>4. ASSUME NEW w \in Workers, Take(w)
      PROVE  ReturnedInv'
  <2>1. items # <<>> /\ cancelled' = cancelled /\ pc' = [pc EXCEPT ![w] = "working"]
    BY <1>4 DEF Take
  <2> QED BY <1>1, <2>1 DEF TypeOK
<1>5. ASSUME NEW w \in Workers,
             \/ Sleep(w) \/ Park(w) \/ Wake(w) \/ EnterWait(w) \/ CancelBroadcast(w)
             \/ Work(w)
      PROVE  ReturnedInv'
  <2>1. UNCHANGED <<items, closed, cancelled>>
    BY <1>5 DEF Sleep, Park, Wake, EnterWait, CancelBroadcast, Work, FinishQuietly,
         SetAdaptiveCooldown, RecordSuccess, RecordFailure, queueVars
  <2>2. \A v \in Workers : pc'[v] = "returned" => pc[v] = "returned"
    BY <1>5, WakeTypes DEF Sleep, Park, Wake, EnterWait, CancelBroadcast, Work,
         FinishQuietly, SetAdaptiveCooldown, RecordSuccess, RecordFailure, EndTask, TypeOK
  <2> QED BY <1>1, <2>1, <2>2
<1>6. ASSUME NEW w \in Workers, ReturnFalse(w)
      PROVE  ReturnedInv'
  <2>1. /\ pc' = [pc EXCEPT ![w] = "returned"]
        /\ UNCHANGED <<items, closed, cancelled>>
        /\ cancelled \/ (closed /\ items = <<>>)
    BY <1>6 DEF ReturnFalse, queueVars
  <2> QED BY <2>1 DEF ReturnedInv
<1> QED BY <1>2, <1>3, <1>4, <1>5, <1>6 DEF Next, Run, Dequeue

\* Close without a cancelled context loses nothing: when the workers have
\* ended, every task that was queued has been handed out, whatever cooldowns,
\* backoffs and waits they went through.
THEOREM CloseLosesNothing == Spec => []CloseDrains
<1>1. Init => ReturnedInv
  BY DEF Init, ReturnedInv
<1>2. TypeOK /\ ReturnedInv /\ [Next]_vars => ReturnedInv'
  BY ReturnedStep
<1>3. ReturnedInv => CloseDrains
  BY FairQueueAssumption DEF ReturnedInv, CloseDrains
<1> QED BY <1>1, <1>2, <1>3, TypeCorrect, PTL DEF Spec
-----------------------------------------------------------------------------
(* Queued syncs, below the hard cap. *)

LEMMA SyncStep ==
  ASSUME MaxLen <= HardCap, TypeOK, WorkerInv, [Next]_vars,
         NEW k \in Keys, SyncQueued(items, k), ~SyncQueued(items', k)
  PROVE  \E w \in Workers : Takes(w, k)
<1>1. items' # items
  OBVIOUS
<1>2. ASSUME NEW t \in SyncTasks, Enqueue(t), Len(items) < MaxLen
      PROVE  FALSE
  <2>1. t \in Task /\ IsSync(t)
    BY FairQueueAssumption DEF IsSync
  <2>2. ~EnqueueClosed(t)
    BY <1>1 DEF EnqueueClosed, queueVars
  <2>3. ~EnqueueRefused(t)
    <3> SUFFICES ASSUME NEW i \in 0..Len(items), Len(Rest(i)) >= HardCap
                 PROVE  FALSE
      BY DEF EnqueueRefused
    <3> QED BY <1>2, RestLength, FairQueueAssumption DEF TypeOK
  <2>4. PICK i \in 0..Len(items) : Displaced(t, i) /\ items' = Append(Rest(i), t)
    BY <1>2, <2>2, <2>3 DEF Enqueue, EnqueueAccepted, Queued
  <2>5. CASE k # Key(t) \/ i = 0
    BY <2>1, <2>4, <2>5, RestKeeps, RestType, SyncStaysAtEnds
  <2>6. CASE k = Key(t) /\ i # 0
    <3>1. HasKey(t, k)
      BY <2>1, <2>4, <2>6, DisplacedKey DEF HasKey
    <3>2. Rest(i) \in Seq(Task) /\ Len(Rest(i)) \in Nat
      BY RestLength
    <3>3. items'[Len(Rest(i)) + 1] = t /\ Len(Rest(i)) + 1 \in DOMAIN items'
      BY <2>1, <2>4, <3>2
    <3> QED BY <2>1, <3>1, <3>3 DEF SyncQueued
  <2> QED BY <2>5, <2>6
<1>3. ASSUME NEW t \in DeleteTasks, EnqueuePriority(t)
      PROVE  FALSE
  BY <1>3, SyncStaysAtEnds, FairQueueAssumption DEF EnqueuePriority, TypeOK
<1>4. PICK w \in Workers : Take(w)
  BY <1>1, <1>2, <1>3
     DEF Next, Call, Run, Close, Cancel, Tick, Dequeue, Sleep, Park, ReturnFalse, Wake,
         EnterWait, CancelBroadcast, Work, FinishQuietly, SetAdaptiveCooldown,
         RecordSuccess, RecordFailure, vars, queueVars
<1>5. PICK i \in DOMAIN items :
        hand' = [hand EXCEPT ![w] = items[i]] /\ items' = RemoveAt(items, i)
  BY <1>4 DEF Take
<1>6. i \in 1..Len(items) /\ items[i] \in Task /\ items[i] # NoTask
  BY FairQueueAssumption DEF TypeOK
<1>7. IsSync(items[i]) /\ HasKey(items[i], k)
  BY <1>5, <1>6, SyncStays DEF TypeOK
<1>8. hand[w] = NoTask /\ hand'[w] = items[i]
  BY <1>4, <1>5 DEF Take, WorkerInv, TypeOK
<1> QED BY <1>6, <1>7, <1>8 DEF Takes

\* Below the hard cap a queued sync leaves the queue into a worker's hands
\* only: deduplication, deletes that jump the queue, circuits and Close lose
\* no file that has changed.
THEOREM SyncsAreTaken ==
  ASSUME MaxLen <= HardCap
  PROVE  Spec => SyncNeverLost
<1>1. TypeOK /\ WorkerInv /\ [Next]_vars
        => [\A k \in Keys : SyncQueued(items, k) /\ ~SyncQueued(items', k)
              => \E w \in Workers : Takes(w, k)]_vars
  BY SyncStep
<1> QED BY <1>1, TypeCorrect, PTL DEF Spec, SyncNeverLost
=============================================================================
