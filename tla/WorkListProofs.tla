---------------------------- MODULE WorkListProofs ----------------------------
(* What the callers of the queue are promised, below its hard cap: every Done *)
(* callback is invoked, and, without deletes, the queue implements WorkList.  *)
(* Both count entries of the queue, so the module begins with what the three  *)
(* operations on the queue do to such a count.                                *)
EXTENDS FairQueueProofs

-----------------------------------------------------------------------------
(* Counting. *)

\* The positions of the entries of q that are in P.
At(q, P) == {n \in 1..Len(q) : q[n] \in P}

One(t, P) == IF t \in P THEN 1 ELSE 0

LEMMA AtIsFinite ==
  ASSUME NEW q \in Seq(Task), NEW P
  PROVE  IsFiniteSet(At(q, P)) /\ Cardinality(At(q, P)) \in Nat
<1>1. At(q, P) \subseteq 1..Len(q) /\ Len(q) \in Nat
  BY DEF At
<1>2. IsFiniteSet(1..Len(q))
  BY <1>1, FS_Interval
<1>3. IsFiniteSet(At(q, P))
  BY <1>1, <1>2, FS_Subset
<1> QED BY <1>3, FS_CardinalityType

LEMMA CountAppend ==
  ASSUME NEW q \in Seq(Task), NEW t \in Task, NEW P
  PROVE  Cardinality(At(Append(q, t), P)) = Cardinality(At(q, P)) + One(t, P)
<1> DEFINE r == Append(q, t)
<1>1. /\ Len(q) \in Nat /\ Len(r) = Len(q) + 1 /\ r[Len(q) + 1] = t
      /\ \A n \in 1..Len(q) : r[n] = q[n]
  OBVIOUS
<1> HIDE DEF r
<1>2. \A n : n \in 1..Len(r) <=> n \in 1..Len(q) \/ n = Len(q) + 1
  BY <1>1
<1>3. Len(q) + 1 \notin At(q, P)
  BY <1>1 DEF At
<1>4. CASE t \in P
  <2>1. At(r, P) = At(q, P) \cup {Len(q) + 1}
    BY <1>1, <1>2, <1>4 DEF At
  <2> QED BY <2>1, <1>3, <1>4, AtIsFinite, FS_AddElement DEF One, r
<1>5. CASE t \notin P
  <2>1. At(r, P) = At(q, P)
    BY <1>1, <1>2, <1>5 DEF At
  <2> QED BY <2>1, <1>5, AtIsFinite DEF One, r
<1> QED BY <1>4, <1>5

\* Two finite sets with an order-preserving pairing have as many elements.
LEMMA SameCard ==
  ASSUME NEW S, NEW T, IsFiniteSet(S), NEW f \in [S -> T],
         \A a, b \in S : f[a] = f[b] => a = b,
         \A y \in T : \E x \in S : f[x] = y
  PROVE  Cardinality(T) = Cardinality(S)
<1>1. f \in Injection(S, T)
  BY DEF Injection, IsInjective
<1>2. f \in Surjection(S, T)
  BY DEF Surjection
<1>3. ExistsBijection(S, T)
  BY <1>1, <1>2 DEF ExistsBijection, Bijection
<1> QED BY <1>3, FS_Bijection

LEMMA CountFront ==
  ASSUME NEW q \in Seq(Task), NEW t \in Task, NEW P
  PROVE  Cardinality(At(<<t>> \o q, P)) = Cardinality(At(q, P)) + One(t, P)
<1> DEFINE r == <<t>> \o q
           S == At(q, P)
           T == At(r, P) \ {1}
           f == [n \in S |-> n + 1]
<1>1. /\ Len(q) \in Nat /\ r \in Seq(Task) /\ Len(r) = Len(q) + 1 /\ r[1] = t
      /\ \A n \in 1..Len(q) : r[n + 1] = q[n]
  <2>1. <<t>> \in Seq(Task) /\ Len(<<t>>) = 1 /\ <<t>>[1] = t
    OBVIOUS
  <2> QED BY <2>1, ConcatProperties
<1> HIDE DEF r
<1>2. f \in [S -> T]
  BY <1>1 DEF At
<1>3. \A a, b \in S : f[a] = f[b] => a = b
  BY <1>1 DEF At
<1>4. ASSUME NEW y \in T PROVE \E x \in S : f[x] = y
  <2>1. y \in 2..Len(r) /\ r[y] \in P
    BY <1>1 DEF At
  <2>2. y - 1 \in 1..Len(q) /\ (y - 1) + 1 = y
    BY <1>1, <2>1
  <2>3. y - 1 \in S
    BY <1>1, <2>1, <2>2 DEF At
  <2> QED BY <2>2, <2>3
<1>5. IsFiniteSet(S) /\ Cardinality(S) \in Nat /\ IsFiniteSet(At(r, P))
  BY <1>1, AtIsFinite
<1> HIDE DEF f, S
<1>6. Cardinality(T) = Cardinality(S)
  BY <1>2, <1>3, <1>4, <1>5, SameCard
<1>7. Cardinality(T) = IF 1 \in At(r, P) THEN Cardinality(At(r, P)) - 1
                                         ELSE Cardinality(At(r, P))
  BY <1>5, FS_RemoveElement
<1>8. 1 \in At(r, P) <=> t \in P
  BY <1>1 DEF At
<1>9. Cardinality(At(r, P)) \in Nat
  BY <1>1, AtIsFinite
<1> QED BY <1>5, <1>6, <1>7, <1>8, <1>9 DEF One, r, S

LEMMA CountRemove ==
  ASSUME NEW q \in Seq(Task), NEW i \in 1..Len(q), NEW P
  PROVE  Cardinality(At(RemoveAt(q, i), P)) = Cardinality(At(q, P)) - One(q[i], P)
<1> DEFINE r == RemoveAt(q, i)
<1>0. Len(q) \in Nat
  OBVIOUS
<1>1. /\ Len(q) \in Nat /\ r \in Seq(Task) /\ Len(r) = Len(q) - 1
      /\ \A n \in 1..(Len(q) - 1) : r[n] = IF n < i THEN q[n] ELSE q[n + 1]
  BY <1>0, RemoveAtFacts
<1> DEFINE From(n) == IF n < i THEN n ELSE n + 1
           S == At(r, P)
           T == At(q, P) \ {i}
           f == [n \in S |-> From(n)]
<1> HIDE DEF r
<1>2. \A n \in 1..Len(r) :
        From(n) \in 1..Len(q) /\ From(n) # i /\ r[n] = q[From(n)]
  BY <1>1
<1>3. \A n, m \in 1..Len(r) : From(n) = From(m) => n = m
  BY <1>1
<1>4. ASSUME NEW y \in 1..Len(q), y # i
      PROVE  \E n \in 1..Len(r) : From(n) = y
  <2>1. CASE y < i
    BY <1>1, <2>1
  <2>2. CASE y > i
    <3>1. y - 1 \in 1..Len(r) /\ From(y - 1) = y
      BY <1>1, <2>2
    <3> QED BY <3>1
  <2> QED BY <1>4, <2>1, <2>2
<1> HIDE DEF From
<1>5. f \in [S -> T] /\ \A a, b \in S : f[a] = f[b] => a = b
  BY <1>2, <1>3 DEF At
<1>6. ASSUME NEW y \in T PROVE \E x \in S : f[x] = y
  <2>1. y \in 1..Len(q) /\ y # i /\ q[y] \in P
    BY DEF At
  <2>2. PICK n \in 1..Len(r) : From(n) = y
    BY <1>4, <2>1
  <2>3. n \in S
    BY <1>2, <2>1, <2>2 DEF At
  <2> QED BY <2>2, <2>3
<1>7. IsFiniteSet(S) /\ IsFiniteSet(At(q, P)) /\ Cardinality(At(q, P)) \in Nat
  BY <1>1, AtIsFinite
<1> HIDE DEF f, S
<1>8. Cardinality(T) = Cardinality(S)
  BY <1>5, <1>6, <1>7, SameCard
<1>9. Cardinality(T) = IF i \in At(q, P) THEN Cardinality(At(q, P)) - 1
                                         ELSE Cardinality(At(q, P))
  BY <1>7, FS_RemoveElement
<1>10. i \in At(q, P) <=> q[i] \in P
  BY DEF At
<1> QED BY <1>7, <1>8, <1>9, <1>10 DEF One, r, S

\* Deduplication takes at most one entry out.
LEMMA CountRest ==
  ASSUME TypeOK, NEW i \in 0..Len(items), NEW P
  PROVE  Cardinality(At(Rest(i), P))
           = Cardinality(At(items, P)) - (IF i = 0 THEN 0 ELSE One(items[i], P))
<1>1. Cardinality(At(items, P)) \in Nat
  BY AtIsFinite DEF TypeOK
<1>2. CASE i = 0
  BY <1>1, <1>2 DEF Rest
<1>3. CASE i # 0
  <2>1. i \in 1..Len(items) /\ items \in Seq(Task)
    BY <1>3 DEF TypeOK
  <2> QED BY <1>3, <2>1, CountRemove DEF Rest
<1> QED BY <1>2, <1>3

\* The workers with a task in P, and what a worker's new task does to them.
Holders(P) == {w \in Workers : hand[w] \in P}

LEMMA CountHand ==
  ASSUME TypeOK, NEW P \in SUBSET Task, NEW w \in Workers,
         NEW x \in Task \cup {NoTask}, hand' = [hand EXCEPT ![w] = x]
  PROVE  /\ Cardinality(Holders(P)') = Cardinality(Holders(P)) - One(hand[w], P) + One(x, P)
         /\ Cardinality(Holders(P)) \in Nat
<1>1. IsFiniteSet(Holders(P)) /\ Cardinality(Holders(P)) \in Nat
  <2>1. Holders(P) \subseteq Workers
    BY DEF Holders
  <2> QED BY <2>1, FairQueueAssumption, FS_Subset, FS_CardinalityType
<1>2. CASE hand[w] \in P /\ x \in P
  <2>1. Holders(P)' = Holders(P)
    BY <1>2 DEF Holders, TypeOK
  <2> QED BY <1>1, <1>2, <2>1 DEF One
<1>3. CASE hand[w] \in P /\ x \notin P
  <2>1. Holders(P)' = Holders(P) \ {w} /\ w \in Holders(P)
    BY <1>3 DEF Holders, TypeOK
  <2>2. Cardinality(Holders(P) \ {w}) = Cardinality(Holders(P)) - 1
    BY <1>1, <2>1, FS_RemoveElement
  <2>3. One(hand[w], P) = 1 /\ One(x, P) = 0
    BY <1>3 DEF One
  <2> QED BY <1>1, <2>1, <2>2, <2>3
<1>4. CASE hand[w] \notin P /\ x \in P
  <2>1. Holders(P)' = Holders(P) \cup {w} /\ w \notin Holders(P)
    BY <1>4 DEF Holders, TypeOK
  <2>2. Cardinality(Holders(P) \cup {w}) = Cardinality(Holders(P)) + 1
    BY <1>1, <2>1, FS_AddElement
  <2>3. One(hand[w], P) = 0 /\ One(x, P) = 1
    BY <1>4 DEF One
  <2> QED BY <1>1, <2>1, <2>2, <2>3
<1>5. CASE hand[w] \notin P /\ x \notin P
  <2>1. Holders(P)' = Holders(P)
    BY <1>5 DEF Holders, TypeOK
  <2> QED BY <1>1, <1>5, <2>1 DEF One
<1> QED BY <1>2, <1>3, <1>4, <1>5
-----------------------------------------------------------------------------
(* Done callbacks. *)

Dones == {t \in Task : t.done}

DoneInv ==
  /\ ~closed
  /\ doneOwed = Cardinality(At(items, Dones)) + Cardinality(Holders(Dones))

\* Whether a task's callback is owed is whether the task counts.
LEMMA OwedIsOne ==
  ASSUME NEW t \in Task
  PROVE  Owed(t) = One(t, Dones)
BY DEF Owed, One, Dones

LEMMA HoldersIsFinite ==
  ASSUME NEW P
  PROVE  Cardinality(Holders(P)) \in Nat
<1>1. Holders(P) \subseteq Workers
  BY DEF Holders
<1> QED BY <1>1, FairQueueAssumption, FS_Subset, FS_CardinalityType

LEMMA DoneEnqueue ==
  ASSUME MaxLen <= HardCap, TypeOK, DoneInv, Len(items) < MaxLen,
         NEW t \in SyncTasks, Enqueue(t)
  PROVE  DoneInv'
<1>1. t \in Task
  BY FairQueueAssumption
<1>2. EnqueueAccepted(t)
  <2>1. ASSUME NEW i \in 0..Len(items), Len(Rest(i)) >= HardCap
        PROVE  FALSE
    BY <2>1, RestLength, FairQueueAssumption DEF TypeOK
  <2> QED BY <2>1 DEF Enqueue, EnqueueClosed, EnqueueRefused, DoneInv
<1>3. PICK i \in 0..Len(items) :
        items' = Append(Rest(i), t) /\ doneOwed' = doneOwed + Owed(t) - FiredDone(i)
  BY <1>2 DEF EnqueueAccepted, Queued
<1>4. Rest(i) \in Seq(Task)
  BY RestType
<1>5. Cardinality(At(items', Dones))
        = Cardinality(At(items, Dones)) - (IF i = 0 THEN 0 ELSE One(items[i], Dones))
          + One(t, Dones)
  BY <1>1, <1>3, <1>4, CountAppend, CountRest
<1>6. FiredDone(i) = IF i = 0 THEN 0 ELSE One(items[i], Dones)
  BY OwedIsOne DEF FiredDone, TypeOK
<1>7. Owed(t) = One(t, Dones)
  BY <1>1, OwedIsOne
<1>8. Cardinality(Holders(Dones)') = Cardinality(Holders(Dones)) /\ closed' = closed
  BY <1>2 DEF EnqueueAccepted, Holders
<1>9. /\ Cardinality(At(items, Dones)) \in Nat /\ Cardinality(Holders(Dones)) \in Nat
      /\ One(t, Dones) \in Nat /\ (i # 0 => One(items[i], Dones) \in Nat)
  BY AtIsFinite, HoldersIsFinite DEF One, TypeOK
<1>10. Dones' = Dones
  OBVIOUS
<1> QED BY <1>3, <1>5, <1>6, <1>7, <1>8, <1>9 DEF DoneInv

LEMMA DoneStep ==
  ASSUME MaxLen <= HardCap, MayClose = FALSE, \A t \in DeleteTasks : ~t.done,
         TypeOK, WorkerInv, DoneInv, [Next]_vars
  PROVE  DoneInv'
<1>0. /\ Cardinality(At(items, Dones)) \in Nat /\ Cardinality(Holders(Dones)) \in Nat
      /\ Dones \subseteq Task /\ ~closed
      /\ doneOwed = Cardinality(At(items, Dones)) + Cardinality(Holders(Dones))
  BY AtIsFinite, HoldersIsFinite DEF TypeOK, Dones, DoneInv
<1>1. ASSUME NEW t \in SyncTasks, Enqueue(t), Len(items) < MaxLen
      PROVE  DoneInv'
  BY <1>1, DoneEnqueue
<1>2. ASSUME NEW t \in DeleteTasks, EnqueuePriority(t)
      PROVE  DoneInv'
  <2>1. t \in Task /\ One(t, Dones) = 0
    BY FairQueueAssumption DEF One, Dones
  <2>2. items' = <<t>> \o items /\ UNCHANGED <<doneOwed, hand, closed>>
    BY <1>2 DEF EnqueuePriority
  <2>3. Cardinality(At(items', Dones)) = Cardinality(At(items, Dones))
    BY <1>0, <2>1, <2>2, CountFront DEF TypeOK
  <2> QED BY <2>2, <2>3 DEF DoneInv, Holders
<1>3. ASSUME UNCHANGED <<items, hand, doneOwed, closed>>
      PROVE  DoneInv'
  BY <1>3 DEF DoneInv, Holders
<1>4. CASE Close \/ Cancel \/ Tick \/ UNCHANGED vars
  BY <1>3, <1>4 DEF Close, Cancel, Tick, vars, queueVars, workerVars
<1>5. ASSUME NEW w \in Workers, Take(w)
      PROVE  DoneInv'
  <2>1. PICK i \in DOMAIN items :
          hand' = [hand EXCEPT ![w] = items[i]] /\ items' = RemoveAt(items, i)
    BY <1>5 DEF Take
  <2>2. i \in 1..Len(items) /\ items[i] \in Task /\ items \in Seq(Task)
    BY DEF TypeOK
  <2>3. hand[w] = NoTask /\ One(NoTask, Dones) = 0
    BY <1>0, <1>5, FairQueueAssumption DEF Take, WorkerInv, One
  <2>4. Cardinality(At(items', Dones)) = Cardinality(At(items, Dones)) - One(items[i], Dones)
    BY <2>1, <2>2, CountRemove
  <2>5. Cardinality(Holders(Dones)')
          = Cardinality(Holders(Dones)) - 0 + One(items[i], Dones)
    BY <1>0, <2>1, <2>2, <2>3, CountHand
  <2>6. UNCHANGED <<doneOwed, closed>> /\ One(items[i], Dones) \in Nat
    BY <1>5 DEF Take, One
  <2> QED BY <1>0, <2>4, <2>5, <2>6 DEF DoneInv
<1>6. ASSUME NEW w \in Workers,
             \/ Sleep(w) \/ Park(w) \/ ReturnFalse(w) \/ Wake(w) \/ EnterWait(w)
             \/ CancelBroadcast(w) \/ SetAdaptiveCooldown(w)
      PROVE  DoneInv'
  BY <1>3, <1>6 DEF Sleep, Park, ReturnFalse, Wake, EnterWait, CancelBroadcast,
       SetAdaptiveCooldown, queueVars
<1>7. ASSUME NEW w \in Workers, FinishQuietly(w) \/ RecordSuccess(w) \/ RecordFailure(w)
      PROVE  DoneInv'
  <2>1. /\ hand' = [hand EXCEPT ![w] = NoTask] /\ doneOwed' = doneOwed - Owed(hand[w])
        /\ UNCHANGED <<items, closed>>
    BY <1>7 DEF FinishQuietly, RecordSuccess, RecordFailure, EndTask, queueVars
  <2>2. hand[w] \in Task
    BY <1>7, HandType DEF FinishQuietly, RecordSuccess, RecordFailure
  <2>3. One(NoTask, Dones) = 0 /\ One(hand[w], Dones) \in Nat
    BY <1>0, FairQueueAssumption DEF One
  <2>4. Cardinality(Holders(Dones)')
          = Cardinality(Holders(Dones)) - One(hand[w], Dones) + 0
    BY <1>0, <2>1, <2>3, CountHand
  <2>5. Owed(hand[w]) = One(hand[w], Dones)
    BY <2>2, OwedIsOne
  <2> QED BY <1>0, <2>1, <2>3, <2>4, <2>5 DEF DoneInv
<1> QED
  BY <1>1, <1>2, <1>4, <1>5, <1>6, <1>7 DEF Next, Call, Run, Dequeue, Work

\* Every Done callback handed to the queue is owed by a queued task or a
\* running one, or was invoked: the WaitGroup of a reconciliation comes back,
\* through displacements, failures and panics, as long as the hard cap is not
\* met and the queue not closed.
THEOREM DonesReturn ==
  ASSUME MaxLen <= HardCap, MayClose = FALSE, \A t \in DeleteTasks : ~t.done
  PROVE  Spec => []DoneAccounted
<1>1. Init => DoneInv
  <2> SUFFICES ASSUME Init PROVE DoneInv
    OBVIOUS
  <2>1. At(items, Dones) = {} /\ Holders(Dones) = {}
    BY FairQueueAssumption DEF Init, At, Holders, Dones
  <2>2. closed = FALSE /\ doneOwed = 0
    BY DEF Init
  <2>3. Cardinality(At(items, Dones)) = 0 /\ Cardinality(Holders(Dones)) = 0
    BY <2>1, FS_EmptySet
  <2> QED BY <2>2, <2>3 DEF DoneInv
<1>2. TypeOK /\ WorkerInv /\ DoneInv /\ [Next]_vars => DoneInv'
  BY DoneStep
<1>3. TypeOK /\ DoneInv => DoneAccounted
  <2> SUFFICES ASSUME TypeOK, DoneInv PROVE DoneAccounted
    OBVIOUS
  <2>1. {i \in DOMAIN items : items[i].done} = At(items, Dones)
    BY DEF At, Dones, TypeOK
  <2>2. {w \in Workers : hand[w] # NoTask /\ hand[w].done} = Holders(Dones)
    BY FairQueueAssumption DEF Holders, Dones, TypeOK
  <2> QED BY <2>1, <2>2 DEF DoneInv, DoneAccounted
<1> QED BY <1>1, <1>2, <1>3, TypeCorrect, PTL DEF Spec
-----------------------------------------------------------------------------
(* Implementation of WorkList. *)

\* The work list that the queue stands for.
Owing == {k \in Keys : SyncQueued(items, k)}
Fulls == [m \in Mirrors |->
            Cardinality({i \in DOMAIN items : IsFull(items[i]) /\ items[i].mirror = m})]
Jobs == [w \in Workers |-> IF hand[w] = NoTask THEN NoJob ELSE Key(hand[w])]

FullsOf(m) == {t \in Task : IsFull(t) /\ t.mirror = m}

LEMMA FullsCount ==
  ASSUME TypeOK, NEW m \in Mirrors
  PROVE  Fulls[m] = Cardinality(At(items, FullsOf(m)))
<1>1. {i \in DOMAIN items : IsFull(items[i]) /\ items[i].mirror = m}
        = At(items, FullsOf(m))
  BY DEF At, FullsOf, TypeOK
<1> QED BY <1>1 DEF Fulls

LEMMA FullsNat ==
  ASSUME TypeOK, NEW m \in Mirrors
  PROVE  Fulls[m] \in Nat
<1>1. Cardinality(At(items, FullsOf(m))) \in Nat
  BY AtIsFinite DEF TypeOK
<1> QED BY <1>1, FullsCount

LEMMA FullsCountNext ==
  ASSUME TypeOK', NEW m \in Mirrors
  PROVE  Fulls'[m] = Cardinality(At(items', FullsOf(m)))
<1>1. {i \in DOMAIN items' : IsFull(items'[i]) /\ items'[i].mirror = m}
        = At(items', FullsOf(m))
  BY DEF At, FullsOf, TypeOK
<1> QED BY <1>1 DEF Fulls

\* Taking out or adding a sync does not make another file owed.
LEMMA SyncWasQueued ==
  ASSUME NEW q \in Seq(Task), NEW k
  PROVE  /\ \A i \in 1..Len(q) : SyncQueued(RemoveAt(q, i), k) => SyncQueued(q, k)
         /\ \A t \in Task : SyncQueued(Append(q, t), k)
              => SyncQueued(q, k) \/ (IsSync(t) /\ HasKey(t, k))
<1>1. ASSUME NEW i \in 1..Len(q), SyncQueued(RemoveAt(q, i), k)
      PROVE  SyncQueued(q, k)
  <2> DEFINE r == RemoveAt(q, i)
  <2>0. q \in Seq(Task) /\ i \in 1..Len(q) /\ Len(q) \in Nat
    BY <1>1
  <2>1. /\ Len(q) \in Nat /\ r \in Seq(Task) /\ Len(r) = Len(q) - 1
        /\ \A n \in 1..(Len(q) - 1) : r[n] = IF n < i THEN q[n] ELSE q[n + 1]
    BY <2>0, RemoveAtFacts
  <2>2. PICK n \in DOMAIN r : IsSync(r[n]) /\ HasKey(r[n], k)
    BY <1>1 DEF SyncQueued
  <2> HIDE DEF r
  <2>3. n \in 1..(Len(q) - 1)
    BY <2>1, <2>2
  <2>4. PICK j \in 1..Len(q) : r[n] = q[j]
    BY <2>1, <2>3
  <2> QED BY <2>2, <2>4 DEF SyncQueued
<1>2. ASSUME NEW t \in Task, SyncQueued(Append(q, t), k)
      PROVE  SyncQueued(q, k) \/ (IsSync(t) /\ HasKey(t, k))
  <2> DEFINE r == Append(q, t)
  <2>1. /\ Len(q) \in Nat /\ DOMAIN r = 1..(Len(q) + 1) /\ r[Len(q) + 1] = t
        /\ \A n \in 1..Len(q) : r[n] = q[n]
    OBVIOUS
  <2>2. PICK n \in DOMAIN r : IsSync(r[n]) /\ HasKey(r[n], k)
    BY <1>2 DEF SyncQueued
  <2> HIDE DEF r
  <2>3. n \in 1..Len(q) \/ n = Len(q) + 1
    BY <2>1, <2>2
  <2> QED BY <2>1, <2>2, <2>3 DEF SyncQueued
<1> QED BY <1>1, <1>2

\* The steps of the work list, in terms of the three.
LEMMA MappedRequest ==
  ASSUME NEW k \in Keys, Owing' = Owing \cup {k}, Fulls' = Fulls, Jobs' = Jobs
  PROVE  Requests!Next
<1>1. Requests!Request(k)
  BY DEF Requests!Request, Owing, Fulls, Jobs
<1> QED BY <1>1 DEF Requests!Next

LEMMA MappedRequestFull ==
  ASSUME NEW m \in Mirrors,
         Owing' = Owing, Fulls' = [Fulls EXCEPT ![m] = @ + 1], Jobs' = Jobs
  PROVE  Requests!Next
<1>1. Requests!RequestFull(m)
  BY DEF Requests!RequestFull, Owing, Fulls, Jobs
<1> QED BY <1>1 DEF Requests!Next

LEMMA MappedStart ==
  ASSUME NEW w \in Workers, NEW k \in Keys, Jobs[w] = NoJob, k \in Owing,
         Owing' = Owing \ {k}, Fulls' = Fulls, Jobs' = [Jobs EXCEPT ![w] = k]
  PROVE  Requests!Next
<1>1. Requests!Start(w, k)
  BY DEF Requests!Start, Owing, Fulls, Jobs
<1> QED BY <1>1 DEF Requests!Next

LEMMA MappedStartFull ==
  ASSUME NEW w \in Workers, NEW m \in Mirrors, Jobs[w] = NoJob, Fulls[m] > 0,
         Owing' = Owing, Fulls' = [Fulls EXCEPT ![m] = @ - 1],
         Jobs' = [Jobs EXCEPT ![w] = <<m, NoFile>>]
  PROVE  Requests!Next
<1>1. Requests!StartFull(w, m)
  BY DEF Requests!StartFull, Owing, Fulls, Jobs
<1> QED BY <1>1 DEF Requests!Next

LEMMA MappedFinish ==
  ASSUME NEW w \in Workers, Jobs[w] # NoJob,
         Owing' = Owing, Fulls' = Fulls, Jobs' = [Jobs EXCEPT ![w] = NoJob]
  PROVE  Requests!Next
<1>1. Requests!Finish(w)
  BY DEF Requests!Finish, Owing, Fulls, Jobs
<1> QED BY <1>1 DEF Requests!Next

LEMMA MappedStutter ==
  ASSUME Owing' = Owing, Fulls' = Fulls, Jobs' = Jobs
  PROVE  UNCHANGED Requests!vars
BY DEF Requests!vars, Owing, Fulls, Jobs

LEMMA EnqueueImplements ==
  ASSUME MaxLen <= HardCap, TypeOK, TypeOK', Len(items) < MaxLen,
         NEW t \in SyncTasks, Enqueue(t)
  PROVE  Requests!Next \/ UNCHANGED Requests!vars
<1>1. t \in Task /\ IsSync(t)
  BY FairQueueAssumption DEF IsSync
<1>2. CASE EnqueueClosed(t)
  <2>1. Owing' = Owing /\ Fulls' = Fulls /\ Jobs' = Jobs
    BY <1>2 DEF EnqueueClosed, queueVars, workerVars, Owing, Fulls, Jobs
  <2> QED BY <2>1, MappedStutter
<1>3. CASE EnqueueRefused(t)
  <2> SUFFICES ASSUME NEW i \in 0..Len(items), Len(Rest(i)) >= HardCap
               PROVE  FALSE
    BY <1>3 DEF EnqueueRefused
  <2> QED BY RestLength, FairQueueAssumption DEF TypeOK
<1>4. CASE EnqueueAccepted(t)
  <2>1. PICK i \in 0..Len(items) : Displaced(t, i) /\ items' = Append(Rest(i), t)
    BY <1>4 DEF EnqueueAccepted, Queued
  <2>2. Rest(i) \in Seq(Task)
    BY RestType
  <2>3. Jobs' = Jobs
    BY <1>4 DEF EnqueueAccepted, Jobs
  <2>4. ASSUME NEW k \in Keys
        PROVE  SyncQueued(items', k) <=> SyncQueued(items, k) \/ HasKey(t, k)
    <3>1. SyncQueued(Rest(i), k) => SyncQueued(items, k)
      BY SyncWasQueued DEF Rest, TypeOK
    <3>2. SyncQueued(items', k) => SyncQueued(items, k) \/ HasKey(t, k)
      BY <1>1, <2>1, <2>2, <3>1, SyncWasQueued
    <3>3. HasKey(t, k) => SyncQueued(items', k)
      <4>1. /\ Len(Rest(i)) + 1 \in DOMAIN items' /\ items'[Len(Rest(i)) + 1] = t
        BY <1>1, <2>1, <2>2
      <4> QED BY <1>1, <4>1 DEF SyncQueued
    <3>4. SyncQueued(items, k) /\ ~HasKey(t, k) => SyncQueued(items', k)
      <4>1. k # Key(t) \/ i = 0 \/ HasKey(t, k)
        BY <2>1, DisplacedKey, <1>1 DEF HasKey
      <4> QED BY <1>1, <2>1, <2>2, <4>1, RestKeeps, SyncStaysAtEnds
    <3> QED BY <3>2, <3>3, <3>4
  <2>5. ASSUME NEW m \in Mirrors
        PROVE  Fulls'[m] = Fulls[m] + One(t, FullsOf(m))
    <3>1. i # 0 => One(items[i], FullsOf(m)) = 0
      <4>1. i # 0 => ~IsFull(items[i])
        BY <1>1, <2>1, DisplacedKey DEF HasKey
      <4> QED BY <4>1 DEF One, FullsOf
    <3>2. Cardinality(At(items, FullsOf(m))) \in Nat
      BY AtIsFinite DEF TypeOK
    <3>3. Cardinality(At(Rest(i), FullsOf(m))) = Cardinality(At(items, FullsOf(m)))
      BY <3>1, <3>2, CountRest
    <3>4. Cardinality(At(items', FullsOf(m)))
            = Cardinality(At(items, FullsOf(m))) + One(t, FullsOf(m))
      BY <1>1, <2>1, <2>2, <3>3, CountAppend
    <3>5. Fulls'[m] = Cardinality(At(items', FullsOf(m)))
      BY FullsCountNext
    <3> QED BY <3>4, <3>5, FullsCount
  <2>6. CASE ~IsFull(t)
    <3>1. Key(t) \in Keys /\ \A k \in Keys : HasKey(t, k) <=> k = Key(t)
      BY <1>1, <2>6 DEF Key, Keys, HasKey, IsFull, Task
    <3>2. Owing' = Owing \cup {Key(t)}
      BY <2>4, <3>1 DEF Owing
    <3>3. \A m \in Mirrors : Fulls'[m] = Fulls[m]
      <4> SUFFICES ASSUME NEW m \in Mirrors PROVE Fulls'[m] = Fulls[m]
        OBVIOUS
      <4>1. One(t, FullsOf(m)) = 0
        BY <2>6 DEF One, FullsOf
      <4>2. Fulls[m] \in Nat
        BY FullsNat
      <4> QED BY <2>5, <4>1, <4>2
    <3>4. Fulls' = Fulls
      BY <3>3 DEF Fulls
    <3> QED BY <2>3, <3>1, <3>2, <3>4, MappedRequest
  <2>7. CASE IsFull(t)
    <3>1. t.mirror \in Mirrors /\ \A k \in Keys : ~HasKey(t, k)
      BY <1>1, <2>7 DEF HasKey, Task
    <3>2. Owing' = Owing
      BY <2>4, <3>1 DEF Owing
    <3>3. ASSUME NEW m \in Mirrors
          PROVE  Fulls'[m] = IF m = t.mirror THEN Fulls[m] + 1 ELSE Fulls[m]
      <4>1. One(t, FullsOf(m)) = IF m = t.mirror THEN 1 ELSE 0
        BY <1>1, <2>7 DEF One, FullsOf
      <4>2. Fulls[m] \in Nat
        BY FullsNat
      <4> QED BY <2>5, <4>1, <4>2
    <3>4. Fulls' = [Fulls EXCEPT ![t.mirror] = @ + 1]
      BY <3>1, <3>3 DEF Fulls
    <3> QED BY <2>3, <3>1, <3>2, <3>4, MappedRequestFull
  <2> QED BY <2>6, <2>7
<1> QED BY <1>2, <1>3, <1>4 DEF Enqueue

\* A worker's new task, seen through the mapping.
LEMMA MappedHand ==
  ASSUME TypeOK, NEW w \in Workers, NEW x \in Task \cup {NoTask},
         hand' = [hand EXCEPT ![w] = x]
  PROVE  Jobs' = [Jobs EXCEPT ![w] = IF x = NoTask THEN NoJob ELSE Key(x)]
<1>1. hand'[w] = x /\ \A v \in Workers : v # w => hand'[v] = hand[v]
  BY DEF TypeOK
<1>2. /\ Jobs'[w] = IF x = NoTask THEN NoJob ELSE Key(x)
      /\ \A v \in Workers : v # w => Jobs'[v] = Jobs[v]
  BY <1>1 DEF Jobs
<1> QED BY <1>2 DEF Jobs

LEMMA TakeImplements ==
  ASSUME TypeOK, TypeOK', WorkerInv, DedupInv, NEW w \in Workers, Take(w)
  PROVE  Requests!Next
<1>1. PICK i \in DOMAIN items :
        /\ hand' = [hand EXCEPT ![w] = items[i]] /\ items' = RemoveAt(items, i)
        /\ pending' = pending \ {Key(items[i])}
  BY DEF Take, Unmarked
<1>2. /\ i \in 1..Len(items) /\ items \in Seq(Task)
      /\ items[i] \in Task /\ items[i] # NoTask /\ IsSync(items[i])
  <2>1. i \in 1..Len(items) /\ items \in Seq(Task)
    BY DEF TypeOK
  <2>2. IsSync(items[i])
    BY <2>1 DEF DedupInv, SyncsOnly
  <2> QED BY <2>1, <2>2, FairQueueAssumption
<1>3. Jobs[w] = NoJob
  BY DEF Take, WorkerInv, Jobs
<1>4. Jobs' = [Jobs EXCEPT ![w] = Key(items[i])]
  BY <1>1, <1>2, MappedHand
<1>5. ASSUME NEW k \in Keys
      PROVE  /\ SyncQueued(items', k) => SyncQueued(items, k)
             /\ SyncQueued(items, k) /\ ~HasKey(items[i], k) => SyncQueued(items', k)
  BY <1>1, <1>2, SyncWasQueued, SyncStays
<1>6. ASSUME NEW m \in Mirrors
      PROVE  Fulls'[m] = Fulls[m] - One(items[i], FullsOf(m)) /\ Fulls[m] \in Nat
  <2>1. Fulls'[m] = Cardinality(At(items', FullsOf(m)))
    BY FullsCountNext
  <2>2. Cardinality(At(items', FullsOf(m)))
          = Cardinality(At(items, FullsOf(m))) - One(items[i], FullsOf(m))
    BY <1>1, <1>2, CountRemove
  <2>3. Fulls[m] = Cardinality(At(items, FullsOf(m))) /\ Fulls[m] \in Nat
    BY <1>2, FullsCount, AtIsFinite
  <2> QED BY <2>1, <2>2, <2>3
<1>7. CASE ~IsFull(items[i])
  <2> DEFINE k == Key(items[i])
  <2>1. k \in Keys /\ \A l \in Keys : HasKey(items[i], l) <=> l = k
    BY <1>2, <1>7 DEF Key, Keys, HasKey, IsFull, Task
  <2>2. k \in Owing
    BY <1>2, <2>1 DEF Owing, SyncQueued
  <2>3. ~SyncQueued(items', k)
    <3>1. items' = RemoveAt(items, i) /\ pending' = pending \ {k}
      BY <1>1
    <3>2. Marked(items', pending')
      BY <1>2, <3>1, DedupTakeOut DEF DedupInv, TypeOK
    <3>3. k \notin pending'
      BY <3>1
    <3>4. items' \in Seq(Task)
      BY DEF TypeOK
    <3> HIDE DEF k
    <3>5. \A n \in DOMAIN items' : ~HasKey(items'[n], k)
      BY <3>2, <3>3, <3>4 DEF Marked, HasKey
    <3> QED BY <3>5 DEF SyncQueued
  <2>4. Owing' = Owing \ {k}
    BY <1>5, <2>1, <2>3 DEF Owing
  <2>5. ASSUME NEW m \in Mirrors PROVE Fulls'[m] = Fulls[m]
    <3>1. One(items[i], FullsOf(m)) = 0
      BY <1>7 DEF One, FullsOf
    <3> QED BY <1>6, <3>1
  <2>6. Fulls' = Fulls
    BY <2>5 DEF Fulls
  <2> HIDE DEF k
  <2>7. Jobs' = [Jobs EXCEPT ![w] = k]
    BY <1>4 DEF k
  <2> QED BY <1>3, <2>1, <2>2, <2>4, <2>6, <2>7, MappedStart
<1>8. CASE IsFull(items[i])
  <2> DEFINE m == items[i].mirror
  <2>1. m \in Mirrors /\ Key(items[i]) = <<m, NoFile>>
        /\ \A k \in Keys : ~HasKey(items[i], k)
    BY <1>2, <1>8 DEF Key, HasKey, IsFull, Task
  <2>2. Owing' = Owing
    BY <1>5, <2>1 DEF Owing
  <2>3. ASSUME NEW n \in Mirrors
        PROVE  Fulls'[n] = IF n = m THEN Fulls[n] - 1 ELSE Fulls[n]
    <3>1. One(items[i], FullsOf(n)) = IF n = m THEN 1 ELSE 0
      BY <1>2, <1>8 DEF One, FullsOf
    <3> QED BY <1>6, <3>1
  <2>4. Fulls' = [Fulls EXCEPT ![m] = @ - 1]
    BY <2>1, <2>3 DEF Fulls
  <2>5. Fulls[m] > 0
    <3>1. i \in At(items, FullsOf(m))
      BY <1>2, <1>8 DEF At, FullsOf
    <3>2. IsFiniteSet(At(items, FullsOf(m))) /\ Cardinality(At(items, FullsOf(m))) \in Nat
      BY <1>2, AtIsFinite
    <3>3. Cardinality(At(items, FullsOf(m))) # 0
      BY <3>1, <3>2, FS_EmptySet
    <3> QED BY <2>1, <3>2, <3>3, FullsCount
  <2>6. Jobs' = [Jobs EXCEPT ![w] = <<m, NoFile>>]
    BY <1>4, <2>1
  <2> HIDE DEF m
  <2> QED BY <1>3, <2>1, <2>2, <2>4, <2>5, <2>6, MappedStartFull
<1> QED BY <1>7, <1>8

LEMMA EndImplements ==
  ASSUME TypeOK, WorkerInv, NEW w \in Workers,
         FinishQuietly(w) \/ RecordSuccess(w) \/ RecordFailure(w)
  PROVE  Requests!Next \/ UNCHANGED Requests!vars
<1>1. hand' = [hand EXCEPT ![w] = NoTask] /\ items' = items
  BY DEF FinishQuietly, RecordSuccess, RecordFailure, EndTask, queueVars
<1>2. Jobs' = [Jobs EXCEPT ![w] = NoJob]
  BY <1>1, MappedHand
<1>3. Owing' = Owing /\ Fulls' = Fulls
  BY <1>1 DEF Owing, Fulls
<1>4. CASE Jobs[w] = NoJob
  <2>1. Jobs' = Jobs
    BY <1>2, <1>4 DEF Jobs
  <2> QED BY <1>3, <2>1, MappedStutter
<1>5. CASE Jobs[w] # NoJob
  BY <1>2, <1>3, <1>5, MappedFinish
<1> QED BY <1>4, <1>5

LEMMA QueueImplements ==
  ASSUME DeleteTasks = {}, MaxLen <= HardCap, TypeOK, TypeOK', WorkerInv, DedupInv,
         [Next]_vars
  PROVE  [Requests!Next]_(Requests!vars)
<1>1. ASSUME UNCHANGED <<items, hand>>
      PROVE  UNCHANGED Requests!vars
  <2>1. Owing' = Owing /\ Fulls' = Fulls /\ Jobs' = Jobs
    BY <1>1 DEF Owing, Fulls, Jobs
  <2> QED BY <2>1, MappedStutter
<1>2. CASE Call
  BY <1>2, EnqueueImplements DEF Call
<1>3. ASSUME NEW w \in Workers, Take(w)
      PROVE  Requests!Next
  BY <1>3, TakeImplements
<1>4. ASSUME NEW w \in Workers, FinishQuietly(w) \/ RecordSuccess(w) \/ RecordFailure(w)
      PROVE  Requests!Next \/ UNCHANGED Requests!vars
  BY <1>4, EndImplements
<1>5. ASSUME NEW w \in Workers,
             \/ Sleep(w) \/ Park(w) \/ ReturnFalse(w) \/ Wake(w) \/ EnterWait(w)
             \/ CancelBroadcast(w) \/ SetAdaptiveCooldown(w)
      PROVE  UNCHANGED Requests!vars
  BY <1>1, <1>5 DEF Sleep, Park, ReturnFalse, Wake, EnterWait, CancelBroadcast,
       SetAdaptiveCooldown, queueVars
<1>6. CASE Close \/ Cancel \/ Tick \/ UNCHANGED vars
  BY <1>1, <1>6 DEF Close, Cancel, Tick, vars, queueVars, workerVars
<1> QED BY <1>2, <1>3, <1>4, <1>5, <1>6 DEF Next, Run, Dequeue, Work

\* Without deletes and below the hard cap the queue does what a set of files
\* and a bag of full syncs would: cooldowns, backoffs, waits, displacements,
\* Close and cancellation lose no request and serve none twice.
THEOREM QueueImplementsWorkList ==
  ASSUME DeleteTasks = {}, MaxLen <= HardCap
  PROVE  Spec => WorkListSpec
<1>1. Init => DedupInv /\ Requests!Init
  <2> SUFFICES ASSUME Init PROVE DedupInv /\ Requests!Init
    OBVIOUS
  <2>1. DedupInv
    BY DEF Init, DedupInv, SyncsOnly, Marked, Distinct
  <2>2. Owing = {} /\ Fulls = [m \in Mirrors |-> 0] /\ Jobs = [w \in Workers |-> NoJob]
    <3>1. \A m \in Mirrors :
            {i \in DOMAIN items : IsFull(items[i]) /\ items[i].mirror = m} = {}
      BY DEF Init
    <3>2. Cardinality({}) = 0
      BY FS_EmptySet
    <3> QED BY <3>1, <3>2 DEF Init, Owing, Fulls, Jobs, SyncQueued
  <2>3. Requests!Init
    BY <2>2 DEF Requests!Init, Owing, Fulls, Jobs
  <2> QED BY <2>1, <2>3
<1>2. TypeOK /\ WorkerInv /\ PendingIsQueued /\ DedupInv /\ [Next]_vars => DedupInv'
  BY DedupStep
<1>3. TypeOK /\ WorkerInv /\ DedupInv /\ (TypeOK /\ WorkerInv)' /\ [Next]_vars
        => [Requests!Next]_(Requests!vars)
  BY QueueImplements
<1> QED
  BY <1>1, <1>2, <1>3, TypeCorrect, PendingCorrect, PTL DEF Spec, WorkListSpec, Requests!Spec
==============================================================================
