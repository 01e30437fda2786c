--------------------------- MODULE CircuitBackoff ---------------------------
(***************************************************************************)
(* The arithmetic of one mirror's circuit breaker (RecordFailure,          *)
(* RecordSuccess and the test in Dequeue, internal/sync/fairqueue.go).     *)
(* FairQueue models the breaker among workers and timers, with ideal       *)
(* numbers; this module keeps the numbers of the code: int and             *)
(* time.Duration are 64-bit integers, a duration counts nanoseconds, and   *)
(* the backoff is a base times 1 << (failures - threshold).                *)
(*                                                                         *)
(* A 64-bit integer is the set of its bits, 0 to 63, in two's complement:  *)
(* a shift moves the set, bits beyond 63 are lost, bit 63 is the sign.     *)
(***************************************************************************)
EXTENDS Integers

CONSTANTS
  Workers,      \* number of workers: tasks of the mirror in flight at a time
  MaxFailures   \* bound on the consecutive failures explored

VARIABLES
  failures,  \* circuitState.consecutiveFailures
  backoff,   \* the duration last added to time.Now(), 0 after a success
  held,      \* backoffUntil.After(now)
  running    \* tasks of the mirror that workers have dequeued

vars == <<failures, backoff, held, running>>

-----------------------------------------------------------------------------
(* 64-bit integers. *)

Word == 0..63

Bits(n) == {b \in 0..30 : (n \div 2^b) % 2 = 1}

Shifted(a, k) == {b + k : b \in a} \cap Word

Negative(a) == 63 \in a

Greater(a, b) ==
  \/ ~Negative(a) /\ Negative(b)
  \/ /\ Negative(a) <=> Negative(b)
     /\ \E d \in a \ b : \A e \in (a \ b) \cup (b \ a) : e <= d

\* s seconds in nanoseconds: 10^9 = 1953125 * 2^9.
Seconds(s) == Shifted(Bits(1953125 * s), 9)

circuitBreakerThreshold == 3
circuitBreakerBaseBackoff == Seconds(10)
circuitBreakerMaxBackoff == Seconds(300)

-----------------------------------------------------------------------------
Init ==
  /\ failures = 0
  /\ backoff = {}
  /\ held = FALSE
  /\ running = 0

\* base * Duration(1 << k): the bits of the base, k places up.
Product(k) == Shifted(circuitBreakerBaseBackoff, k)

\* Mutant of BackoffAfter: not capped.
BackoffUncapped(n) == Product(n - circuitBreakerThreshold)

BackoffAfter(n) ==
  LET b == Product(n - circuitBreakerThreshold)
  IN  IF Greater(b, circuitBreakerMaxBackoff) THEN circuitBreakerMaxBackoff ELSE b

\* Mutant of Trips: one failure late.
TripsLate(n) == n > circuitBreakerThreshold

Trips(n) == n >= circuitBreakerThreshold

\* Dequeue hands out a task of the mirror.
Start ==
  /\ ~held /\ running < Workers
  /\ running' = running + 1
  /\ UNCHANGED <<failures, backoff, held>>

\* RecordFailure.  A deadline at or before now holds nothing back.
Fail ==
  /\ running > 0 /\ failures < MaxFailures
  /\ running' = running - 1
  /\ failures' = failures + 1
  /\ IF Trips(failures + 1)
     THEN /\ backoff' = BackoffAfter(failures + 1)
          /\ held' = Greater(backoff', {})
     ELSE UNCHANGED <<backoff, held>>

\* RecordSuccess.
Succeed ==
  /\ running > 0
  /\ running' = running - 1
  /\ failures' = 0 /\ backoff' = {} /\ held' = FALSE

\* A task that reports nothing: the file is unchanged or gone.
Skip ==
  /\ running > 0
  /\ running' = running - 1
  /\ UNCHANGED <<failures, backoff, held>>

\* backoffUntil passes.
Expire ==
  /\ held
  /\ held' = FALSE
  /\ UNCHANGED <<failures, backoff, running>>

Next == Start \/ Fail \/ Succeed \/ Skip \/ Expire

Spec == Init /\ [][Next]_vars
-----------------------------------------------------------------------------
\* "Backoff doubles each time, capped at circuitBreakerMaxBackoff."  In seconds:
Documented[n \in Nat] ==
  IF n <= circuitBreakerThreshold THEN 10
  ELSE IF 2 * Documented[n - 1] > 300 THEN 300 ELSE 2 * Documented[n - 1]

BackoffAsDocumented ==
  failures >= circuitBreakerThreshold => backoff = Seconds(Documented[failures])

\* "After circuitBreakerThreshold consecutive failures, the mirror enters
\* backoff": every failure from the threshold on holds the mirror back.
HeldWhenTripped ==
  [][failures' > failures /\ failures' >= 3 => held']_vars
=============================================================================
