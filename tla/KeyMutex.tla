------------------------------ MODULE KeyMutex ------------------------------
(***************************************************************************)
(* One lock per key: what processTask relies on between acquireFileLock    *)
(* and releaseFileLock.                                                    *)
(***************************************************************************)
CONSTANTS Workers, Keys

VARIABLES
  state,  \* "outside", "waiting" or "inside", per worker
  key     \* the key each worker waits for or holds

vars == <<state, key>>

Init ==
  /\ state = [w \in Workers |-> "outside"]
  /\ key \in [Workers -> Keys]

Ask(w, k) ==
  /\ state[w] = "outside"
  /\ state' = [state EXCEPT ![w] = "waiting"]
  /\ key' = [key EXCEPT ![w] = k]

Enter(w) ==
  /\ state[w] = "waiting"
  /\ \A v \in Workers : state[v] = "inside" => key[v] # key[w]
  /\ state' = [state EXCEPT ![w] = "inside"]
  /\ UNCHANGED key

Leave(w) ==
  /\ state[w] = "inside"
  /\ state' = [state EXCEPT ![w] = "outside"]
  /\ UNCHANGED key

Next == \E w \in Workers : (\E k \in Keys : Ask(w, k)) \/ Enter(w) \/ Leave(w)

Spec == Init /\ [][Next]_vars
=============================================================================
