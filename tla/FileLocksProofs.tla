--------------------------- MODULE FileLocksProofs ---------------------------
(***************************************************************************)
(* Theorems about FileLocks.  As long as no more files and projects are    *)
(* ever locked than the high-water mark allows, no entry is evicted, the   *)
(* locks exclude each other and implement one mutex per key.  For every    *)
(* high-water mark, with evictions, the number of entries is accurate and  *)
(* bounded.                                                                *)
(***************************************************************************)
EXTENDS FileLocks, TLAPS, FiniteSetTheorems

Acquiring == {"addref", "count", "lock"}
Referring == {"addref", "count", "lock", "holding", "unlock"}
Evicting == {"recheck", "delete", "uncount"}

\* The map finds for every worker's key the entry the worker refers to.
Found == \A w \in Workers :
           pc[w] \in Referring => entry[w] \in Entries /\ table[key[w]] = entry[w]

\* No two keys share an entry.
OneKeyPerEntry == \A k, l \in Keys : table[k] # None /\ table[k] = table[l] => k = l

\* An entry is locked while a worker is inside, and one worker at most is.
Locked == \A w \in Inside : entry[w] \in locked
OneHolder == \A v, w \in Inside : entry[v] = entry[w] => v = w

Counted == count = Cardinality(Present) - Cardinality(Uncounted)

NoEviction == ~crashed /\ \A w \in Workers : pc[w] \notin Evicting

IInv == TypeOK /\ Found /\ OneKeyPerEntry /\ Locked /\ OneHolder /\ Counted /\ NoEviction

-----------------------------------------------------------------------------
LEMMA GotoTypes ==
  ASSUME TypeOK, NEW w \in Workers, NEW label \in PCs, Goto(w, label)
  PROVE  /\ pc' = [pc EXCEPT ![w] = label] /\ pc' \in [Workers -> PCs]
         /\ entry' \in [Workers -> Entries \cup {None}]
         /\ \A v \in Workers : v # w => entry'[v] = entry[v]
         /\ label # "idle" => entry' = entry
BY DEF Goto, TypeOK

LEMMA SetsAreFinite ==
  /\ IsFiniteSet(Present) /\ Cardinality(Present) \in Nat
  /\ Cardinality(Present) <= Cardinality(Keys) /\ Cardinality(Keys) \in Nat
  /\ IsFiniteSet(Uncounted) /\ Cardinality(Uncounted) \in Nat
<1>1. Present \subseteq Keys /\ Uncounted \subseteq Workers
  BY DEF Present, Uncounted
<1> QED BY <1>1, FileLocksAssumption, FS_Subset, FS_CardinalityType

\* Taking the lock of a key: LoadOrStore.
LEMMA AcquireStep ==
  ASSUME IInv, NEW w \in Workers, NEW k \in Keys, Acquire(w, k)
  PROVE  IInv'
<1>0. /\ pc' = [pc EXCEPT ![w] = "addref"] /\ key' = [key EXCEPT ![w] = k]
      /\ pc[w] = "idle" /\ UNCHANGED <<count, crashed>>
  BY DEF Acquire
<1>1. CASE /\ table[k] # None
           /\ entry' = [entry EXCEPT ![w] = table[k]]
           /\ stored' = [stored EXCEPT ![w] = FALSE]
           /\ UNCHANGED <<table, refs, locked>>
  <2>1. TypeOK'
    BY <1>0, <1>1 DEF IInv, TypeOK, PCs
  <2>2. Found' /\ OneKeyPerEntry'
    BY <1>0, <1>1 DEF IInv, TypeOK, Found, OneKeyPerEntry, Referring
  <2>3. Locked' /\ OneHolder' /\ NoEviction'
    BY <1>0, <1>1 DEF IInv, TypeOK, Locked, OneHolder, Inside, NoEviction, Evicting
  <2>4. Present' = Present /\ Uncounted' = Uncounted
    BY <1>0, <1>1 DEF IInv, TypeOK, Present, Uncounted
  <2> QED BY <1>0, <2>1, <2>2, <2>3, <2>4 DEF IInv, Counted
<1>2. ASSUME table[k] = None, NEW e \in Unused,
             /\ table' = [table EXCEPT ![k] = e]
             /\ refs' = [refs EXCEPT ![e] = 0]
             /\ locked' = locked \ {e}
             /\ entry' = [entry EXCEPT ![w] = e],
             stored' = [stored EXCEPT ![w] = TRUE]
      PROVE  IInv'
  <2>0. /\ e \in Entries /\ e # None
        /\ \A l \in Keys : table[l] # e
        /\ \A v \in Workers : entry[v] # e
    BY FileLocksAssumption DEF Unused
  <2>1. TypeOK'
    BY <1>0, <1>2, <2>0 DEF IInv, TypeOK, PCs
  <2>2. Found'
    <3> SUFFICES ASSUME NEW v \in Workers, pc'[v] \in Referring
                 PROVE  entry'[v] \in Entries /\ table'[key'[v]] = entry'[v]
      BY DEF Found
    <3>1. CASE v = w
      BY <1>0, <1>2, <2>0, <3>1 DEF IInv, TypeOK
    <3>2. CASE v # w
      <4>1. entry[v] \in Entries /\ table[key[v]] = entry[v]
        BY <1>0, <3>2 DEF IInv, TypeOK, Found
      <4>2. key[v] # k
        BY <1>2, <4>1, FileLocksAssumption
      <4> QED BY <1>0, <1>2, <3>2, <4>1, <4>2 DEF IInv, TypeOK
    <3> QED BY <3>1, <3>2
  <2>3. OneKeyPerEntry'
    BY <1>2, <2>0 DEF IInv, TypeOK, OneKeyPerEntry
  <2>4. Locked' /\ OneHolder' /\ NoEviction'
    BY <1>0, <1>2, <2>0 DEF IInv, TypeOK, Locked, OneHolder, Inside, NoEviction, Evicting
  <2>5. Present' = Present \cup {k} /\ k \notin Present
    BY <1>2, <2>0 DEF IInv, TypeOK, Present
  <2>6. Uncounted' = Uncounted \cup {w} /\ w \notin Uncounted
    BY <1>0, <1>2 DEF IInv, TypeOK, Uncounted
  <2>7. /\ Cardinality(Present') = Cardinality(Present) + 1
        /\ Cardinality(Uncounted') = Cardinality(Uncounted) + 1
    BY <2>5, <2>6, SetsAreFinite, FS_AddElement
  <2>8. Counted'
    BY <1>0, <2>7, SetsAreFinite DEF IInv, Counted
  <2> QED BY <2>1, <2>2, <2>3, <2>4, <2>8 DEF IInv
<1> QED BY <1>1, <1>2 DEF Acquire, FindOrStore

\* A step that changes neither the map nor who waits for a count.
LEMMA SameCount ==
  ASSUME Counted, UNCHANGED <<table, count>>, Uncounted' = Uncounted
  PROVE  Counted'
BY DEF Counted, Present

LEMMA WaitStep ==
  ASSUME IInv, NEW w \in Workers, AddRef(w) \/ Count(w) \/ Lock(w)
  PROVE  IInv'
<1>1. CASE AddRef(w)
  <2>1. /\ pc' = [pc EXCEPT ![w] = "count"] /\ entry' = entry /\ TypeOK'
    <3>1. refs' \in [Entries -> Int]
      <4>1. entry[w] \in Entries /\ refs \in [Entries -> Int]
        BY <1>1 DEF AddRef, IInv, TypeOK, Found, Referring
      <4>2. refs[entry[w]] + 1 \in Int
        BY <4>1
      <4>3. refs' = [refs EXCEPT ![entry[w]] = refs[entry[w]] + 1]
        BY <1>1 DEF AddRef, RefTaken
      <4> QED BY <4>1, <4>2, <4>3
    <3>2. /\ pc' = [pc EXCEPT ![w] = "count"] /\ pc' \in [Workers -> PCs]
          /\ entry' = entry
      BY <1>1, GotoTypes DEF AddRef, IInv, PCs
    <3> QED BY <1>1, <3>1, <3>2 DEF AddRef, IInv, TypeOK
  <2>2. Found' /\ OneKeyPerEntry' /\ Locked' /\ OneHolder' /\ NoEviction'
    BY <1>1, <2>1 DEF AddRef, IInv, TypeOK, Found, OneKeyPerEntry, Locked, OneHolder,
       Inside, NoEviction, Evicting, Referring
  <2>3. Uncounted' = Uncounted
    BY <1>1, <2>1 DEF AddRef, IInv, TypeOK, Uncounted
  <2> QED BY <1>1, <2>1, <2>2, <2>3, SameCount DEF AddRef, IInv
<1>2. CASE Count(w)
  <2>1. /\ pc' = [pc EXCEPT ![w] = "lock"] /\ entry' = entry /\ TypeOK'
    BY <1>2, GotoTypes DEF Count, IInv, TypeOK, PCs
  <2>2. Found' /\ OneKeyPerEntry' /\ Locked' /\ OneHolder' /\ NoEviction'
    BY <1>2, <2>1 DEF Count, IInv, TypeOK, Found, OneKeyPerEntry, Locked, OneHolder,
       Inside, NoEviction, Evicting, Referring
  <2>3. CASE stored[w]
    <3>1. Uncounted' = Uncounted \ {w} /\ w \in Uncounted
      BY <1>2, <2>1, <2>3 DEF Count, IInv, TypeOK, Uncounted
    <3>2. Cardinality(Uncounted') = Cardinality(Uncounted) - 1
      BY <3>1, SetsAreFinite, FS_RemoveElement
    <3>3. count' = count + 1 /\ Present' = Present
      BY <1>2, <2>3 DEF Count, Present
    <3>4. Counted'
      BY <3>2, <3>3, SetsAreFinite DEF IInv, Counted
    <3> QED BY <2>1, <2>2, <3>4 DEF IInv
  <2>4. CASE ~stored[w]
    <3>1. Uncounted' = Uncounted
      BY <1>2, <2>1, <2>4 DEF Count, IInv, TypeOK, Uncounted
    <3> QED BY <1>2, <2>1, <2>2, <2>4, <3>1, SameCount DEF Count, IInv
  <2> QED BY <2>3, <2>4
<1>3. CASE Lock(w)
  <2>1. /\ pc' = [pc EXCEPT ![w] = "holding"] /\ entry' = entry /\ TypeOK'
    <3>1. entry[w] \in Entries
      BY <1>3 DEF Lock, IInv, Found, Referring
    <3> QED BY <1>3, <3>1, GotoTypes DEF Lock, IInv, TypeOK, PCs
  <2>2. Found' /\ OneKeyPerEntry' /\ NoEviction'
    BY <1>3, <2>1 DEF Lock, IInv, TypeOK, Found, OneKeyPerEntry, NoEviction, Evicting,
       Referring
  <2>3. Inside' = Inside \cup {w} /\ \A v \in Inside : entry[v] # entry[w]
    BY <1>3, <2>1 DEF Lock, IInv, TypeOK, Inside, Locked
  <2>4. Locked' /\ OneHolder'
    BY <1>3, <2>1, <2>3 DEF Lock, IInv, Locked, OneHolder
  <2>5. Uncounted' = Uncounted
    BY <1>3, <2>1 DEF Lock, IInv, TypeOK, Uncounted
  <2> QED BY <1>3, <2>1, <2>2, <2>4, <2>5, SameCount DEF Lock, IInv
<1> QED BY <1>1, <1>2, <1>3

LEMMA ReleaseStep ==
  ASSUME Cardinality(Keys) <= HighWater, IInv, NEW w \in Workers, Release(w)
  PROVE  IInv'
<1>1. CASE LoadAgain(w)
  <2>1. table[key[w]] = entry[w] /\ entry[w] # None
    BY <1>1, FileLocksAssumption DEF LoadAgain, IInv, Found, Referring
  <2>2. pc' = [pc EXCEPT ![w] = "unlock"] /\ entry' = entry
    BY <1>1, <2>1 DEF LoadAgain, IInv, TypeOK
  <2>3. Inside' = Inside /\ Uncounted' = Uncounted
    BY <1>1, <2>2 DEF LoadAgain, IInv, TypeOK, Inside, Uncounted
  <2>4. TypeOK' /\ Found' /\ OneKeyPerEntry' /\ NoEviction'
    BY <1>1, <2>2 DEF LoadAgain, mapVars, IInv, TypeOK, PCs, Found, OneKeyPerEntry,
       NoEviction, Evicting, Referring
  <2>5. Locked' /\ OneHolder'
    BY <1>1, <2>2, <2>3 DEF LoadAgain, mapVars, IInv, Locked, OneHolder
  <2> QED BY <1>1, <2>3, <2>4, <2>5, SameCount DEF LoadAgain, mapVars, IInv
<1>2. CASE Unlock(w)
  <2>1. /\ pc' = [pc EXCEPT ![w] = "dropref"] /\ entry' = entry
        /\ pc' \in [Workers -> PCs]
    BY <1>2, GotoTypes DEF Unlock, IInv, PCs
  <2>2. Inside' = Inside \ {w} /\ w \in Inside /\ Uncounted' = Uncounted
    BY <1>2, <2>1 DEF Unlock, IInv, TypeOK, Inside, Uncounted
  <2>3. ~crashed' /\ locked' = locked \ {entry[w]}
    BY <1>2, <2>2 DEF Unlock, Unlocked, IInv, Locked
  <2>4. TypeOK' /\ Found' /\ OneKeyPerEntry' /\ NoEviction'
    BY <1>2, <2>1, <2>3 DEF Unlock, IInv, TypeOK, Found, OneKeyPerEntry,
       NoEviction, Evicting, Referring
  <2>5. Locked' /\ OneHolder'
    BY <2>1, <2>2, <2>3 DEF IInv, Locked, OneHolder
  <2> QED BY <1>2, <2>2, <2>4, <2>5, SameCount DEF Unlock, IInv
<1>3. CASE DropRef(w) \/ CheckCount(w)
  <2>1. ~OverHighWater
    BY SetsAreFinite, FileLocksAssumption DEF OverHighWater, IInv, Counted
  <2>2. PICK label \in {"idle", "checkcount"} : Goto(w, label)
    BY <1>3, <2>1 DEF DropRef, CheckCount
  <2>3. /\ pc' = [pc EXCEPT ![w] = label] /\ pc' \in [Workers -> PCs]
        /\ entry' \in [Workers -> Entries \cup {None}]
        /\ \A v \in Workers : v # w => entry'[v] = entry[v]
    BY <2>2, GotoTypes DEF IInv, PCs
  <2>4. /\ pc[w] \in {"dropref", "checkcount"}
        /\ UNCHANGED <<table, locked, count, key, stored, crashed>>
        /\ refs' \in [Entries -> Int]
    BY <1>3 DEF DropRef, CheckCount, mapVars, IInv, TypeOK
  <2>5. Inside' = Inside /\ Uncounted' = Uncounted /\ w \notin Inside
    BY <2>3, <2>4 DEF IInv, TypeOK, Inside, Uncounted
  <2>6. TypeOK' /\ Found' /\ OneKeyPerEntry' /\ NoEviction'
    BY <2>3, <2>4 DEF IInv, TypeOK, Found, OneKeyPerEntry, NoEviction, Evicting, Referring
  <2>7. Locked' /\ OneHolder'
    BY <2>3, <2>4, <2>5 DEF IInv, Locked, OneHolder, Inside
  <2> QED BY <2>4, <2>5, <2>6, <2>7, SameCount DEF IInv
<1>4. CASE Recheck(w) \/ Delete(w) \/ Uncount(w)
  BY <1>4 DEF Recheck, Delete, Uncount, IInv, NoEviction, Evicting
<1> QED BY <1>1, <1>2, <1>3, <1>4 DEF Release

LEMMA InitInv == Init => IInv
<1> SUFFICES ASSUME Init PROVE IInv
  OBVIOUS
<1>1. Present = {} /\ Uncounted = {} /\ Inside = {}
  BY DEF Init, Present, Uncounted, Inside
<1>2. Counted
  BY <1>1, FS_EmptySet DEF Init, Counted
<1>3. TypeOK
  <2>1. 0 \in Int /\ "idle" \in PCs
    BY DEF PCs
  <2> QED BY <2>1 DEF Init, TypeOK
<1>4. Found /\ OneKeyPerEntry /\ NoEviction
  BY DEF Init, Found, OneKeyPerEntry, NoEviction, Referring, Evicting
<1>5. Locked /\ OneHolder
  BY <1>1 DEF Locked, OneHolder
<1> QED BY <1>2, <1>3, <1>4, <1>5 DEF IInv

LEMMA InvStep ==
  ASSUME Cardinality(Keys) <= HighWater, IInv, [Next]_vars
  PROVE  IInv'
<1>1. CASE UNCHANGED vars
  <2>1. Inside' = Inside /\ Uncounted' = Uncounted /\ Present' = Present
    BY <1>1 DEF vars, mapVars, Inside, Uncounted, Present
  <2> QED BY <1>1, <2>1 DEF vars, mapVars, IInv, TypeOK, Found, OneKeyPerEntry, Locked,
         OneHolder, Counted, NoEviction
<1>2. CASE Next
  BY <1>2, AcquireStep, WaitStep, ReleaseStep DEF Next
<1> QED BY <1>1, <1>2

LEMMA InvAlways ==
  ASSUME Cardinality(Keys) <= HighWater
  PROVE  Spec => []IInv
<1>1. Init => IInv
  BY InitInv
<1>2. IInv /\ [Next]_vars => IInv'
  BY InvStep
<1> QED BY <1>1, <1>2, PTL DEF Spec

\* Two workers are never inside their tasks with one lock key, whatever the
\* interleaving of their accesses to the map, to the counts and to the
\* mutexes, as long as the keys ever locked do not exceed the high-water mark.
THEOREM Exclusion ==
  ASSUME Cardinality(Keys) <= HighWater
  PROVE  Spec => []MutualExclusion
<1>1. IInv => MutualExclusion
  BY DEF IInv, MutualExclusion, Found, OneHolder, Inside, Referring
<1> QED BY <1>1, InvAlways, PTL
-----------------------------------------------------------------------------
(* Implementation of KeyMutex. *)

\* The state of the abstract lock a worker is in.
StateOf(label) ==
  CASE label \in Acquiring -> "waiting"
    [] label \in {"holding", "unlock"} -> "inside"
    [] OTHER -> "outside"

State == [w \in Workers |-> StateOf(pc[w])]

\* The refinement mapping of FileLocks, with State for its state.
LEMMA MappedState ==
  [w \in Workers |->
     CASE pc[w] \in {"addref", "count", "lock"} -> "waiting"
       [] pc[w] \in {"holding", "unlock"} -> "inside"
       [] OTHER -> "outside"] = State
BY DEF State, StateOf, Acquiring

\* A step of w alone, seen through the mapping.
LEMMA MappedMove ==
  ASSUME TypeOK, NEW w \in Workers, NEW label \in PCs,
         pc' = [pc EXCEPT ![w] = label]
  PROVE  State' = [State EXCEPT ![w] = StateOf(label)]
<1>1. ASSUME NEW v \in Workers
      PROVE  State'[v] = [State EXCEPT ![w] = StateOf(label)][v]
  BY DEF State, TypeOK
<1>2. State' \in [Workers -> {StateOf(l) : l \in PCs}]
  BY DEF State, TypeOK
<1>3. [State EXCEPT ![w] = StateOf(label)] = [v \in Workers |->
         IF v = w THEN StateOf(label) ELSE State[v]]
  BY DEF State
<1>4. DOMAIN State' = Workers
  BY DEF State
<1> QED BY <1>1, <1>3, <1>4 DEF State, TypeOK

LEMMA RefinementStep ==
  ASSUME Cardinality(Keys) <= HighWater, IInv, [Next]_vars
  PROVE  [Mutex!Next]_(Mutex!vars)
<1>0. Mutex!vars = <<State, key>> /\ Mutex!vars' = <<State', key'>>
  BY MappedState DEF Mutex!vars, State, StateOf, Acquiring
<1>1. ASSUME NEW w \in Workers, NEW k \in Keys, Acquire(w, k)
      PROVE  Mutex!Ask(w, k)
  <2>1. /\ State[w] = "outside" /\ key' = [key EXCEPT ![w] = k]
        /\ pc' = [pc EXCEPT ![w] = "addref"]
    BY <1>1 DEF Acquire, State, StateOf, Acquiring
  <2>2. State' = [State EXCEPT ![w] = "waiting"]
    BY <2>1, MappedMove DEF IInv, PCs, StateOf, Acquiring
  <2> QED BY <2>1, <2>2, MappedState DEF Mutex!Ask, State, StateOf, Acquiring
<1>2. ASSUME NEW w \in Workers, AddRef(w) \/ Count(w)
      PROVE  State' = State /\ key' = key
  <2>1. PICK label \in Acquiring : pc' = [pc EXCEPT ![w] = label]
    BY <1>2 DEF AddRef, Count, Goto, Acquiring
  <2>2. State' = [State EXCEPT ![w] = "waiting"] /\ State[w] = "waiting"
    BY <1>2, <2>1, MappedMove DEF AddRef, Count, IInv, PCs, State, StateOf, Acquiring
  <2> QED BY <1>2, <2>2 DEF AddRef, Count, State
<1>3. ASSUME NEW w \in Workers, Lock(w)
      PROVE  Mutex!Enter(w)
  <2>1. /\ State[w] = "waiting" /\ key' = key
        /\ pc' = [pc EXCEPT ![w] = "holding"]
    BY <1>3 DEF Lock, Goto, State, StateOf, Acquiring
  <2>2. State' = [State EXCEPT ![w] = "inside"]
    BY <2>1, MappedMove DEF IInv, PCs, StateOf, Acquiring
  <2>3. ASSUME NEW v \in Workers, State[v] = "inside" PROVE key[v] # key[w]
    <3>1. v \in Inside
      BY <2>3 DEF State, StateOf, Acquiring, Inside
    <3>2. entry[v] # entry[w] /\ pc[w] \in Referring /\ pc[v] \in Referring
      BY <1>3, <3>1 DEF Lock, IInv, Locked, Inside, Referring
    <3> QED BY <3>2 DEF IInv, Found
  <2> QED BY <2>1, <2>2, <2>3, MappedState DEF Mutex!Enter, State, StateOf, Acquiring
<1>4. ASSUME NEW w \in Workers, Release(w)
      PROVE  Mutex!Leave(w) \/ (State' = State /\ key' = key)
  <2>1. CASE LoadAgain(w)
    <3>1. pc' = [pc EXCEPT ![w] = "unlock"]
      BY <2>1, FileLocksAssumption DEF LoadAgain, IInv, Found, Referring
    <3>2. State' = [State EXCEPT ![w] = "inside"] /\ State[w] = "inside"
      BY <2>1, <3>1, MappedMove DEF LoadAgain, IInv, PCs, State, StateOf, Acquiring
    <3> QED BY <2>1, <3>2 DEF LoadAgain, State
  <2>2. CASE Unlock(w)
    <3>1. /\ State[w] = "inside" /\ key' = key
          /\ pc' = [pc EXCEPT ![w] = "dropref"]
      BY <2>2 DEF Unlock, Goto, State, StateOf, Acquiring
    <3>2. State' = [State EXCEPT ![w] = "outside"]
      BY <3>1, MappedMove DEF IInv, PCs, StateOf, Acquiring
    <3> QED BY <3>1, <3>2, MappedState DEF Mutex!Leave, State, StateOf, Acquiring
  <2>3. CASE DropRef(w) \/ CheckCount(w) \/ Recheck(w) \/ Delete(w) \/ Uncount(w)
    <3>1. PICK label \in PCs \ Referring : pc' = [pc EXCEPT ![w] = label]
      BY <2>3 DEF DropRef, CheckCount, Recheck, Delete, Uncount, Goto, PCs, Referring
    <3>2. State' = [State EXCEPT ![w] = "outside"] /\ State[w] = "outside" /\ key' = key
      BY <2>3, <3>1, MappedMove DEF DropRef, CheckCount, Recheck, Delete, Uncount, IInv,
         Referring, State, StateOf, Acquiring, mapVars
    <3> QED BY <3>2 DEF State
  <2> QED BY <1>4, <2>1, <2>2, <2>3 DEF Release
<1>5. CASE UNCHANGED vars
  BY <1>0, <1>5 DEF vars, State
<1> QED BY <1>0, <1>1, <1>2, <1>3, <1>4, <1>5 DEF Next, Mutex!Next

\* The locks implement one mutex per key (KeyMutex): looking entries up by key
\* on both sides, counting references and counting entries never lets a worker
\* in while another is inside with its key, as long as nothing is evicted.
THEOREM LocksImplementMutex ==
  ASSUME Cardinality(Keys) <= HighWater
  PROVE  Spec => KeyMutexSpec
<1>1. Init => Mutex!Init
  BY DEF Init, Mutex!Init
<1>2. IInv /\ [Next]_vars => [Mutex!Next]_(Mutex!vars)
  BY RefinementStep
<1> QED BY <1>1, <1>2, InvAlways, PTL DEF Spec, KeyMutexSpec, Mutex!Spec
-----------------------------------------------------------------------------
(* Reference counts. *)

Counting == {"count", "lock", "holding", "unlock", "dropref"}
Referrers(e) == {w \in Workers : entry[w] = e /\ pc[w] \in Counting}

LEMMA FewReferrers ==
  ASSUME NEW e
  PROVE  IsFiniteSet(Referrers(e)) /\ Cardinality(Referrers(e)) \in Nat
<1>1. Referrers(e) \subseteq Workers
  BY DEF Referrers
<1> QED BY <1>1, FileLocksAssumption, FS_Subset, FS_CardinalityType

LEMMA RefsStep ==
  ASSUME Cardinality(Keys) <= HighWater, IInv, RefsAccurate, [Next]_vars,
         NEW e \in Entries
  PROVE  refs'[e] = Cardinality(Referrers(e)')
<1>0. refs[e] = Cardinality(Referrers(e)) /\ refs \in [Entries -> Int]
  BY DEF RefsAccurate, Referrers, Counting, IInv, TypeOK
<1>1. CASE UNCHANGED vars
  <2>1. Referrers(e)' = Referrers(e)
    BY <1>1 DEF vars, mapVars, Referrers
  <2> QED BY <1>0, <1>1, <2>1 DEF vars, mapVars
<1>2. ASSUME NEW w \in Workers, NEW k \in Keys, Acquire(w, k)
      PROVE  refs'[e] = Cardinality(Referrers(e)')
  <2>0. /\ pc' = [pc EXCEPT ![w] = "addref"] /\ pc[w] = "idle"
        /\ \A v \in Workers : v # w => entry'[v] = entry[v]
    BY <1>2 DEF Acquire, FindOrStore, IInv, TypeOK
  <2>1. Referrers(e)' = Referrers(e)
    BY <2>0 DEF Referrers, Counting, IInv, TypeOK
  <2>2. CASE refs' = refs
    BY <1>0, <2>1, <2>2
  <2>3. CASE \E f \in Unused : refs' = [refs EXCEPT ![f] = 0]
    <3>1. PICK f \in Unused : refs' = [refs EXCEPT ![f] = 0]
      BY <2>3
    <3>2. CASE f = e
      <4>1. Referrers(e) = {}
        BY <3>1, <3>2 DEF Referrers, Unused
      <4> QED BY <1>0, <2>1, <3>1, <3>2, <4>1, FS_EmptySet
    <3>3. CASE f # e
      BY <1>0, <2>1, <3>1, <3>3
    <3> QED BY <3>2, <3>3
  <2> QED BY <1>2, <2>2, <2>3 DEF Acquire, FindOrStore
<1>3. ASSUME NEW w \in Workers, AddRef(w)
      PROVE  refs'[e] = Cardinality(Referrers(e)')
  <2>1. /\ pc' = [pc EXCEPT ![w] = "count"] /\ entry' = entry /\ pc[w] = "addref"
        /\ entry[w] \in Entries /\ refs' = [refs EXCEPT ![entry[w]] = @ + 1]
    BY <1>3 DEF AddRef, RefTaken, Goto, IInv, Found, Referring
  <2>2. CASE entry[w] = e
    <3>1. Referrers(e)' = Referrers(e) \cup {w} /\ w \notin Referrers(e)
      BY <2>1, <2>2 DEF Referrers, Counting, IInv, TypeOK
    <3>2. IsFiniteSet(Referrers(e))
      BY FewReferrers
    <3>3. Cardinality(Referrers(e) \cup {w}) = Cardinality(Referrers(e)) + 1
      BY <3>1, <3>2, FS_AddElement
    <3>4. refs'[e] = refs[e] + 1
      BY <1>0, <2>1, <2>2
    <3> QED BY <1>0, <3>1, <3>3, <3>4
  <2>3. CASE entry[w] # e
    <3>1. Referrers(e)' = Referrers(e)
      BY <2>1, <2>3 DEF Referrers, Counting, IInv, TypeOK
    <3> QED BY <1>0, <2>1, <2>3, <3>1
  <2> QED BY <2>2, <2>3
<1>4. ASSUME NEW w \in Workers, Count(w) \/ Lock(w) \/ LoadAgain(w) \/ Unlock(w)
      PROVE  refs'[e] = Cardinality(Referrers(e)')
  <2>1. entry' = entry /\ refs' = refs
    <3>1. LoadAgain(w) => table[key[w]] = entry[w] /\ entry[w] # None
      BY FileLocksAssumption DEF LoadAgain, IInv, Found, Referring
    <3> QED BY <1>4, <3>1 DEF Count, Lock, LoadAgain, Unlock, Goto, mapVars, IInv, TypeOK
  <2>2. PICK label \in Counting : pc' = [pc EXCEPT ![w] = label]
    <3>1. LoadAgain(w) => table[key[w]] # None
      BY FileLocksAssumption DEF LoadAgain, IInv, Found, Referring
    <3> QED BY <1>4, <3>1 DEF Count, Lock, LoadAgain, Unlock, Goto, Counting
  <2>3. pc[w] \in Counting
    BY <1>4 DEF Count, Lock, LoadAgain, Unlock, Counting
  <2>4. Referrers(e)' = Referrers(e)
    BY <2>1, <2>2, <2>3 DEF Referrers, IInv, TypeOK
  <2> QED BY <1>0, <2>1, <2>4
<1>5. ASSUME NEW w \in Workers, DropRef(w)
      PROVE  refs'[e] = Cardinality(Referrers(e)')
  <2>1. PICK label \in {"idle", "checkcount"} : Goto(w, label)
    BY <1>5 DEF DropRef
  <2>2. /\ pc' = [pc EXCEPT ![w] = label] /\ pc[w] = "dropref"
        /\ \A v \in Workers : v # w => entry'[v] = entry[v]
        /\ refs' = [refs EXCEPT ![entry[w]] = @ - 1]
    BY <1>5, <2>1, GotoTypes DEF DropRef, IInv, PCs
  <2>3. CASE entry[w] = e
    <3>1. Referrers(e)' = Referrers(e) \ {w} /\ w \in Referrers(e)
      BY <2>2, <2>3 DEF Referrers, Counting, IInv, TypeOK
    <3>2. IsFiniteSet(Referrers(e))
      BY FewReferrers
    <3>3. Cardinality(Referrers(e) \ {w}) = Cardinality(Referrers(e)) - 1
      BY <3>1, <3>2, FS_RemoveElement
    <3>4. refs'[e] = refs[e] - 1
      BY <1>0, <2>2, <2>3
    <3> QED BY <1>0, <3>1, <3>3, <3>4
  <2>4. CASE entry[w] # e
    <3>1. Referrers(e)' = Referrers(e)
      BY <2>2, <2>4 DEF Referrers, Counting, IInv, TypeOK
    <3> QED BY <1>0, <2>2, <2>4, <3>1
  <2> QED BY <2>3, <2>4
<1>6. ASSUME NEW w \in Workers,
             CheckCount(w) \/ Recheck(w) \/ Delete(w) \/ Uncount(w)
      PROVE  refs'[e] = Cardinality(Referrers(e)')
  <2>1. PICK label \in PCs \ Counting : Goto(w, label)
    BY <1>6 DEF CheckCount, Recheck, Delete, Uncount, PCs, Counting
  <2>2. /\ pc' = [pc EXCEPT ![w] = label] /\ pc[w] \notin Counting /\ refs' = refs
        /\ \A v \in Workers : v # w => entry'[v] = entry[v]
    BY <1>6, <2>1, GotoTypes
       DEF CheckCount, Recheck, Delete, Uncount, mapVars, Counting, IInv
  <2>3. Referrers(e)' = Referrers(e)
    BY <2>1, <2>2 DEF Referrers, IInv, TypeOK
  <2> QED BY <1>0, <2>2, <2>3
<1> QED BY <1>1, <1>2, <1>3, <1>4, <1>5, <1>6 DEF Next, Release

\* acquireFileLock's promise that a concurrent eviction cannot take an entry
\* that "some goroutine is about to wait on" rests on the counts being right;
\* they are, as long as nothing is evicted.
THEOREM CountsOfReferences ==
  ASSUME Cardinality(Keys) <= HighWater
  PROVE  Spec => []RefsAccurate
<1>1. Init => RefsAccurate
  <2> SUFFICES ASSUME Init, NEW e \in Entries
               PROVE  refs[e] = Cardinality(Referrers(e))
    BY DEF RefsAccurate, Referrers, Counting
  <2>1. Referrers(e) = {}
    BY DEF Init, Referrers, Counting
  <2> QED BY <2>1, FS_EmptySet DEF Init
<1>2. IInv /\ RefsAccurate /\ [Next]_vars => RefsAccurate'
  BY RefsStep DEF RefsAccurate, Referrers, Counting
<1> QED BY <1>1, <1>2, InvAlways, PTL DEF Spec
-----------------------------------------------------------------------------
(* The number of entries, evictions included. *)

\* Between calls nobody refers to an entry, within one everybody does.
Referred == \A w \in Workers : pc[w] # "idle" => entry[w] \in Entries

CountInv == TypeOK /\ Referred /\ CountAccurate

LEMMA MoreSetsAreFinite ==
  IsFiniteSet(Overcounted) /\ Cardinality(Overcounted) \in Nat
<1>1. Overcounted \subseteq Workers
  BY DEF Overcounted
<1> QED BY <1>1, FileLocksAssumption, FS_Subset, FS_CardinalityType

\* What a step of w does to the three sets, by the places it goes from and to.
LEMMA CountSame ==
  ASSUME CountAccurate, UNCHANGED count, Present' = Present,
         Uncounted' = Uncounted, Overcounted' = Overcounted
  PROVE  CountAccurate'
BY DEF CountAccurate

LEMMA CountStep ==
  ASSUME CountInv, [Next]_vars
  PROVE  CountInv'
<1>1. CASE UNCHANGED vars
  <2>1. Present' = Present /\ Uncounted' = Uncounted /\ Overcounted' = Overcounted
    BY <1>1 DEF vars, mapVars, Present, Uncounted, Overcounted
  <2> QED BY <1>1, <2>1, CountSame DEF vars, mapVars, CountInv, TypeOK, Referred
<1>2. ASSUME NEW w \in Workers, NEW k \in Keys, Acquire(w, k)
      PROVE  CountInv'
  <2>0. /\ pc' = [pc EXCEPT ![w] = "addref"] /\ key' = [key EXCEPT ![w] = k]
        /\ pc[w] = "idle" /\ UNCHANGED <<count, crashed>>
    BY <1>2 DEF Acquire
  <2>1. Overcounted' = Overcounted
    BY <2>0 DEF CountInv, TypeOK, Overcounted
  <2>2. CASE /\ table[k] # None
             /\ entry' = [entry EXCEPT ![w] = table[k]]
             /\ stored' = [stored EXCEPT ![w] = FALSE]
             /\ UNCHANGED <<table, refs, locked>>
    <3>1. TypeOK' /\ Referred'
      BY <2>0, <2>2 DEF CountInv, TypeOK, Referred, PCs
    <3>2. Present' = Present /\ Uncounted' = Uncounted
      BY <2>0, <2>2 DEF CountInv, TypeOK, Present, Uncounted
    <3> QED BY <2>0, <2>1, <3>1, <3>2, CountSame DEF CountInv
  <2>3. ASSUME table[k] = None, NEW e \in Unused,
               /\ table' = [table EXCEPT ![k] = e]
               /\ refs' = [refs EXCEPT ![e] = 0]
               /\ locked' = locked \ {e}
               /\ entry' = [entry EXCEPT ![w] = e],
               stored' = [stored EXCEPT ![w] = TRUE]
        PROVE  CountInv'
    <3>0. e \in Entries /\ e # None
      BY FileLocksAssumption DEF Unused
    <3>1. TypeOK' /\ Referred'
      BY <2>0, <2>3, <3>0 DEF CountInv, TypeOK, Referred, PCs
    <3>2. Present' = Present \cup {k} /\ k \notin Present
      BY <2>3, <3>0 DEF CountInv, TypeOK, Present
    <3>3. Uncounted' = Uncounted \cup {w} /\ w \notin Uncounted
      BY <2>0, <2>3 DEF CountInv, TypeOK, Uncounted
    <3>4. /\ Cardinality(Present') = Cardinality(Present) + 1
          /\ Cardinality(Uncounted') = Cardinality(Uncounted) + 1
      BY <3>2, <3>3, SetsAreFinite, FS_AddElement
    <3>5. CountAccurate'
      BY <2>0, <2>1, <3>4, SetsAreFinite, MoreSetsAreFinite DEF CountInv, CountAccurate
    <3> QED BY <3>1, <3>5 DEF CountInv
  <2> QED BY <1>2, <2>2, <2>3 DEF Acquire, FindOrStore
<1>3. ASSUME NEW w \in Workers, AddRef(w)
      PROVE  CountInv'
  <2>1. /\ pc' = [pc EXCEPT ![w] = "count"] /\ entry' = entry /\ entry[w] \in Entries
        /\ pc[w] = "addref"
    BY <1>3 DEF AddRef, Goto, CountInv, Referred
  <2>2. refs' \in [Entries -> Int]
    BY <1>3, <2>1 DEF AddRef, RefTaken, CountInv, TypeOK
  <2>3. TypeOK' /\ Referred'
    BY <1>3, <2>1, <2>2 DEF AddRef, CountInv, TypeOK, Referred, PCs
  <2>4. Present' = Present /\ Uncounted' = Uncounted /\ Overcounted' = Overcounted
    BY <1>3, <2>1 DEF AddRef, CountInv, TypeOK, Present, Uncounted, Overcounted
  <2> QED BY <1>3, <2>3, <2>4, CountSame DEF AddRef, CountInv
<1>4. ASSUME NEW w \in Workers, Count(w)
      PROVE  CountInv'
  <2>1. /\ pc' = [pc EXCEPT ![w] = "lock"] /\ entry' = entry /\ pc[w] = "count"
        /\ UNCHANGED <<table, refs, locked, key, stored, crashed>>
    BY <1>4 DEF Count, Goto
  <2>2. count' \in Int
    BY <1>4 DEF Count, CountInv, TypeOK
  <2>3. TypeOK' /\ Referred'
    BY <2>1, <2>2 DEF CountInv, TypeOK, Referred, PCs
  <2>4. Present' = Present /\ Overcounted' = Overcounted
    BY <2>1 DEF CountInv, TypeOK, Present, Overcounted
  <2>5. CASE stored[w]
    <3>1. Uncounted' = Uncounted \ {w} /\ w \in Uncounted
      BY <2>1, <2>5 DEF CountInv, TypeOK, Uncounted
    <3>2. Cardinality(Uncounted') = Cardinality(Uncounted) - 1
      BY <3>1, SetsAreFinite, FS_RemoveElement
    <3>3. count' = count + 1
      BY <1>4, <2>5 DEF Count
    <3>4. CountAccurate'
      BY <2>4, <3>2, <3>3, SetsAreFinite, MoreSetsAreFinite DEF CountInv, CountAccurate
    <3> QED BY <2>3, <3>4 DEF CountInv
  <2>6. CASE ~stored[w]
    <3>1. Uncounted' = Uncounted /\ count' = count
      BY <1>4, <2>1, <2>6 DEF Count, CountInv, TypeOK, Uncounted
    <3> QED BY <2>3, <2>4, <3>1, CountSame DEF CountInv
  <2> QED BY <2>5, <2>6
<1>5. ASSUME NEW w \in Workers,
             Lock(w) \/ LoadAgain(w) \/ Unlock(w) \/ DropRef(w) \/ CheckCount(w)
               \/ Recheck(w)
      PROVE  CountInv'
  <2>1. PICK label \in PCs \ {"addref", "count", "uncount"} :
          pc' = [pc EXCEPT ![w] = label]
    BY <1>5 DEF Lock, LoadAgain, Unlock, DropRef, CheckCount, Recheck, Goto, PCs
  <2>2. /\ pc[w] \notin {"idle", "addref", "count", "uncount"}
        /\ UNCHANGED <<table, count, key, stored>>
    BY <1>5 DEF Lock, LoadAgain, Unlock, DropRef, CheckCount, Recheck, mapVars
  <2>3. entry[w] \in Entries
    BY <2>2 DEF CountInv, Referred
  <2>4. /\ entry' \in [Workers -> Entries \cup {None}]
        /\ \A v \in Workers : v # w => entry'[v] = entry[v]
        /\ label # "idle" => entry'[w] \in Entries
    <3>1. CASE LoadAgain(w) /\ table[key[w]] # None
      BY <2>2, <3>1 DEF LoadAgain, CountInv, TypeOK
    <3>2. CASE ~(LoadAgain(w) /\ table[key[w]] # None)
      <4>1. PICK l \in PCs : Goto(w, l)
        BY <1>5, <3>2
           DEF Lock, LoadAgain, Unlock, DropRef, CheckCount, Recheck, PCs
      <4>2. l = label
        BY <2>1, <4>1 DEF Goto, CountInv, TypeOK
      <4> QED BY <2>3, <4>1, <4>2, GotoTypes DEF CountInv, TypeOK
    <3> QED BY <3>1, <3>2
  <2>5. refs' \in [Entries -> Int]
    <3>1. DropRef(w) => refs' = [refs EXCEPT ![entry[w]] = @ - 1]
      BY DEF DropRef
    <3>2. ~DropRef(w) => refs' = refs
      BY <1>5 DEF Lock, LoadAgain, Unlock, CheckCount, Recheck, mapVars
    <3> QED BY <2>3, <3>1, <3>2 DEF CountInv, TypeOK
  <2>6. locked' \subseteq Entries /\ crashed' \in BOOLEAN
    BY <1>5, <2>3
       DEF Lock, LoadAgain, Unlock, Unlocked, DropRef, CheckCount, Recheck, mapVars,
           CountInv, TypeOK
  <2>7. TypeOK' /\ Referred'
    BY <2>1, <2>2, <2>4, <2>5, <2>6 DEF CountInv, TypeOK, Referred
  <2>8. Present' = Present /\ Uncounted' = Uncounted /\ Overcounted' = Overcounted
    BY <2>1, <2>2 DEF CountInv, TypeOK, Present, Uncounted, Overcounted
  <2> QED BY <2>2, <2>7, <2>8, CountSame DEF CountInv
<1>6. ASSUME NEW w \in Workers, Delete(w)
      PROVE  CountInv'
  <2>0. pc[w] = "delete" /\ entry[w] \in Entries /\ UNCHANGED <<refs, locked, count, key,
        stored, crashed>>
    BY <1>6 DEF Delete, CountInv, Referred
  <2>1. CASE Deletable(w)
    <3>1. /\ pc' = [pc EXCEPT ![w] = "uncount"] /\ entry' = entry
          /\ table' = [table EXCEPT ![key[w]] = None]
      BY <1>6, <2>1 DEF Delete, Goto
    <3>2. TypeOK' /\ Referred'
      BY <2>0, <3>1 DEF CountInv, TypeOK, Referred, PCs
    <3>3. Present' = Present \ {key[w]} /\ key[w] \in Present
      BY <2>0, <2>1, <3>1, FileLocksAssumption DEF CountInv, TypeOK, Present, Deletable
    <3>4. Overcounted' = Overcounted \cup {w} /\ w \notin Overcounted
      BY <2>0, <3>1 DEF CountInv, TypeOK, Overcounted
    <3>5. Uncounted' = Uncounted
      BY <2>0, <3>1 DEF CountInv, TypeOK, Uncounted
    <3>6. /\ Cardinality(Present') = Cardinality(Present) - 1
          /\ Cardinality(Overcounted') = Cardinality(Overcounted) + 1
      BY <3>3, <3>4, SetsAreFinite, MoreSetsAreFinite, FS_AddElement, FS_RemoveElement
    <3>7. CountAccurate'
      BY <2>0, <3>5, <3>6, SetsAreFinite, MoreSetsAreFinite DEF CountInv, CountAccurate
    <3> QED BY <3>2, <3>7 DEF CountInv
  <2>2. CASE ~Deletable(w)
    <3>1. /\ pc' = [pc EXCEPT ![w] = "idle"] /\ entry' = [entry EXCEPT ![w] = None]
          /\ table' = table
      BY <1>6, <2>2 DEF Delete, Goto
    <3>2. TypeOK' /\ Referred'
      BY <2>0, <3>1 DEF CountInv, TypeOK, Referred, PCs
    <3>3. Present' = Present /\ Uncounted' = Uncounted /\ Overcounted' = Overcounted
      BY <2>0, <3>1 DEF CountInv, TypeOK, Present, Uncounted, Overcounted
    <3> QED BY <2>0, <3>2, <3>3, CountSame DEF CountInv
  <2> QED BY <2>1, <2>2
<1>7. ASSUME NEW w \in Workers, Uncount(w)
      PROVE  CountInv'
  <2>1. /\ pc' = [pc EXCEPT ![w] = "idle"] /\ entry' = [entry EXCEPT ![w] = None]
        /\ pc[w] = "uncount" /\ count' = count - 1
        /\ UNCHANGED <<table, refs, locked, key, stored, crashed>>
    BY <1>7 DEF Uncount, Goto
  <2>2. TypeOK' /\ Referred'
    BY <2>1 DEF CountInv, TypeOK, Referred, PCs
  <2>3. Present' = Present /\ Uncounted' = Uncounted
    BY <2>1 DEF CountInv, TypeOK, Present, Uncounted
  <2>4. Overcounted' = Overcounted \ {w} /\ w \in Overcounted
    BY <2>1 DEF CountInv, TypeOK, Overcounted
  <2>5. Cardinality(Overcounted') = Cardinality(Overcounted) - 1
    BY <2>4, MoreSetsAreFinite, FS_RemoveElement
  <2>6. CountAccurate'
    BY <2>1, <2>3, <2>5, SetsAreFinite, MoreSetsAreFinite DEF CountInv, CountAccurate
  <2> QED BY <2>2, <2>6 DEF CountInv
<1> QED BY <1>1, <1>2, <1>3, <1>4, <1>5, <1>6, <1>7 DEF Next, Release

\* fileLocksN is the number of entries in the map up to the workers between an
\* access to the map and the one to the count, for every high-water mark and
\* however many entries are evicted, shared and stored again meanwhile.
THEOREM CountsOfEntries == Spec => []CountAccurate
<1>1. Init => CountInv
  <2> SUFFICES ASSUME Init PROVE CountInv
    OBVIOUS
  <2>1. Present = {} /\ Uncounted = {} /\ Overcounted = {}
    BY DEF Init, Present, Uncounted, Overcounted
  <2>2. CountAccurate
    BY <2>1, FS_EmptySet DEF Init, CountAccurate
  <2>3. TypeOK /\ Referred
    BY InitInv DEF IInv, Init, Referred
  <2> QED BY <2>2, <2>3 DEF CountInv
<1>2. CountInv /\ [Next]_vars => CountInv'
  BY CountStep
<1>3. CountInv => CountAccurate
  BY DEF CountInv
<1> QED BY <1>1, <1>2, <1>3, PTL DEF Spec
-----------------------------------------------------------------------------
(***************************************************************************)
(* Bounded.  Whoever leaves its entry in the map has read a count of       *)
(* HighWater at most.  The count is too low by the entries stored and not  *)
(* counted yet, one for each of the other workers at most (CountAccurate); *)
(* and if every other worker had stored an entry that is evicted already,  *)
(* the last eviction would have seen the count over the mark, where it     *)
(* stays (LoneKeeps).  So all the others but one can hide an entry that is *)
(* left.                                                                   *)
(***************************************************************************)

\* A worker attends to an entry of the map.
Attends(w) == entry[w] # None /\ \E k \in Keys : table[k] = entry[w]

\* The keys whose entries nobody attends to.
Left == {k \in Present : \A w \in Workers : entry[w] # table[k]}

\* The workers whose reference to e is counted but for the one whose lock it is.
Waiting(e) == {w \in Workers : entry[w] = e /\ pc[w] \in {"count", "lock", "dropref"}}

\* Everyone but w has still to count an entry, and that entry is evicted.
Lone(w) == \A v \in Workers \ {w} : v \in Uncounted /\ ~Attends(v)

Stations ==
  /\ OneKeyPerEntry
  /\ \A w \in Workers : pc[w] = "idle" => entry[w] = None
  /\ \A w \in Workers, k \in Keys :
       entry[w] # None /\ table[k] = entry[w] => key[w] = k
  /\ \A w \in Workers : pc[w] = "uncount" => ~Attends(w)
  /\ \A k \in Keys : table[k] \in locked => \E w \in Inside : entry[w] = table[k]

\* A reference is counted for everyone who waits, and one for a locked mutex:
\* that holds for evicted entries too, until an unlocked mutex is unlocked.
RefsHeld ==
  ~crashed => \A e \in Entries :
    refs[e] = Cardinality(Waiting(e)) + (IF e \in locked THEN 1 ELSE 0)

LeftFew == Cardinality(Left) <= HighWater + Spare

\* Who is about to evict the entry that alone can be uncounted and present has
\* seen a count that is still right.
Checked ==
  \A w \in Workers :
    /\ pc[w] \in {"recheck", "delete"}
    /\ \A v \in Workers \ {w} :
         v \in Uncounted /\ (Attends(v) => entry[v] = entry[w])
    => count > HighWater

\* Once all others are such workers, the count has been over the mark.
LoneKeeps ==
  Cardinality(Workers) > 1 =>
    \A w \in Workers : Lone(w) =>
      /\ count >= HighWater
      /\ pc[w] = "uncount" => count > HighWater
      /\ Attends(w) /\ w \notin Uncounted =>
           count > HighWater \/ Cardinality(Present) <= HighWater + Spare

MarkInv == CountInv /\ Stations /\ RefsHeld /\ LeftFew /\ Checked /\ LoneKeeps

LEMMA LeftIsFinite ==
  /\ IsFiniteSet(Left) /\ Cardinality(Left) \in Nat /\ Left \subseteq Present
  /\ Cardinality(Left) <= Cardinality(Present) /\ Cardinality(Present) \in Nat
  /\ Cardinality(Workers) \in Nat /\ Spare \in Nat
<1>1. Left \subseteq Present
  BY DEF Left
<1>2. Cardinality(Workers) \in Nat
  BY FileLocksAssumption, FS_CardinalityType
<1> QED BY <1>1, <1>2, SetsAreFinite, FS_Subset, FS_CardinalityType DEF Spare

\* The two ways of LoadOrStore.
Shares(w, k) ==
  /\ table[k] # None
  /\ entry' = [entry EXCEPT ![w] = table[k]]
  /\ stored' = [stored EXCEPT ![w] = FALSE]
  /\ UNCHANGED <<table, refs, locked>>

Stores(w, k, e) ==
  /\ e \in Unused /\ table[k] = None
  /\ table' = [table EXCEPT ![k] = e]
  /\ refs' = [refs EXCEPT ![e] = 0]
  /\ locked' = locked \ {e}
  /\ entry' = [entry EXCEPT ![w] = e]
  /\ stored' = [stored EXCEPT ![w] = TRUE]

LEMMA AcquireWays ==
  ASSUME NEW w \in Workers, NEW k \in Keys, Acquire(w, k)
  PROVE  /\ pc[w] = "idle" /\ pc' = [pc EXCEPT ![w] = "addref"]
         /\ key' = [key EXCEPT ![w] = k] /\ UNCHANGED <<count, crashed>>
         /\ Shares(w, k) \/ \E e \in Entries : Stores(w, k, e)
BY DEF Acquire, FindOrStore, Shares, Stores, Unused

LEMMA StationsStep ==
  ASSUME CountInv, Stations, [Next]_vars
  PROVE  Stations'
<1> USE FileLocksAssumption DEF CountInv
<1>1. CASE UNCHANGED vars
  BY <1>1 DEF vars, mapVars, Stations, OneKeyPerEntry, Attends, Inside
<1>2. ASSUME NEW w \in Workers, NEW k \in Keys, Acquire(w, k)
      PROVE  Stations'
  <2>0. /\ pc[w] = "idle" /\ entry[w] = None /\ pc' = [pc EXCEPT ![w] = "addref"]
        /\ key' = [key EXCEPT ![w] = k]
    BY <1>2, AcquireWays DEF Stations
  <2>1. CASE Shares(w, k)
    <3>1. \A l \in Keys : table[l] = table[k] => l = k
      BY <2>1 DEF Shares, Stations, OneKeyPerEntry
    <3>2. \A v \in Workers \ {w} : entry'[v] = entry[v] /\ key'[v] = key[v] /\ pc'[v] = pc[v]
      BY <2>0, <2>1 DEF Shares, TypeOK
    <3>3. entry'[w] = table[k] /\ key'[w] = k /\ pc'[w] = "addref"
          /\ table' = table /\ locked' = locked
      BY <2>0, <2>1 DEF Shares, TypeOK
    <3>4. Inside' = Inside /\ w \notin Inside
      BY <2>0, <3>2, <3>3 DEF Inside
    <3>5. \A l \in Keys : table'[l] \in locked' => \E v \in Inside' : entry'[v] = table'[l]
      BY <3>2, <3>3, <3>4 DEF Stations, Inside
    <3> QED BY <3>1, <3>2, <3>3, <3>5 DEF Stations, OneKeyPerEntry, Attends
  <2>2. ASSUME NEW e \in Entries, Stores(w, k, e)
        PROVE  Stations'
    <3>1. \A v \in Workers \ {w} : entry'[v] = entry[v] /\ key'[v] = key[v] /\ pc'[v] = pc[v]
      BY <2>0, <2>2 DEF Stores, TypeOK
    <3>2. entry'[w] = e /\ key'[w] = k /\ pc'[w] = "addref" /\ locked' = locked \ {e}
      BY <2>0, <2>2 DEF Stores, TypeOK
    <3>3. table'[k] = e /\ \A l \in Keys \ {k} : table'[l] = table[l] /\ table[l] # e
      BY <2>2 DEF Stores, Unused, TypeOK
    <3>4. \A v \in Workers : entry[v] # e
      BY <2>2 DEF Stores, Unused
    <3>5. Inside' = Inside /\ w \notin Inside
      BY <2>0, <3>1, <3>2 DEF Inside
    <3>6. \A l \in Keys : table'[l] \in locked' => \E v \in Inside' : entry'[v] = table'[l]
      BY <3>1, <3>2, <3>3, <3>5 DEF Stations, Inside
    <3>7. OneKeyPerEntry'
      BY <3>3 DEF Stations, OneKeyPerEntry
    <3> QED BY <3>1, <3>2, <3>3, <3>4, <3>6, <3>7 DEF Stations, Attends
  <2> QED BY <1>2, <2>1, <2>2, AcquireWays
<1>3. ASSUME NEW w \in Workers, AddRef(w) \/ Count(w)
      PROVE  Stations'
  <2>1. PICK label \in {"count", "lock"} : Goto(w, label)
    BY <1>3 DEF AddRef, Count
  <2>2. /\ pc' = [pc EXCEPT ![w] = label] /\ pc[w] \in {"addref", "count"}
        /\ UNCHANGED <<table, locked, key, entry>>
    BY <1>3, <2>1 DEF AddRef, Count, Goto
  <2>3. Inside' = Inside
    BY <2>2 DEF Inside, TypeOK
  <2> QED BY <2>2, <2>3 DEF Stations, OneKeyPerEntry, Attends, TypeOK
<1>4. ASSUME NEW w \in Workers, Lock(w)
      PROVE  Stations'
  <2>1. /\ pc' = [pc EXCEPT ![w] = "holding"] /\ locked' = locked \cup {entry[w]}
        /\ UNCHANGED <<table, key, entry>>
    BY <1>4 DEF Lock, Goto
  <2>2. Inside' = Inside \cup {w}
    BY <2>1 DEF Inside, TypeOK
  <2>3. \A l \in Keys : table'[l] \in locked' => \E v \in Inside' : entry'[v] = table'[l]
    BY <2>1, <2>2 DEF Stations
  <2> QED BY <2>1, <2>3 DEF Stations, OneKeyPerEntry, Attends, TypeOK
<1>5. ASSUME NEW w \in Workers, LoadAgain(w)
      PROVE  Stations'
  <2>0. pc[w] = "holding" /\ UNCHANGED <<table, locked, key>>
    BY <1>5 DEF LoadAgain, mapVars
  <2>1. CASE table[key[w]] = None
    <3>1. pc' = [pc EXCEPT ![w] = "idle"] /\ entry' = [entry EXCEPT ![w] = None]
      BY <1>5, <2>1 DEF LoadAgain, Goto
    <3>2. \A l \in Keys : table[l] # None => entry[w] # table[l]
      BY <2>1 DEF Stations
    <3>3. \A l \in Keys : table'[l] \in locked' => \E v \in Inside' : entry'[v] = table'[l]
      <4> SUFFICES ASSUME NEW l \in Keys, table[l] \in locked
                   PROVE  \E v \in Inside' : entry'[v] = table[l]
        BY <2>0
      <4>1. PICK v \in Inside : entry[v] = table[l]
        BY DEF Stations
      <4>2. v # w
        BY <3>2, <4>1 DEF TypeOK
      <4> QED BY <3>1, <4>1, <4>2 DEF Inside, TypeOK
    <3> QED BY <2>0, <3>1, <3>3 DEF Stations, OneKeyPerEntry, Attends, TypeOK
  <2>2. CASE table[key[w]] # None
    <3>1. pc' = [pc EXCEPT ![w] = "unlock"] /\ entry' = [entry EXCEPT ![w] = table[key[w]]]
      BY <1>5, <2>2 DEF LoadAgain
    <3>2. Inside' = Inside /\ w \in Inside
      BY <2>0, <3>1 DEF Inside, TypeOK
    <3>3. \A l \in Keys : entry[w] = table[l] => l = key[w]
      BY <2>0, <2>2 DEF Stations, Referred, OneKeyPerEntry
    <3>4. \A l \in Keys : table'[l] \in locked' => \E v \in Inside' : entry'[v] = table'[l]
      <4> SUFFICES ASSUME NEW l \in Keys, table[l] \in locked
                   PROVE  \E v \in Inside : entry'[v] = table[l]
        BY <2>0, <3>2
      <4>1. PICK v \in Inside : entry[v] = table[l]
        BY DEF Stations
      <4> QED BY <3>1, <3>3, <4>1 DEF Inside, TypeOK
    <3>5. \A v \in Workers, l \in Keys :
            entry'[v] # None /\ table[l] = entry'[v] => key[v] = l
      BY <2>2, <3>1 DEF Stations, OneKeyPerEntry, TypeOK
    <3> QED BY <2>0, <3>1, <3>4, <3>5 DEF Stations, OneKeyPerEntry, Attends, TypeOK
  <2> QED BY <2>1, <2>2
<1>6. ASSUME NEW w \in Workers, Unlock(w)
      PROVE  Stations'
  <2>1. /\ pc' = [pc EXCEPT ![w] = "dropref"] /\ locked' = locked \ {entry[w]}
        /\ UNCHANGED <<table, key, entry>>
    BY <1>6 DEF Unlock, Unlocked, Goto
  <2>2. Inside' = Inside \ {w}
    BY <2>1 DEF Inside, TypeOK
  <2>3. \A l \in Keys : table'[l] \in locked' => \E v \in Inside' : entry'[v] = table'[l]
    BY <2>1, <2>2 DEF Stations
  <2> QED BY <2>1, <2>3 DEF Stations, OneKeyPerEntry, Attends, TypeOK
<1>7. ASSUME NEW w \in Workers, DropRef(w) \/ CheckCount(w) \/ Recheck(w) \/ Uncount(w)
      PROVE  Stations'
  <2>1. PICK label \in {"idle", "checkcount", "recheck", "delete"} : Goto(w, label)
    BY <1>7 DEF DropRef, CheckCount, Recheck, Uncount
  <2>2. /\ pc' = [pc EXCEPT ![w] = label] /\ UNCHANGED <<table, locked, key>>
        /\ pc[w] \notin {"holding", "unlock"}
        /\ entry' = IF label = "idle" THEN [entry EXCEPT ![w] = None] ELSE entry
    BY <1>7, <2>1 DEF DropRef, CheckCount, Recheck, Uncount, Goto, mapVars
  <2>3. Inside' = Inside /\ w \notin Inside
    BY <2>2 DEF Inside, TypeOK
  <2>4. \A l \in Keys : table'[l] \in locked' => \E v \in Inside' : entry'[v] = table'[l]
    BY <2>2, <2>3 DEF Stations, Inside, TypeOK
  <2> QED BY <2>2, <2>4 DEF Stations, OneKeyPerEntry, Attends, TypeOK
<1>8. ASSUME NEW w \in Workers, Delete(w)
      PROVE  Stations'
  <2>0. pc[w] = "delete" /\ UNCHANGED <<locked, key>> /\ entry[w] \in Entries
    BY <1>8 DEF Delete, Referred
  <2>1. CASE Deletable(w)
    <3>1. /\ pc' = [pc EXCEPT ![w] = "uncount"] /\ entry' = entry
          /\ table' = [table EXCEPT ![key[w]] = None]
      BY <1>8, <2>1 DEF Delete, Goto
    <3>2. Inside' = Inside
      BY <2>0, <3>1 DEF Inside, TypeOK
    <3>3. \A l \in Keys : table'[l] # None => table'[l] = table[l] /\ l # key[w]
      BY <3>1 DEF TypeOK
    <3>4. \A l \in Keys : table'[l] # None => table'[l] # entry[w]
      BY <2>0, <2>1, <3>3 DEF Deletable, Stations, OneKeyPerEntry, TypeOK
    <3>5. \A l \in Keys : table'[l] \in locked' => \E v \in Inside' : entry'[v] = table'[l]
      BY <2>0, <3>1, <3>2, <3>3 DEF Stations, TypeOK
    <3>6. OneKeyPerEntry'
      BY <3>3 DEF Stations, OneKeyPerEntry
    <3>7. \A v \in Workers : pc'[v] = "uncount" => ~Attends(v)'
      <4> SUFFICES ASSUME NEW v \in Workers, pc'[v] = "uncount", entry[v] # None,
                          NEW l \in Keys, table'[l] = entry[v]
                   PROVE  FALSE
        BY <3>1 DEF Attends
      <4>1. CASE v = w
        BY <3>4, <4>1
      <4>2. CASE v # w
        BY <3>1, <3>3, <4>2 DEF Stations, Attends, TypeOK
      <4> QED BY <4>1, <4>2
    <3> QED BY <2>0, <3>1, <3>3, <3>5, <3>6, <3>7 DEF Stations, TypeOK
  <2>2. CASE ~Deletable(w)
    <3>1. /\ pc' = [pc EXCEPT ![w] = "idle"] /\ entry' = [entry EXCEPT ![w] = None]
          /\ table' = table
      BY <1>8, <2>2 DEF Delete, Goto
    <3>2. Inside' = Inside /\ w \notin Inside
      BY <2>0, <3>1 DEF Inside, TypeOK
    <3>3. \A l \in Keys : table'[l] \in locked' => \E v \in Inside' : entry'[v] = table'[l]
      BY <2>0, <3>1, <3>2 DEF Stations, Inside, TypeOK
    <3> QED BY <2>0, <3>1, <3>3 DEF Stations, OneKeyPerEntry, Attends, TypeOK
  <2> QED BY <2>1, <2>2
<1> QED BY <1>1, <1>2, <1>3, <1>4, <1>5, <1>6, <1>7, <1>8 DEF Next, Release

LEMMA FewWaiting ==
  ASSUME NEW e \in Entries
  PROVE  IsFiniteSet(Waiting(e)) /\ Cardinality(Waiting(e)) \in Nat
<1>1. Waiting(e) \subseteq Workers
  BY DEF Waiting
<1> QED BY <1>1, FileLocksAssumption, FS_Subset, FS_CardinalityType

LEMMA RefsHeldStep ==
  ASSUME CountInv, Stations, RefsHeld, [Next]_vars
  PROVE  RefsHeld'
<1> SUFFICES ASSUME ~crashed', NEW e \in Entries
             PROVE  refs'[e] = Cardinality(Waiting(e)') + (IF e \in locked' THEN 1 ELSE 0)
  BY DEF RefsHeld, Waiting
<1> USE DEF CountInv
<1>0. /\ IsFiniteSet(Waiting(e)) /\ Cardinality(Waiting(e)) \in Nat
      /\ refs \in [Entries -> Int] /\ None \notin Entries
  BY FewWaiting, FileLocksAssumption DEF TypeOK
<1>1. CASE UNCHANGED vars
  BY <1>1 DEF vars, mapVars, RefsHeld, Waiting
<1> SUFFICES ASSUME ~crashed, refs[e] = Cardinality(Waiting(e)) + (IF e \in locked THEN 1 ELSE 0)
             PROVE  refs'[e] = Cardinality(Waiting(e)') + (IF e \in locked' THEN 1 ELSE 0)
  BY <1>1 DEF Next, RefsHeld
<1>2. ASSUME NEW w \in Workers, NEW k \in Keys, Acquire(w, k)
      PROVE  refs'[e] = Cardinality(Waiting(e)') + (IF e \in locked' THEN 1 ELSE 0)
  <2>0. pc[w] = "idle" /\ pc' = [pc EXCEPT ![w] = "addref"]
    BY <1>2, AcquireWays
  <2>1. CASE Shares(w, k)
    <3>1. Waiting(e)' = Waiting(e)
      BY <2>0, <2>1 DEF Waiting, Shares, TypeOK
    <3> QED BY <2>1, <3>1 DEF Shares
  <2>2. ASSUME NEW f \in Entries, Stores(w, k, f)
        PROVE  refs'[e] = Cardinality(Waiting(e)') + (IF e \in locked' THEN 1 ELSE 0)
    <3>1. Waiting(e)' = Waiting(e)
      BY <2>0, <2>2 DEF Waiting, Stores, TypeOK
    <3>2. e = f => Waiting(e) = {}
      BY <2>2 DEF Stores, Unused, Waiting
    <3>3. refs' = [refs EXCEPT ![f] = 0] /\ locked' = locked \ {f}
      BY <2>2 DEF Stores
    <3> QED BY <1>0, <3>1, <3>2, <3>3, FS_EmptySet
  <2> QED BY <1>2, <2>1, <2>2, AcquireWays
<1>3. ASSUME NEW w \in Workers, AddRef(w)
      PROVE  refs'[e] = Cardinality(Waiting(e)') + (IF e \in locked' THEN 1 ELSE 0)
  <2>1. /\ pc' = [pc EXCEPT ![w] = "count"] /\ entry' = entry /\ pc[w] = "addref"
        /\ refs' = [refs EXCEPT ![entry[w]] = refs[entry[w]] + 1] /\ locked' = locked
    BY <1>3 DEF AddRef, RefTaken, Goto
  <2>2. CASE entry[w] = e
    <3>1. Waiting(e)' = Waiting(e) \cup {w} /\ w \notin Waiting(e)
      BY <2>1, <2>2 DEF Waiting, TypeOK
    <3>2. Cardinality(Waiting(e)') = Cardinality(Waiting(e)) + 1
      BY <1>0, <3>1, FS_AddElement
    <3>3. refs'[e] = refs[e] + 1
      BY <1>0, <2>1, <2>2
    <3> QED BY <1>0, <2>1, <3>2, <3>3
  <2>3. CASE entry[w] # e
    <3>1. Waiting(e)' = Waiting(e)
      BY <2>1, <2>3 DEF Waiting, TypeOK
    <3>2. refs'[e] = refs[e]
      BY <1>0, <2>1, <2>3
    <3> QED BY <2>1, <3>1, <3>2
  <2> QED BY <2>2, <2>3
<1>4. ASSUME NEW w \in Workers, Lock(w)
      PROVE  refs'[e] = Cardinality(Waiting(e)') + (IF e \in locked' THEN 1 ELSE 0)
  <2>1. /\ pc' = [pc EXCEPT ![w] = "holding"] /\ entry' = entry /\ pc[w] = "lock"
        /\ refs' = refs /\ locked' = locked \cup {entry[w]} /\ entry[w] \notin locked
    BY <1>4 DEF Lock, Goto
  <2>2. CASE entry[w] = e
    <3>1. Waiting(e)' = Waiting(e) \ {w} /\ w \in Waiting(e)
      BY <2>1, <2>2 DEF Waiting, TypeOK
    <3>2. Cardinality(Waiting(e)') = Cardinality(Waiting(e)) - 1
      BY <1>0, <3>1, FS_RemoveElement
    <3> QED BY <1>0, <2>1, <2>2, <3>2
  <2>3. CASE entry[w] # e
    <3>1. Waiting(e)' = Waiting(e)
      BY <2>1, <2>3 DEF Waiting, TypeOK
    <3> QED BY <2>1, <2>3, <3>1
  <2> QED BY <2>2, <2>3
<1>5. ASSUME NEW w \in Workers, LoadAgain(w)
      PROVE  refs'[e] = Cardinality(Waiting(e)') + (IF e \in locked' THEN 1 ELSE 0)
  <2>1. /\ pc[w] = "holding" /\ refs' = refs /\ locked' = locked
        /\ \E label \in {"idle", "unlock"} : pc' = [pc EXCEPT ![w] = label]
        /\ \A v \in Workers \ {w} : entry'[v] = entry[v]
    BY <1>5 DEF LoadAgain, mapVars, Goto, TypeOK
  <2>2. Waiting(e)' = Waiting(e)
    BY <2>1 DEF Waiting, TypeOK
  <2> QED BY <2>1, <2>2
<1>6. ASSUME NEW w \in Workers, Unlock(w)
      PROVE  refs'[e] = Cardinality(Waiting(e)') + (IF e \in locked' THEN 1 ELSE 0)
  <2>1. /\ pc' = [pc EXCEPT ![w] = "dropref"] /\ entry' = entry /\ pc[w] = "unlock"
        /\ refs' = refs /\ locked' = locked \ {entry[w]} /\ entry[w] \in locked
    BY <1>6 DEF Unlock, Unlocked, Goto
  <2>2. CASE entry[w] = e
    <3>1. Waiting(e)' = Waiting(e) \cup {w} /\ w \notin Waiting(e)
      BY <2>1, <2>2 DEF Waiting, TypeOK
    <3>2. Cardinality(Waiting(e)') = Cardinality(Waiting(e)) + 1
      BY <1>0, <3>1, FS_AddElement
    <3> QED BY <1>0, <2>1, <2>2, <3>2
  <2>3. CASE entry[w] # e
    <3>1. Waiting(e)' = Waiting(e)
      BY <2>1, <2>3 DEF Waiting, TypeOK
    <3> QED BY <2>1, <2>3, <3>1
  <2> QED BY <2>2, <2>3
<1>7. ASSUME NEW w \in Workers, DropRef(w)
      PROVE  refs'[e] = Cardinality(Waiting(e)') + (IF e \in locked' THEN 1 ELSE 0)
  <2>0. PICK label \in {"idle", "checkcount"} : Goto(w, label)
    BY <1>7 DEF DropRef
  <2>1. /\ pc' = [pc EXCEPT ![w] = label] /\ pc[w] = "dropref"
        /\ refs' = [refs EXCEPT ![entry[w]] = refs[entry[w]] - 1] /\ locked' = locked
        /\ \A v \in Workers \ {w} : entry'[v] = entry[v]
    BY <1>7, <2>0 DEF DropRef, Goto, TypeOK
  <2>2. CASE entry[w] = e
    <3>1. Waiting(e)' = Waiting(e) \ {w} /\ w \in Waiting(e)
      BY <2>1, <2>2 DEF Waiting, TypeOK
    <3>2. Cardinality(Waiting(e)') = Cardinality(Waiting(e)) - 1
      BY <1>0, <3>1, FS_RemoveElement
    <3>3. refs'[e] = refs[e] - 1
      BY <1>0, <2>1, <2>2
    <3> QED BY <1>0, <2>1, <3>2, <3>3
  <2>3. CASE entry[w] # e
    <3>1. Waiting(e)' = Waiting(e)
      BY <2>1, <2>3 DEF Waiting, TypeOK
    <3>2. refs'[e] = refs[e]
      BY <1>0, <2>1, <2>3
    <3> QED BY <2>1, <3>1, <3>2
  <2> QED BY <2>2, <2>3
<1>8. ASSUME NEW w \in Workers,
             Count(w) \/ CheckCount(w) \/ Recheck(w) \/ Delete(w) \/ Uncount(w)
      PROVE  refs'[e] = Cardinality(Waiting(e)') + (IF e \in locked' THEN 1 ELSE 0)
  <2>1. PICK label \in {"idle", "lock", "recheck", "delete", "uncount"} : Goto(w, label)
    BY <1>8 DEF Count, CheckCount, Recheck, Delete, Uncount
  <2>2. /\ pc' = [pc EXCEPT ![w] = label] /\ refs' = refs /\ locked' = locked
        /\ IF pc[w] = "count" THEN label = "lock" ELSE label # "lock"
        /\ pc[w] \notin {"lock", "dropref"}
    BY <1>8, <2>1
       DEF Count, CheckCount, Recheck, Delete, Uncount, Goto, mapVars, TypeOK
  <2>3. \A v \in Workers : (v # w \/ pc[w] = "count") => entry'[v] = entry[v]
    BY <2>1, <2>2 DEF Goto, TypeOK
  <2>4. Waiting(e)' = Waiting(e)
    BY <2>2, <2>3 DEF Waiting, TypeOK
  <2> QED BY <2>2, <2>4
<1> QED BY <1>1, <1>2, <1>3, <1>4, <1>5, <1>6, <1>7, <1>8 DEF Next, Release

\* An entry of the map whose count is not 0 has somebody who counts.
LEMMA SomebodyCounts ==
  ASSUME CountInv, Stations, RefsHeld, ~crashed,
         NEW k \in Keys, table[k] # None, refs[table[k]] # 0
  PROVE  \E v \in Workers :
           /\ entry[v] = table[k]
           /\ pc[v] \in {"count", "lock", "holding", "unlock", "dropref"}
<1>1. table[k] \in Entries
  BY DEF CountInv, TypeOK
<1>2. CASE table[k] \in locked
  BY <1>2 DEF Stations, Inside
<1>3. CASE table[k] \notin locked
  <2>1. Cardinality(Waiting(table[k])) # 0
    BY <1>1, <1>3 DEF RefsHeld
  <2>2. Waiting(table[k]) # {}
    BY <2>1, FS_EmptySet
  <2> QED BY <2>2 DEF Waiting
<1> QED BY <1>2, <1>3

\* After DropRef, too.
LEMMA SomebodyElse ==
  ASSUME CountInv, Stations, RefsHeld, ~crashed, NEW w \in Workers, pc[w] = "dropref",
         NEW k \in Keys, table[k] = entry[w], refs[entry[w]] # 1
  PROVE  \E v \in Workers \ {w} : entry[v] = entry[w]
<1>1. entry[w] \in Entries
  BY DEF CountInv, Referred
<1>2. CASE entry[w] \in locked
  BY <1>2 DEF Stations, Inside
<1>3. CASE entry[w] \notin locked
  <2>1. Cardinality(Waiting(entry[w])) # 1
    BY <1>1, <1>3 DEF RefsHeld
  <2>2. w \in Waiting(entry[w])
    BY DEF Waiting
  <2>3. Waiting(entry[w]) # {w}
    BY <2>1, FS_Singleton
  <2>4. PICK v \in Waiting(entry[w]) : v # w
    BY <2>2, <2>3
  <2> QED BY <2>4 DEF Waiting
<1> QED BY <1>2, <1>3

\* What the entries nobody attends to depend on.
LEMMA LeftShrinks ==
  ASSUME LeftFew, Left' \subseteq Left
  PROVE  LeftFew'
<1>1. /\ IsFiniteSet(Left) /\ Cardinality(Left) \in Nat /\ Spare \in Nat /\ HighWater \in Nat
  BY LeftIsFinite, FileLocksAssumption
<1>2. Cardinality(Left') <= Cardinality(Left) /\ Cardinality(Left') \in Nat
  BY <1>1, FS_Subset, FS_CardinalityType
<1>3. LeftFew' <=> Cardinality(Left') <= HighWater + Spare
  BY DEF LeftFew, Spare
<1> QED BY <1>1, <1>2, <1>3 DEF LeftFew

\* A worker finds the count at the mark or below and leaves its entry alone.
LEMMA LeavesAlone ==
  ASSUME MarkInv, NEW w \in Workers, pc[w] = "checkcount", count <= HighWater
  PROVE  Cardinality({k \in Present : \A v \in Workers \ {w} : entry[v] # table[k]})
           <= HighWater + Spare
<1> DEFINE L == {k \in Present : \A v \in Workers \ {w} : entry[v] # table[k]}
<1> USE DEF MarkInv, CountInv
<1>0. /\ IsFiniteSet(Present) /\ Cardinality(Present) \in Nat /\ HighWater \in Nat
      /\ Cardinality(Workers) \in Nat /\ Spare \in Nat /\ IsFiniteSet(Workers)
      /\ Cardinality(Uncounted) \in Nat /\ Cardinality(Overcounted) \in Nat /\ count \in Int
  BY LeftIsFinite, SetsAreFinite, MoreSetsAreFinite, FileLocksAssumption DEF TypeOK
<1>1. /\ L \subseteq Present /\ IsFiniteSet(L) /\ Cardinality(L) \in Nat
      /\ Cardinality(L) <= Cardinality(Present)
  BY <1>0, FS_Subset, FS_CardinalityType
<1>2. Cardinality(Present) <= HighWater + Cardinality(Uncounted)
  BY <1>0 DEF CountAccurate
<1>3. /\ IsFiniteSet(Workers \ {w})
      /\ Cardinality(Workers \ {w}) = Cardinality(Workers) - 1
  BY <1>0, FS_RemoveElement
<1>4. Uncounted \subseteq Workers \ {w}
  BY DEF Uncounted
<1>5. Cardinality(Uncounted) <= Cardinality(Workers) - 1
  BY <1>3, <1>4, FS_Subset
<1>6. CASE Cardinality(Workers) <= 1
  BY <1>0, <1>1, <1>2, <1>5, <1>6 DEF Spare
<1>7. ASSUME Cardinality(Workers) > 1, NEW v \in Workers \ {w}, v \notin Uncounted
      PROVE  Cardinality(L) <= HighWater + Spare
  <2>0. /\ IsFiniteSet((Workers \ {w}) \ {v})
        /\ Cardinality((Workers \ {w}) \ {v}) = Cardinality(Workers \ {w}) - 1
    BY <1>3, <1>7, FS_RemoveElement
  <2>1. /\ IsFiniteSet((Workers \ {w}) \ {v})
        /\ Cardinality((Workers \ {w}) \ {v}) = Cardinality(Workers) - 2
    BY <1>0, <1>3, <2>0
  <2>2. Uncounted \subseteq (Workers \ {w}) \ {v}
    BY <1>4, <1>7
  <2>3. Cardinality(Uncounted) <= Cardinality(Workers) - 2
    BY <2>1, <2>2, FS_Subset
  <2> QED BY <1>0, <1>1, <1>2, <1>7, <2>3 DEF Spare
<1>8. ASSUME Cardinality(Workers) > 1, NEW v \in Workers \ {w}, Attends(v)
      PROVE  Cardinality(L) <= HighWater + Spare
  <2>1. PICK k \in Keys : table[k] = entry[v] /\ entry[v] # None
    BY <1>8 DEF Attends
  <2>2. k \in Present /\ k \notin L
    BY <2>1 DEF Present
  <2>3. /\ IsFiniteSet(Present \ {k})
        /\ Cardinality(Present \ {k}) = Cardinality(Present) - 1
    BY <1>0, <2>2, FS_RemoveElement
  <2>4. L \subseteq Present \ {k}
    BY <2>2
  <2>5. Cardinality(L) <= Cardinality(Present) - 1
    BY <2>3, <2>4, FS_Subset
  <2> QED BY <1>0, <1>1, <1>2, <1>5, <1>8, <2>5 DEF Spare
<1>9. CASE Cardinality(Workers) > 1 /\ Lone(w) /\ ~Attends(w)
  <2>1. L = Left
    BY <1>9 DEF Left, Attends, Present
  <2> QED BY <2>1 DEF LeftFew
<1>10. CASE Cardinality(Workers) > 1 /\ Lone(w) /\ Attends(w)
  <2>1. w \notin Uncounted
    BY DEF Uncounted
  <2>2. Cardinality(Present) <= HighWater + Spare
    BY <1>0, <1>10, <2>1 DEF LoneKeeps
  <2> QED BY <1>0, <1>1, <2>2
<1>11. Cardinality(Workers) > 1 \/ Cardinality(Workers) <= 1
  BY <1>0
<1> QED BY <1>6, <1>7, <1>8, <1>9, <1>10, <1>11 DEF Lone

LEMMA LeftStep ==
  ASSUME MarkInv, [Next]_vars
  PROVE  LeftFew'
<1> USE FileLocksAssumption DEF MarkInv, CountInv
<1>1. CASE UNCHANGED vars
  <2>1. Left' = Left
    BY <1>1 DEF vars, mapVars, Left, Present
  <2> QED BY <2>1, LeftShrinks
<1>2. ASSUME NEW w \in Workers, NEW k \in Keys, Acquire(w, k)
      PROVE  LeftFew'
  <2>0. entry[w] = None
    BY <1>2, AcquireWays DEF Stations
  <2>1. CASE Shares(w, k)
    <3>1. Left' \subseteq Left
      BY <2>0, <2>1 DEF Shares, Left, Present, TypeOK
    <3> QED BY <3>1, LeftShrinks
  <2>2. ASSUME NEW e \in Entries, Stores(w, k, e)
        PROVE  LeftFew'
    <3>1. Left' \subseteq Left
      BY <2>0, <2>2 DEF Stores, Left, Present, TypeOK
    <3> QED BY <3>1, LeftShrinks
  <2> QED BY <1>2, <2>1, <2>2, AcquireWays
<1>3. ASSUME NEW w \in Workers, AddRef(w) \/ Count(w) \/ Lock(w) \/ Unlock(w)
      PROVE  LeftFew'
  <2>1. Left' = Left
    BY <1>3 DEF AddRef, Count, Lock, Unlock, Goto, Left, Present
  <2> QED BY <2>1, LeftShrinks
<1>4. ASSUME NEW w \in Workers, LoadAgain(w)
      PROVE  LeftFew'
  <2>1. /\ table' = table /\ entry[w] # None
        /\ \/ table[key[w]] = None /\ entry' = [entry EXCEPT ![w] = None]
           \/ entry' = [entry EXCEPT ![w] = table[key[w]]]
    BY <1>4 DEF LoadAgain, Goto, mapVars, Referred
  <2>2. \A l \in Keys : table[l] = entry[w] => l = key[w]
    BY <2>1 DEF Stations
  <2>3. Left' \subseteq Left
    BY <2>1, <2>2 DEF Left, Present, TypeOK
  <2> QED BY <2>3, LeftShrinks
<1>5. ASSUME NEW w \in Workers, DropRef(w) \/ Recheck(w), ~crashed
      PROVE  LeftFew'
  <2>0. /\ table' = table /\ entry[w] \in Entries
        /\ \/ entry' = entry
           \/ entry' = [entry EXCEPT ![w] = None] /\ pc[w] = "dropref" /\ refs[entry[w]] # 1
           \/ entry' = [entry EXCEPT ![w] = None] /\ pc[w] = "recheck" /\ refs[entry[w]] # 0
    <3>1. pc[w] \in {"dropref", "recheck"} /\ table' = table /\ entry[w] \in Entries
      BY <1>5 DEF DropRef, Recheck, mapVars, Referred
    <3>2. CASE DropRef(w)
      BY <3>1, <3>2 DEF DropRef, Goto, TypeOK
    <3>3. CASE Recheck(w)
      BY <3>1, <3>3 DEF Recheck, Goto
    <3> QED BY <1>5, <3>1, <3>2, <3>3
  <2>1. CASE entry' = entry
    <3>1. Left' = Left
      BY <2>0, <2>1 DEF Left, Present
    <3> QED BY <3>1, LeftShrinks
  <2>2. CASE entry' = [entry EXCEPT ![w] = None] /\ entry' # entry
    <3>1. \A k \in Keys : table[k] = entry[w] => \E v \in Workers \ {w} : entry[v] = entry[w]
      BY <1>5, <2>0, <2>2, SomebodyCounts, SomebodyElse
    <3>2. Left' \subseteq Left
      BY <2>0, <2>2, <3>1 DEF Left, Present, TypeOK
    <3> QED BY <3>2, LeftShrinks
  <2> QED BY <2>0, <2>1, <2>2
<1>6. ASSUME NEW w \in Workers, CheckCount(w)
      PROVE  LeftFew'
  <2>0. pc[w] = "checkcount" /\ table' = table
    BY <1>6 DEF CheckCount, mapVars
  <2>1. CASE OverHighWater
    <3>1. Left' = Left
      BY <1>6, <2>0, <2>1 DEF CheckCount, Goto, Left, Present
    <3> QED BY <3>1, LeftShrinks
  <2>2. CASE ~OverHighWater
    <3>1. entry' = [entry EXCEPT ![w] = None]
      BY <1>6, <2>2 DEF CheckCount, Goto
    <3>2. Left' = {k \in Present : \A v \in Workers \ {w} : entry[v] # table[k]}
      BY <2>0, <3>1 DEF Left, Present, TypeOK
    <3>3. count <= HighWater
      BY <2>2 DEF OverHighWater, TypeOK
    <3>4. Cardinality(Left') <= HighWater + Spare
      BY <2>0, <3>2, <3>3, LeavesAlone
    <3> QED BY <3>4 DEF LeftFew, Spare
  <2> QED BY <2>1, <2>2
<1>7. ASSUME NEW w \in Workers, Delete(w)
      PROVE  LeftFew'
  <2>0. entry[w] \in Entries
    BY <1>7 DEF Delete, Referred
  <2>1. CASE Deletable(w)
    <3>1. Left' \subseteq Left
      BY <1>7, <2>1 DEF Delete, Goto, Left, Present, TypeOK
    <3> QED BY <3>1, LeftShrinks
  <2>2. CASE ~Deletable(w)
    <3>1. table' = table /\ entry' = [entry EXCEPT ![w] = None]
      BY <1>7, <2>2 DEF Delete, Goto
    <3>2. \A k \in Keys : table[k] # entry[w]
      BY <2>0, <2>2 DEF Deletable, Stations
    <3>3. Left' \subseteq Left
      BY <3>1, <3>2 DEF Left, Present, TypeOK
    <3> QED BY <3>3, LeftShrinks
  <2> QED BY <2>1, <2>2
<1>8. ASSUME NEW w \in Workers, Uncount(w)
      PROVE  LeftFew'
  <2>1. table' = table /\ entry' = [entry EXCEPT ![w] = None] /\ pc[w] = "uncount"
    BY <1>8 DEF Uncount, Goto
  <2>2. \A k \in Keys : table[k] # None => table[k] # entry[w]
    BY <2>1 DEF Stations, Attends
  <2>3. Left' \subseteq Left
    BY <2>1, <2>2 DEF Left, Present, TypeOK
  <2> QED BY <2>3, LeftShrinks
<1> QED BY <1>1, <1>2, <1>3, <1>4, <1>5, <1>6, <1>7, <1>8 DEF Next, Release

LEMMA CheckedStep ==
  ASSUME MarkInv, [Next]_vars
  PROVE  Checked'
<1> USE DEF MarkInv, CountInv
<1>1. CASE UNCHANGED vars
  BY <1>1 DEF vars, mapVars, Checked, Uncounted, Attends
<1> SUFFICES ASSUME Next, NEW w \in Workers, pc'[w] \in {"recheck", "delete"},
                    \A v \in Workers \ {w} :
                      v \in Uncounted' /\ (Attends(v)' => entry'[v] = entry'[w])
             PROVE  count' > HighWater
  BY <1>1 DEF Checked
<1> DEFINE Others == \A v \in Workers \ {w} :
                       v \in Uncounted /\ (Attends(v) => entry[v] = entry[w])
<1>2. PICK u \in Workers : (\E k \in Keys : Acquire(u, k)) \/ AddRef(u) \/ Count(u)
                            \/ Lock(u) \/ Release(u)
  BY DEF Next
<1>3. CASE u = w
  <2>1. CheckCount(u) \/ Recheck(u)
    BY <1>2, <1>3
       DEF Release, Acquire, AddRef, Count, Lock, LoadAgain, Unlock, DropRef, Delete,
           Uncount, Goto, TypeOK
  <2>2. CASE CheckCount(u)
    BY <1>3, <2>2 DEF CheckCount, Goto, OverHighWater, mapVars, TypeOK
  <2>3. CASE Recheck(u)
    <3>1. /\ pc[w] = "recheck" /\ entry' = entry /\ UNCHANGED <<table, count, stored>>
          /\ \A v \in Workers \ {w} : pc'[v] = pc[v]
      BY <1>3, <2>3 DEF Recheck, Goto, mapVars, TypeOK
    <3>2. Others
      BY <3>1 DEF Uncounted, Attends
    <3> QED BY <3>1, <3>2 DEF Checked
  <2> QED BY <2>1, <2>2, <2>3
<1>4. CASE u # w
  <2>1. u \in Uncounted' /\ (Attends(u)' => entry'[u] = entry'[w])
    BY <1>4
  <2>2. pc'[u] \in {"addref", "count"} /\ stored'[u]
    BY <2>1 DEF Uncounted
  <2>3. (\E k \in Keys : Acquire(u, k)) \/ AddRef(u)
    BY <1>2, <2>2
       DEF Release, Count, Lock, LoadAgain, Unlock, DropRef, CheckCount, Recheck, Delete,
           Uncount, Goto, TypeOK
  <2>4. ASSUME NEW k \in Keys, Acquire(u, k)
        PROVE  FALSE
    <3>1. ~Shares(u, k)
      BY <2>2 DEF Shares, TypeOK
    <3>2. PICK e \in Entries : Stores(u, k, e)
      BY <2>4, <3>1, AcquireWays
    <3>3. Attends(u)' /\ entry'[u] = e /\ entry'[w] # e
      BY <1>4, <3>2, FileLocksAssumption DEF Stores, Unused, Attends, TypeOK
    <3> QED BY <2>1, <3>3
  <2>5. CASE AddRef(u)
    <3>1. /\ pc[w] = pc'[w] /\ entry' = entry /\ UNCHANGED <<table, count, stored>>
          /\ pc[u] = "addref" /\ \A v \in Workers \ {u} : pc'[v] = pc[v]
      BY <1>4, <2>5 DEF AddRef, Goto, TypeOK
    <3>2. Others
      BY <2>2, <3>1 DEF Uncounted, Attends
    <3> QED BY <3>1, <3>2 DEF Checked
  <2> QED BY <2>3, <2>4, <2>5
<1> QED BY <1>3, <1>4

\* When nobody else attends to an entry, a worker without one leaves them all.
LEMMA AllLeft ==
  ASSUME MarkInv, NEW w \in Workers, Lone(w), ~Attends(w)
  PROVE  Cardinality(Present) <= HighWater + Spare
<1>1. \A k \in Present : \A v \in Workers : entry[v] # table[k]
  BY DEF Lone, Attends, Present
<1>2. Left = Present
  BY <1>1 DEF Left
<1> QED BY <1>2 DEF MarkInv, LeftFew

\* Somebody becomes the last one by evicting an entry, and not by a step of
\* another worker.
LEMMA LoneBefore ==
  ASSUME MarkInv, Next, NEW w \in Workers, Lone(w)'
  PROVE  \/ \E u \in Workers \ {w} : AddRef(u) /\ Lone(w)
         \/ Delete(w) /\ Deletable(w)
         \/ /\ (\E k \in Keys : Acquire(w, k)) \/ AddRef(w) \/ Count(w) \/ Lock(w)
               \/ Release(w)
            /\ Lone(w) /\ (Delete(w) => ~Deletable(w))
<1> USE DEF MarkInv, CountInv
<1>2. PICK u \in Workers : (\E k \in Keys : Acquire(u, k)) \/ AddRef(u) \/ Count(u)
                            \/ Lock(u) \/ Release(u)
  BY DEF Next
<1>3. CASE u # w
  <2>1. u \in Uncounted' /\ ~Attends(u)'
    BY <1>3 DEF Lone
  <2>2. pc'[u] \in {"addref", "count"} /\ stored'[u]
    BY <2>1 DEF Uncounted
  <2>3. (\E k \in Keys : Acquire(u, k)) \/ AddRef(u)
    BY <1>2, <2>2
       DEF Release, Count, Lock, LoadAgain, Unlock, DropRef, CheckCount, Recheck, Delete,
           Uncount, Goto, TypeOK
  <2>4. ASSUME NEW k \in Keys, Acquire(u, k)
        PROVE  FALSE
    <3>1. ~Shares(u, k)
      BY <2>2 DEF Shares, TypeOK
    <3>2. PICK e \in Entries : Stores(u, k, e)
      BY <2>4, <3>1, AcquireWays
    <3>3. Attends(u)'
      BY <3>2, FileLocksAssumption DEF Stores, Attends, TypeOK
    <3> QED BY <2>1, <3>3
  <2>5. CASE AddRef(u)
    <3>1. /\ entry' = entry /\ UNCHANGED <<table, stored>>
          /\ pc[u] = "addref" /\ \A v \in Workers \ {u} : pc'[v] = pc[v]
      BY <1>3, <2>5 DEF AddRef, Goto, TypeOK
    <3>2. Lone(w)
      BY <2>2, <3>1 DEF Lone, Uncounted, Attends
    <3> QED BY <1>3, <2>5, <3>2
  <2> QED BY <2>3, <2>4, <2>5
<1>4. CASE u = w /\ ~(Delete(w) /\ Deletable(w))
  <2>1. \A v \in Workers \ {w} : entry'[v] = entry[v] /\ pc'[v] = pc[v] /\ stored'[v] = stored[v]
    <3>1. ASSUME NEW k \in Keys, Acquire(w, k)
          PROVE  \A v \in Workers \ {w} : entry'[v] = entry[v] /\ pc'[v] = pc[v]
                                          /\ stored'[v] = stored[v]
      BY <3>1, AcquireWays DEF Shares, Stores, TypeOK
    <3>2. CASE LoadAgain(w)
      BY <3>2 DEF LoadAgain, Goto, TypeOK
    <3>3. CASE AddRef(w) \/ Count(w) \/ Lock(w)
      BY <3>3 DEF AddRef, Count, Lock, Goto, TypeOK
    <3>4. CASE Unlock(w) \/ DropRef(w) \/ CheckCount(w) \/ Recheck(w)
      BY <3>4 DEF Unlock, DropRef, CheckCount, Recheck, Goto, TypeOK
    <3>5. CASE Delete(w) \/ Uncount(w)
      BY <3>5 DEF Delete, Uncount, Goto, TypeOK
    <3> QED BY <1>2, <1>4, <3>1, <3>2, <3>3, <3>4, <3>5 DEF Release
  <2>2. \A k \in Keys : table[k] # None => table'[k] = table[k]
    <3>1. ASSUME NEW k \in Keys, Acquire(w, k)
          PROVE  \A l \in Keys : table[l] # None => table'[l] = table[l]
      BY <3>1, AcquireWays DEF Shares, Stores, TypeOK
    <3>2. CASE ~\E k \in Keys : Acquire(w, k)
      BY <1>2, <1>4, <3>2
         DEF AddRef, Count, Lock, Release, LoadAgain, Unlock, DropRef, CheckCount,
             Recheck, Delete, Uncount, mapVars
    <3> QED BY <3>1, <3>2
  <2>3. Lone(w)
    <3> SUFFICES ASSUME NEW v \in Workers \ {w} PROVE v \in Uncounted /\ ~Attends(v)
      BY DEF Lone
    <3>1. v \in Uncounted' /\ ~Attends(v)'
      BY DEF Lone
    <3> QED BY <2>1, <2>2, <3>1 DEF Uncounted, Attends
  <2> QED BY <1>2, <1>4, <2>3
<1> QED BY <1>3, <1>4

LEMMA LoneStep ==
  ASSUME MarkInv, [Next]_vars
  PROVE  LoneKeeps'
<1> USE DEF MarkInv, CountInv
<1>0. /\ count \in Int /\ HighWater \in Nat /\ Spare \in Nat /\ Cardinality(Present) \in Nat
  BY LeftIsFinite, FileLocksAssumption DEF TypeOK
<1>1. CASE UNCHANGED vars
  <2>1. Present' = Present /\ Uncounted' = Uncounted /\ count' = count /\ pc' = pc
        /\ \A w \in Workers : (Lone(w)' <=> Lone(w)) /\ (Attends(w)' <=> Attends(w))
    BY <1>1 DEF vars, mapVars, Present, Uncounted, Lone, Attends
  <2> QED BY <2>1 DEF LoneKeeps, Spare
<1> DEFINE Keeps(w) ==
      /\ count >= HighWater
      /\ pc[w] = "uncount" => count > HighWater
      /\ Attends(w) /\ w \notin Uncounted =>
           count > HighWater \/ Cardinality(Present) <= HighWater + Spare
    After(w) ==
      /\ count' >= HighWater
      /\ pc'[w] = "uncount" => count' > HighWater
      /\ Attends(w)' /\ w \notin Uncounted' =>
           count' > HighWater \/ Cardinality(Present') <= HighWater + Spare
<1> SUFFICES ASSUME Next, Cardinality(Workers) > 1, NEW w \in Workers, Lone(w)'
             PROVE  After(w)
  BY <1>1 DEF LoneKeeps, Spare
<1>2. Lone(w) => Keeps(w)
  BY DEF LoneKeeps
<1>3. ASSUME NEW u \in Workers \ {w}, AddRef(u), Lone(w)
      PROVE  After(w)
  <2>1. UNCHANGED <<table, count, entry, stored>> /\ pc'[w] = pc[w]
    BY <1>3 DEF AddRef, Goto, TypeOK
  <2> QED BY <1>2, <1>3, <2>1 DEF Attends, Uncounted, Present
<1>4. CASE Delete(w) /\ Deletable(w)
  <2>1. /\ table' = [table EXCEPT ![key[w]] = None] /\ entry' = entry /\ count' = count
        /\ pc[w] = "delete" /\ pc' = [pc EXCEPT ![w] = "uncount"] /\ stored' = stored
        /\ table[key[w]] = entry[w] /\ entry[w] \in Entries
    BY <1>4 DEF Delete, Goto, Deletable, Referred
  <2>2. \A v \in Workers \ {w} : v \in Uncounted /\ (Attends(v) => entry[v] = entry[w])
    <3> SUFFICES ASSUME NEW v \in Workers \ {w}
                 PROVE  v \in Uncounted /\ (Attends(v) => entry[v] = entry[w])
      OBVIOUS
    <3>1. v \in Uncounted' /\ ~Attends(v)'
      BY DEF Lone
    <3> QED BY <2>1, <3>1 DEF Uncounted, Attends, TypeOK
  <2>3. count > HighWater
    BY <2>1, <2>2 DEF Checked
  <2> QED BY <1>0, <2>1, <2>3
<1>5. ASSUME NEW k \in Keys, Acquire(w, k), Lone(w)
      PROVE  After(w)
  <2>0. /\ pc'[w] = "addref" /\ count' = count /\ ~Attends(w)
    BY <1>5, AcquireWays DEF Stations, Attends, TypeOK
  <2>1. CASE Shares(w, k)
    <3>1. Present' = Present
      BY <2>1 DEF Shares, Present
    <3> QED BY <1>2, <1>5, <2>0, <3>1, AllLeft
  <2>2. ASSUME NEW e \in Entries, Stores(w, k, e)
        PROVE  After(w)
    <3>1. w \in Uncounted'
      BY <2>0, <2>2 DEF Stores, Uncounted, TypeOK
    <3> QED BY <1>2, <1>5, <2>0, <3>1
  <2> QED BY <1>5, <2>1, <2>2, AcquireWays
<1>6. ASSUME AddRef(w) \/ Lock(w) \/ Unlock(w), Lone(w)
      PROVE  After(w)
  <2>1. /\ UNCHANGED <<table, count, entry, stored>> /\ pc'[w] # "uncount"
        /\ pc[w] = "addref" <=> pc'[w] = "count"
        /\ pc[w] # "count" /\ pc'[w] # "addref"
    BY <1>6 DEF AddRef, Lock, Unlock, Goto, TypeOK
  <2> QED BY <1>2, <1>6, <2>1 DEF Attends, Uncounted, Present
<1>7. ASSUME Count(w), Lone(w)
      PROVE  After(w)
  <2>1. /\ UNCHANGED <<table, entry, stored>> /\ pc'[w] = "lock" /\ pc[w] = "count"
        /\ count' = IF stored[w] THEN count + 1 ELSE count
    BY <1>7 DEF Count, Goto, TypeOK
  <2> QED BY <1>0, <1>2, <1>7, <2>1 DEF Attends, Uncounted, Present
<1>8. ASSUME LoadAgain(w), Lone(w)
      PROVE  After(w)
  <2>1. /\ UNCHANGED <<table, count>> /\ pc'[w] # "uncount" /\ pc[w] = "holding"
        /\ Present' = Present
    BY <1>8 DEF LoadAgain, Goto, mapVars, Present, TypeOK
  <2>2. CASE Attends(w)
    <3>1. w \notin Uncounted
      BY <2>1 DEF Uncounted
    <3> QED BY <1>2, <1>8, <2>1, <2>2, <3>1
  <2>3. CASE ~Attends(w)
    BY <1>2, <1>8, <2>1, <2>3, AllLeft
  <2> QED BY <2>2, <2>3
<1>9. ASSUME DropRef(w) \/ CheckCount(w) \/ Recheck(w) \/ (Delete(w) /\ ~Deletable(w)),
             Lone(w)
      PROVE  After(w)
  <2>1. /\ UNCHANGED <<table, count>> /\ pc'[w] # "uncount"
        /\ entry'[w] = None \/ entry'[w] = entry[w]
        /\ pc[w] \notin {"addref", "count"}
    BY <1>9 DEF DropRef, CheckCount, Recheck, Delete, Goto, mapVars, TypeOK
  <2> QED BY <1>2, <1>9, <2>1 DEF Attends, Uncounted, Present
<1>10. ASSUME Uncount(w), Lone(w)
       PROVE  After(w)
  <2>1. /\ count' = count - 1 /\ pc[w] = "uncount" /\ pc'[w] = "idle" /\ entry'[w] = None
    BY <1>10 DEF Uncount, Goto, TypeOK
  <2> QED BY <1>0, <1>2, <1>10, <2>1 DEF Attends
<1> QED BY <1>3, <1>4, <1>5, <1>6, <1>7, <1>8, <1>9, <1>10, LoneBefore DEF Release

\* releaseFileLock's eviction holds: when no worker has a task the map has no
\* more than fileLocksHighWater entries, and as many more as workers but two could
\* hide from the count, whatever entries are evicted, shared and stored again
\* between the reads and the deletes.
THEOREM MarkKept == Spec => []Bounded
<1>1. Init => MarkInv
  <2> SUFFICES ASSUME Init PROVE MarkInv
    OBVIOUS
  <2>1. Present = {} /\ Uncounted = {} /\ Overcounted = {} /\ Left = {}
    BY DEF Init, Present, Uncounted, Overcounted, Left
  <2>2. CountInv
    BY <2>1, InitInv, FS_EmptySet DEF IInv, Init, Referred, CountInv, CountAccurate
  <2>3. Stations
    BY FileLocksAssumption DEF Init, Stations, OneKeyPerEntry, Attends
  <2>4. RefsHeld
    <3> SUFFICES ASSUME NEW e \in Entries
                 PROVE  refs[e] = Cardinality(Waiting(e)) + (IF e \in locked THEN 1 ELSE 0)
      BY DEF RefsHeld
    <3>1. Waiting(e) = {}
      BY DEF Init, Waiting
    <3> QED BY <3>1, FS_EmptySet DEF Init
  <2>5. LeftFew
    BY <2>1, LeftIsFinite, FS_EmptySet, FileLocksAssumption DEF LeftFew
  <2>6. Checked
    BY DEF Init, Checked
  <2>7. LoneKeeps
    <3> SUFFICES ASSUME Cardinality(Workers) > 1, NEW w \in Workers, Lone(w) PROVE FALSE
      BY DEF LoneKeeps
    <3>1. Workers \ {w} = {}
      BY DEF Lone, Uncounted, Init
    <3>2. Workers = {w}
      BY <3>1
    <3> QED BY <3>2, FS_Singleton
  <2> QED BY <2>2, <2>3, <2>4, <2>5, <2>6, <2>7 DEF MarkInv
<1>2. MarkInv /\ [Next]_vars => MarkInv'
  BY CountStep, StationsStep, RefsHeldStep, LeftStep, CheckedStep, LoneStep DEF MarkInv
<1>3. MarkInv => Bounded
  <2> SUFFICES ASSUME MarkInv, \A w \in Workers : pc[w] = "idle"
               PROVE  Cardinality(Present) <= HighWater + Spare
    BY DEF Bounded
  <2>1. Left = Present
    BY DEF MarkInv, Stations, Left, Present
  <2> QED BY <2>1 DEF MarkInv, LeftFew
<1> QED BY <1>1, <1>2, <1>3, PTL DEF Spec
=============================================================================
