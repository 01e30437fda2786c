------------------------------ MODULE FileLocks ------------------------------
(***************************************************************************)
(* The per-file locks of the sync engine (Engine.fileLocks, acquireFileLock *)
(* and releaseFileLock in internal/sync/sync.go).  A lock is an entry of a *)
(* concurrent map, made on demand, with a mutex and a reference count; a   *)
(* release that leaves no reference behind takes the entry out of the map  *)
(* again when the map is over its high-water mark.                         *)
(*                                                                         *)
(* Each access to the map, to a count or to a mutex is atomic on its own   *)
(* and is one step here; nothing holds between two of them.  The worker's  *)
(* program counter names what it does next:                                *)
(*                                                                         *)
(*   idle       between tasks                                              *)
(*   addref     has an entry from LoadOrStore, refcount.Add(1) is next     *)
(*   count      fileLocksN.Add(1) is next, if it stored the entry          *)
(*   lock       waits in entry.mu.Lock()                                   *)
(*   holding    works on its task                                          *)
(*   unlock     loaded the entry again to release it                       *)
(*   dropref    unlocked it, refcount.Add(-1) is next                      *)
(*   checkcount saw the reference count drop to 0                          *)
(*   recheck    saw the map over the high-water mark                       *)
(*   delete     saw a reference count of 0 again                           *)
(*   uncount    deleted the entry, fileLocksN.Add(-1) is next              *)
(***************************************************************************)
EXTENDS Integers, FiniteSets

CONSTANTS
  Workers,     \* the worker goroutines
  Keys,        \* lockKey values: a project, or a project and a file
  Entries,     \* lockEntry objects; as many as can be referred to at a time
  None,        \* no entry
  HighWater    \* fileLocksHighWater

ASSUME FileLocksAssumption ==
  /\ IsFiniteSet(Workers) /\ IsFiniteSet(Keys)
  /\ None \notin Entries
  /\ HighWater \in Nat

VARIABLES
  table,    \* e.fileLocks
  refs,     \* lockEntry.refcount
  locked,   \* the entries whose mutex is locked
  count,    \* e.fileLocksN
  pc,       \* where each worker is
  key,      \* the key of each worker's task
  entry,    \* the local variable entry of acquireFileLock and releaseFileLock
  stored,   \* ~loaded: the worker stored the entry itself
  crashed   \* an unlocked mutex was unlocked: a fatal error, no panic

mapVars == <<table, refs, locked, count>>
vars == <<mapVars, pc, key, entry, stored, crashed>>

PCs == {"idle", "addref", "count", "lock", "holding", "unlock", "dropref",
        "checkcount", "recheck", "delete", "uncount"}

-----------------------------------------------------------------------------
Init ==
  /\ table = [k \in Keys |-> None]
  /\ refs = [e \in Entries |-> 0]
  /\ locked = {}
  /\ count = 0
  /\ pc = [w \in Workers |-> "idle"]
  /\ key \in [Workers -> Keys]
  /\ entry = [w \in Workers |-> None]
  /\ stored = [w \in Workers |-> FALSE]
  /\ crashed = FALSE

\* Entries that nothing refers to: &lockEntry{} makes one of them anew.
Unused ==
  {e \in Entries : /\ \A k \in Keys : table[k] # e
                   /\ \A w \in Workers : entry[w] # e}

\* Move w on; when its call is over it keeps no reference to an entry.
Goto(w, label) ==
  /\ pc' = [pc EXCEPT ![w] = label]
  /\ entry' = IF label = "idle" THEN [entry EXCEPT ![w] = None] ELSE entry

-----------------------------------------------------------------------------
(* acquireFileLock *)

\* Mutant of FindOrStore: a plain Load and Store, whose Load saw no entry.
StoreAlways(w, k) ==
  \E e \in Unused :
    /\ table' = [table EXCEPT ![k] = e]
    /\ refs' = [refs EXCEPT ![e] = 0]
    /\ locked' = locked \ {e}
    /\ entry' = [entry EXCEPT ![w] = e]
    /\ stored' = [stored EXCEPT ![w] = TRUE]

\* LoadOrStore(key, &lockEntry{})
FindOrStore(w, k) ==
  \/ /\ table[k] # None
     /\ entry' = [entry EXCEPT ![w] = table[k]]
     /\ stored' = [stored EXCEPT ![w] = FALSE]
     /\ UNCHANGED <<table, refs, locked>>
  \/ /\ table[k] = None
     /\ \E e \in Unused :
          /\ table' = [table EXCEPT ![k] = e]
          /\ refs' = [refs EXCEPT ![e] = 0]
          /\ locked' = locked \ {e}
          /\ entry' = [entry EXCEPT ![w] = e]
     /\ stored' = [stored EXCEPT ![w] = TRUE]

Acquire(w, k) ==
  /\ pc[w] = "idle"
  /\ key' = [key EXCEPT ![w] = k]
  /\ FindOrStore(w, k)
  /\ pc' = [pc EXCEPT ![w] = "addref"]
  /\ UNCHANGED <<count, crashed>>

\* Mutant of RefTaken: the reference is not counted.
RefForgotten(w) == refs

\* entry.refcount.Add(1)
RefTaken(w) == [refs EXCEPT ![entry[w]] = @ + 1]

AddRef(w) ==
  /\ pc[w] = "addref"
  /\ refs' = RefTaken(w)
  /\ Goto(w, "count")
  /\ UNCHANGED <<table, locked, count, key, stored, crashed>>

Count(w) ==
  /\ pc[w] = "count"
  /\ count' = IF stored[w] THEN count + 1 ELSE count
  /\ Goto(w, "lock")
  /\ UNCHANGED <<table, refs, locked, key, stored, crashed>>

\* entry.mu.Lock() returns.
Lock(w) ==
  /\ pc[w] = "lock"
  /\ entry[w] \notin locked
  /\ locked' = locked \cup {entry[w]}
  /\ Goto(w, "holding")
  /\ UNCHANGED <<table, refs, count, key, stored, crashed>>
-----------------------------------------------------------------------------
(* releaseFileLock *)

\* The entry is looked up again by its key; when the key has none, the call
\* returns and nothing is unlocked.
LoadAgain(w) ==
  /\ pc[w] = "holding"
  /\ IF table[key[w]] = None
     THEN Goto(w, "idle")
     ELSE /\ pc' = [pc EXCEPT ![w] = "unlock"]
          /\ entry' = [entry EXCEPT ![w] = table[key[w]]]
  /\ UNCHANGED <<mapVars, key, stored, crashed>>

\* Mutant of Unlocked: the mutex stays locked.
StillLocked(w) == locked

Unlocked(w) == locked \ {entry[w]}

\* entry.mu.Unlock(), fatal when the mutex is not locked.
Unlock(w) ==
  /\ pc[w] = "unlock"
  /\ crashed' = (entry[w] \notin locked)
  /\ locked' = Unlocked(w)
  /\ Goto(w, "dropref")
  /\ UNCHANGED <<table, refs, count, key, stored>>

DropRef(w) ==
  /\ pc[w] = "dropref"
  /\ refs' = [refs EXCEPT ![entry[w]] = @ - 1]
  /\ Goto(w, IF refs'[entry[w]] = 0 THEN "checkcount" ELSE "idle")
  /\ UNCHANGED <<table, locked, count, key, stored, crashed>>

\* Mutant of OverHighWater: off by one.
FarOverHighWater == count > HighWater + 1

\* fileLocksN.Load() > fileLocksHighWater
OverHighWater == count > HighWater

CheckCount(w) ==
  /\ pc[w] = "checkcount"
  /\ Goto(w, IF OverHighWater THEN "recheck" ELSE "idle")
  /\ UNCHANGED <<mapVars, key, stored, crashed>>

Recheck(w) ==
  /\ pc[w] = "recheck"
  /\ Goto(w, IF refs[entry[w]] = 0 THEN "delete" ELSE "idle")
  /\ UNCHANGED <<mapVars, key, stored, crashed>>

\* Mutant of Deletable: Delete(key) in the place of CompareAndDelete.
DeletableAlways(w) == TRUE

\* CompareAndDelete(key, entry) deletes the entry it was given, or nothing.
Deletable(w) == table[key[w]] = entry[w]

Delete(w) ==
  /\ pc[w] = "delete"
  /\ IF Deletable(w)
     THEN /\ table' = [table EXCEPT ![key[w]] = None]
          /\ Goto(w, "uncount")
     ELSE /\ UNCHANGED table
          /\ Goto(w, "idle")
  /\ UNCHANGED <<refs, locked, count, key, stored, crashed>>

Uncount(w) ==
  /\ pc[w] = "uncount"
  /\ count' = count - 1
  /\ Goto(w, "idle")
  /\ UNCHANGED <<table, refs, locked, key, stored, crashed>>
-----------------------------------------------------------------------------
Release(w) ==
  LoadAgain(w) \/ Unlock(w) \/ DropRef(w) \/ CheckCount(w) \/ Recheck(w)
    \/ Delete(w) \/ Uncount(w)

Next ==
  /\ ~crashed
  /\ \E w \in Workers :
       \/ \E k \in Keys : Acquire(w, k)
       \/ AddRef(w) \/ Count(w) \/ Lock(w) \/ Release(w)

Spec == Init /\ [][Next]_vars

(***************************************************************************)
(* Fairness.  A worker that has begun to acquire a lock, holds one or is   *)
(* releasing one goes on: handlers end (rclone is bounded by the           *)
(* supervisor), and sync.Mutex's starvation mode makes Lock strongly fair. *)
(* No worker has to take another task.                                     *)
(***************************************************************************)
FairSpec ==
  Spec /\ \A w \in Workers :
            /\ WF_vars(AddRef(w)) /\ WF_vars(Count(w))
            /\ SF_vars(Lock(w)) /\ WF_vars(Release(w))
-----------------------------------------------------------------------------
TypeOK ==
  /\ table \in [Keys -> Entries \cup {None}]
  /\ refs \in [Entries -> Int]
  /\ locked \subseteq Entries
  /\ count \in Int
  /\ pc \in [Workers -> PCs]
  /\ key \in [Workers -> Keys]
  /\ entry \in [Workers -> Entries \cup {None}]
  /\ stored \in [Workers -> BOOLEAN]
  /\ crashed \in BOOLEAN

\* The workers inside their tasks, releasing not yet begun or not yet done.
Inside == {w \in Workers : pc[w] \in {"holding", "unlock"}}

\* "Prevent two workers from syncing the same file simultaneously."
MutualExclusion == \A v, w \in Inside : key[v] = key[w] => v = w

\* As long as nothing is evicted, an entry's reference count is the number of
\* workers that wait for it, hold it or are about to give it back.
RefsAccurate ==
  \A e \in Entries :
    refs[e] = Cardinality({w \in Workers :
                /\ entry[w] = e
                /\ pc[w] \in {"count", "lock", "holding", "unlock", "dropref"}})

\* The count that decides about evictions is the number of entries in the
\* map, up to the workers between changing the map and changing the count:
\* also when workers share keys, store, load and delete entries of one key at
\* the same time, no store or delete is counted twice or forgotten.
Present == {k \in Keys : table[k] # None}
Uncounted == {w \in Workers : pc[w] \in {"addref", "count"} /\ stored[w]}
Overcounted == {w \in Workers : pc[w] = "uncount"}

CountAccurate ==
  count = Cardinality(Present) - Cardinality(Uncounted) + Cardinality(Overcounted)

\* When no worker has a task, idle entries do not exceed the high-water mark by
\* more than one for every worker beyond two: an entry that takes the map over
\* the mark is evicted by its last user.  Two workers keep to the mark; of
\* three, one can store an entry that the second uses and evicts before it is
\* counted, and the third then finds the count too low and leaves its own.
Spare == IF Cardinality(Workers) > 1 THEN Cardinality(Workers) - 2 ELSE 0

Bounded ==
  (\A w \in Workers : pc[w] = "idle") =>
    Cardinality(Present) <= HighWater + Spare

\* The locks are what they are used as: one lock per key, taken by one worker
\* at a time (KeyMutex).
Mutex == INSTANCE KeyMutex WITH
  state <- [w \in Workers |->
              CASE pc[w] \in {"addref", "count", "lock"} -> "waiting"
                [] pc[w] \in {"holding", "unlock"} -> "inside"
                [] OTHER -> "outside"]

KeyMutexSpec == Mutex!Spec

\* Every worker that asks for a file's lock gets it.
EveryLockGranted ==
  \A w \in Workers : pc[w] = "addref" ~> pc[w] = "holding"
=============================================================================
