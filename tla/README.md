# SelectiveMirror: TLA+ models and proofs

SelectiveMirror (`smirror`) is a daemon that watches local project directories
and mirrors selected files to cloud storage by running `rclone`. It is written
in Go; the daemon's core is `internal/sync` (task queue, workers, file syncs,
supervision of rclone), fed by `internal/watcher` and by the reconciliation
loop of `cmd/smirror/main.go`, with `internal/state` (SQLite) as its memory.
Around it are commands that edit the configuration, an instance lock,
self-update, alerts and a small install census.

This directory holds TLA+ models of those parts, TLC configurations that check
them on small instances, and TLAPS proofs for every value of the constants.
`PROJECT.json` lists components, runs, mutants (one plausible bug per property,
which the run must catch), the map from definitions to source lines, hazards,
findings and theorems.

Every property below is about the code as it is. Where the code does something
other than its comments or docs say, the project says so under *Findings* and
keeps a configuration that shows it.

## 1. How the system works

    file system --> Watcher --+                        +--> rclone (Supervisor)
                              |   +-----------+        |
    reconcileAll, sync-now ---+-->| FairQueue |--> workers: syncSingleFile,
    filter reload ------------+   +-----------+    syncFullProject, deletes
                                     ^                 |          |
                                     +-- cooldown,     +--> file  +--> state DB
                                         success/failure    locks      (rows)

1. The *watcher* debounces events and calls `Enqueue` (sync) or
   `EnqueuePriority` (delete); *reconcileAll* (at start and every reconcile
   interval) and *sync-now* queue full syncs, some with a `Done` callback the
   caller waits for.
2. *Workers* (`Engine.Run`, `runWorker`) block in `Dequeue`. The queue
   deduplicates file syncs, holds files back for an adaptive cooldown after an
   upload and holds a mirror back while its circuit breaker is open.
3. `processTask` takes a *lock* keyed by project and file (by the project alone
   for a full sync) and runs a handler. The handler reads the file, reads and
   writes the file's row in the database and runs rclone.
4. Each rclone process runs under the *stall supervisor*, which kills it after
   K ticks without output, CPU time or I/O.
5. Handlers report back: `SetAdaptiveCooldown`, `RecordSuccess`, `RecordFailure`.
6. An edit of `.syncignore` reloads the *filter* in the running daemon, which
   queues a full sync and takes files now excluded off the remote.
7. Every command is a process of its own. The *instance lock* keeps the daemon
   and `sync-now` apart; the *configuration lock* brackets edits of
   `config.yaml`; the state database is opened by all of them.

### Inventory

| Component (code) | State | Operations | What makes it hard | What makes it correct |
|---|---|---|---|---|
| Task queue, worker pool (`sync/fairqueue.go`, `sync.go`) | items, membership map, cooldowns, circuits, closed and overflow flags, the workers' positions | Enqueue, EnqueuePriority, Dequeue, Close, SetAdaptiveCooldown, RecordSuccess, RecordFailure, cancellation | many callers and workers, condition variable and timers, deduplication against priority, the hard cap | nothing requested is lost or hangs, one sync per file, no lost wake-up, backoff only when tripped, cold files advance, shutdown ends and drains |
| Circuit breaker arithmetic (`fairqueue.go`) | failures, backoff in ns (int64) | RecordFailure, RecordSuccess | shifts of a 64-bit product | doubles, capped, always holds back once tripped |
| Per-file locks (`sync.go`) | `sync.Map` of reference-counted mutexes, entry count | acquireFileLock, releaseFileLock | six separate atomic accesses, eviction above a high-water mark | one holder per key, exact counts, bounded map, every request granted |
| rclone supervisor (`sync/liveness.go`, `proc_*.go`) | last sample, stall counter, kill reason, cmd.Wait channel | select over exit, cancel, tick; kill once; classify | exit, cancel and kill race; probes fail | kills only the silent, tells results apart, always ends |
| File syncs, full syncs, deletes, backfill (`sync.go`) | the file, the remote, the row | syncSingleFile, syncMtime, deleteRemoteFile, deleteRemoteDir, syncFullProject, backfillState..., ghost scan and cleanup | three stores without a transaction, edits at any moment, two locks for one file, crashes, ambiguous failures | skips are justified; everything heals; the delete policy holds on every path; only ghosts are cleaned |
| State database (`state/state.go`) | sync_state, meta, schema version | open, migrate, upsert, verification, clear exit codes, delete | openers of several versions, each killed anywhere; statements of several handlers interleave | who has it open finds the columns it names |
| Watcher and debounce (`watcher/*.go`) | debounce timers, watches, deletes in the window | event loop, timer callbacks, new directories, bursts, stop | directories filled while their watch is added; a timer that has fired races Reset, removal and the next event | every change is on its way to the queue or in it |
| Filter (`filter/filter.go`, reload in `watcher.go`) | rules, content hash, generation | Reload, IsExcluded, GenerateRcloneFilterFile, cleanup of leaks | overlapping reloads, truncated writes, failed reads, cleanup under way | rclone and the engine agree where the translation is faithful; the newest `.syncignore` wins unless its reload failed or was overtaken; every change is scanned for |
| Orchestration (`cmd/smirror/main.go`) | loaded configuration, noted remotes, first syncs | startup, detectRemoteChanges, reconcileAll, heartbeatLoop, ghost scan, sync-now, shutdown | moves cut short, changes nobody watches, order of the scan and the syncs | files arrive at the configured remote; the scan waits |
| Instance lock (`lock/*.go`) | lock file and OS lock | AcquirePath, Release, IsLocked | release is three steps, stale files, reused pids | one daemon |
| Configuration and mirror commands (`config/*.go`, `cmd/smirror/cmd*.go`) | `config.yaml`, its lock | addmirror, unmirror, remote, their reverts | checks outside the lock, deaths in it | no edit lost, a loadable file at rest |
| Anomaly log (`anomaly/*.go`), webhook (`notify/webhook.go`) | callback channel, daily files, incidents | Record, Close, Rotate; open, escalate, resolve | concurrent Record and Close, an overflow notice in a full channel | never sends on a closed channel; a resolved incident is one that was opened |
| Self-update (`cmd/smirror/selfupdate*.go`) | binary, backup | preflight, swap, verify, roll back | two updaters, a kill or failure between renames | a runnable binary at the end |
| Install census (`telemetry/install_events.go`, `cmd_telemetry.go`) | meta rows | fire, note, retry, opt in and out | lost answers, failed reads and writes, restarts | counted once |
| Sanitising, hooks, metrics, logging, rclone detection, service and task control, path helpers, installer and scripts, cloud worker | - | pure data, I/O or platform calls | - | not a subject for these models |

`PROJECT.json` gives each component its status and each hazard its source line
and the properties that cover it.

## 2. Modules

| Module | Models | Role |
|---|---|---|
| `FairQueue` | the queue and the workers that drain it | detailed specification |
| `WorkList` | what callers may rely on: requested files merged, full syncs counted | abstract specification of `FairQueue` |
| `CircuitBackoff` | the breaker's int64 arithmetic | detailed, one mirror |
| `FileLocks` | the map of reference-counted mutexes | detailed specification |
| `KeyMutex` | one plain mutex per key | abstract specification of `FileLocks` |
| `Supervisor` | one rclone under `runWithSupervisor` | detailed specification |
| `MirrorSync` | the handlers of one file: file, remote, row | composition: takes the queue as `WorkList` promises it, the locks as `KeyMutex` does, rclone as `Supervisor` ends it |
| `RemoteDelete` | everything that takes files off a remote: delete tasks, purges, ghost cleanup | detailed, one mirror |
| `Watcher` | notifications of one tree become tasks | detailed, one project |
| `FilterRules` | what a list of rules means to `IsExcluded` and to rclone | operators |
| `FilterReload` | `.syncignore` reloaded, with the syncs and cleanups that read it | extends `FilterRules` |
| `Daemon` | configuration, noted remotes and remotes across runs | composition: full syncs as one step each |
| `InstanceLock` | the lock file, one step per system call | detailed |
| `StateOpen` | opening and migrating the database | detailed |
| `ConfigEdit` | commands that edit `config.yaml` | detailed |
| `SelfUpdate` | two paths, two updaters and the service | detailed |
| `Alerts` | anomaly recorder, its channel and files, the webhook | detailed |
| `InstallEvents` | the census and the meta rows it keeps | detailed |
| `MCFairQueue`, `MCFileLocks`, `MCAlerts`, `MCConfigEdit`, `MCWatcher` | constants, symmetry, the cold-file environment | TLC only |
| `SafetyParts`, `LivenessParts` | components side by side, an instance each, with the properties under one name | what the benches check and the proofs prove |
| `MCSafety`, `MCLiveness` | benches of those parts, see section 3 | TLC only |
| `FairQueueProofs`, `WorkListProofs`, `FileLocksProofs`, `SupervisorProofs`, `MirrorSyncProofs`, `SharedFileProofs`, `BookkeepingProofs`, `TrackingProofs` | see section 4 | TLAPS |

### FairQueue

Each queue operation holds `q.mu` throughout and is one action; `Dequeue` gives
the mutex up while it waits and is split there. A worker's `pc` is its place:
`scan` (wants the mutex), `parking` (saw an empty queue, still holds the mutex,
not yet on the wait list), `parked`, `sleeping` (timed wait), `working`,
`reporting` (uploaded and cooldown set, circuit not yet updated), `returned`.
`parking` exists because the cancel helper broadcasts *without* the mutex and
can fall into that gap; every other operation requires `MutexFree`.

`items`, `pending`, `cool`, `failures`, `backoff`, `closed`, `overflowFired`
are the fields of `FairQueue`. Deadlines are ticks left, so a timer that has
expired is 0 and the state space is finite. A task is a record of its type,
mirror, file (`NoFile` for a full sync) and whether it carries a `Done`;
`doneOwed` counts callbacks handed over and not yet invoked. `helpers` are the
workers whose cancel goroutine is alive.

What the handler does to the queue is part of the model
(`FinishQuietly`, `SetAdaptiveCooldown`, `RecordSuccess`, `RecordFailure`),
what it does to the file is `MirrorSync`'s.

### CircuitBackoff

A 64-bit integer is the set of its bits, so `base << n` is a shifted set cut at
bit 63 and the overflow is exact although TLC's own integers have 32 bits.

### FileLocks

One action per access to `sync.Map`, an atomic counter or a mutex:
`LoadOrStore`, `refcount.Add`, `fileLocksN.Add`, `Lock`, and on release `Load`,
`Unlock`, `Add(-1)`, the two tests, `CompareAndDelete`, `Add(-1)`. Entries are
objects of a finite pool; an unreferenced one is what `&lockEntry{}` allocates.

### Supervisor

The select loop with its three channels, the process, `cmd.Wait` and the probe.
A signal is "moved since last read"; CPU time and I/O bytes, which one probe
reads, are one signal, output is the other.
`active`/`idle` record what the supervisor cannot see, whether the process
really showed life, and are what the kill property compares against.

### MirrorSync

One file of one mirror. A handler stops between any two calls that touch
something shared, so an edit, the other handler, a fault or a crash can fall
there. Every read and write of the row may fail: the handlers ignore the errors,
so a row that cannot be read counts as absent, and one that cannot be written
stays as it was (`Save`). `single` is the handler that has the file's lock, `full` the full sync,
which has a *different* lock and therefore overlaps. A content stands for its
hash; an mtime is the number of the edit that made it (0: unknown to the
database). Failures of rclone leave open whether the remote has changed; a
restart drops tasks and handlers and leaves an rclone in flight open likewise.
Edits may go unheard (the watcher has not started or the file system drops the
event).

`calm` is a history variable that says when a skip can be trusted: it turns
FALSE when an edit falls between a handler's hash and its record or hits a full
sync, when a call of rclone fails after it had its effect, when the record of a
copy that succeeded is lost (`Record`), or the deletion of a row (`Forget`), or
both writes of a verification, when the two handlers overlap, when a full sync
changes the remote or clears a failure, and when the program stops. All other
accesses to the row (the reads, the skip by content, `syncMtime`, the backfill, a
failure's record) may fail while it lasts: what the row then says is older, but
still true of the remote.

### RemoteDelete

`tasks` are the queued deletes of files and directories, `proc` the procedure
that is on (`purge`, `each`, then `list`, `walk`, `clean` of a cleanup), which
stops between any two rclone calls while the user creates and removes files and
the tree may be unmounted: the walk skips what it cannot read, so everything
looks like a ghost. `Looks` is the order in which `findGhosts` looks at the remote
and at the local tree; its mutant is the other order, in which a file uploaded
between the two is taken for a ghost. `wasGone` records what was out of sight at some time since the
listing and is what `GhostWasGone` compares with. `Duplicates` stands for a
remote (Google Drive) with two directories of one name, where `deletefile`
misses a file that is listed and the fallback takes the directory.

### Watcher

The kernel's channel is `events`; the event loop takes one at a time, and a
walk over a new directory (`loop`) may be interleaved with anything the user
does. A directory is watched first and listed then. Timers are counted, not
named: `entry` says whether `pending` has one for the file and whether it is
armed or spent, `strays` are armed timers whose entry an older callback took,
`called` and `passed` are callbacks before and after the project's mutex.
`stale` is what no code keeps: the files changed since a task of theirs was queued.

### FilterRules and FilterReload

A pattern is a path of components, each the set of names it matches, with its
marks: "!" and "/" before it, "/" after it, malformed. `Matches` is gitignore's
reading, `LineMatches` rclone's reading of the line that `toRcloneFilter` writes.
The translation passes the pattern on as it is, and the two languages differ:

| Rule | `IsExcluded` (gitignore) | the line of the full sync (rclone) |
|---|---|---|
| `src/main.go` | that path from the root (`conformance_test.go:50`, `docs/user-manual.md:330`) | `- src/main.go`: below every directory, too |
| `build` | a file `build`, and everything below a directory `build` | `- build`: files `build` only |
| `!d/` | includes the files below d | `+ d/`: the directory, none of its files |

`IsExcluded` is "the last match decides", the generated filter file is "the
first match decides" over the lines in the order the code writes them, hoisted
global directories first. `RcloneAgrees` compares the two for the rules in force and
claims nothing of a file that a rule of the table is about (`Mistranslates`), that
is included again below a hoisted directory (`Shadowed`), or that bears the name of a custom
`syncignore_path` below the root (`Nested`).

`FilterReload` has the 200 ms timer, `Reload` as read, second read after a shrink
and commit, the coalescing of cleanups (`running`, `pending`), full syncs that drop
out when the generation moved on, and single syncs that asked the filter before
it changed. A read may fail, or find no file where there is one (`Stat`'s error
means "no rules"), and no failure is tried again. `Stop` does not end a callback that
has begun, so calls of `Reload` overlap, and a late one may commit what the file
said before. Both leave the old rules until the next edit, though the comment at
`watcher.go:792-797` plans a reconcile after a failed reload: `Reload` logs the error and returns nil.
`missed` is a history variable that says so: it turns TRUE when such a call was
the last hope (`Coming`), or when `.syncignore` is removed. The scan for leaks and
each deletion may fail and are not repeated; `scanned` counts attempts.

### Daemon

`remote` is the configuration file, `loaded` what the process read of it, `noted` the
`remote_<name>` rows. `copies` and `fresh` say at which remotes a mirror's files,
or their present versions, are. `Move`, `MoveAndDie` and `Note` are
`detectRemoteChanges`: moved and noted, moved and killed, failed and noted all
the same. `waits` is the `WaitGroup` of the first full syncs that the ghost scan
waits for.

### InstanceLock, StateOpen, ConfigEdit, SelfUpdate

Each is a set of processes over files, one action per system call, SQL
statement or rename, and each process may die between two of them. A *file* of
`InstanceLock` is an object the path may name: on Unix one that was removed lives on in
the processes that have it open, on Windows (`KeepsOpen`) it cannot be removed.
`StateOpen` has openers whose binaries know different numbers of migrations,
busy answers, a transaction per migration, and a file torn by a power cut.
`ConfigEdit` keeps what each command read (`copy`) apart from the file, and `told`,
the mirrors reported to the user. In `SelfUpdate`, `inExe` and `inBak` are the
processes whose image a path holds, which Windows lets be renamed but not replaced.

### Alerts and InstallEvents

`Alerts` splits `Record` into the file write, the check under the read lock and the
send, against `Close`; time decides by actions of its own (`silent`, `due`, a new `day`).
`InstallEvents` has the census goroutine with its pending `reply`, the `telemetry`
command beside it, and the server as a counter; `unkept` counts the reports
whose record could not be kept. Every read of the meta table may fail, which the
code takes for an absent value (a tier: for none); `first_seen_at` may be damaged
(`Damage`), which `maybeSendUpgrade` answers by forgetting it. `misread` counts
what comes of the two: a `first_seen` posted, or to be posted, although it is on
record. In `Alerts` every anomaly reaches the webhook: the filter by
`alert_min_severity` (`main.go:774-777`) only leaves some out.

## 3. Runs

| Run | Question | Instance | Result |
|---|---|---|---|
| `fq_syncs` | does the queue deduplicate, hold back only tripped mirrors and implement `WorkList`? | 3 workers, 2 mirrors, 1 file, full syncs with Done, hard cap 3 | `OneSyncPerFile`, `BackoffOnlyWhenTripped`, `WorkListSpec` hold |
| `fq_deletes` | what survives deletes that jump the queue? | 3 workers, 2 files, 2 deletes, a sync with Done | `PendingIsQueued`, `NoLostWakeup`, `DoneAccounted`, `SyncNeverLost` hold |
| `fq_live` | do cold files advance, does Close end and drain? | 2 workers, 2 files and full syncs, close and cancel | `ColdFileAdvances`, `CloseDrains`, `CloseReturns` hold |
| `fq_cancel` | does cancelling end every worker? | 2 workers | `CancelReturns` violated (finding) |
| `fl_two_holders` | exclusion above the high-water mark | 2 workers, 1 key, mark 0 | `MutualExclusion` violated (finding) |
| `cb_outage` | the arithmetic of a long outage | up to 70 failures | `HeldWhenTripped` violated (finding) |
| `ms_heal` | do the handlers heal; are skips right while calm? | 2 contents, policy delete (global ignore), 2 edits, 3 faults, 1 stop | `SkipsJustifiedWhenCalm`, `Heals` hold |
| `ms_aba` | is a skip always right without faults? | 2 contents, 3 edits, no fault, no stop | `SkipsJustified` violated (finding) |
| `safety` | what must the ten components of `MCSafety` never do? | see below | 15 properties hold |
| `liveness` | what must the five components of `MCLiveness` do in the end, and keep on the way? | see below | 13 properties hold |
| `al_resolved` | does a resolved alert name an incident there was? | 2 kinds, one with a colon | `ResolvedIsKnown` violated (finding) |
| `dm_unmirror` | are files that `unmirror` left kept? | 1 mirror, 2 remotes, 3 changes | `UnmirroredKept` violated (finding) |

**Benches.** The components of `safety` and of `liveness` share no state in the
properties asked, so a product of them would only multiply states. `bench` names
the one component that moves in a behaviour; the others stay in one initial
state. Every behaviour of each component alone is one of the bench, and no other.
`SafetyParts` and `LivenessParts` hold the instances and give each property the
name that the runs check; the proof modules extend the same two, so that a
theorem is about the definition a run has checked.

| Bench (`safety`) | Instance | Properties |
|---|---|---|
| supervisor | K = 4, handle or none, 1 probe error, 5 activities | `ResultTold`, `KillNeedsSilence` |
| locks | 2 workers, 3 keys, 3 entries, mark 1: evictions | `CountAccurate`, `Bounded` |
| circuit | 4 tasks in flight, 32 failures | `BackoffAsDocumented`, `HeldWhenTripped` |
| instance | 2 processes, 2 files, Windows | `OneInstance` |
| opening | 3 openers (two versions), 1 busy answer | `SchemaFits` |
| editing | 2 commands, 3 paths, one inside another, 3 runs | `EditsKept`, `LoadableAtRest` |
| updating | 2 updaters and the service | `EndsRunnable` |
| census | 2 versions, 4 starts, 2 installs, 2 attempts | `CountedOnce` |
| alerting | 2 recorders, 2 kinds, channel of 1, 3 records, 2 days | `NeverSendsOnClosed` |
| deleting | 3 files, 1 directory, one file excluded, 3 policies, 4 operations | `PolicyKept`, `GhostWasGone` |

| Bench (`liveness`) | Instance | Properties |
|---|---|---|
| locks | 3 workers, 2 keys, 2 entries, mark 2 | `MutualExclusion`, `RefsAccurate`, `KeyMutexSpec`, `EveryLockGranted` |
| supervisor | as above | `CallEnds`, `CancelEnds` |
| filter | 2 files (one in a directory), 2 global rules, 4 contents (empty, short, long, malformed), 2 edits, 2 overlapping reloads | `RcloneAgrees`, `Settles`, `ChangeScanned` |
| watcher | root, 1 directory, 2 files (one debounced, in the directory), 4 operations, no recursive watch, burst of 2 | `ChangeCovered`, `ChangesQueued` |
| daemon | 2 mirrors, 2 remotes, 2 changes | `ScanAfterSyncs`, `FilesArrive` |

**Bounds.** All are named CONSTANTS, used in guards.

- `MaxLen` stops callers at that queue length, not the queue. `fq_syncs` has
  `HardCap = 3` and `MaxLen = 4`, so that callers meet the cap; `fq_deletes` has
  three places for two files and their deletes: displacement from the middle,
  a delete in front of its file's sync, a delete behind another; `fq_live` has
  two, a hot and a cold file. `HardCap = 9` means "not reached in this run".
- `MaxFailures` saturates the counter one above the threshold (2 instead of 3,
  backoff 1 then 2 ticks): closed, tripped and doubled occur. The true numbers
  and the cap are `CircuitBackoff`'s.
- `MaxOwed = 2` callbacks: one displaced while another runs.
- Two workers suffice for a lost wake-up or a wrong hand-over; three are used
  where a third could take the signal meant for another.
- Locks: three workers on two keys give a waiter, a holder and a releaser on
  one key while another key crosses the mark. `Bounded` is checked with two
  workers; three, with four entries, take the map one over the mark, which `Spare`
  allows and the theorem shows to be the most. `fileLocksHighWater` is 10000 in
  the code; below the mark exclusion is proved for every value.
- Supervisor: with K = 4 an activity, a probe error and a silence longer than K
  fit in one behaviour; `MaxActivity` only makes the process's life finite, which is
  what `Ends` is about.
- MirrorSync: the file may exist and be synced at the start, so two edits make
  it A, B, A; three faults are a copy and its record, or a copy and both writes of
  its verification, with one to spare; one stop at any point; two contents because a hash is only
  compared for equality. (Three edits, two faults, one stop: 3.8 million states,
  the same result.)
- Watcher: four operations are a directory made, filled, and two writes racing
  its walk and the file's timer. The directory, once watched, can go and come.
- FilterReload: two edits are one during the reload or cleanup of the other. Two
  slots (`MaxReloads`) let a second reload overtake the first; a third would find
  what the second finds. Reads fail freely: each edit makes one reload, so no
  bound is needed.
- Daemon: two changes are a remote moved away and back, or one move with an
  outage; two mirrors can be given each other's remote. (Three changes and
  a queue of two: 346,000 states, the same result.)
- StateOpen: two openers of different versions and a third; two busy answers
  (602,000 states) show no more than one.
- InstallEvents: two versions suffice to go back and forth; reads and writes fail
  freely; the theorem is for any number of all.
- `safety` has 1.5 million states, `liveness` 175,000, `ms_heal` 697,000.

`CHECK_DEADLOCK FALSE` is set only where the system really stops: all workers
returned (`MayClose`, `MayCancel`), the supervisor returned, the bounded user has
no operation left, and in the lock model above the mark, where a fatal unlock
ends the program or a worker waits for a mutex nobody will unlock. `fq_live`
uses a next-state relation that leaves out new requests for the one cold file
while it is queued: those would move it back, which is deduplication working as
meant, and the property is about the other, hot, file.

**Fairness.** Weak fairness of a worker's own steps: the Go scheduler runs every
runnable goroutine. *Strong* fairness of steps that take a mutex: `sync.Mutex`
switches to FIFO hand-over after a waiter has starved for a millisecond. Time
passes (`Tick`, timers, windows); `select` picks among ready branches at random,
so a branch that stays ready is taken. A killed process dies. No fairness for
the user, callers, Close, Cancel, or a process's own exit. In `MirrorSync` the
queue serves tasks (`FairQueue`: `ColdFileAdvances`), rclone ends (`Supervisor`:
`Ends`), the reconcile ticker ticks; that calls succeed in the end is the bound
on faults, in words: an outage passes. The same is meant by `FilesArrive`'s
premise that the daemon stays up and the remotes stay reachable. In
`FilterReload` nobody need edit the file and no single sync need begin.

## 4. Proofs

Proved by TLAPS for all values of the constants, under each module's named
assumptions and those a theorem states.

**FairQueueProofs.** The invariants, each inductive together with `TypeOK`:

- `TypeOK /\ WorkerInv` (`TypeCorrect`): a worker has a task exactly while it
  works on one; without that, `reporting` could not be typed.
- The membership map: a key is marked only when a sync of it is queued
  (`PendingCorrect`). Removing the first entry with a key also unmarks it, so
  the claim survives displacement, the cap and deletes.
- `NoLostWakeup` is inductive only with `ParkingInv`: a worker between its test
  and the wait list does not count as awake, and the queue must still be empty
  there. `WakeupCorrect` then counts: each accepted task either finds nobody
  parked or wakes one; a worker that takes a task takes one off the queue.
- `BackoffCorrect` ties `backoff` to `failures`, which success resets together.
- `DedupCorrect` needs `DeleteTasks = {}`, states that assumption and strengthens
  `OneSyncPerFile` to `DedupInv`: only syncs queued, every queued file sync
  marked, no two with one key. With deletes the property is false (see 5).
- `CloseLosesNothing` (`CloseDrains`): a worker that returned without a cancelled
  context saw the queue closed and empty, and a closed queue does not grow.
- `SyncsAreTaken` (`SyncNeverLost`), for `MaxLen <= HardCap`: every step that
  rebuilds `items` keeps a sync of each other file, and `Enqueue` puts back what it
  displaces. At the cap it does not (`fq_cap_displaced.cfg`).

**WorkListProofs.** Both theorems count queue entries, so the module begins with
what `Append`, `RemoveAt` and a push to the front do to the number of entries in
a set, and a change of one worker's hand to the number of holders.

- `DonesReturn` (`DoneAccounted`), for `MaxLen <= HardCap` and a queue that is not
  closed: `DoneInv` balances `doneOwed` against the entries and hands with a Done.
  A refused or late task would keep its callback for ever (`fq_cap_done.cfg`).
- `QueueImplementsWorkList` (`WorkListSpec`), for `DeleteTasks = {}` and `MaxLen <=
  HardCap`: `Owing`, `Fulls` and `Jobs` are the refinement mapping. Taking a file's
  sync ends what is owed because `DedupInv` leaves no second entry of it.

**FileLocksProofs.** `IInv` says, while keys are no more than the high-water
mark: an entry a worker refers to is the one in the table under its key, an
entry belongs to one key, a worker inside its task holds its entry's mutex, a
locked entry has one holder, and the count is at most the number of keys, so no
worker gets past `checkcount`. `Exclusion` follows, `LocksImplementMutex` maps
each step to a step of `KeyMutex` or a stutter, and `CountsOfReferences`
(`RefsAccurate`) counts the workers between `AddRef` and `DropRef`. The assumption
(`Cardinality(Keys) <= HighWater`) is not idle: without it they are false.

Two more theorems have no such assumption. `CountsOfEntries` (`CountAccurate`): the
number kept beside the map lags by the workers between the two updates, evictions
included. `MarkKept` (`Bounded`): who leaves its entry in the map (`Left`) has read a
count of `HighWater` at most, and by the first theorem the count is short by no more
than the entries the other workers have stored and not counted. All of them but
one can hide an entry that is left (`LeftFew`): were all of those evicted already
(`Lone`), the last eviction would have seen the count over the mark, where it
stays (`Checked`, `LoneKeeps`).

**SupervisorProofs.** `CountInv` bounds the stall counter by the truly silent
ticks (plus one for the first tick, which has nothing to compare with);
`ReasonInv` relates kill reason, loop and process; `ResultInv` the result to
both. They give `KillsInSilence` and `ResultsCorrect` for every K.

**MirrorSyncProofs.** `SkipsCorrect`. The invariant has `HashInv` (a handler
past its hash holds a content, not `Nothing`) and, while calm: `RowInv` (an
unfailed row's hash, and a verified remote hash, are what the remote has),
`SingleInv` and `FullInv` (what a handler read is still what the file has, and
what the remote has once it copied). A row that was not written is the row before,
of which the same holds (`SaveType`, `FailType` give its type); a handler at `verify`
may find no row. The property speaks of skips only; the
invariant has to carry the reason across all intermediate steps.

**SharedFileProofs** (of `SafetyParts`): components whose processes share a file.

- `OneInstanceAtATime`, for any number of processes, given `il_KeepsOpen`: a process
  past the lock owns the file it has open (`Owned`), and an open file is the one
  the name names (`Named`), so two of them own the same file. On Unix it is false.
- `SchemaAlwaysFits`: `SchemaInv` says that the migrations up to the recorded
  version have been made, and those up to the place each opener has got to; the
  proof does not use that the version only grows, for it does not (section 5).
- `ConfigLoadable` (`LoadableAtRest`) and `NoEditLost` (`EditsKept`), for any commands and any
  relation "inside" between paths, given that the file exists at first and can be
  parsed (`EditAssumption`): who is between reading and renaming has the lock, and its
  `copy` is what the file holds (`Locked`); names differ, and while two mirrors overlap the
  command that added one of them has still to look at both, or was cut short (`Reviewed`).
- `UpdatesEndRunnable`: while `smirror.exe` is not complete its backup is, and an
  updater that has not ended is going to put it right, or one was killed.

**BookkeepingProofs** (of `SafetyParts`): components that count or account.

- `LocksCounted`, `LocksBounded`: the two theorems above, about the instance of the bench.
- `CensusCountsOnce`. `CountedOnce` alone is not inductive; `Counts` adds where an
  answer is before it is noted or lost, and `Ahead`, the upgrades still to be
  reported: from the version on record to the one running, and from that to the
  one on disk. Each report uses one up, each installation adds at most one. A
  record of `first_seen` that is there has been counted: a report made all the same
  counts in `misread`, and so does one that is forgotten.
- `NoSendOnClosed`: nobody is between test and send while the channel is closed,
  since `Close` takes the lock that `Record` holds for reading (`SendInv`).
- `PoliciesKept` and `GhostsWereGone` (action properties): `Ghosts` says that a purge has
  `--force` or the policy "delete", that what the walk does not see was not there at some time since the listing, and that
  the files of a cleanup are of that kind and were on the remote.
- `BackoffDoubles` and `TrippedHolds`, for any number of workers while at most 32
  failures follow each other; at the 33rd they are false (`cb_outage`), so the
  bound is a hypothesis. `BitsAre` puts the 31 powers of two for `2^b`, so that the provers
  evaluate the durations (`Durations`); `BelowCap` and `AboveCap` compare each product
  with the cap at the highest bit where they differ.

**TrackingProofs** (of `LivenessParts`): components that follow what others do.

- `BothFiltersAgree` (`RcloneAgrees`) rests on `RulesAgree`, for every list of rules. By
  `SameFiles` a rule that is not mistranslated for a file applies to it in both readings
  or in neither; then the order decides: among rules that match a file, a hoisted one excludes, and a shadowed file apart no
  including rule stands with it; for the others "earlier line" is "later rule".
- `ScansAfterSyncs`: the scan waits for the mirrors whose sync has not ended (`Waited`), and a
  process begins with nothing ended and nothing under way (`FreshStart`), also
  after one that was killed during a migration.
- `ChangesCovered` (`ChangeCovered`), for every tree (`WatcherAssumption`). `ChangeCovered` is
  not inductive: an event that leads to a file may be followed in the queue by one
  that makes the loop forget it. `Led` adds that it is not (`Last`), `Places` where files, walks and the root are, and
  `FlatWatched` that directories in the root are watched or going to be. Of
  deeper ones the attempt to prove this failed for good reason (section 5).

The assumptions of the components are conjuncts of `SafetyPartsAssumption` and
`LivenessPartsAssumption`; TLC evaluates them with the benches. They say that a
model value is not a member of the set it stands apart from, that bounds are
numbers, that `Above` is a tree, and that the first rules are none.

**What the attempts to prove showed.** Three properties that TLC had passed were
not true for every instance. That a reported mirror stays (`ReportedKept`, in the place of
which `EditsKept` now says by whom it goes) fails with four runs of commands
(`ce_reverted.cfg`). `Bounded` without `Spare` fails with three workers. `ChangeCovered`
without `Forgotten` fails for trees of depth two (`wa_forgotten.cfg`).

**Not proved, only model-checked:** every liveness property (liveness under
fairness is out of the prover's reach: `ColdFileAdvances`, `CloseReturns`, `Heals`,
`CallEnds`, `CancelEnds`, `EveryLockGranted`, `Settles`, `ChangeScanned`, `ChangesQueued`,
`FilesArrive`). Every safety property of the passing runs is stated by a
theorem.

## 5. Findings

Shown by runs that TLC finds violated:

- **`fq_cancel`, `CancelReturns`.** The cancel helper (`fairqueue.go:314`) broadcasts
  without `q.mu`. If the context is cancelled between a worker's `ctx.Err()`
  test and its place on the wait list, the only broadcast is missed and the
  worker waits until somebody calls `Close` or `Enqueue`.
- **`fl_two_holders`, `MutualExclusion`.** `LoadOrStore` and `refcount.Add`
  are two steps (`sync.go:299-301`). Above the high-water mark a releasing worker can evict
  the entry in between; two workers then hold different mutexes for one file.
- **`cb_outage`, `HeldWhenTripped`.** From the 33rd consecutive failure on the
  shifted base exceeds int64 before the cap is applied (`fairqueue.go:268`); the
  backoff is negative or 0 and holds nothing back.
- **`ms_aba`, `SkipsJustified`.** A full sync changes the remote and leaves an
  existing row alone, so a file that returns to the row's content is skipped as
  unchanged while the remote has another one, until the next full sync.
- **`al_resolved`, `ResolvedIsKnown`.** `parseIncidentKey` (`webhook.go:297`) splits
  `kind:project` at the first colon, and most kinds contain one: the resolved
  alert names a kind and a project that were never opened.
- **`dm_unmirror`, `UnmirroredKept`.** `unmirror` leaves `remote_<name>` in the
  database; when the name is used again with another remote, the next start takes
  it for a change of remote and moves the files that were "NOT deleted"
  (`cmdunmirror.go:120`).

Further configurations in this directory show sentences of comments and docs
that do not hold in full. They are kept for the reader and are not among the
listed runs; `safety.cfg` and `liveness.cfg` take the property of the row in the
place of theirs:

| Configuration (module) | Property | Sentence | What happens |
|---|---|---|---|
| `fq_one_delete.cfg` (`MCFairQueue`) | `OneSyncPerFile` | `fairqueue.go:86-88` | taking a delete unmarks a file whose sync is still queued; the next request queues a second one |
| the same | `DeleteNeverLost` | `fairqueue.go:148` "each delete must execute" | deduplication takes out the first entry with the key, which may be a delete |
| the same | `PromptDelete` | `fairqueue.go:147`, `docs/SRS.md:222` | all workers may be in timed waits, which a Signal does not end |
| `fq_cap_displaced.cfg` (`MCFairQueue`) | `SyncNeverLost` | `fairqueue.go:113-115` | at the cap the old sync has been removed when the new one is refused |
| `fq_cap_done.cfg` (`MCFairQueue`) | `DoneAccounted` | `fairqueue.go:436-446` | a task refused at the cap never fires its Done |
| `fq_close_sleepers.cfg` (`MCFairQueue`) | `CloseWakesSleepers` | `fairqueue.go:291-293`, `:419` | nor does Close end a timed wait; they return when their timers fire |
| `sv_probe_error.cfg` (`Supervisor`) | `ErrorsKillNobody` | `proc_windows.go:101-102`, `liveness.go:326-328` | a failed probe counts as a flat tick |
| `safety.cfg` (`MCSafety`) | `IgnorePreserves` | `docs/SRS.md` FR-DEL-02 | the fallback for a directory with duplicates (`sync.go:1656-1681`) deletes it under "ignore" too, and exit 4 leads there also when the file is merely gone |
| `liveness.cfg` (`MCLiveness`) | `LeaksGone` | `main.go:782` "Auto-clean LEAKs" | a sync that asked the filter before the change uploads after the scan; nothing scans again |
| `il_unix.cfg` (`InstanceLock`) | `OneInstance` | `docs/SRS.md:124` | `lock.go:129` unlocks before it removes: on Unix another process may have locked the file that is then unlinked, and a third locks a new one |
| `il_stale.cfg` (`InstanceLock`) | `StaleMeansFree` | `lock.go:19` | the holder has not yet written its pid over a dead one's |
| `safety.cfg` (`MCSafety`) | `NeverDowngraded` | `state.go:245-248` | the version is read and written by two statements |
| `ce_created.cfg` (`MCConfigEdit`) | `EditsKept` | `edit.go:30-44` | a file that neither loader can read is written anew without the lock |
| `ce_reverted.cfg` (`MCConfigEdit`) | `ReportedKept` | `edit.go:26-40` | `addmirror` that fails its check reverts by name, and by then the name may belong to a mirror that another command has added and reported |
| `wa_forgotten.cfg` (`MCWatcher`) | `NoneForgotten` | `watcher.go`, "manually add new subdirectories" | a directory is removed and made again while its old event is queued: the walk over the directory above it watches it, then the old event takes the watch away, and the new directory has no event of its own |
| `su_undone.cfg` (`SelfUpdate`) | `UpdatesStay` | `selfupdate.go`, phases 5 to 7 | the rollback of an update that fails may undo one that succeeded |

Met while reading and not shown by a configuration:

- *Handlers.* `ClearStaleExitCodes` makes a failure of content A a success of A
  after a full sync copied B; an ambiguous failure leaves the older verified
  hash in the row; the backfill hashes after the copy (`sync.go:1500`); a delete
  whose remote file is already gone fails and keeps the row; `verifyProjectQuiet`
  returns 0 mismatches when the listing fails. Full syncs repair all of it
  (`Heals`), for `Policy = "delete"`: under the other policies a full sync is `rclone
  copy`, removes nothing, and the second half of `Equal` claims nothing.
- *Deletes.* `PurgeExpiredQuarantine` (`sync.go:1783`), "Called during
  reconciliation", has no caller. The watcher asks the global `delete_policy`, not
  the mirror's (`watcher.go:553`).
- *Filter and watcher.* Removing `.syncignore` never reloads the rules, since
  `handleRemove` finds the path excluded; a directory included again is not
  watched on Linux until the next start. A reload whose read fails, or that is
  overtaken by a later one, leaves the old rules (`missed`); a scan for leaks that
  fails is logged (`main.go:785-792`) and not repeated. The lines that
  `toRcloneFilter` writes for three kinds of rules mean something else to rclone
  (section 2), so a full sync uploads, or leaves out, files that a file sync does not.
- *Daemon.* `MigrateRemote` moves everything at the old remote, so two mirrors that
  swap remotes merge their files; a move that fails is noted as done and left to a
  full sync. A service that stops with an error still reports success to the
  service manager, so its recovery actions never run.
- *Census.* The attempts of `upgrade` are never reset when the prior version
  changes again (`install_events.go:272-274`), and the tier is read once, so a
  report may leave up to 30 s after `telemetry none`. `telemetry/queue.go` has no
  caller outside tests. The error of `GetMeta` is dropped at `install_events.go:203`, so a
  read that fails has `first_seen` counted again although it is on record.
- *Alerts.* Deliveries are goroutines and may arrive out of order; `Record`
  after `Close` opens the log again; `Rotate` may remove the log that is open when
  one day exceeds the size limit.

## 6. Not modelled, and why

- *Queue:* `SetCooldown`, which nothing but tests calls, the read-only
  accessors, the overflow callback's effect, and what an adaptive cooldown's
  length is computed from (any member of a set instead).
- *Supervisor:* a process that fails to start (returns -1 at once), a failing
  `Process.Kill`, a pipe kept open by a grandchild, stderr capture, the anomaly
  records.
- *Handlers:* the size limit, path escapes and symbolic links; hooks and dry-run;
  the remote's mtime and rclone's own size and time comparison (`--checksum` is
  what the model takes). A second
  sync waiting for the file's lock is merged with the queued one. `MirrorSync` is
  about what is copied, `RemoteDelete` about what is taken away; a copy there is
  one step.
- *Watcher:* polling of network drives, watch errors and their recovery, reparse
  points. What the watcher is never told of is left to the daemon's full syncs
  (`FilesArrive`).
- *Filter:* wildcards within a name (a component is the set of names it matches),
  `**`, and escapes. How the library and rclone read the patterns of the table in
  section 2 is taken from the conformance tests and rclone's documentation.
- *Database:* the sync log, statistics and reports.
- *Daemon:* the heartbeat's reports, verification passes, status, stats and bug
  reports, installation of the service; workers and rclone are not waited for at
  shutdown, and are modelled as gone with the process.
- *Commands:* `clean`, the duplicate search and the dialogues of `addmirror`.
- *Configuration:* checks of single values, and file permissions, which are
  straight-line code.
- *Self-update:* download and unpacking (a staged binary is complete or the command
  ends), and rclone's own update.
- *Census:* payloads, signatures and the dead-letter files.
- *External:* rclone, SQLite, the operating system's locks, renames and
  notifications, `sync.Map`, `sync.Mutex`, `sync.Cond` and `context` are taken as
  their documentation describes them and as the code uses them.
- *Whole components* marked `not_modelled` in `PROJECT.json`: pure data
  transformation, I/O or platform calls without a protocol of their own.

## 7. Plan

1. `Daemon` with `RemoteDelete` in place of its one-step syncs, for the ghost scan
   against changes of remote.
2. `AdaptiveCooldown`: the length of a cooldown from a file's history, as pure
   operators against a reference definition.

## 8. Running

    tlc -workers 2 -config fq_syncs.cfg MCFairQueue
    tlc -workers 2 -config safety.cfg MCSafety
    tlc -workers 2 -config liveness.cfg MCLiveness
    tlapm FairQueueProofs.tla

Module and configuration of every run are in `PROJECT.json`. The longest take a
few minutes.
