-------------------------- MODULE MirrorSyncProofs --------------------------
(***************************************************************************)
(* Proofs about MirrorSync: while calm holds, the rows of the database can *)
(* be believed, and a sync that leaves the content alone is right.         *)
(***************************************************************************)
EXTENDS MirrorSync, TLAPS

\* A handler knows a hash when it writes a row, and records a failure at once.
HashInv ==
  /\ Relying => single.hash \in Contents
  /\ full.at = "fill" => full.hash \in Contents
  /\ single.failed => single.at = "record"

\* The handler between its change of the remote and its change of the row.
Ahead == single.at = "forget" \/ (single.at = "record" /\ ~single.failed)

\* What is known of the remote while calm holds.  RowInv: a row that does not
\* tell of a failure names the remote's content, and so does a verified hash.
RowInv ==
  row # Nothing /\ ~Ahead =>
    /\ ~row.failed => remote = row.hash
    /\ row.verified /\ single.at # "verify" => remote = row.remoteHash

\* SingleInv: what the file's handler has read still holds.
SingleInv ==
  /\ Relying => file # Nothing /\ single.hash = file.data
  /\ single.at = "upload" => single.seen = single.hash
  /\ single.at = "record" /\ ~single.failed => remote = single.hash
  /\ single.at = "touch" => remote = single.hash
  /\ single.at = "verify" =>
       row # Nothing /\ row.hash = single.hash /\ ~row.failed

\* FullInv: a full sync is alone, and after its transfer the remote is equal.
FullInv ==
  full.at # "idle" =>
    /\ single.at = "idle"
    /\ full.seen = (IF file = Nothing THEN Nothing ELSE file.data)
    /\ full.at # "transfer" => remote = Mirrored(full.seen)
    /\ full.at = "fill" => file # Nothing /\ full.hash = file.data

CalmInv == calm => RowInv /\ SingleInv /\ FullInv

Inv == TypeOK /\ HashInv /\ CalmInv

\* The bounds are numbers, and Nothing is no datum.
LEMMA Bounds ==
  /\ Nothing \notin Contents \cup FileType \cup Row
  /\ MaxEdits \in Nat /\ MaxFaults \in Nat /\ MaxStops \in Nat
BY MirrorSyncAssumption

\* The places where the file's handler can be.
SinglePlaces ==
  {"idle", "quiesce", "hash", "decide", "touch", "copy", "upload", "record",
   "verify", "delete", "forget"}

\* A handler that is somewhere else has its other local variables unchanged.
LEMMA Moved ==
  ASSUME NEW s \in SingleType, NEW x \in SinglePlaces
  PROVE  [s EXCEPT !.at = x] \in SingleType
BY DEF SingleType, SinglePlaces

\* The handlers before they start.
LEMMA Idle == NoSingle \in SingleType /\ NoFull \in FullType
<1>1. 0 \in 0..MaxEdits
  BY Bounds
<1> QED
  BY <1>1 DEF NoSingle, NoFull, SingleType, FullType

\* Taking a task out of the list of deletes leaves a list of deletes.
LEMMA RemovedType ==
  ASSUME NEW q \in Seq(BOOLEAN), NEW i \in DOMAIN q
  PROVE  RemoveAt(q, i) \in Seq(BOOLEAN)
<1>1. i \in 1..Len(q)
  OBVIOUS
<1>2. SubSeq(q, 1, i - 1) \in Seq(BOOLEAN)
  BY <1>1
<1>3. SubSeq(q, i + 1, Len(q)) \in Seq(BOOLEAN)
  BY <1>1
<1> QED
  BY <1>2, <1>3 DEF RemoveAt

\* A row that is inserted or updated is a row.
LEMMA UpsertedType ==
  ASSUME TypeOK, NEW h \in Contents, NEW m \in 0..MaxEdits, NEW f \in BOOLEAN
  PROVE  Upserted(h, m, f) \in Row
BY DEF TypeOK, Upserted, Row

\* What the upsert of a row leaves of the old row.
LEMMA UpsertedFields ==
  ASSUME TypeOK, NEW h, NEW m, NEW f
  PROVE  /\ Upserted(h, m, f).hash = h
         /\ Upserted(h, m, f).failed = f
         /\ Upserted(h, m, f).verified =>
              /\ row # Nothing /\ row.verified
              /\ Upserted(h, m, f).remoteHash = row.remoteHash
BY DEF TypeOK, Upserted, Row

\* Calls that fail stay within their bound.
LEMMA FailType ==
  ASSUME TypeOK, NEW n \in Nat, Fail(n)
  PROVE  faults' \in 0..MaxFaults
BY Bounds DEF TypeOK, Fail

\* A row write, kept or lost, leaves a row or none.
LEMMA SaveType ==
  ASSUME TypeOK, NEW r \in Row \cup {Nothing}, Save(r)
  PROVE  row' \in Row \cup {Nothing} /\ faults' \in 0..MaxFaults
<1>1. CASE row' = r /\ UNCHANGED faults
  BY <1>1 DEF TypeOK
<1>2. CASE UNCHANGED row /\ Fail(1)
  BY <1>2, FailType DEF TypeOK
<1> QED
  BY <1>1, <1>2 DEF Save

\* The initial states satisfy the invariant.
LEMMA InitInv == ASSUME Init PROVE Inv
<1> USE DEF Init
<1>1. TypeOK
  <2>1. file \in FileType \cup {Nothing} /\ row \in Row \cup {Nothing}
    <3>1. 0 \in 0..MaxEdits
      BY Bounds
    <3>2. CASE file = Nothing /\ row = Nothing
      BY <3>2
    <3>3. CASE \E d \in Contents :
                 /\ file = [data |-> d, mtime |-> 0]
                 /\ row = [hash |-> d, mtime |-> 0, failed |-> FALSE,
                           remoteHash |-> Nothing, verified |-> FALSE]
      BY <3>1, <3>3 DEF Row, FileType
    <3> QED
      BY <3>2, <3>3
  <2>2. single \in SingleType /\ full \in FullType
    BY Idle
  <2>3. remote \in Contents \cup {Nothing} /\ deletes \in Seq(BOOLEAN)
    OBVIOUS
  <2>4. edits \in 0..MaxEdits /\ faults \in 0..MaxFaults /\ stops \in 0..MaxStops
    BY Bounds
  <2> QED
    BY <2>1, <2>2, <2>3, <2>4 DEF TypeOK
<1>2. HashInv
  BY DEF HashInv, Relying, NoSingle, NoFull
<1>3. CalmInv
  BY DEF CalmInv, NoSingle, NoFull, RowInv, SingleInv, FullInv, Ahead, Relying
<1> QED
  BY <1>1, <1>2, <1>3 DEF Inv

\* Every step keeps the variables in their types.
LEMMA StepType == ASSUME TypeOK, HashInv, [Next]_vars PROVE TypeOK'
<1> USE Bounds DEF TypeOK
<1>1. CASE Edit
  <2>1. edits' \in 0..MaxEdits /\ edits + 1 \in 0..MaxEdits
    BY <1>1 DEF Edit
  <2>2. CASE \E d \in Contents, heard \in {watching, FALSE} : Write(d, heard)
    <3>1. file' \in FileType
      BY <2>1, <2>2 DEF Write, FileType
    <3> QED
      BY <1>1, <2>1, <2>2, <3>1 DEF Edit, Write
  <2>3. CASE \E force \in BOOLEAN, heard \in {watching, FALSE} : RemoveFile(force, heard)
    <3>1. deletes' \in Seq(BOOLEAN)
      <4>1. \A f \in BOOLEAN : <<f>> \o deletes \in Seq(BOOLEAN)
        OBVIOUS
      <4> QED
        BY <2>3, <4>1 DEF RemoveFile
    <3> QED
      BY <1>1, <2>1, <2>3, <3>1 DEF Edit, RemoveFile
  <2> QED
    BY <1>1, <2>2, <2>3 DEF Edit
<1>2. CASE StartWatcher \/ Reconcile \/ UNCHANGED vars
  BY <1>2 DEF StartWatcher, Reconcile, vars, tasks, counts
<1>3. CASE Sync
  <2> USE DEF SingleFrame
  <2>1. CASE BeginSync
    <3>1. single' \in SingleType
      <4>1. CASE file = Nothing
        BY <2>1, <4>1, Idle DEF BeginSync
      <4>2. CASE file # Nothing
        <5>1. file.mtime \in 0..MaxEdits
          BY <4>2 DEF FileType
        <5> QED
          BY <2>1, <4>2, <5>1, Idle DEF BeginSync, SingleType
      <4> QED
        BY <4>1, <4>2
    <3> QED
      BY <2>1, <3>1 DEF BeginSync
  <2>2. CASE Quiesce
    <3>1. single' \in SingleType
      BY <2>2, Idle, Moved DEF Quiesce, SinglePlaces
    <3> QED
      BY <2>2, <3>1 DEF Quiesce
  <2>3. CASE HashFile
    <3>1. single' \in SingleType
      BY <2>3, Idle DEF HashFile, SingleType, FileType
    <3> QED
      BY <2>3, <3>1 DEF HashFile
  <2>4. CASE Decide
    <3>1. single' \in SingleType
      BY <2>4, Idle, Moved DEF Decide, SinglePlaces
    <3>2. single.hash \in Contents /\ single.mtime \in 0..MaxEdits
      BY <2>4 DEF Decide, HashInv, Relying, SingleType
    <3>3. row' \in Row \cup {Nothing} /\ faults' \in 0..MaxFaults
      <4>1. Upserted(single.hash, single.mtime, FALSE) \in Row
        BY <3>2, UpsertedType
      <4>2. row # Nothing => [row EXCEPT !.mtime = single.mtime] \in Row
        BY <3>2 DEF Row
      <4>3. \/ row # Nothing /\ Save([row EXCEPT !.mtime = single.mtime])
            \/ Save(Upserted(single.hash, single.mtime, FALSE))
            \/ UNCHANGED row /\ (UNCHANGED faults \/ Fail(1))
        BY <2>4 DEF Decide, Unchanged
      <4> QED
        BY <4>1, <4>2, <4>3, SaveType, FailType
    <3> QED
      BY <2>4, <3>1, <3>3 DEF Decide
  <2>5. CASE SyncMtime
    <3>1. single' \in SingleType
      BY <2>5, Idle DEF SyncMtime
    <3>2. single.hash \in Contents /\ single.mtime \in 0..MaxEdits
      BY <2>5 DEF SyncMtime, HashInv, Relying, SingleType
    <3>3. row' \in Row \cup {Nothing} /\ faults' \in 0..MaxFaults
      BY <2>5, <3>2, UpsertedType, SaveType DEF SyncMtime
    <3> QED
      BY <2>5, <3>1, <3>3 DEF SyncMtime
  <2>6. CASE CopyRead
    <3>1. single' \in SingleType
      BY <2>6 DEF CopyRead, SingleType, FileType
    <3> QED
      BY <2>6, <3>1 DEF CopyRead
  <2>7. CASE Upload
    <3>1. single' \in SingleType
      <4>1. CASE CopySucceeds
        BY <4>1, Moved DEF CopySucceeds, SinglePlaces
      <4>2. CASE CopyFails
        <5>1. \/ single' = [single EXCEPT !.at = "copy", !.retried = TRUE]
              \/ single' = [single EXCEPT !.at = "record", !.failed = TRUE]
          BY <4>2 DEF CopyFails
        <5>2. single \in SingleType
          BY DEF TypeOK
        <5> QED
          BY <5>1, <5>2 DEF SingleType
      <4> QED
        BY <2>7, <4>1, <4>2 DEF Upload
    <3>2. remote' \in Contents \cup {Nothing}
      BY <2>7 DEF Upload, CopySucceeds, CopyFails, SingleType
    <3>3. faults' \in 0..MaxFaults
      <4>1. faults' = faults \/ Fail(1)
        BY <2>7 DEF Upload, CopySucceeds, CopyFails
      <4> QED
        BY <4>1, FailType
    <3>4. calm' \in BOOLEAN
      BY <2>7 DEF Upload, CopySucceeds, CopyFails
    <3> QED
      BY <2>7, <3>1, <3>2, <3>3, <3>4 DEF Upload
  <2>8. CASE Record
    <3>1. single' \in SingleType
      BY <2>8, Idle, Moved DEF Record, SinglePlaces
    <3>2. single.hash \in Contents /\ single.mtime \in 0..MaxEdits
          /\ single.failed \in BOOLEAN
      BY <2>8 DEF Record, HashInv, Relying, SingleType
    <3>3. row' \in Row \cup {Nothing} /\ faults' \in 0..MaxFaults
      BY <2>8, <3>2, UpsertedType, SaveType DEF Record, Recorded
    <3>4. calm' \in BOOLEAN
      BY <2>8 DEF Record
    <3> QED
      BY <2>8, <3>1, <3>3, <3>4 DEF Record
  <2>9. CASE Verify
    <3>1. single' \in SingleType
      BY <2>9, Idle DEF Verify
    <3>2. single.hash \in Contents
      BY <2>9 DEF Verify, HashInv, Relying
    <3>3. row' \in Row \cup {Nothing}
      BY <2>9, <3>2 DEF Verify, Verified, MarkedStale, Row
    <3>4. faults' \in 0..MaxFaults /\ calm' \in BOOLEAN
      <4>1. UNCHANGED faults \/ Fail(1) \/ Fail(2)
        BY <2>9 DEF Verify
      <4> QED
        BY <2>9, <4>1, FailType DEF Verify
    <3> QED
      BY <2>9, <3>1, <3>3, <3>4 DEF Verify
  <2> QED
    BY <1>3, <2>1, <2>2, <2>3, <2>4, <2>5, <2>6, <2>7, <2>8, <2>9 DEF Sync
<1>4. CASE Delete
  <2> USE DEF SingleFrame
  <2>1. CASE BeginDelete
    <3>1. single' \in SingleType
      BY <2>1, Idle, Moved DEF BeginDelete, SinglePlaces
    <3>2. deletes' \in Seq(BOOLEAN)
      BY <2>1, RemovedType DEF BeginDelete
    <3>3. faults' \in 0..MaxFaults
      BY <2>1, FailType DEF BeginDelete
    <3> QED
      BY <2>1, <3>1, <3>2, <3>3 DEF BeginDelete
  <2>2. CASE DeleteRemote \/ Forget
    <3>1. single' \in SingleType
      BY <2>2, Idle, Moved DEF DeleteRemote, Forget, SinglePlaces
    <3>2. faults' \in 0..MaxFaults /\ remote' \in Contents \cup {Nothing}
      BY <2>2, FailType, SaveType DEF DeleteRemote, Forget
    <3>3. row' \in Row \cup {Nothing}
      BY <2>2, SaveType DEF DeleteRemote, Forget
    <3>4. calm' \in BOOLEAN
      BY <2>2 DEF DeleteRemote, Forget
    <3> QED
      BY <2>2, <3>1, <3>2, <3>3, <3>4 DEF DeleteRemote, Forget
  <2> QED
    BY <1>4, <2>1, <2>2 DEF Delete
<1>5. CASE FullSync
  <2> USE DEF FullFrame
  <2>1. CASE BeginFull
    <3>1. full' \in FullType
      BY <2>1, Idle DEF BeginFull, FullType, FileType
    <3> QED
      BY <2>1, <3>1 DEF BeginFull
  <2>2. CASE Transfer
    <3>1. full' \in FullType
      BY <2>2 DEF Transfer, NoFull, FullType
    <3>2. Mirrored(full.seen) \in Contents \cup {Nothing}
      BY DEF Mirrored, FullType
    <3>3. faults' \in 0..MaxFaults
      BY <2>2, FailType DEF Transfer
    <3> QED
      BY <2>2, <3>1, <3>2, <3>3 DEF Transfer
  <2>3. CASE Backfill \/ BackfillHash
    <3>1. full' \in FullType
      BY <2>3 DEF Backfill, BackfillHash, FullType, FileType
    <3>2. faults' \in 0..MaxFaults
      BY <2>3, FailType DEF Backfill, BackfillHash
    <3> QED
      BY <2>3, <3>1, <3>2 DEF Backfill, BackfillHash
  <2>4. CASE BackfillRecord
    <3>1. full' \in FullType
      BY <2>4 DEF BackfillRecord, FullType
    <3>2. full.hash \in Contents /\ full.mtime \in 0..MaxEdits
      BY <2>4 DEF BackfillRecord, HashInv, FullType
    <3>3. row' \in Row \cup {Nothing} /\ faults' \in 0..MaxFaults
      BY <2>4, <3>2, UpsertedType, SaveType DEF BackfillRecord
    <3> QED
      BY <2>4, <3>1, <3>3 DEF BackfillRecord
  <2>5. CASE ClearExitCodes
    <3>1. full' \in FullType
      BY <2>5 DEF ClearExitCodes, NoFull, FullType
    <3>2. row' \in Row \cup {Nothing} /\ faults' \in 0..MaxFaults
      <4>1. Failed => [row EXCEPT !.failed = FALSE] \in Row
        BY DEF Failed, Row
      <4> QED
        BY <2>5, <4>1, SaveType DEF ClearExitCodes
    <3> QED
      BY <2>5, <3>1, <3>2 DEF ClearExitCodes
  <2> QED
    BY <1>5, <2>1, <2>2, <2>3, <2>4, <2>5 DEF FullSync
<1>6. CASE Restart
  <2>1. single' \in SingleType /\ full' \in FullType
    BY <1>6, Idle DEF Restart
  <2>2. single.seen \in Contents \cup {Nothing}
    BY DEF SingleType
  <2>3. Mirrored(full.seen) \in Contents \cup {Nothing}
    BY DEF Mirrored, FullType
  <2>4. remote' \in Contents \cup {Nothing}
    BY <1>6, <2>2, <2>3 DEF Restart, Interrupted
  <2>5. deletes' \in Seq(BOOLEAN) /\ stops' \in 0..MaxStops
    BY <1>6 DEF Restart
  <2> QED
    BY <1>6, <2>1, <2>4, <2>5 DEF Restart
<1> QED
  BY <1>1, <1>2, <1>3, <1>4, <1>5, <1>6 DEF Next

\* Every step leaves the handlers that write a row with a hash.
LEMMA StepHash == ASSUME TypeOK, HashInv, [Next]_vars PROVE HashInv'
<1> USE DEF TypeOK, HashInv, Relying
<1>1. CASE Edit \/ StartWatcher \/ Reconcile \/ UNCHANGED vars
  BY <1>1 DEF Edit, StartWatcher, Reconcile, vars
<1>2. CASE Sync
  <2> USE DEF SingleFrame, NoSingle, SingleType
  <2>1. CASE BeginSync
    BY <2>1 DEF BeginSync
  <2>2. CASE Quiesce
    BY <2>2 DEF Quiesce
  <2>3. CASE HashFile
    BY <2>3 DEF HashFile, FileType
  <2>4. CASE Decide
    <3>1. single'.at # "verify" /\ (Relying' => single'.hash = single.hash)
          /\ ~single'.failed
      <4>1. single' \in {NoSingle, [single EXCEPT !.at = "touch"],
                         [single EXCEPT !.at = "copy"]}
        BY <2>4 DEF Decide
      <4>2. ~single.failed
        BY <2>4 DEF Decide
      <4> QED
        BY <4>1, <4>2
    <3>2. Relying /\ UNCHANGED full
      BY <2>4 DEF Decide
    <3> QED
      BY <3>1, <3>2
  <2>5. CASE SyncMtime
    BY <2>5 DEF SyncMtime
  <2>6. CASE CopyRead
    BY <2>6 DEF CopyRead
  <2>7. CASE Upload
    BY <2>7 DEF Upload, CopySucceeds, CopyFails
  <2>8. CASE Record
    <3>2. (Relying' => single'.hash \in Contents) /\ ~single'.failed
      BY <2>8 DEF Record
    <3> QED
      BY <2>8, <3>2 DEF Record
  <2>9. CASE Verify
    BY <2>9 DEF Verify
  <2> QED
    BY <1>2, <2>1, <2>2, <2>3, <2>4, <2>5, <2>6, <2>7, <2>8, <2>9 DEF Sync
<1>3. CASE Delete
  <2> USE DEF SingleFrame, NoSingle, SingleType
  <2>1. CASE BeginDelete
    BY <2>1 DEF BeginDelete
  <2>2. CASE DeleteRemote
    BY <2>2 DEF DeleteRemote
  <2>3. CASE Forget
    BY <2>3 DEF Forget
  <2> QED
    BY <1>3, <2>1, <2>2, <2>3 DEF Delete
<1>4. CASE FullSync
  <2> USE DEF FullFrame, NoFull, FullType
  <2>1. CASE BeginFull
    BY <2>1 DEF BeginFull
  <2>2. CASE Transfer
    BY <2>2 DEF Transfer
  <2>3. CASE Backfill
    BY <2>3 DEF Backfill
  <2>4. CASE BackfillHash
    BY <2>4 DEF BackfillHash, FileType
  <2>5. CASE BackfillRecord
    BY <2>5 DEF BackfillRecord
  <2>6. CASE ClearExitCodes
    BY <2>6 DEF ClearExitCodes
  <2> QED
    BY <1>4, <2>1, <2>2, <2>3, <2>4, <2>5, <2>6 DEF FullSync
<1>5. CASE Restart
  BY <1>5 DEF Restart, NoSingle, NoFull
<1> QED
  BY <1>1, <1>2, <1>3, <1>4, <1>5 DEF Next

\* Every step that does not end the calm keeps what is known in it.
LEMMA StepCalm ==
  ASSUME Inv, [Next]_vars, calm'
  PROVE  RowInv' /\ SingleInv' /\ FullInv'
<1>0. \A h, m, f :
        /\ Upserted(h, m, f).hash = h /\ Upserted(h, m, f).failed = f
        /\ Upserted(h, m, f).verified =>
             /\ row # Nothing /\ row.verified
             /\ Upserted(h, m, f).remoteHash = row.remoteHash
  BY UpsertedFields DEF Inv
<1>a. TypeOK /\ HashInv /\ CalmInv
  BY DEF Inv
<1> USE DEF CalmInv, RowInv, SingleInv, FullInv, Ahead, Relying
<1>1. CASE Edit
  BY <1>1, <1>a DEF Edit
<1>2. CASE StartWatcher \/ Reconcile \/ UNCHANGED vars
  <2>1. UNCHANGED <<file, remote, row, single, full, calm>>
    BY <1>2 DEF StartWatcher, Reconcile, vars
  <2> QED
    BY <1>a, <2>1 DEF Mirrored
<1>3. CASE Sync
  <2>1. CASE BeginSync
    BY <2>1, <1>a
       DEF BeginSync, SingleFrame, NoSingle, SingleType,
           TypeOK, HashInv
  <2>2. CASE Quiesce
    BY <2>2, <1>a
       DEF Quiesce, SingleFrame, NoSingle, SingleType,
           TypeOK, HashInv
  <2>3. CASE HashFile
    BY <2>3, <1>a
       DEF HashFile, SingleFrame, NoSingle, SingleType,
           TypeOK, HashInv
  <2>4. CASE Decide
    <3>1. /\ single.at = "decide" /\ full.at = "idle" /\ UNCHANGED <<full, file, remote>>
          /\ file # Nothing /\ single.hash = file.data
          /\ row # Nothing /\ ~row.failed => remote = row.hash
          /\ row # Nothing /\ row.verified => remote = row.remoteHash
      BY <2>4, <1>a
         DEF Decide, SingleFrame, NoSingle, SingleType,
             TypeOK, HashInv
    <3>a. CASE UNCHANGED row /\ single' = [single EXCEPT !.at = "copy"]
      <4>1. single'.at = "copy" /\ single'.hash = single.hash
        BY <1>a, <3>a DEF SingleType, TypeOK
      <4> QED
        BY <3>1, <3>a, <4>1
    <3>b. CASE UNCHANGED row /\ single' = NoSingle
      BY <3>1, <3>b DEF NoSingle
    <3>2. CASE /\ Unchanged(single.hash) /\ row.mtime = 0
               /\ row' = [row EXCEPT !.mtime = single.mtime] /\ single' = NoSingle
      <4>1. row \in Row
        BY <1>a, <3>2 DEF Unchanged, TypeOK
      <4>2. /\ row'.hash = row.hash /\ row'.failed = row.failed
            /\ row'.verified = row.verified /\ row'.remoteHash = row.remoteHash
        BY <3>2, <4>1 DEF Row
      <4> QED
        BY <3>1, <3>2, <4>2, Bounds DEF NoSingle, Unchanged
    <3>3. CASE /\ Unchanged(single.hash) /\ UNCHANGED row
               /\ single' = [single EXCEPT !.at = "touch"]
      <4>1. remote = single.hash
        BY <3>1, <3>3 DEF Unchanged
      <4>2. single'.at = "touch" /\ single'.hash = single.hash
        BY <1>a, <3>3 DEF SingleType, TypeOK
      <4> QED
        BY <3>1, <3>3, <4>1, <4>2
    <3>4. CASE /\ RemoteHas(single.hash) /\ single' = NoSingle
               /\ row' = Upserted(single.hash, single.mtime, FALSE)
      <4>1. remote = single.hash
        BY <3>1, <3>4 DEF RemoteHas
      <4>2. single'.at = "idle"
        BY <3>4 DEF NoSingle
      <4>3. /\ row'.hash = single.hash
            /\ row'.verified => row # Nothing /\ row.verified
                                /\ row'.remoteHash = row.remoteHash
        BY <3>4, <1>0
      <4> QED
        BY <3>1, <4>1, <4>2, <4>3
    <3> QED
      BY <2>4, <3>a, <3>b, <3>2, <3>3, <3>4 DEF Decide, Save
  <2>5. CASE SyncMtime
    <3>a. remote = single.hash /\ remote' = remote
      BY <2>5, <1>a DEF SyncMtime, SingleFrame
    <3>b. CASE UNCHANGED row
      BY <2>5, <1>a, <3>b
         DEF SyncMtime, SingleFrame, NoSingle, SingleType, TypeOK, HashInv
    <3>c. SUFFICES ASSUME row' = Upserted(single.hash, single.mtime, FALSE)
                   PROVE  RowInv' /\ SingleInv' /\ FullInv'
      BY <2>5, <3>b DEF SyncMtime, Save
    <3>1. /\ row'.hash = single.hash /\ remote' = single.hash
          /\ row'.verified => row # Nothing /\ row.verified
                              /\ row'.remoteHash = row.remoteHash
      BY <3>c, <3>a, <1>0
    <3>2. single'.at = "idle" /\ full'.at = "idle"
      BY <2>5, <1>a
         DEF SyncMtime, SingleFrame, NoSingle, SingleType,
             TypeOK, HashInv
    <3>3. row # Nothing /\ row.verified => remote' = row.remoteHash
      BY <2>5, <1>a
         DEF SyncMtime, SingleFrame, NoSingle, SingleType,
             TypeOK, HashInv
    <3> QED
      BY <3>1, <3>2, <3>3
  <2>6. CASE CopyRead
    BY <2>6, <1>a
       DEF CopyRead, SingleFrame, NoSingle, SingleType,
           TypeOK, HashInv
  <2>7. CASE Upload
    <3>1. /\ full'.at = "idle" /\ UNCHANGED <<file, row>>
          /\ file # Nothing /\ single'.hash = file.data
          /\ single'.at \in {"copy", "record"}
      BY <2>7, <1>a
         DEF Upload, CopySucceeds, CopyFails, SingleFrame, NoSingle, SingleType,
             TypeOK, HashInv
    <3>2. RowInv
      BY <2>7, <1>a
         DEF Upload, CopySucceeds, CopyFails, SingleFrame, NoSingle, SingleType,
             TypeOK, HashInv
    <3>3. CASE CopySucceeds
      <4>1. remote' = single'.hash /\ single'.at = "record" /\ ~single'.failed
        BY <2>7, <1>a, <3>3
           DEF Upload, CopySucceeds, SingleFrame, NoSingle, SingleType,
               TypeOK, HashInv
      <4> QED
        BY <3>1, <4>1
    <3>4. CASE CopyFails
      <4>1. UNCHANGED remote /\ (single'.at = "record" => single'.failed)
        BY <2>7, <1>a, <3>4
           DEF Upload, CopyFails, SingleFrame, NoSingle, SingleType,
               TypeOK, HashInv
      <4>2. ~Ahead /\ single.at # "verify"
        BY <2>7, <1>a
           DEF Upload, SingleFrame, NoSingle, SingleType,
               TypeOK, HashInv
      <4> QED
        BY <3>1, <3>2, <4>1, <4>2
    <3> QED
      BY <2>7, <1>a, <3>3, <3>4
         DEF Upload, SingleFrame, NoSingle, SingleType,
             TypeOK, HashInv
  <2>8. CASE Record
    <3>a. CASE single.failed /\ UNCHANGED row
      <4>1. single'.at = "idle"
        BY <2>8, <3>a DEF Record, NoSingle
      <4>2. /\ row # Nothing /\ ~row.failed => remote = row.hash
            /\ row # Nothing /\ row.verified => remote = row.remoteHash
            /\ full.at = "idle" /\ UNCHANGED <<file, remote, full>>
        BY <2>8, <1>a, <3>a
           DEF Record, SingleFrame, NoSingle, SingleType, TypeOK, HashInv
      <4> QED
        BY <3>a, <4>1, <4>2
    <3>b. SUFFICES ASSUME row' = Recorded
                   PROVE  RowInv' /\ SingleInv' /\ FullInv'
      BY <2>8, <3>a DEF Record, Save
    <3>1. /\ row'.hash = single.hash /\ row'.failed = single.failed
          /\ row'.verified => row # Nothing /\ row.verified
                              /\ row'.remoteHash = row.remoteHash
      BY <3>b, <1>0 DEF Recorded
    <3>2. /\ full'.at = "idle" /\ UNCHANGED <<file, remote>>
          /\ file # Nothing /\ single.hash = file.data
          /\ single.hash \in Contents /\ single.mtime \in 0..MaxEdits
          /\ single.failed \in BOOLEAN
      BY <2>8, <1>a
         DEF Record, SingleFrame, NoSingle, SingleType,
             TypeOK, HashInv
    <3>3. row' # Nothing
      BY <1>a, <3>b, <3>2, UpsertedType, Bounds DEF Recorded
    <3>4. CASE single.failed
      <4>1. single'.at = "idle"
        BY <2>8, <1>a, <3>4
           DEF Record, SingleFrame, NoSingle, SingleType,
               TypeOK, HashInv
      <4>2. row # Nothing /\ row.verified => remote = row.remoteHash
        BY <2>8, <1>a, <3>4
           DEF Record, SingleFrame, NoSingle, SingleType,
               TypeOK, HashInv
      <4> QED
        BY <3>1, <3>2, <3>4, <4>1, <4>2
    <3>5. CASE ~single.failed
      <4>1. single'.at = "verify" /\ single'.hash = single.hash
        BY <2>8, <1>a, <3>5
           DEF Record, SingleFrame, NoSingle, SingleType,
               TypeOK, HashInv
      <4>2. remote = single.hash
        BY <2>8, <1>a, <3>5
           DEF Record, SingleFrame, NoSingle, SingleType,
               TypeOK, HashInv
      <4>3. ~row'.failed
        BY <3>1, <3>2, <3>5
      <4> QED
        BY <3>1, <3>2, <3>3, <4>1, <4>2, <4>3
    <3> QED
      BY <3>4, <3>5
  <2>9. CASE Verify
    <3>1. /\ single'.at = "idle" /\ full'.at = "idle"
          /\ row # Nothing /\ row.hash = single.hash /\ ~row.failed
          /\ remote' = row.hash
      BY <2>9, <1>a
         DEF Verify, Verified, MarkedStale, SingleFrame, NoSingle, SingleType,
             TypeOK, HashInv
    <3>2. /\ row'.hash = row.hash
          /\ row'.verified => row'.remoteHash = single.hash
      BY <2>9, <1>a, <3>1
         DEF Verify, Verified, MarkedStale, Row, SingleFrame, NoSingle, SingleType,
             TypeOK, HashInv
    <3> QED
      BY <3>1, <3>2
  <2> QED
    BY <1>3, <2>1, <2>2, <2>3, <2>4, <2>5, <2>6, <2>7, <2>8, <2>9 DEF Sync
<1>4. CASE Delete
  <2>1. CASE BeginDelete
    <3>1. RowInv'
      BY <2>1, <1>a
         DEF BeginDelete, SingleFrame, NoSingle, SingleType,
             TypeOK, HashInv
    <3>2. SingleInv'
      BY <2>1, <1>a
         DEF BeginDelete, SingleFrame, NoSingle, SingleType,
             TypeOK, HashInv
    <3>3. FullInv'
      BY <2>1, <1>a
         DEF BeginDelete, SingleFrame, NoSingle, SingleType,
             TypeOK, HashInv
    <3> QED
      BY <3>1, <3>2, <3>3
  <2>2. CASE DeleteRemote
    <3>1. /\ full'.at = "idle" /\ UNCHANGED <<file, row>>
          /\ (single'.at = "idle" \/ single'.at = "forget")
      <4>1. UNCHANGED <<file, row, full>> /\ single.at = "delete" /\ calm
        BY <2>2 DEF DeleteRemote, SingleFrame
      <4>2. full.at = "idle"
        BY <1>a, <4>1
      <4>3. single' = [single EXCEPT !.at = "forget"] \/ single' = NoSingle
        BY <2>2 DEF DeleteRemote
      <4> QED
        BY <1>a, <4>1, <4>2, <4>3 DEF NoSingle, SingleType, TypeOK
    <3>2. RowInv /\ ~Ahead /\ single.at # "verify"
      BY <2>2, <1>a
         DEF DeleteRemote, SingleFrame, NoSingle, SingleType,
             TypeOK, HashInv
    <3>3. single'.at = "idle" => UNCHANGED remote
      BY <2>2, <1>a
         DEF DeleteRemote, SingleFrame, NoSingle, SingleType,
             TypeOK, HashInv
    <3> QED
      BY <3>1, <3>2, <3>3
  <2>3. CASE Forget
    BY <2>3, <1>a
       DEF Forget, SingleFrame, NoSingle, SingleType,
           TypeOK, HashInv
  <2> QED
    BY <1>4, <2>1, <2>2, <2>3 DEF Delete
<1>5. CASE FullSync
  <2>1. CASE BeginFull
    BY <2>1, <1>a
       DEF BeginFull, FullFrame, NoFull, FullType,
           TypeOK, HashInv
  <2>2. CASE Transfer
    <3>1. RowInv'
      BY <2>2, <1>a
         DEF Transfer, FullFrame, NoFull, FullType,
             TypeOK, HashInv
    <3>2. SingleInv'
      BY <2>2, <1>a
         DEF Transfer, FullFrame, NoFull, FullType,
             TypeOK, HashInv
    <3>3. FullInv'
      BY <2>2, <1>a
         DEF Transfer, Mirrored, FullFrame, NoFull, FullType,
             TypeOK, HashInv
    <3> QED
      BY <3>1, <3>2, <3>3
  <2>3. CASE Backfill
    <3>1. RowInv'
      BY <2>3, <1>a
         DEF Backfill, FullFrame, NoFull, FullType,
             TypeOK, HashInv
    <3>2. SingleInv'
      BY <2>3, <1>a
         DEF Backfill, FullFrame, NoFull, FullType,
             TypeOK, HashInv
    <3>3. FullInv'
      BY <2>3, <1>a
         DEF Backfill, Mirrored, FullFrame, NoFull, FullType,
             TypeOK, HashInv
    <3> QED
      BY <3>1, <3>2, <3>3
  <2>4. CASE BackfillHash
    <3>1. RowInv'
      BY <2>4, <1>a
         DEF BackfillHash, FileType, FullFrame, NoFull, FullType,
             TypeOK, HashInv
    <3>2. SingleInv'
      BY <2>4, <1>a
         DEF BackfillHash, FileType, FullFrame, NoFull, FullType,
             TypeOK, HashInv
    <3>3. FullInv'
      BY <2>4, <1>a
         DEF BackfillHash, FileType, Mirrored, FullFrame, NoFull, FullType,
             TypeOK, HashInv
    <3> QED
      BY <3>1, <3>2, <3>3
  <2>5. CASE BackfillRecord
    <3>a. CASE UNCHANGED row
      <4>1. /\ full'.at = "clear" /\ full'.seen = full.seen
            /\ full.at = "fill" /\ UNCHANGED <<file, remote, single, calm>>
        BY <2>5, <1>a DEF BackfillRecord, FullFrame, FullType, TypeOK
      <4>2. RowInv /\ SingleInv /\ FullInv
        BY <1>a, <4>1
      <4> QED
        BY <3>a, <4>1, <4>2 DEF Mirrored
    <3>b. SUFFICES ASSUME row' = Upserted(full.hash, full.mtime, FALSE)
                   PROVE  RowInv' /\ SingleInv' /\ FullInv'
      BY <2>5, <3>a DEF BackfillRecord, Save
    <3>1. /\ single'.at = "idle" /\ UNCHANGED <<file, remote, single>>
          /\ remote = Mirrored(full.seen) /\ full.seen = file.data
          /\ file # Nothing /\ full.hash = file.data /\ file.data \in Contents
      BY <2>5, <1>a
         DEF BackfillRecord, FileType, FullFrame, NoFull, FullType,
             TypeOK, HashInv
    <3>2. remote = full.hash
      BY <3>1, Bounds DEF Mirrored
    <3>3. /\ row'.hash = full.hash
          /\ row'.verified => row # Nothing /\ row.verified
                              /\ row'.remoteHash = row.remoteHash
      BY <3>b, <1>0
    <3>4. row # Nothing /\ row.verified => remote = row.remoteHash
      BY <2>5, <1>a
         DEF BackfillRecord, FullFrame, NoFull, FullType,
             TypeOK, HashInv
    <3>5. full'.at = "clear" /\ full'.seen = full.seen
      BY <2>5, <1>a
         DEF BackfillRecord, FullFrame, NoFull, FullType,
             TypeOK, HashInv
    <3> QED
      BY <3>1, <3>2, <3>3, <3>4, <3>5 DEF Mirrored
  <2>6. CASE ClearExitCodes
    BY <2>6, <1>a
       DEF ClearExitCodes, Failed, FullFrame, NoFull, FullType,
           TypeOK, HashInv
  <2> QED
    BY <1>5, <2>1, <2>2, <2>3, <2>4, <2>5, <2>6 DEF FullSync
<1>6. CASE Restart
  BY <1>6 DEF Restart
<1> QED
  BY <1>1, <1>2, <1>3, <1>4, <1>5, <1>6 DEF Next

\* A sync that leaves the content alone while calm holds is right.
LEMMA StepSkips ==
  ASSUME Inv, [Next]_vars, calm, Skips
  PROVE  remote = single.hash
<1>1. single.at = "decide" /\ single' # single /\ single'.at # "copy"
      /\ stops' = stops
  BY DEF Skips
<1>2. Decide
  <2>1. ~(Edit \/ StartWatcher \/ Reconcile \/ FullSync \/ UNCHANGED vars)
    BY <1>1 DEF Edit, StartWatcher, Reconcile, FullSync, BeginFull, Transfer,
       Backfill, BackfillHash, BackfillRecord, ClearExitCodes, FullFrame, vars
  <2>2. ~Delete /\ (Sync => Decide)
    BY <1>1 DEF Delete, BeginDelete, DeleteRemote, Forget, Sync, BeginSync,
       Quiesce, HashFile, SyncMtime, CopyRead, Upload, Record, Verify, Verified, MarkedStale
  <2>3. ~Restart
    BY <1>1 DEF Restart, Inv, TypeOK
  <2> QED
    BY <2>1, <2>2, <2>3 DEF Next
<1>3. Unchanged(single.hash) \/ RemoteHas(single.hash)
  <2>1. SUFFICES ASSUME ~Unchanged(single.hash), ~RemoteHas(single.hash)
                 PROVE  FALSE
    OBVIOUS
  <2>2. single' = [single EXCEPT !.at = "copy"]
    BY <1>2, <2>1 DEF Decide
  <2> QED
    BY <1>1, <2>2 DEF Inv, TypeOK, SingleType
<1> QED
  BY <1>1, <1>3 DEF Unchanged, RemoteHas, Inv, CalmInv, RowInv, Ahead

\* The variables always have their types.
THEOREM TypeCorrect == Spec => []TypeOK
<1>1. Init => TypeOK /\ HashInv
  BY InitInv DEF Inv
<1>2. TypeOK /\ HashInv /\ [Next]_vars => (TypeOK /\ HashInv)'
  BY StepType, StepHash
<1> QED
  BY <1>1, <1>2, PTL DEF Spec

\* A sync that skips the upload, because the database says the remote has the
\* content, is right, until something happens that the handlers cannot know of.
THEOREM SkipsCorrect == Spec => SkipsJustifiedWhenCalm
<1>1. Init => Inv
  BY InitInv
<1>2. Inv /\ [Next]_vars => Inv'
  BY StepType, StepHash, StepCalm DEF Inv, CalmInv
<1>3. Inv /\ [Next]_vars => [calm /\ Skips => remote = single.hash]_vars
  BY StepSkips
<1> QED
  BY <1>1, <1>2, <1>3, PTL DEF Spec, SkipsJustifiedWhenCalm
=============================================================================
