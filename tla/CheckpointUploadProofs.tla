----------------------- MODULE CheckpointUploadProofs -----------------------
(***************************************************************************)
(* Proofs about CheckpointUpload, for any number of steps, shards and runs. *)
(*                                                                         *)
(* The argument: only steps that are whole on the disk are uploaded         *)
(* (WorkInv), and the disk of a step that is whole is not written again in  *)
(* the same life of the disk, so what the bucket has of it is what the disk *)
(* has (BucketInv).  An upload goes past its shards when all of them are in *)
(* the bucket, where they stay.                                            *)
(***************************************************************************)
EXTENDS CheckpointUpload, SequenceTheorems, TLAPS

Past == {"reference", "marker"}

WorkType == [at : {"idle", "shards", "reference", "marker"}, step : 0 .. MaxStep, left : SUBSET Files]

(* A script that is not alive has nothing queued or under way. *)
LifeInv ==
  /\ trainer \in Alive \/ saved # 0 => run # 0
  /\ trainer \notin Alive => work.at = "idle"
  /\ trainer \notin Fitting => queue = <<>>
  /\ trainer = "verifying" => saved = MaxStep
  /\ trainer = "finishing" => saved = MaxStep \/ disk = NoFiles

(* A saved step is whole on the disk, and only saved steps are queued. *)
DiskInv ==
  /\ \A f \in Files : f[1] <= saved => disk[f] # 0
  /\ \A i \in 1 .. Len(queue) : queue[i] <= saved

(* Of the step that is uploaded, what is not left is in the bucket. *)
WorkInv ==
  work.at # "idle" =>
    /\ work.step \in 1 .. saved
    /\ \A f \in work.left : f[1] <= saved
    /\ \A s \in Shards : <<work.step, s>> \in work.left \/ bucket[<<work.step, s>>] # 0
    /\ work.at \in Past => work.left = {}
    /\ work.at = "marker" => work.step \in references

(* Objects of this life of the disk are those of the disk. *)
BucketInv ==
  \A f \in Files : f[1] \notin stale /\ bucket[f] # 0 => f[1] <= saved /\ bucket[f] = disk[f]

(* upload_checkpoints.py has uploaded whatever is not left, the pointer last; and *)
(* a script that was to run it and exited with 0 has uploaded everything.         *)
VerifyInv ==
  /\ trainer = "verifying" =>
       /\ work.at # "idle"
       /\ \A f \in Files : f \in work.left \/ bucket[f] # 0
       /\ work.at = "shards" => work.step = MaxStep
       /\ work.at \in Past => pointer = MaxStep
  /\ trainer = "done" /\ Verifiable => pointer = MaxStep /\ \A f \in Files : bucket[f] # 0

IInv == TypeOK /\ LifeInv /\ DiskInv /\ WorkInv /\ BucketInv /\ VerifyInv /\ Found

USE DEF Steps, Files, Fitting, Alive, Past, cvars, settings, local, remote

(* The bounds are positive. *)
LEMMA Bounds == MaxStep \in Nat \ {0} /\ MaxRuns \in Nat \ {0}
BY UploadAssumption

(* The initial state. *)
LEMMA InitInv == Init => IInv
<1> SUFFICES ASSUME Init PROVE IInv
  OBVIOUS
<1> USE Bounds DEF Init, Idle, NoFiles
<1>1. TypeOK
  <2>1. queue \in Seq(Steps)
    BY EmptySeq
  <2>2. keys \in BOOLEAN /\ hook \in BOOLEAN
    OBVIOUS
  <2>3. work \in WorkType
    BY DEF WorkType
  <2>4. disk \in [Files -> 0 .. MaxRuns] /\ bucket \in [Files -> 0 .. MaxRuns]
    OBVIOUS
  <2> QED
    BY <2>1, <2>2, <2>3, <2>4 DEF TypeOK, WorkType
<1>2. LifeInv /\ DiskInv /\ WorkInv
  BY DEF LifeInv, DiskInv, WorkInv
<1>3. BucketInv /\ VerifyInv /\ Found
  BY DEF BucketInv, VerifyInv, Found
<1> QED
  BY <1>1, <1>2, <1>3 DEF IInv

-----------------------------------------------------------------------------
(* Types. *)

(* What is missing is a set of steps, and Repair picks one of them. *)
LEMMA RepairPicks ==
  ASSUME TypeOK, NEW missing \in SUBSET Steps, Repair(missing)
  PROVE \/ trainer' = "done" /\ work' = Idle
        \/ /\ trainer' = trainer
           /\ work' \in [at : {"reference"}, step : missing, left : {{}}]
BY DEF Repair

LEMMA NextType == IInv /\ [Next]_cvars => TypeOK'
<1> SUFFICES ASSUME IInv, [Next]_cvars PROVE TypeOK'
  OBVIOUS
<1> USE Bounds DEF IInv
<1>1. queue' \in Seq(Steps)
  <2> USE DEF TypeOK
  <2>1. CASE SaveDone
    <3>1. saved + 1 \in Steps
      BY <2>1 DEF SaveDone
    <3>2. queue' = queue \/ queue' = Append(queue, saved + 1)
      BY <2>1 DEF SaveDone
    <3>3. queue \in Seq(Steps)
      OBVIOUS
    <3> HIDE DEF IInv, TypeOK, Steps, cvars
    <3> QED
      BY <3>1, <3>2, <3>3, AppendProperties
  <2>2. CASE UploadBegins
    BY <2>2, HeadTailProperties DEF UploadBegins
  <2>3. CASE queue' = <<>> \/ queue' = queue
    BY <2>3, EmptySeq
  <2>4. CASE Kill \/ Recover \/ FitEnds \/ Drained \/ (\E s \in Shards : SaveShard(s)) \/ \E kept \in BOOLEAN : Begin(kept)
    BY <2>3, <2>4 DEF Kill, Recover, FitEnds, Drained, SaveShard, Begin
  <2>5. CASE (\E f \in Files : UploadFile(f)) \/ UploadPointer \/ LogReference \/ WriteMarker \/ UploadFails \/ UNCHANGED cvars
    BY <2>3, <2>5 DEF UploadFile, UploadPointer, LogReference, WriteMarker, UploadFails
  <2> QED
    BY <2>1, <2>2, <2>4, <2>5 DEF Next, Train, Upload
<1>2. disk' \in [Files -> 0 .. MaxRuns] /\ bucket' \in [Files -> 0 .. MaxRuns]
  <2> USE DEF TypeOK
  <2>1. CASE \E s \in Shards : SaveShard(s)
    BY <2>1 DEF SaveShard
  <2>2. CASE \E f \in Files : UploadFile(f)
    BY <2>2 DEF UploadFile
  <2>5. ASSUME NEW kept \in BOOLEAN, Begin(kept)
        PROVE disk' \in [Files -> 0 .. MaxRuns] /\ bucket' \in [Files -> 0 .. MaxRuns]
    <3>1. (disk' = disk \/ disk' = NoFiles) /\ bucket' = bucket
      BY <2>5 DEF Begin
    <3>2. NoFiles \in [Files -> 0 .. MaxRuns]
      BY DEF NoFiles
    <3> QED
      BY <3>1, <3>2
  <2>3. CASE Kill \/ Recover \/ FitEnds \/ Drained \/ SaveDone
    BY <2>3 DEF Kill, Recover, FitEnds, Drained, SaveDone
  <2>4. CASE UploadBegins \/ UploadPointer \/ LogReference \/ WriteMarker \/ UploadFails \/ UNCHANGED cvars
    BY <2>4 DEF UploadBegins, UploadPointer, LogReference, WriteMarker, UploadFails
  <2> QED
    BY <2>1, <2>2, <2>3, <2>4, <2>5 DEF Next, Train, Upload
<1>3. work' \in WorkType
  <2> USE DEF TypeOK, WorkType
  <2>1. CASE Drained \/ Recover \/ UploadBegins
    BY <2>1, HeadTailProperties DEF Drained, Recover, Verifying, UploadBegins
  <2>2. ASSUME NEW f \in Files, UploadFile(f) PROVE work' \in WorkType
    BY <2>2 DEF UploadFile
  <2>3. CASE UploadPointer /\ trainer # "verifying"
    BY <2>3 DEF UploadPointer, Moves
  <2>4. CASE UploadPointer /\ trainer = "verifying"
    BY <2>4, RepairPicks DEF UploadPointer, Missing, Idle
  <2>5. CASE LogReference
    BY <2>5 DEF LogReference, Moves
  <2>6. CASE WriteMarker /\ trainer # "verifying"
    BY <2>6 DEF WriteMarker, Idle
  <2>7. CASE WriteMarker /\ trainer = "verifying"
    BY <2>7, RepairPicks DEF WriteMarker, Missing, Idle
  <2>8. CASE Kill \/ UploadFails \/ \E kept \in BOOLEAN : Begin(kept)
    <3>1. work' = Idle
      BY <2>8 DEF Kill, UploadFails, Begin
    <3> QED
      BY <3>1 DEF Idle
  <2>9. CASE (\E s \in Shards : SaveShard(s)) \/ SaveDone \/ FitEnds \/ UNCHANGED cvars
    BY <2>9 DEF SaveShard, SaveDone, FitEnds
  <2> QED
    BY <2>1, <2>2, <2>3, <2>4, <2>5, <2>6, <2>7, <2>8, <2>9 DEF Next, Train, Upload
<1>7. keys' \in BOOLEAN /\ hook' \in BOOLEAN
  <2> USE DEF TypeOK
  <2>1. CASE \E kept \in BOOLEAN : Begin(kept)
    <3>1. keys' \in BOOLEAN
      BY <2>1, Zenon DEF Begin
    <3>2. hook' \in (IF keys' THEN BOOLEAN ELSE {FALSE})
      BY <2>1, Zenon DEF Begin
    <3>3. hook' \in BOOLEAN
      BY <3>2
    <3> QED
      BY <3>1, <3>3, Zenon
  <2>2. CASE Recover
    <3>1. keys' = TRUE /\ hook' = hook
      BY <2>2, Zenon DEF Recover
    <3>2. keys' \in BOOLEAN /\ hook' \in BOOLEAN
      BY <3>1, Zenon
    <3> QED
      BY <3>2
  <2>3. CASE Train \/ Kill
    BY <2>3 DEF Train, SaveShard, SaveDone, FitEnds, Drained, Kill
  <2>4. CASE Upload \/ UNCHANGED cvars
    BY <2>4 DEF Upload, UploadFile, UploadBegins, UploadPointer, LogReference, WriteMarker, UploadFails
  <2> QED
    BY <2>1, <2>2, <2>3, <2>4 DEF Next
<1>4. run' \in 0 .. MaxRuns /\ saved' \in 0 .. MaxStep /\ stale' \subseteq Steps
  <2> USE DEF TypeOK
  <2>1. ASSUME NEW kept \in BOOLEAN, Begin(kept)
        PROVE run' \in 0 .. MaxRuns /\ saved' \in 0 .. MaxStep /\ stale' \subseteq Steps
    <3>1. CASE kept
      <4>1. saved' = saved /\ stale' = stale /\ run' = run + 1 /\ run < MaxRuns
        BY <2>1, <3>1 DEF Begin
      <4> QED
        BY <4>1
    <3>2. CASE ~kept
      BY <2>1, <3>2 DEF Begin
    <3> QED
      BY <3>1, <3>2
  <2>4. CASE SaveDone
    BY <2>4 DEF SaveDone
  <2>2. CASE Kill \/ Recover \/ FitEnds \/ Drained \/ \E s \in Shards : SaveShard(s)
    BY <2>2 DEF Kill, Recover, FitEnds, Drained, SaveShard
  <2>3. CASE (\E f \in Files : UploadFile(f)) \/ UploadBegins \/ UploadPointer \/ LogReference \/ WriteMarker \/ UploadFails \/ UNCHANGED cvars
    BY <2>3 DEF UploadFile, UploadBegins, UploadPointer, LogReference, WriteMarker, UploadFails
  <2> QED
    BY <2>1, <2>2, <2>3, <2>4 DEF Next, Train, Upload
<1>5. pointer' \in 0 .. MaxStep /\ markers' \subseteq Steps /\ references' \subseteq Steps
  <2> USE DEF TypeOK
  <2>1. CASE UploadPointer
    BY <2>1 DEF UploadPointer
  <2>4. CASE LogReference \/ WriteMarker
    <3>1. work.step \in Steps
      BY <2>4 DEF LogReference, WriteMarker, WorkInv
    <3> QED
      BY <2>4, <3>1 DEF LogReference, WriteMarker
  <2>2. CASE Train \/ Kill \/ Recover \/ \E kept \in BOOLEAN : Begin(kept)
    BY <2>2 DEF Train, SaveShard, SaveDone, FitEnds, Drained, Kill, Recover, Begin
  <2>3. CASE (\E f \in Files : UploadFile(f)) \/ UploadBegins \/ UploadFails \/ UNCHANGED cvars
    BY <2>3 DEF UploadFile, UploadBegins, UploadFails
  <2> QED
    BY <2>1, <2>2, <2>3, <2>4 DEF Next, Upload
<1>6. trainer' \in Alive \cup {"off", "done", "failed", "killed"}
  <2> USE DEF TypeOK
  <2>1. CASE UploadPointer \/ WriteMarker \/ UploadFails
    BY <2>1 DEF UploadPointer, WriteMarker, Repair, UploadFails
  <2>2. CASE Train \/ Kill \/ Recover \/ \E kept \in BOOLEAN : Begin(kept)
    BY <2>2 DEF Train, SaveShard, SaveDone, FitEnds, Drained, Kill, Recover, Begin
  <2>3. CASE (\E f \in Files : UploadFile(f)) \/ UploadBegins \/ LogReference \/ UNCHANGED cvars
    BY <2>3 DEF UploadFile, UploadBegins, LogReference
  <2> QED
    BY <2>1, <2>2, <2>3 DEF Next, Upload
<1> QED
  BY <1>1, <1>2, <1>3, <1>4, <1>5, <1>6, <1>7 DEF TypeOK, WorkType

-----------------------------------------------------------------------------
(* The life of the script. *)

LEMMA NextLife == IInv /\ [Next]_cvars => LifeInv'
<1> SUFFICES ASSUME IInv, [Next]_cvars PROVE LifeInv'
  OBVIOUS
<1> USE Bounds DEF IInv, TypeOK, LifeInv, Idle
<1>1. ASSUME NEW kept \in BOOLEAN, Begin(kept) PROVE LifeInv'
  BY <1>1 DEF Begin
<1>2. CASE SaveDone \/ \E s \in Shards : SaveShard(s)
  BY <1>2 DEF SaveShard, SaveDone
<1>9. CASE FitEnds
  BY <1>9 DEF FitEnds
<1>10. CASE Drained
  BY <1>10 DEF Drained, Verifiable, Verifying
<1>3. CASE Kill \/ Recover
  BY <1>3 DEF Kill, Recover
<1>4. CASE UploadBegins \/ LogReference
  BY <1>4 DEF UploadBegins, LogReference, Moves
<1>11. CASE UploadFails
  <2>1. work'.at = "idle" /\ saved' = saved /\ run' = run /\ queue' = queue /\ disk' = disk
    BY <1>11 DEF UploadFails
  <2>2. trainer' = trainer \/ (trainer = "verifying" /\ trainer' \in {"failed", "done"})
    <3>1. CASE trainer # "verifying"
      BY <1>11, <3>1 DEF UploadFails
    <3>2. CASE trainer = "verifying"
      BY <1>11, <3>2 DEF UploadFails
    <3> QED
      BY <3>1, <3>2
  <2> QED
    BY <2>1, <2>2
<1>5. ASSUME NEW f \in Files, UploadFile(f) PROVE LifeInv'
  BY <1>5 DEF UploadFile
<1>6. CASE UploadPointer
  BY <1>6 DEF UploadPointer, Repair, Moves
<1>7. CASE WriteMarker
  BY <1>7 DEF WriteMarker, Repair
<1>8. CASE UNCHANGED cvars
  BY <1>8
<1> QED
  BY <1>1, <1>2, <1>3, <1>4, <1>5, <1>6, <1>7, <1>8, <1>9, <1>10, <1>11 DEF Next, Train, Upload

(* The disk and the queue. *)
LEMMA NextDisk == IInv /\ [Next]_cvars => DiskInv'
<1> SUFFICES ASSUME IInv, [Next]_cvars PROVE DiskInv'
  OBVIOUS
<1> USE Bounds DEF IInv, TypeOK, DiskInv
<1>1. ASSUME NEW kept \in BOOLEAN, Begin(kept) PROVE DiskInv'
  BY <1>1 DEF Begin, NoFiles
<1>2. ASSUME NEW s \in Shards, SaveShard(s) PROVE DiskInv'
  BY <1>2 DEF SaveShard, LifeInv
<1>3. CASE SaveDone
  <2>1. saved' = saved + 1 /\ disk' = disk /\ run # 0
    BY <1>3 DEF SaveDone, LifeInv
  <2>2. \A f \in Files : f[1] = saved + 1 => disk[f] # 0
    BY <1>3, <2>1 DEF SaveDone
  <2>3. \A i \in 1 .. Len(queue') : queue'[i] <= saved + 1
    BY <1>3 DEF SaveDone
  <2> QED
    BY <2>1, <2>2, <2>3
<1>4. CASE UploadBegins
  <2>1. disk' = disk /\ saved' = saved /\ queue' = Tail(queue) /\ queue # <<>>
    BY <1>4 DEF UploadBegins
  <2>2. \A i \in 1 .. Len(Tail(queue)) : Tail(queue)[i] = queue[i + 1] /\ i + 1 \in 1 .. Len(queue)
    BY <2>1, HeadTailProperties
  <2> QED
    BY <2>1, <2>2
<1>5. CASE FitEnds \/ Drained \/ Recover \/ Kill \/ UploadFails \/ UNCHANGED cvars
  BY <1>5 DEF FitEnds, Drained, Recover, Kill, UploadFails
<1>6. ASSUME NEW f \in Files, UploadFile(f) PROVE DiskInv'
  BY <1>6 DEF UploadFile
<1>7. CASE UploadPointer \/ LogReference \/ WriteMarker
  BY <1>7 DEF UploadPointer, LogReference, WriteMarker
<1> QED
  BY <1>1, <1>2, <1>3, <1>4, <1>5, <1>6, <1>7 DEF Next, Train, Upload

-----------------------------------------------------------------------------
(* What was uploaded when the shards are done. *)
LEMMA ShardsDone ==
  ASSUME IInv, work.at = "shards", work.left = {}
  PROVE Whole(work.step) /\ (trainer = "verifying" => \A n \in Steps : Whole(n))
BY DEF IInv, WorkInv, VerifyInv, Whole, TypeOK

(* The upload under way. *)
LEMMA NextWork == IInv /\ [Next]_cvars => WorkInv'
<1> SUFFICES ASSUME IInv, [Next]_cvars PROVE WorkInv'
  OBVIOUS
<1> USE Bounds DEF IInv, TypeOK, WorkInv
<1>1. ASSUME NEW kept \in BOOLEAN, Begin(kept) PROVE WorkInv'
  BY <1>1 DEF Begin, Idle
<1>2. ASSUME NEW s \in Shards, SaveShard(s) PROVE WorkInv'
  BY <1>2 DEF SaveShard
<1>3. CASE SaveDone
  BY <1>3 DEF SaveDone
<1>4. CASE Drained \/ Recover
  BY <1>4 DEF Drained, Verifiable, Recover, Verifying, Idle, LifeInv, DiskInv
<1>5. CASE UploadBegins
  <2>1. Head(queue) \in Steps /\ Head(queue) <= saved
    BY <1>5 DEF UploadBegins, DiskInv
  <2> QED
    BY <1>5, <2>1 DEF UploadBegins
<1>6. ASSUME NEW f \in Files, UploadFile(f) PROVE WorkInv'
  <2>1. disk[f] # 0 /\ work.at = "shards" /\ work.step \in 1 .. saved
    BY <1>6 DEF UploadFile, DiskInv
  <2>2. bucket'[f] # 0 /\ \A g \in Files : bucket[g] # 0 => bucket'[g] # 0
    BY <1>6, <2>1 DEF UploadFile
  <2>3. work'.at = work.at /\ work'.step = work.step /\ work'.left = work.left \ {f} /\ saved' = saved
    BY <1>6 DEF UploadFile
  <2>4. \A s \in Shards : <<work.step, s>> \in Files
    BY <2>1
  <2> QED
    BY <2>1, <2>2, <2>3, <2>4
<1>7. CASE UploadPointer
  <2>1. CASE trainer = "verifying"
    <3>1. work.at = "shards" /\ work.left = {} /\ Repair(Missing) /\ saved = MaxStep
      BY <1>7, <2>1 DEF UploadPointer, LifeInv
    <3>2. \A n \in Steps, s \in Shards : bucket[<<n, s>>] # 0
      BY <2>1, <3>1, ShardsDone DEF Whole
    <3>3. bucket' = bucket /\ saved' = saved /\ references' = references
      BY <1>7 DEF UploadPointer
    <3>4. Missing \subseteq Steps
      BY DEF Missing
    <3>5. work' = Idle \/ work' \in [at : {"reference"}, step : Missing, left : {{}}]
      BY <3>1, <3>4, RepairPicks
    <3>6. work'.at = "idle" \/ (work'.at = "reference" /\ work'.step \in Steps /\ work'.left = {})
      <4>1. CASE work' = Idle
        BY <4>1, Zenon DEF Idle
      <4>2. CASE work' \in [at : {"reference"}, step : Missing, left : {{}}]
        BY <3>4, <4>2
      <4> QED
        BY <3>5, <4>1, <4>2
    <3>7. \A s \in Shards : work'.at # "idle" => bucket'[<<work'.step, s>>] # 0
      BY <3>2, <3>3, <3>6
    <3> QED
      BY <3>1, <3>3, <3>6, <3>7
  <2>2. CASE trainer # "verifying"
    BY <1>7, <2>2 DEF UploadPointer, Moves
  <2> QED
    BY <2>1, <2>2
<1>8. CASE LogReference
  BY <1>8 DEF LogReference, Moves
<1>9. CASE WriteMarker
  <2>1. CASE trainer = "verifying"
    BY <1>9, <2>1, RepairPicks DEF WriteMarker, Missing, VerifyInv, LifeInv, Idle
  <2>2. CASE trainer # "verifying"
    BY <1>9, <2>2 DEF WriteMarker, Idle
  <2> QED
    BY <2>1, <2>2
<1>10. CASE FitEnds \/ Kill \/ UploadFails \/ UNCHANGED cvars
  BY <1>10 DEF FitEnds, Kill, UploadFails, Idle
<1> QED
  BY <1>1, <1>2, <1>3, <1>4, <1>5, <1>6, <1>7, <1>8, <1>9, <1>10 DEF Next, Train, Upload

(* The objects in the bucket. *)
LEMMA NextBucket == IInv /\ [Next]_cvars => BucketInv'
<1> SUFFICES ASSUME IInv, [Next]_cvars PROVE BucketInv'
  OBVIOUS
<1> USE Bounds DEF IInv, TypeOK, BucketInv
<1>1. ASSUME NEW kept \in BOOLEAN, Begin(kept) PROVE BucketInv'
  <2>1. CASE kept
    BY <1>1, <2>1 DEF Begin
  <2>2. CASE ~kept
    <3>1. bucket' = bucket /\ stale' = {n \in Steps : \E s \in Shards : bucket[<<n, s>>] # 0}
      BY <1>1, <2>2 DEF Begin
    <3>2. \A f \in Files : f = <<f[1], f[2]>> /\ f[1] \in Steps /\ f[2] \in Shards
      OBVIOUS
    <3> QED
      BY <3>1, <3>2
  <2> QED
    BY <2>1, <2>2
<1>2. ASSUME NEW s \in Shards, SaveShard(s) PROVE BucketInv'
  BY <1>2 DEF SaveShard
<1>3. CASE SaveDone
  BY <1>3 DEF SaveDone
<1>4. ASSUME NEW f \in Files, UploadFile(f) PROVE BucketInv'
  <2>1. f[1] <= saved
    BY <1>4 DEF UploadFile, WorkInv
  <2> QED
    BY <1>4, <2>1 DEF UploadFile
<1>5. CASE FitEnds \/ Drained \/ Recover \/ Kill \/ UNCHANGED cvars
  BY <1>5 DEF FitEnds, Drained, Recover, Kill
<1>6. CASE UploadBegins \/ UploadPointer \/ LogReference \/ WriteMarker \/ UploadFails
  BY <1>6 DEF UploadBegins, UploadPointer, LogReference, WriteMarker, UploadFails
<1> QED
  BY <1>1, <1>2, <1>3, <1>4, <1>5, <1>6 DEF Next, Train, Upload

(* upload_checkpoints.py. *)
LEMMA NextVerify == IInv /\ [Next]_cvars => VerifyInv'
<1> SUFFICES ASSUME IInv, [Next]_cvars PROVE VerifyInv'
  OBVIOUS
<1> USE Bounds DEF IInv, TypeOK, VerifyInv, Verifiable
<1>1. CASE \E kept \in BOOLEAN : Begin(kept)
  BY <1>1 DEF Begin
<1>2. CASE (\E s \in Shards : SaveShard(s)) \/ SaveDone \/ FitEnds \/ Kill
  BY <1>2 DEF SaveShard, SaveDone, FitEnds, Kill
<1>3. CASE Drained \/ Recover
  BY <1>3 DEF Drained, Recover, Verifying, LifeInv, DiskInv
<1>4. CASE UploadBegins
  BY <1>4 DEF UploadBegins
<1>5. ASSUME NEW f \in Files, UploadFile(f) PROVE VerifyInv'
  <2>1. disk[f] # 0 /\ trainer # "done"
    BY <1>5 DEF UploadFile, WorkInv, DiskInv, LifeInv
  <2> QED
    BY <1>5, <2>1 DEF UploadFile
<1>6. CASE UploadPointer
  <2>1. trainer # "done" /\ work.left = {}
    BY <1>6 DEF UploadPointer, LifeInv
  <2>2. CASE trainer = "verifying"
    BY <1>6, <2>1, <2>2, RepairPicks DEF UploadPointer, Missing, Idle
  <2>3. CASE trainer # "verifying"
    BY <1>6, <2>1, <2>3 DEF UploadPointer
  <2> QED
    BY <2>2, <2>3
<1>7. CASE LogReference
  BY <1>7 DEF LogReference, Moves, LifeInv
<1>8. CASE WriteMarker
  <2>1. trainer # "done" /\ work.left = {} /\ work.step \in Steps
    BY <1>8 DEF WriteMarker, LifeInv, WorkInv
  <2>2. CASE trainer = "verifying"
    BY <1>8, <2>1, <2>2, RepairPicks DEF WriteMarker, Missing, Idle
  <2>3. CASE trainer # "verifying"
    BY <1>8, <2>1, <2>3 DEF WriteMarker
  <2> QED
    BY <2>2, <2>3
<1>9. CASE UploadFails
  BY <1>9 DEF UploadFails, WorkInv, LifeInv, Idle
<1>10. CASE UNCHANGED cvars
  BY <1>10
<1> QED
  BY <1>1, <1>2, <1>3, <1>4, <1>5, <1>6, <1>7, <1>8, <1>9, <1>10 DEF Next, Train, Upload

(* Objects stay: a step that is whole remains so. *)
LEMMA WholeStays ==
  ASSUME IInv, [Next]_cvars, NEW n \in Steps, Whole(n)
  PROVE Whole(n)'
<1> USE DEF Whole
<1>1. CASE \E f \in Files : UploadFile(f)
  BY <1>1 DEF UploadFile
<1>2. CASE Train \/ Kill \/ Recover \/ \E kept \in BOOLEAN : Begin(kept)
  BY <1>2 DEF Train, SaveShard, SaveDone, FitEnds, Drained, Kill, Recover, Begin
<1>3. CASE UploadBegins \/ UploadPointer \/ LogReference \/ WriteMarker \/ UploadFails
  BY <1>3 DEF UploadBegins, UploadPointer, LogReference, WriteMarker, UploadFails
<1>4. CASE UNCHANGED cvars
  BY <1>4
<1> QED
  BY <1>1, <1>2, <1>3, <1>4 DEF Next, Upload

(* What the pointer and the references name. *)
LEMMA NextFound == IInv /\ [Next]_cvars => Found'
<1> SUFFICES ASSUME IInv, [Next]_cvars PROVE Found'
  OBVIOUS
<1> USE DEF IInv, TypeOK, Found
<1>1. \A n \in Steps : Whole(n) => Whole(n)'
  BY WholeStays
<1>8. pointer # 0 => pointer \in Steps
  OBVIOUS
<1>2. CASE UploadPointer
  <2>1. pointer' = work.step /\ Whole(work.step) /\ work.step \in Steps
    BY <1>2, ShardsDone DEF UploadPointer, WorkInv
  <2> QED
    BY <1>1, <1>2, <2>1 DEF UploadPointer
<1>3. CASE LogReference
  <2>1. references' = references \cup {work.step} /\ Whole(work.step) /\ work.step \in Steps
    BY <1>3 DEF LogReference, WorkInv, Whole
  <2> QED
    BY <1>1, <1>3, <2>1 DEF LogReference
<1>4. CASE WriteMarker
  <2>1. markers' = markers \cup {work.step} /\ work.step \in references
    BY <1>4 DEF WriteMarker, WorkInv
  <2>2. pointer' = pointer /\ references' = references
    BY <1>4 DEF WriteMarker
  <2>3. markers' \subseteq references'
    BY <2>1, <2>2
  <2>4. (pointer # 0 => Whole(pointer))'
    BY <1>1, <1>8, <2>1, <2>2
  <2>5. \A n \in references' : Whole(n)'
    BY <1>1, <2>1, <2>2
  <2> QED
    BY <2>3, <2>4, <2>5
<1>5. CASE (\E f \in Files : UploadFile(f)) \/ UploadBegins \/ UploadFails
  BY <1>1, <1>5 DEF UploadFile, UploadBegins, UploadFails
<1>6. CASE Train \/ Kill \/ Recover \/ \E kept \in BOOLEAN : Begin(kept)
  <2>1. pointer' = pointer /\ references' = references
    BY <1>6 DEF Train, SaveShard, SaveDone, FitEnds, Drained, Kill, Recover, Begin
  <2>2. markers' = markers \/ markers' = {}
    BY <1>6 DEF Train, SaveShard, SaveDone, FitEnds, Drained, Kill, Recover, Begin
  <2>3. markers' \subseteq references'
    BY <2>1, <2>2
  <2>4. (pointer # 0 => Whole(pointer))'
    BY <1>1, <1>8, <2>1, <2>2
  <2>5. \A n \in references' : Whole(n)'
    BY <1>1, <2>1, <2>2
  <2> QED
    BY <2>3, <2>4, <2>5
<1>7. CASE UNCHANGED cvars
  BY <1>1, <1>7
<1> QED
  BY <1>2, <1>3, <1>4, <1>5, <1>6, <1>7 DEF Next, Upload

-----------------------------------------------------------------------------
(* The script keeps IInv, whoever composes it with the rest. *)
LEMMA StepKeepsInv == IInv /\ [Next]_cvars => IInv'
BY NextType, NextLife, NextDisk, NextWork, NextBucket, NextVerify, NextFound DEF IInv

(* IInv is an invariant of the script by itself. *)
LEMMA Inductive == Spec => []IInv
BY InitInv, StepKeepsInv, PTL DEF Spec

(* What a step left in the bucket, and the bytes behind a marker. *)
LEMMA InvGivesPublished == IInv => Published
<1> SUFFICES ASSUME IInv PROVE Published
  OBVIOUS
<1>1. ASSUME NEW n \in markers \ stale PROVE AsSaved(n)
  <2>1. n \in Steps /\ Whole(n)
    BY DEF IInv, TypeOK, Found
  <2> QED
    BY <2>1 DEF IInv, BucketInv, AsSaved, Whole
<1> QED
  BY <1>1 DEF Published, IInv

LEMMA InvGivesSuccess == IInv => SuccessIsPersisted
BY DEF IInv, VerifyInv, BucketInv, SuccessIsPersisted, AsSaved

(* Whatever dies or fails, the remote pointer and every registered artifact     *)
(* name a step that is whole, and the bytes behind a marker are those saved.    *)
THEOREM PublishedIsWhole == Spec => []Published
BY Inductive, InvGivesPublished, PTL

(* A script that exits with 0, and had the keys and a checkpoint directory, has  *)
(* persisted every step.                                                        *)
THEOREM SuccessPersists == Spec => []SuccessIsPersisted
BY Inductive, InvGivesSuccess, PTL
=============================================================================
