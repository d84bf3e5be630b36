-------------------------- MODULE CheckpointUpload --------------------------
(***************************************************************************)
(* The checkpoints of a taubench-verl training: what scripts/train_grpo.sh  *)
(* saves locally, what the uploader thread publishes meanwhile              *)
(* (trainer/checkpointing.py, checkpoint_artifacts.py), and what            *)
(* scripts/upload_checkpoints.py does once training is over.               *)
(*                                                                         *)
(* A step is published in four writes: its shards, the pointer, the W&B     *)
(* reference and the local marker.  The process may die between any two.    *)
(* A shard is the run of the script that wrote it: the shards of a step     *)
(* have the same size in every run, and so look alike to sync_directory.    *)
(*                                                                         *)
(* Definitions whose comment starts with "Bug:" are not part of the         *)
(* specification.                                                          *)
(***************************************************************************)
EXTENDS Naturals, Sequences, FiniteSets

CONSTANTS
  MaxStep,   \* scheduled saves of one training
  Shards,    \* the files of a global_step_* directory
  MaxRuns    \* bound on how often train_grpo.sh is run

ASSUME UploadAssumption == {MaxStep, MaxRuns} \subseteq Nat \ {0} /\ Shards # {}

Steps == 1 .. MaxStep
Files == Steps \X Shards

VARIABLES
  run,         \* the run of the script, from 1
  trainer,     \* the script: "training", "finishing" and "failing" (fit drains the
               \* uploader), "verifying" (upload_checkpoints.py), "done" and
               \* "failed" (exit code), "killed"
  keys,        \* CW_ACCESS_KEY and CW_SECRET_KEY are set
  hook,        \* the uploader exists: W&B was active at the first save
  disk,        \* local files: the run that wrote each, 0 for none
  saved,       \* the local latest_checkpointed_iteration.txt, 0 for none
  markers,     \* steps with a local reference marker
  queue,       \* steps submitted and not begun
  work,        \* the upload under way: where it is, its step, the files left
  bucket,      \* remote objects, as `disk`
  pointer,     \* the remote latest_checkpointed_iteration.txt
  references,  \* steps registered as W&B artifacts
  stale        \* history: steps of which the bucket had objects when the disk was lost

settings == <<keys, hook>>
local == <<disk, saved, markers>>
remote == <<bucket, pointer, references>>
cvars == <<run, trainer, settings, local, queue, work, remote, stale>>

Idle == [at |-> "idle", step |-> 0, left |-> {}]
Fitting == {"training", "finishing", "failing"}
Alive == Fitting \cup {"verifying"}
NoFiles == [f \in Files |-> 0]

Init ==
  /\ run = 0 /\ trainer = "off" /\ keys = FALSE /\ hook = FALSE
  /\ disk = NoFiles /\ saved = 0 /\ markers = {}
  /\ queue = <<>> /\ work = Idle
  /\ bucket = NoFiles /\ pointer = 0 /\ references = {} /\ stale = {}

-----------------------------------------------------------------------------
(* Training. *)

(* train_grpo.sh starts: on the pod of an earlier run, whose disk is kept and   *)
(* whose latest step veRL resumes from, or in a new sandbox.  Without the keys  *)
(* of the bucket _get_checkpoint_uploader() gives no uploader.                  *)
Begin(kept) ==
  /\ trainer \notin Alive /\ run < MaxRuns
  /\ run' = run + 1 /\ trainer' = "training"
  /\ keys' \in BOOLEAN /\ hook' \in (IF keys' THEN BOOLEAN ELSE {FALSE})
  /\ IF kept
       THEN UNCHANGED <<local, stale>>
       ELSE /\ disk' = NoFiles /\ saved' = 0 /\ markers' = {}
            /\ stale' = {n \in Steps : \E s \in Shards : bucket[<<n, s>>] # 0}
  /\ queue' = <<>> /\ work' = Idle
  /\ UNCHANGED remote

(* super()._save_checkpoint() writes a shard of the next step, *)
SaveShard(s) ==
  LET f == <<saved + 1, s>> IN
  /\ trainer = "training" /\ saved < MaxStep /\ disk[f] # run
  /\ disk' = [disk EXCEPT ![f] = run]
  /\ UNCHANGED <<run, trainer, settings, saved, markers, queue, work, remote, stale>>

(* and, after all of them, the local pointer; _save_checkpoint submits the step. *)
SaveDone ==
  /\ trainer = "training" /\ saved < MaxStep
  /\ \A s \in Shards : disk[<<saved + 1, s>>] = run
  /\ saved' = saved + 1
  /\ queue' = IF hook THEN Append(queue, saved + 1) ELSE queue
  /\ UNCHANGED <<run, trainer, settings, disk, markers, work, remote, stale>>

(* fit() has trained every step, with the saves scheduled or with none, or      *)
(* raises; either way it drains the uploader.                                   *)
FitEnds ==
  /\ trainer = "training"
  /\ trainer' \in (IF saved = MaxStep \/ disk = NoFiles THEN {"finishing"} ELSE {}) \cup {"failing"}
  /\ UNCHANGED <<run, settings, local, queue, work, remote, stale>>

(* upload_checkpoints.py: sync_directory() takes every local file and the local *)
(* pointer last, the order of sorted().                                         *)
Verifying ==
  [at |-> "shards", step |-> saved, left |-> {f \in Files : disk[f] # 0}]

(* It is run when there are keys and a checkpoint directory; otherwise "the     *)
(* checkpoints remain local", and train_grpo.sh exits with 0 all the same.      *)
Verifiable == keys /\ disk # NoFiles

(* The uploader is drained.  Under `set -e` only a training that succeeded gets *)
(* as far as the check.                                                         *)
Drained ==
  /\ queue = <<>> /\ work = Idle
  /\ \/ trainer = "finishing" /\ Verifiable /\ trainer' = "verifying" /\ work' = Verifying
     \/ trainer = "finishing" /\ ~Verifiable /\ trainer' = "done" /\ UNCHANGED work
     \/ trainer = "failing" /\ trainer' = "failed" /\ UNCHANGED work
  /\ UNCHANGED <<run, settings, local, queue, remote, stale>>

(* The operator repeats upload_checkpoints.py for a completed training, with    *)
(* the keys exported.                                                           *)
Recover ==
  /\ trainer \notin Alive /\ saved = MaxStep
  /\ trainer' = "verifying" /\ work' = Verifying /\ keys' = TRUE
  /\ UNCHANGED <<run, hook, local, queue, remote, stale>>

(* The machine, the sandbox or the process goes, with whatever was queued.      *)
Kill ==
  /\ trainer \in Alive
  /\ trainer' = "killed" /\ queue' = <<>> /\ work' = Idle
  /\ UNCHANGED <<run, settings, local, remote, stale>>

-----------------------------------------------------------------------------
(* Uploading: one step at a time on the uploader's only thread, or by           *)
(* upload_checkpoints.py.                                                       *)

Moves(at) == work' = [work EXCEPT !.at = at]

UploadBegins ==
  /\ trainer \in Fitting /\ work = Idle /\ queue # <<>>
  /\ work' = [at |-> "shards", step |-> Head(queue), left |-> {Head(queue)} \X Shards]
  /\ queue' = Tail(queue)
  /\ UNCHANGED <<run, trainer, settings, local, remote, stale>>

(* sync_directory() skips an object whose size is the file's: one that is there. *)
UploadFile(f) ==
  /\ work.at = "shards" /\ f \in work.left
  /\ bucket' = IF bucket[f] # 0 THEN bucket ELSE [bucket EXCEPT ![f] = disk[f]]
  /\ work' = [work EXCEPT !.left = @ \ {f}]
  /\ UNCHANGED <<run, trainer, settings, local, queue, pointer, references, stale>>

Missing == {n \in Steps : (\E s \in Shards : disk[<<n, s>>] # 0) /\ n \notin markers}

(* log_missing_references() goes on with the next step without a marker; main   *)
(* returns 0 when there is none.                                                *)
Repair(missing) ==
  IF missing = {} THEN trainer' = "done" /\ work' = Idle
  ELSE /\ \E n \in missing :
            /\ \A m \in missing : n <= m
            /\ work' = [at |-> "reference", step |-> n, left |-> {}]
       /\ UNCHANGED trainer

(* Bug: the pointer is published before the shards. *)
UploadPointerFirst ==
  /\ work.at = "shards" /\ pointer # work.step
  /\ pointer' = work.step
  /\ IF trainer = "verifying" /\ work.left = {} THEN Repair(Missing)
     ELSE (IF work.left = {} THEN Moves("reference") ELSE UNCHANGED work) /\ UNCHANGED trainer
  /\ UNCHANGED <<run, settings, local, queue, bucket, references, stale>>

(* put_object() of the step; main uploads the local pointer file, whatever its  *)
(* size, and goes on to the missing references.                                 *)
UploadPointer ==
  /\ work.at = "shards" /\ work.left = {}
  /\ pointer' = work.step
  /\ IF trainer = "verifying" THEN Repair(Missing) ELSE Moves("reference") /\ UNCHANGED trainer
  /\ UNCHANGED <<run, settings, local, queue, bucket, references, stale>>

(* _log_reference(): log_artifact and its wait, *)
LogReference ==
  /\ work.at = "reference"
  /\ references' = references \cup {work.step} /\ Moves("marker")
  /\ UNCHANGED <<run, trainer, settings, local, queue, bucket, pointer, stale>>

(* and the local success marker. *)
WriteMarker ==
  /\ work.at = "marker"
  /\ markers' = markers \cup {work.step}
  /\ IF trainer = "verifying" THEN Repair(Missing \ {work.step})
     ELSE work' = Idle /\ UNCHANGED trainer
  /\ UNCHANGED <<run, settings, disk, saved, queue, remote, stale>>

(* Bug: main only warns, whatever failed. *)
UploadFailsWarns ==
  /\ work.at # "idle" /\ work' = Idle
  /\ trainer' = IF trainer = "verifying" THEN "done" ELSE trainer
  /\ UNCHANGED <<run, settings, local, queue, remote, stale>>

(* A request fails, or is not answered in time although it took effect.  The    *)
(* uploader's future keeps the exception; main fails without the bytes, but     *)
(* only warns without a reference.                                              *)
UploadFails ==
  /\ work.at # "idle" /\ work' = Idle
  /\ trainer' = IF trainer # "verifying" THEN trainer
                ELSE IF work.at = "shards" THEN "failed" ELSE "done"
  /\ UNCHANGED <<run, settings, local, queue, remote, stale>>

Upload ==
  \/ UploadBegins \/ UploadPointer \/ LogReference \/ WriteMarker \/ UploadFails
  \/ \E f \in Files : UploadFile(f)

Train == (\E s \in Shards : SaveShard(s)) \/ SaveDone \/ FitEnds \/ Drained

Next == Train \/ Upload \/ Kill \/ Recover \/ \E kept \in BOOLEAN : Begin(kept)

Spec == Init /\ [][Next]_cvars

-----------------------------------------------------------------------------
TypeOK ==
  /\ run \in 0 .. MaxRuns
  /\ trainer \in Alive \cup {"off", "done", "failed", "killed"}
  /\ keys \in BOOLEAN /\ hook \in BOOLEAN
  /\ disk \in [Files -> 0 .. MaxRuns] /\ bucket \in [Files -> 0 .. MaxRuns]
  /\ saved \in 0 .. MaxStep /\ pointer \in 0 .. MaxStep
  /\ markers \subseteq Steps /\ references \subseteq Steps /\ stale \subseteq Steps
  /\ queue \in Seq(Steps)
  /\ work \in [at : {"idle", "shards", "reference", "marker"}, step : 0 .. MaxStep, left : SUBSET Files]

(* What somebody can find, the pointer or a registered artifact, names a step   *)
(* all of whose shards are in the bucket: "Publish the pointer only after every *)
(* shard for this step is present" (checkpoint_artifacts.py:219).               *)
Whole(n) == \A s \in Shards : bucket[<<n, s>>] # 0

Found ==
  /\ pointer # 0 => Whole(pointer)
  /\ \A n \in references : Whole(n)
  /\ markers \subseteq references

(* The bytes behind a reference this machine registered are those it saved:     *)
(* though sync_directory compares only sizes, no step is saved again once it    *)
(* was uploaded.  Steps of which an earlier run left objects are excepted.      *)
AsSaved(n) == \A s \in Shards : bucket[<<n, s>>] = disk[<<n, s>>]

Published == Found /\ \A n \in markers \ stale : AsSaved(n)

(* A script that exits with 0, had the keys and saved a checkpoint has          *)
(* persisted the bytes of every step, and the pointer names the last: "Byte     *)
(* persistence is the durability boundary" (upload_checkpoints.py:89).  The two *)
(* conditions are train_grpo.sh:202's: "Without storage credentials,            *)
(* checkpoints remain local" (README.md:258), and the exit code does not tell.  *)
SuccessIsPersisted ==
  trainer = "done" /\ Verifiable => pointer = MaxStep /\ \A n \in Steps \ stale : AsSaved(n)
=============================================================================
