---------------------------- MODULE DapoRunProofs ----------------------------
(***************************************************************************)
(* Proofs about DapoRun and the WeightSync inside it, for any ranks,         *)
(* replicas, tensors, optimizer steps and model shards.                     *)
(*                                                                         *)
(* Weights.  SyncInv follows one version of them from the optimizer step    *)
(* through export, snapshot and hot-load to the rollouts; StageInv does the *)
(* same for the base model, which the deployment loads first.               *)
(*                                                                         *)
(* Cleaning up.  OrderInv says what the launcher must have learnt before    *)
(* something else can exist; LeftInv, for each step of stop_all that is     *)
(* over, that what it deletes is gone or accounted for.                     *)
(***************************************************************************)
EXTENDS DapoRun, TLAPS

Phases == {"off", "stale", "exporting", "loading", "loaded", "deleted", "rollout", "done", "failed"}
Creating == Starting \cup {"following"}
Deploying == {"deploy", "deploying", "configuring", "informing", "following"}
BeforeGateway == {"start", "keying", "gateway", "gating", "readying"}
BeforeJob == BeforeGateway \cup {"gym", "gymming", "address", "submit", "queueing"}

WType ==
  /\ phase \in Phases /\ version \in Versions /\ trained \in 0 .. MaxSteps
  /\ at \in [Ranks -> 1 .. Vote + 1] /\ held \in BOOLEAN /\ export \in {"none", "tmp", "whole"}
  /\ snap \in [Versions -> {"none", "part", "whole"}] /\ holds \in [Versions -> 0 .. MaxSteps]
  /\ load \in Versions /\ serves \in [Replicas -> Versions]

\* How many versions there have been, against how many optimizer steps.
CountInv ==
  /\ phase = "off" => version = 0 /\ trained = 0
  /\ phase \in {"stale", "exporting", "loading", "loaded", "deleted"} => version = trained
  /\ phase \in {"rollout", "done"} => version = trained + 1

\* Outside a hot-load all replicas serve the same version.
ReplicaInv ==
  /\ phase \in {"off", "stale", "exporting", "rollout"} => load = version
  /\ phase = "loading" => load \in {version, Upcoming}
  /\ phase \in {"loaded", "deleted"} => load = Upcoming
  /\ phase \in {"off", "stale", "exporting", "loaded", "deleted", "rollout"} =>
       \A q \in Replicas : serves[q] = load
  /\ phase = "loading" => \A q \in Replicas : serves[q] \in {version, load}

\* A snapshot that is not the upcoming one's predecessor was made of the last weights.
HoldInv ==
  /\ phase \in {"off", "stale", "exporting", "rollout"} =>
       \A v \in Versions : v > version => snap[v] = "none"
  /\ phase \in {"loading", "loaded", "deleted"} =>
       \A v \in Versions : v > Upcoming => snap[v] = "none"
  /\ phase = "loading" /\ (snap[Upcoming] # "none" \/ load = Upcoming) => holds[Upcoming] = trained
  /\ phase \in {"loaded", "deleted"} => holds[Upcoming] = trained
  /\ phase = "rollout" => holds[version] = trained

\* Only a whole export is published; no rank is more than one collective ahead.
ExportInv ==
  /\ phase = "exporting" =>
       export = IF at[Writer] =< Tensors THEN "tmp" ELSE IF held THEN "none" ELSE "whole"
  /\ phase = "exporting" => \A q, r \in Ranks : at[q] =< at[r] + 1
  /\ phase = "loading" => export = "whole"

SyncInv == WType /\ CountInv /\ ReplicaInv /\ HoldInv /\ ExportInv

-----------------------------------------------------------------------------
(* The weights. *)

LEMMA Numbers ==
  /\ MaxSteps \in Nat \ {0} /\ Tensors \in Nat \ {0} /\ Vote = Tensors + 1 /\ 0 \in Versions
  /\ Versions \subseteq Nat /\ \A n \in 0 .. MaxSteps : n \in Versions /\ n + 1 \in Versions
BY SyncAssumption DEF Vote, Versions

USE DEF Phases

LEMMA InitSync == WInit => SyncInv
<1> SUFFICES ASSUME WInit PROVE SyncInv
  OBVIOUS
<1>1. WType
  <2>1. at \in [Ranks -> 1 .. Vote + 1]
    BY Numbers DEF WInit
  <2>2. held \in BOOLEAN
    BY DEF WInit
  <2>3. snap \in [Versions -> {"none", "part", "whole"}] /\ holds \in [Versions -> 0 .. MaxSteps]
    BY Numbers DEF WInit
  <2>4. load \in Versions /\ serves \in [Replicas -> Versions]
    BY Numbers DEF WInit
  <2>5. phase \in Phases /\ version \in Versions /\ trained \in 0 .. MaxSteps /\ export = "none"
    BY Numbers DEF WInit
  <2> QED BY <2>1, <2>2, <2>3, <2>4, <2>5 DEF WType
<1>2. CountInv /\ ReplicaInv /\ HoldInv /\ ExportInv
  BY DEF WInit, CountInv, ReplicaInv, HoldInv, ExportInv
<1> QED BY <1>1, <1>2 DEF SyncInv

LEMMA ExportBeginsSync == SyncInv /\ ExportBegins => SyncInv'
<1> SUFFICES ASSUME SyncInv, ExportBegins PROVE SyncInv'
  OBVIOUS
<1>1. WType' /\ ExportInv'
  <2>1. at' \in [Ranks -> 1 .. Vote + 1] /\ at'[Writer] = 1
    BY Numbers, SyncAssumption DEF ExportBegins
  <2>2. held' \in BOOLEAN /\ UNCHANGED Vote
    BY DEF ExportBegins, Vote
  <2>3. WType'
    BY <2>1, <2>2 DEF SyncInv, WType, ExportBegins
  <2> QED BY <2>1, <2>3, Numbers DEF ExportBegins, ExportInv
<1>2. CountInv' /\ ReplicaInv' /\ HoldInv'
  BY DEF SyncInv, CountInv, ReplicaInv, HoldInv, ExportBegins, Upcoming
<1> QED BY <1>1, <1>2 DEF SyncInv

LEMMA GatherSync == ASSUME SyncInv, NEW r \in Ranks, Gather(r) PROVE SyncInv'
<1>1. WType'
  BY Numbers DEF SyncInv, WType, Gather
<1>2. ExportInv'
  <2>1. \A q \in Ranks : at[q] \in Nat /\ at'[q] = IF q = r THEN at[r] + 1 ELSE at[q]
    BY Numbers DEF SyncInv, WType, Gather
  <2>2. \A p, q \in Ranks : at'[p] =< at'[q] + 1
    BY <2>1 DEF Gather, Met, SyncInv, ExportInv
  <2>3. export' = IF at'[Writer] =< Tensors THEN "tmp" ELSE IF held THEN "none" ELSE "whole"
    BY <2>1, Numbers, SyncAssumption DEF Gather, SyncInv, ExportInv
  <2> QED BY <2>2, <2>3 DEF Gather, ExportInv
<1>3. CountInv' /\ ReplicaInv' /\ HoldInv'
  BY DEF SyncInv, CountInv, ReplicaInv, HoldInv, Gather, Upcoming
<1> QED BY <1>1, <1>2, <1>3 DEF SyncInv

LEMMA WriteFailsSync == SyncInv /\ WriteFails => SyncInv'
<1> SUFFICES ASSUME SyncInv, WriteFails PROVE SyncInv'
  OBVIOUS
<1>1. WType' /\ ExportInv'
  BY DEF SyncInv, WType, WriteFails, ExportInv, Vote
<1>2. CountInv' /\ ReplicaInv' /\ HoldInv'
  BY DEF SyncInv, CountInv, ReplicaInv, HoldInv, WriteFails, Upcoming
<1> QED BY <1>1, <1>2 DEF SyncInv

LEMMA ExportedSync == SyncInv /\ Exported => SyncInv'
<1> SUFFICES ASSUME SyncInv, Exported PROVE SyncInv'
  OBVIOUS
<1>1. WType' /\ ExportInv'
  BY Numbers, SyncAssumption DEF SyncInv, WType, Exported, ExportInv
<1>2. CountInv' /\ ReplicaInv'
  BY DEF SyncInv, CountInv, ReplicaInv, Exported, Upcoming
<1>3. HoldInv'
  BY Numbers DEF SyncInv, WType, ReplicaInv, HoldInv, Exported, Upcoming, CountInv
<1> QED BY <1>1, <1>2, <1>3 DEF SyncInv

LEMMA UploadSnapshotSync == SyncInv /\ UploadSnapshot => SyncInv'
<1> SUFFICES ASSUME SyncInv, UploadSnapshot PROVE SyncInv'
  OBVIOUS
<1>1. Upcoming \in Versions
  BY Numbers DEF SyncInv, WType, CountInv, UploadSnapshot, Upcoming
<1>2. WType' /\ ExportInv' /\ CountInv'
  BY <1>1 DEF SyncInv, WType, UploadSnapshot, ExportInv, CountInv, Vote
<1>3. ReplicaInv'
  BY DEF SyncInv, ReplicaInv, UploadSnapshot, Upcoming
<1>4. HoldInv'
  BY Numbers, <1>1 DEF SyncInv, WType, HoldInv, UploadSnapshot, Upcoming
<1> QED BY <1>2, <1>3, <1>4 DEF SyncInv

LEMMA HotLoadSync == SyncInv /\ HotLoad => SyncInv'
<1> SUFFICES ASSUME SyncInv, HotLoad PROVE SyncInv'
  OBVIOUS
<1>1. Upcoming \in Versions
  BY Numbers DEF SyncInv, WType, CountInv, HotLoad, Upcoming
<1>2. WType' /\ ExportInv' /\ CountInv'
  BY <1>1 DEF SyncInv, WType, HotLoad, ExportInv, CountInv, Vote
<1>3. ReplicaInv'
  <2>1. load \in {version, Upcoming} /\ \A q \in Replicas : serves[q] \in {version, load}
    BY DEF SyncInv, ReplicaInv, HotLoad
  <2> QED BY <2>1 DEF ReplicaInv, HotLoad, Upcoming
<1>4. HoldInv'
  BY DEF SyncInv, HoldInv, HotLoad, Upcoming
<1> QED BY <1>2, <1>3, <1>4 DEF SyncInv

LEMMA SwapSync == ASSUME SyncInv, NEW q \in Replicas, Swap(q) PROVE SyncInv'
<1>1. WType' /\ ExportInv' /\ CountInv'
  BY DEF SyncInv, WType, Swap, ExportInv, CountInv, Vote
<1>2. ReplicaInv'
  BY DEF SyncInv, WType, ReplicaInv, Swap, Upcoming
<1>3. HoldInv'
  BY DEF SyncInv, HoldInv, Swap, Upcoming
<1> QED BY <1>1, <1>2, <1>3 DEF SyncInv

LEMMA LoadedSync == SyncInv /\ Loaded => SyncInv'
<1> SUFFICES ASSUME SyncInv, Loaded PROVE SyncInv'
  OBVIOUS
<1>1. WType' /\ ExportInv' /\ CountInv'
  BY DEF SyncInv, WType, Loaded, ExportInv, CountInv, Vote
<1>2. load = Upcoming
  <2>1. PICK q \in Replicas : serves[q] = Upcoming
    BY SyncAssumption DEF Loaded
  <2> QED BY <2>1, Numbers DEF SyncInv, WType, ReplicaInv, Loaded, Upcoming
<1>3. ReplicaInv'
  BY <1>2 DEF ReplicaInv, Loaded, Upcoming
<1>4. HoldInv'
  BY <1>2 DEF SyncInv, HoldInv, Loaded, Upcoming
<1> QED BY <1>1, <1>3, <1>4 DEF SyncInv

LEMMA DeletePreviousSync == SyncInv /\ DeletePrevious => SyncInv'
<1> SUFFICES ASSUME SyncInv, DeletePrevious PROVE SyncInv'
  OBVIOUS
<1>1. WType' /\ ExportInv' /\ CountInv'
  BY DEF SyncInv, WType, DeletePrevious, ExportInv, CountInv, Vote
<1>2. ReplicaInv'
  BY DEF SyncInv, ReplicaInv, DeletePrevious, Upcoming
<1>3. HoldInv'
  BY DEF SyncInv, WType, HoldInv, DeletePrevious, Upcoming
<1> QED BY <1>1, <1>2, <1>3 DEF SyncInv

LEMMA SyncedSync == SyncInv /\ Synced => SyncInv'
<1> SUFFICES ASSUME SyncInv, Synced PROVE SyncInv'
  OBVIOUS
<1>1. WType' /\ ExportInv' /\ CountInv'
  BY Numbers DEF SyncInv, WType, Synced, ExportInv, CountInv, Vote, Upcoming
<1>2. ReplicaInv' /\ HoldInv'
  BY DEF SyncInv, ReplicaInv, HoldInv, Synced, Upcoming
<1> QED BY <1>1, <1>2 DEF SyncInv

LEMMA TrainStepSync == SyncInv /\ TrainStep => SyncInv'
<1> SUFFICES ASSUME SyncInv, TrainStep PROVE SyncInv'
  OBVIOUS
<1>1. WType' /\ ExportInv' /\ CountInv'
  BY Numbers DEF SyncInv, WType, TrainStep, ExportInv, CountInv, Vote
<1>2. ReplicaInv' /\ HoldInv'
  BY DEF SyncInv, ReplicaInv, HoldInv, TrainStep, Upcoming
<1> QED BY <1>1, <1>2 DEF SyncInv

\* The trainer ends, in whatever phase.
LEMMA EndSync ==
  ASSUME SyncInv, phase' = "failed" \/ (phase = "done" /\ phase' = "done"),
         UNCHANGED <<version, trained, at, held, export, snap, holds, load, serves>>
  PROVE  SyncInv'
BY DEF SyncInv, WType, CountInv, ReplicaInv, HoldInv, ExportInv, Vote

\* It begins, with the base model everywhere.
LEMMA BeginSync ==
  ASSUME SyncInv, phase = "off", phase' = "stale",
         UNCHANGED <<version, trained, at, held, export, snap, holds, load, serves>>
  PROVE  SyncInv'
BY DEF SyncInv, WType, CountInv, ReplicaInv, HoldInv, ExportInv, Vote

\* Objects under the run's prefix are deleted, or the base model is written.
LEMMA SnapSync ==
  ASSUME SyncInv, snap' \in [Versions -> {"none", "part", "whole"}],
         \A v \in Versions \ {0} : snap'[v] \in {"none", snap[v]},
         UNCHANGED <<phase, version, trained, at, held, export, holds, load, serves>>
  PROVE  SyncInv'
<1>1. WType' /\ CountInv' /\ ReplicaInv' /\ ExportInv'
  BY DEF SyncInv, WType, CountInv, ReplicaInv, ExportInv, Vote, Upcoming
<1>2. version \in Nat /\ \A v \in Versions : v > version => v # 0
  BY Numbers DEF SyncInv, WType
<1>3. HoldInv'
  BY <1>2, Numbers DEF SyncInv, WType, CountInv, HoldInv, Upcoming
<1> QED BY <1>1, <1>3 DEF SyncInv

LEMMA SameSync == SyncInv /\ UNCHANGED wvars => SyncInv'
BY DEF wvars, SyncInv, WType, CountInv, ReplicaInv, HoldInv, ExportInv, Vote, Upcoming

-----------------------------------------------------------------------------
(* The weights, under a job that may end in any phase. *)

USE DEF Starting, Stopping, Creating, Deploying, BeforeGateway, BeforeJob, Things

\* The trainer waits for the job's stages, and these for the launcher's.
StageInv ==
  /\ trainer \notin {"training", "over"} => phase = "off"
  /\ trainer \in {"copying", "staged", "calibrating"} => complete
  /\ complete => cache = Shards
  /\ step \in Deploying => trainer \notin {"staging", "copying"}
  /\ step \in Creating /\ trainer \in {"staged", "calibrating"} => snap[0] = "whole"
  /\ step \in Creating /\ "deployment" \in asked \cup up => step \in Deploying
  /\ step \in Deploying => snap[load] = "whole" /\ \A q \in Replicas : snap[serves[q]] = "whole"

WeightInv == SyncInv /\ StageInv

\* A step that leaves the weights, the model and the trainer alone, and takes
\* the launcher no nearer to a deployment.
LEMMA AsideStep ==
  ASSUME WeightInv, UNCHANGED <<wvars, trainer, cache, complete>>,
         step' \in Deploying => step \in Deploying,
         step' \in Creating => step \in Creating,
         "deployment" \in (asked \cup up)' => "deployment" \in asked \cup up \/ step' \in Deploying,
         step' \notin Deploying => step \notin Deploying \/ step' \notin Creating
  PROVE  WeightInv'
<1>1. SyncInv'
  BY SameSync DEF WeightInv
<1>2. StageInv'
  BY DEF WeightInv, StageInv, wvars
<1> QED BY <1>1, <1>2 DEF WeightInv

LEMMA InitWeight == DInit => WeightInv
BY InitSync DEF DInit, WInit, WeightInv, StageInv

LEMMA LaunchWeight == WeightInv /\ Launch => WeightInv'
<1> SUFFICES ASSUME WeightInv, Launch PROVE WeightInv'
  OBVIOUS
<1>1. CASE AskKey \/ AskGateway \/ AskGym \/ AskJob \/ AskDeployment
  BY <1>1, AsideStep DEF AskKey, AskGateway, AskGym, AskJob, AskDeployment, Ask, jvars
<1>2. CASE KeyNamed \/ GatewayReady \/ GymNamed \/ JobNamed \/ DeploymentNamed
  BY <1>2, AsideStep DEF KeyNamed, GatewayReady, GymNamed, JobNamed, DeploymentNamed, Learn, jvars
<1>3. CASE GatewayAnswered \/ GymRejected \/ ReadAddress
  BY <1>3, AsideStep DEF GatewayAnswered, GymRejected, ReadAddress, Passes, jvars
<1>4. CASE ModelStaged
  <2>1. SyncInv'
    BY <1>4, SameSync DEF WeightInv, ModelStaged, Passes
  <2>2. load = 0 /\ \A q \in Replicas : serves[q] = 0
    BY <1>4 DEF ModelStaged, WeightInv, SyncInv, StageInv, CountInv, ReplicaInv
  <2>3. StageInv'
    BY <1>4, <2>2 DEF WeightInv, StageInv, ModelStaged, Passes, wvars, jvars
  <2> QED BY <2>1, <2>3 DEF WeightInv
<1>5. CASE WriteSecrets \/ TellTrainer \/ TellGym
  BY <1>5, AsideStep DEF WriteSecrets, TellTrainer, TellGym, WriteFile, jvars
<1>6. CASE PeerStopped \/ JobFollowed \/ Raises
  BY <1>6, AsideStep DEF PeerStopped, JobFollowed, Raises, Ends, jvars
<1> QED BY <1>1, <1>2, <1>3, <1>4, <1>5, <1>6 DEF Launch

LEMMA StopWeight == WeightInv /\ StopAll => WeightInv'
<1> SUFFICES ASSUME WeightInv, StopAll PROVE WeightInv'
  OBVIOUS
<1>1. CASE CancelJob \/ ListSandboxes \/ StopSandboxes
  BY <1>1, AsideStep DEF CancelJob, ListSandboxes, StopSandboxes, Goes, Rest, Same
<1>2. CASE DeleteDeployment \/ DeleteGateway \/ RevokeKey
  BY <1>2, AsideStep DEF DeleteDeployment, DeleteGateway, RevokeKey, Delete, Goes, Rest, Same
<1>3. CASE DeleteObjects
  <2>1. SyncInv'
    <3>1. snap \in [Versions -> {"none", "part", "whole"}]
      BY DEF WeightInv, SyncInv, WType
    <3>2. /\ snap' \in [Versions -> {"none", "part", "whole"}]
          /\ \A v \in Versions \ {0} : snap'[v] \in {"none", snap[v]}
      BY <1>3, <3>1 DEF DeleteObjects
    <3> QED BY <1>3, <3>2, SnapSync DEF DeleteObjects, WeightInv
  <2>2. StageInv'
    BY <1>3 DEF WeightInv, StageInv, DeleteObjects, Goes, Rest, Same
  <2> QED BY <2>1, <2>2 DEF WeightInv
<1>4. CASE StopInterrupted
  BY <1>4, AsideStep DEF StopInterrupted, jvars
<1> QED BY <1>1, <1>2, <1>3, <1>4 DEF StopAll

\* The trainer's own steps, while the job runs.
LEMMA TrainWeight ==
  ASSUME WeightInv, CollectiveStep \/ UploadStep \/ SyncStep \/ SwapStep
  PROVE  WeightInv'
<1> USE DEF Trains, Others, lvars, jvars
<1>1. CASE CollectiveStep
  <2>1. SyncInv'
    BY <1>1, GatherSync, ExportedSync DEF CollectiveStep, Collective, WeightInv
  <2>2. UNCHANGED <<snap, load, serves, step, asked, up, trainer, cache, complete>> /\ trainer = "training"
    BY <1>1 DEF CollectiveStep, Collective, Gather, Exported
  <2>3. StageInv'
    BY <2>2 DEF WeightInv, StageInv
  <2> QED BY <2>1, <2>3 DEF WeightInv
<1>2. CASE UploadStep
  <2>1. SyncInv'
    BY <1>2, UploadSnapshotSync DEF UploadStep, WeightInv
  <2>2. \A v \in Versions : snap[v] = "whole" => snap'[v] = "whole"
    BY <1>2 DEF UploadStep, UploadSnapshot, WeightInv, SyncInv, WType
  <2>3. StageInv'
    BY <1>2, <2>2 DEF UploadStep, UploadSnapshot, WeightInv, StageInv, SyncInv, WType
  <2> QED BY <2>1, <2>3 DEF WeightInv
<1>3. CASE SyncStep
  <2>1. SyncInv'
    BY <1>3, ExportBeginsSync, WriteFailsSync, HotLoadSync, LoadedSync, DeletePreviousSync, SyncedSync,
       TrainStepSync, EndSync DEF SyncStep, SyncFails, WeightInv
  <2>2. UNCHANGED <<step, asked, up, trainer, cache, complete>> /\ trainer = "training"
    BY <1>3 DEF SyncStep
  <2>3. CASE HotLoad
    BY <2>1, <2>2, <2>3 DEF WeightInv, StageInv, HotLoad
  <2>4. CASE DeletePrevious
    <3>1. load # version /\ \A q \in Replicas : serves[q] = load
      BY <2>4, Numbers DEF WeightInv, SyncInv, WType, ReplicaInv, DeletePrevious, Upcoming
    <3>2. load \in Versions /\ \A v \in Versions : v # version => snap'[v] = snap[v]
      BY <2>4 DEF WeightInv, SyncInv, WType, DeletePrevious
    <3> QED BY <2>1, <2>2, <2>4, <3>1, <3>2 DEF WeightInv, StageInv, DeletePrevious
  <2>5. CASE ExportBegins \/ WriteFails \/ Loaded \/ Synced \/ TrainStep \/ SyncFails
    <3>1. UNCHANGED <<snap, load, serves>>
      BY <2>5 DEF ExportBegins, WriteFails, Loaded, Synced, TrainStep, SyncFails
    <3> QED BY <2>1, <2>2, <3>1 DEF WeightInv, StageInv
  <2> QED BY <1>3, <2>3, <2>4, <2>5 DEF SyncStep
<1>4. CASE SwapStep
  <2>1. PICK q \in Replicas : Swap(q)
    BY <1>4 DEF SwapStep
  <2>2. SyncInv'
    BY <2>1, SwapSync DEF WeightInv
  <2>3. StageInv'
    BY <1>4, <2>1 DEF SwapStep, Swap, ovars, WeightInv, StageInv, SyncInv, WType
  <2> QED BY <2>2, <2>3 DEF WeightInv
<1> QED BY <1>1, <1>2, <1>3, <1>4

LEMMA JobWeight == WeightInv /\ Job => WeightInv'
<1> SUFFICES ASSUME WeightInv, Job PROVE WeightInv'
  OBVIOUS
<1> USE DEF Others, lvars
<1>1. CASE JobLands
  BY <1>1, AsideStep DEF JobLands
<1>8. CASE JobStarts
  <2>1. SyncInv'
    BY <1>8, SameSync DEF WeightInv, JobStarts
  <2>2. StageInv'
    BY <1>8 DEF WeightInv, StageInv, JobStarts, wvars
  <2> QED BY <2>1, <2>2 DEF WeightInv
<1>2. CASE MarkComplete \/ \E s \in Shards : UploadModel(s)
  <2>1. SyncInv'
    BY <1>2, SameSync DEF WeightInv, MarkComplete, UploadModel
  <2>2. StageInv'
    BY <1>2 DEF WeightInv, StageInv, MarkComplete, UploadModel, wvars
  <2> QED BY <2>1, <2>2 DEF WeightInv
<1>3. CASE CopyModel \/ CopiedModel
  <2>1. PICK how \in {"part", "whole"} : Base(how)
    BY <1>3 DEF CopyModel, CopiedModel
  <2>2. SyncInv'
    <3>1. /\ snap' \in [Versions -> {"none", "part", "whole"}]
          /\ \A v \in Versions \ {0} : snap'[v] = snap[v]
      BY <2>1 DEF Base, WeightInv, SyncInv, WType
    <3> QED BY <2>1, <3>1, SnapSync DEF Base, WeightInv
  <2>3. snap'[0] = how /\ UNCHANGED <<load, serves, phase>>
    BY <2>1, Numbers DEF Base, WeightInv, SyncInv, WType
  <2>4. StageInv'
    BY <1>3, <2>3, Numbers DEF WeightInv, StageInv, CopyModel, CopiedModel, Base, SyncInv, WType
  <2> QED BY <2>2, <2>4 DEF WeightInv
<1>4. CASE Calibrate
  <2>1. SyncInv'
    BY <1>4, SameSync DEF WeightInv, Calibrate
  <2>2. StageInv'
    BY <1>4 DEF WeightInv, StageInv, Calibrate, wvars
  <2> QED BY <2>1, <2>2 DEF WeightInv
<1>5. CASE TrainerStarts
  <2>1. SyncInv'
    BY <1>5, BeginSync DEF WeightInv, StageInv, TrainerStarts
  <2>2. StageInv'
    BY <1>5 DEF WeightInv, StageInv, TrainerStarts
  <2> QED BY <2>1, <2>2 DEF WeightInv
<1>6. CASE CollectiveStep \/ UploadStep \/ SyncStep \/ SwapStep
  BY <1>6, TrainWeight
<1>7. CASE JobEnds
  <2>1. SyncInv'
    BY <1>7, EndSync DEF WeightInv, JobEnds
  <2>2. StageInv'
    BY <1>7 DEF WeightInv, StageInv, JobEnds
  <2> QED BY <2>1, <2>2 DEF WeightInv
<1> QED BY <1>1, <1>2, <1>3, <1>4, <1>5, <1>6, <1>7, <1>8 DEF Job

LEMMA OtherWeight ==
  ASSUME WeightInv, Address \/ Serve \/ GymDies \/ UNCHANGED vars
                    \/ \E x \in asked : Lands(x) \/ Refused(x)
  PROVE  WeightInv'
<1>1. CASE Address \/ Serve \/ GymDies
  BY <1>1, AsideStep DEF Address, Serve, GymMoves, GymDies, lvars, jvars
<1>2. ASSUME NEW x \in asked, Lands(x) \/ Refused(x) PROVE WeightInv'
  BY <1>2, AsideStep DEF Lands, Refused, lvars, jvars
<1>3. CASE UNCHANGED vars
  BY <1>3, AsideStep DEF vars, ovars, lvars, jvars
<1> QED BY <1>1, <1>2, <1>3

LEMMA WeightsKept == DSpec => []WeightInv
<1>1. WeightInv /\ [DNext]_vars => WeightInv'
  BY LaunchWeight, StopWeight, JobWeight, OtherWeight DEF DNext
<1> QED BY InitWeight, <1>1, PTL DEF DSpec

(* Rollouts are answered by the policy as the last optimizer step left it, and  *)
(* what a replica serves is a whole snapshot that has not been deleted          *)
(* (weight_sync.py:7, :81), however many replicas there are and steps are made. *)
THEOREM ServesPolicy == DSpec => []ServedPolicy
<1>1. WeightInv => ServedPolicy
  BY DEF WeightInv, SyncInv, ReplicaInv, HoldInv, StageInv, ServedPolicy, OnPolicy
<1> QED BY WeightsKept, <1>1, PTL

(* publish() (weight_sync.py) never uploads half an export: it is reached only  *)
(* when rank 0 has renamed the directory and no rank has reported an error.     *)
THEOREM PublishesWhole == DSpec => [](phase = "loading" => export = "whole")
<1>1. WeightInv => (phase = "loading" => export = "whole")
  BY DEF WeightInv, SyncInv, ExportInv
<1> QED BY WeightsKept, <1>1, PTL

(* "Peers never block in a collective" (worker.py:55), as far as it is a matter *)
(* of states: in an export that is not over there is always a rank that all     *)
(* others have joined at its collective, whatever the writer met.              *)
THEOREM NeverBlocked ==
  DSpec => [](phase = "exporting" =>
                (\A r \in Ranks : at[r] = Vote + 1) \/ \E r \in Ranks : at[r] =< Vote /\ Met(r))
<1>1. ASSUME WeightInv, phase = "exporting", NEW s \in Ranks, at[s] # Vote + 1
      PROVE  \E r \in Ranks : at[r] =< Vote /\ Met(r)
  <2>1. \A q \in Ranks : at[q] \in 1 .. Vote + 1 /\ \A r \in Ranks : at[q] =< at[r] + 1
    BY <1>1 DEF WeightInv, SyncInv, WType, ExportInv
  <2>2. Vote \in Nat /\ at[s] =< Vote
    BY <1>1, <2>1, Numbers
  <2>3. PICK r \in Ranks : at[r] =< at[s] /\ \A q \in Ranks : at[q] >= at[r]
    <3>1. CASE \A q \in Ranks : at[q] >= at[s]
      BY <2>1, <3>1
    <3>2. ASSUME NEW q \in Ranks, ~(at[q] >= at[s]) PROVE at[q] =< at[s] /\ \A t \in Ranks : at[t] >= at[q]
      BY <2>1, <2>2, <3>2
    <3> QED BY <3>1, <3>2
  <2>4. Met(r)
    BY <2>1, <2>2, <2>3 DEF Met
  <2> QED BY <2>1, <2>2, <2>3, <2>4
<1>2. WeightInv => (phase = "exporting" =>
        (\A r \in Ranks : at[r] = Vote + 1) \/ \E r \in Ranks : at[r] =< Vote /\ Met(r))
  BY <1>1
<1> QED BY WeightsKept, <1>2, PTL

-----------------------------------------------------------------------------
(* Cleaning up. *)

KindInv == asked \subseteq Things /\ up \subseteq Things \ {"job"}

Stored == \E v \in Versions : snap[v] # "none"

\* What the launcher has learnt when something else exists: the job needs the
\* key, and the objects need the job.  A run that came to its end has been told
\* of everything, and its job is over.
KnownInv ==
  /\ step \in BeforeGateway => "gateway" \notin ids
  /\ step \in Creating \ BeforeGateway => "gateway" \in ids
  /\ step \in {"configuring", "informing", "following"} => "deployment" \in ids
  /\ step = "staging" \/ step \in Deploying => "job" \in ids
  /\ step \in Creating => result = "none"
  /\ unsaid \subseteq {"gateway", "job", "files"}
  /\ "gateway" \in unsaid => "gateway" \notin ids /\ step \notin Creating
  /\ result = "ok" => {"key", "gateway", "deployment", "job"} \subseteq ids /\ job = "ended"

OrderInv ==
  /\ step \in BeforeJob => job = "none" /\ "job" \notin asked \cup ids
  /\ "job" \in ids => job # "none"
  /\ job # "none" => "job" \notin asked
  /\ step \in Creating \ {"start", "keying"} => "key" \in ids
  /\ job # "none" \/ "job" \in asked => "key" \in ids
  /\ Stored => job # "none"

Excused == missed \cup late \cup unsaid \cup Unanswered
Grading == {"gym", "grader"}

\* After each step of stop_all: what it deletes is gone, or accounted for.
JobLeft == job \in {"pending", "running"} => "job" \in Excused
FilesLeft == envs \cap RunFiles # {} => "files" \in unsaid
FoundLeft == up \cap Grading \subseteq found \cup late
SandboxesLeft == up \cap Grading \subseteq missed \cup late
DeploymentLeft == "deployment" \in up => "deployment" \in Excused
GatewayLeft == "gateway" \in up => "gateway" \in Excused
ObjectsLeft == Stored => "objects" \in missed \cup late
KeyLeft == "key" \in up => "key" \in Excused

LeftInv ==
  result # "aborted" =>
    /\ step = "listing" \/ step \in Listed => JobLeft /\ FilesLeft
    /\ step = "stopping" => FoundLeft
    /\ step \in Listed \ {"stopping"} => SandboxesLeft
    /\ step \in {"ungating", "emptying", "revoking", "over"} => DeploymentLeft
    /\ step \in {"emptying", "revoking", "over"} => GatewayLeft
    /\ step \in {"revoking", "over"} => ObjectsLeft
    /\ step = "over" => KeyLeft

CleanInv == KindInv /\ OrderInv /\ KnownInv /\ LeftInv

USE DEF Excused, Grading, JobLeft, FilesLeft, FoundLeft, SandboxesLeft, DeploymentLeft, GatewayLeft,
        ObjectsLeft, KeyLeft, Unanswered, Listed, RunFiles

LEMMA InitClean == DInit => CleanInv
<1> SUFFICES ASSUME DInit PROVE CleanInv
  OBVIOUS
<1>1. ~Stored
  BY DEF DInit, WInit, Stored
<1> QED BY <1>1 DEF DInit, CleanInv, KindInv, OrderInv, KnownInv, LeftInv

\* Before stop_all nothing is claimed to be gone.
LEMMA LaunchClean == CleanInv /\ Launch => CleanInv'
<1> SUFFICES ASSUME CleanInv, Launch PROVE CleanInv'
  OBVIOUS
<1>1. UNCHANGED <<up, job>> /\ Stored' = Stored
  BY DEF Launch, AskKey, AskGateway, GatewayAnswered, AskGym, AskJob, AskDeployment, Ask, KeyNamed, GatewayReady,
     GymNamed, JobNamed, DeploymentNamed, Learn, GymRejected, ReadAddress, ModelStaged, Passes,
     WriteSecrets, TellTrainer, TellGym, WriteFile, PeerStopped, JobFollowed, Raises, Ends, jvars, wvars, Stored
<1>2. LeftInv'
  BY DEF Launch, AskKey, AskGateway, GatewayAnswered, AskGym, AskJob, AskDeployment, Ask, KeyNamed, GatewayReady,
     GymNamed, JobNamed, DeploymentNamed, Learn, GymRejected, ReadAddress, ModelStaged, Passes,
     WriteSecrets, TellTrainer, TellGym, WriteFile, PeerStopped, JobFollowed, Raises, Ends, LeftInv
<1>3. CASE AskKey \/ AskGateway \/ AskGym \/ AskJob \/ AskDeployment
  BY <1>1, <1>2, <1>3 DEF CleanInv, KindInv, OrderInv, KnownInv, AskKey, AskGateway, AskGym, AskJob, AskDeployment, Ask
<1>4. CASE KeyNamed \/ GatewayReady \/ GymNamed \/ JobNamed \/ DeploymentNamed
  BY <1>1, <1>2, <1>4 DEF CleanInv, KindInv, OrderInv, KnownInv, KeyNamed, GatewayReady, GymNamed, JobNamed,
     DeploymentNamed, Learn
<1>5. CASE GatewayAnswered \/ GymRejected \/ ReadAddress \/ ModelStaged
  BY <1>1, <1>2, <1>5 DEF CleanInv, KindInv, OrderInv, KnownInv, GatewayAnswered, GymRejected, ReadAddress, ModelStaged, Passes
<1>6. CASE WriteSecrets \/ TellTrainer \/ TellGym
  BY <1>1, <1>2, <1>6 DEF CleanInv, KindInv, OrderInv, KnownInv, WriteSecrets, TellTrainer, TellGym, WriteFile
<1>7. CASE PeerStopped \/ JobFollowed \/ Raises
  BY <1>1, <1>2, <1>7 DEF CleanInv, KindInv, OrderInv, KnownInv, PeerStopped, JobFollowed, Raises, Ends
<1> QED BY <1>3, <1>4, <1>5, <1>6, <1>7 DEF Launch

LEMMA StopClean == CleanInv /\ StopAll => CleanInv'
<1> SUFFICES ASSUME CleanInv, StopAll PROVE CleanInv'
  OBVIOUS
<1> USE DEF Goes, Rest, Same, Misses
<1>1. CASE CancelJob
  <2>1. Stored' = Stored
    BY <1>1 DEF CancelJob, wvars, Stored
  <2>2. KindInv' /\ OrderInv' /\ KnownInv'
    BY <1>1, <2>1 DEF CleanInv, KindInv, OrderInv, KnownInv, CancelJob, Cancelled
  <2>3. JobLeft' /\ FilesLeft'
    BY <1>1 DEF CancelJob, Cancelled
  <2> QED BY <1>1, <2>2, <2>3 DEF CleanInv, LeftInv, CancelJob
<1>2. CASE ListSandboxes
  <2>1. Stored' = Stored
    BY <1>2 DEF ListSandboxes, wvars, Stored
  <2>2. KindInv' /\ OrderInv' /\ KnownInv'
    BY <1>2, <2>1 DEF CleanInv, KindInv, OrderInv, KnownInv, ListSandboxes
  <2>3. LeftInv'
    BY <1>2 DEF CleanInv, KindInv, LeftInv, ListSandboxes
  <2> QED BY <2>2, <2>3 DEF CleanInv
<1>3. CASE StopSandboxes
  <2>1. Stored' = Stored
    BY <1>3 DEF StopSandboxes, wvars, Stored
  <2>2. KindInv' /\ OrderInv' /\ KnownInv'
    BY <1>3, <2>1 DEF CleanInv, KindInv, OrderInv, KnownInv, StopSandboxes
  <2>3. LeftInv'
    BY <1>3 DEF CleanInv, KindInv, LeftInv, StopSandboxes
  <2> QED BY <2>2, <2>3 DEF CleanInv
<1>4. ASSUME NEW x \in {"deployment", "gateway", "key"}, NEW to,
             \/ x = "deployment" /\ Delete(x, "undeploying", "ungating")
             \/ x = "gateway" /\ Delete(x, "ungating", "emptying")
             \/ x = "key" /\ Delete(x, "revoking", "over")
      PROVE  CleanInv'
  <2>1. Stored' = Stored
    BY <1>4 DEF Delete, wvars, Stored
  <2>2. KindInv' /\ OrderInv' /\ KnownInv'
    BY <1>4, <2>1 DEF CleanInv, KindInv, OrderInv, KnownInv, Delete
  <2>3. x \in up' => x \in Excused'
    BY <1>4 DEF Delete, CleanInv, KindInv
  <2>4. UNCHANGED <<ids, late, job, result>> /\ up' \subseteq up /\ missed \subseteq missed'
    BY <1>4 DEF Delete
  <2>5. LeftInv'
    BY <1>4, <2>1, <2>3, <2>4 DEF CleanInv, LeftInv, Delete
  <2> QED BY <2>2, <2>5 DEF CleanInv
<1>5. CASE DeleteObjects
  <2>1. KindInv'
    BY <1>5 DEF DeleteObjects, CleanInv, KindInv
  <2>2. "key" \in ids \/ ~Stored
    BY DEF CleanInv, OrderInv
  <2>3. (Stored' => Stored) /\ (Stored' => "objects" \in missed')
    BY <1>5, <2>2 DEF DeleteObjects, Stored
  <2>4. OrderInv' /\ KnownInv'
    BY <1>5, <2>3 DEF DeleteObjects, CleanInv, OrderInv, KnownInv
  <2>5. LeftInv'
    BY <1>5, <2>3 DEF DeleteObjects, CleanInv, LeftInv
  <2> QED BY <2>1, <2>4, <2>5 DEF CleanInv
<1>6. CASE StopInterrupted
  <2>1. Stored' = Stored
    BY <1>6 DEF StopInterrupted, wvars, Stored
  <2> QED BY <1>6, <2>1 DEF StopInterrupted, jvars, CleanInv, KindInv, OrderInv, KnownInv, LeftInv
<1> QED BY <1>1, <1>2, <1>3, <1>4, <1>5, <1>6 DEF StopAll, DeleteDeployment, DeleteGateway, RevokeKey

\* What comes to be during or after stop_all is late, unless its ID is not known.
LEMMA JobClean == WeightInv /\ CleanInv /\ Job => CleanInv'
<1> SUFFICES ASSUME WeightInv, CleanInv, Job PROVE CleanInv'
  OBVIOUS
<1> USE DEF Others, lvars
<1>1. CASE JobLands \/ JobStarts
  <2>1. Stored' = Stored
    BY <1>1 DEF JobLands, JobStarts, wvars, Stored
  <2>2. CASE JobStarts
    BY <2>1, <2>2 DEF JobStarts, CleanInv, KindInv, OrderInv, KnownInv, LeftInv
  <2>3. CASE JobLands
    <3>1. "job" \in asked /\ "job" \notin ids /\ step \notin BeforeJob /\ "key" \in ids
      BY <2>3 DEF JobLands, CleanInv, OrderInv
    <3>2. KindInv' /\ OrderInv' /\ KnownInv'
      BY <2>1, <2>3, <3>1 DEF JobLands, CleanInv, KindInv, OrderInv, KnownInv
    <3>3. LeftInv'
      BY <2>1, <2>3, <3>1 DEF JobLands, CleanInv, LeftInv
    <3> QED BY <3>2, <3>3 DEF CleanInv
  <2> QED BY <1>1, <2>2, <2>3
<1>2. CASE MarkComplete \/ Calibrate \/ TrainerStarts \/ \E s \in Shards : UploadModel(s)
  <2>1. Stored' = Stored
    BY <1>2 DEF MarkComplete, Calibrate, TrainerStarts, UploadModel, wvars, Stored
  <2>2. UNCHANGED <<lvars, up, late, job, envs>> /\ asked' \in {asked, asked \cup {"grader"}}
    BY <1>2 DEF MarkComplete, Calibrate, TrainerStarts, UploadModel
  <2> QED BY <2>1, <2>2 DEF CleanInv, KindInv, OrderInv, KnownInv, LeftInv
<1>3. ASSUME Runs, StoresLate, UNCHANGED <<lvars, asked, up, job, envs>> PROVE CleanInv'
  <2>1. job # "none"
    BY <1>3 DEF Runs
  <2>2. KindInv' /\ OrderInv' /\ KnownInv'
    BY <1>3, <2>1 DEF CleanInv, KindInv, OrderInv, KnownInv
  <2>3. LeftInv'
    BY <1>3 DEF StoresLate, CleanInv, LeftInv
  <2> QED BY <2>2, <2>3 DEF CleanInv
<1>4. CASE CopyModel \/ CopiedModel \/ UploadStep
  BY <1>3, <1>4 DEF CopyModel, CopiedModel, UploadStep, Base, Trains, jvars
<1>5. CASE CollectiveStep \/ SyncStep \/ SwapStep \/ JobEnds
  <2>1. Stored' => Stored
    <3>1. \A v \in Versions : [snap EXCEPT ![version] = "none"][v] \in {"none", snap[v]}
      BY DEF WeightInv, SyncInv, WType
    <3> QED
      BY <1>5, <3>1 DEF CollectiveStep, Collective, Gather, Exported, SyncStep, ExportBegins, WriteFails,
         HotLoad, Loaded, DeletePrevious, Synced, TrainStep, SyncFails, SwapStep, Swap, JobEnds, Stored
  <2>2. /\ UNCHANGED <<lvars, asked, up, late, envs>>
        /\ job' = job \/ (job \in {"running", "cancelling"} /\ job' = "ended")
    BY <1>5 DEF CollectiveStep, SyncStep, SwapStep, JobEnds, Trains, Runs, ovars, jvars
  <2> QED BY <2>1, <2>2 DEF CleanInv, KindInv, OrderInv, KnownInv, LeftInv
<1> QED BY <1>1, <1>2, <1>4, <1>5 DEF Job

LEMMA OtherClean ==
  ASSUME CleanInv, Address \/ Serve \/ GymDies \/ UNCHANGED vars
                   \/ \E x \in asked : Lands(x) \/ Refused(x)
  PROVE  CleanInv'
<1>1. Stored' = Stored
  BY DEF Address, Serve, GymMoves, GymDies, vars, Lands, Refused, wvars, Stored
<1>2. CASE Address \/ Serve \/ GymDies \/ UNCHANGED vars
  <2>1. UNCHANGED <<lvars, asked, late, job>> /\ envs' = envs /\ up' \subseteq up
    BY <1>2 DEF Address, Serve, GymMoves, GymDies, vars, ovars, lvars, jvars
  <2> QED BY <1>1, <2>1 DEF CleanInv, KindInv, OrderInv, KnownInv, LeftInv, lvars
<1>3. ASSUME NEW x \in asked, Lands(x) PROVE CleanInv'
  BY <1>1, <1>3 DEF Lands, lvars, jvars, CleanInv, KindInv, OrderInv, KnownInv, LeftInv
<1>4. ASSUME NEW x \in asked, Refused(x) PROVE CleanInv'
  BY <1>1, <1>4 DEF Refused, lvars, jvars, CleanInv, KindInv, OrderInv, KnownInv, LeftInv
<1> QED BY <1>2, <1>3, <1>4

(* "When the run ends, fails or is interrupted, the launcher deletes what it     *)
(* created" (README.md:155): whatever stop_all does not delete had been missed  *)
(* by one of its steps, came after that step, was never named by an answer, or  *)
(* is one of the three things that are left without a word; and of a run that   *)
(* came to its end, at most the files.                                          *)
THEOREM LeavesNothing == DSpec => []NothingLeft
<1>1. WeightInv /\ CleanInv /\ [DNext]_vars => CleanInv'
  BY LaunchClean, StopClean, JobClean, OtherClean DEF DNext
<1>2. CleanInv => NothingLeft
  <2> SUFFICES ASSUME CleanInv, step = "over", result # "aborted" PROVE NothingLeft
    BY DEF NothingLeft
  <2>1. Left \subseteq Excused
    BY DEF CleanInv, KindInv, LeftInv, Left, Stored
  <2>2. unsaid \subseteq {"gateway", "job", "files"}
    BY DEF CleanInv, KnownInv
  <2>3. ASSUME result = "ok", NEW x \in Left PROVE x \in missed \cup late \cup {"files"}
    <3>1. x # "job"
      BY <2>3 DEF CleanInv, KindInv, KnownInv, Left
    <3>2. x # "gateway" \/ "gateway" \notin unsaid
      BY <2>3 DEF CleanInv, KnownInv
    <3>3. x \notin Unanswered
      BY <2>3 DEF CleanInv, KnownInv
    <3> QED BY <2>1, <2>2, <3>1, <3>2, <3>3
  <2> QED BY <2>1, <2>2, <2>3 DEF NothingLeft
<1> QED BY InitClean, WeightsKept, <1>1, <1>2, PTL DEF DSpec
=============================================================================
