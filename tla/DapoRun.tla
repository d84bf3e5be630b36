------------------------------ MODULE DapoRun ------------------------------
(***************************************************************************)
(* A run of dapo-nemo-rl: the launcher (launch.py) creates a storage key,   *)
(* an inference gateway, the Gym sandbox, a Slurm job and a deployment, each *)
(* waiting for the one before, follows the job, and deletes everything at   *)
(* the end.  The job (sunk_job.py, run_trainer.py) stages the model that    *)
(* the deployment loads and trains; Gym (run_gym.py, gym_env) serves the    *)
(* rollouts and creates grading sandboxes of its own.                       *)
(*                                                                         *)
(* Every creation is a request that may take effect although its answer is  *)
(* lost.  What the trainer does with the weights is WeightSync.             *)
(***************************************************************************)
EXTENDS WeightSync

CONSTANT Shards     \* objects of the model

VARIABLES
  step,      \* where the launcher is: see Starting and Stopping
  result,    \* "none", "ok" (0), "stopped" (PeerStopped: 1), "error", "aborted" (Ctrl-C in stop_all)
  ids,       \* what the launcher knows the ID of
  asked,     \* requests that have not taken effect
  up,        \* what exists: "key", "gateway", "deployment", and sandboxes "gym", "grader"
  found,     \* the sandboxes stop_all has listed
  missed,    \* history: what a step of stop_all could not delete, and printed a command for
  unsaid,    \* history: what the launcher had, and leaves without a command
  late,      \* history: what came to be when the step that deletes it was over
  job,       \* the Slurm job: "none", "pending", "running", "cancelling", "ended"
  exit0,     \* it is COMPLETED
  trainer,   \* "staging", "copying", "staged", "calibrating" (then waiting), "training", "over"
  cache,     \* model objects in the shared cache prefix
  complete,  \* its _COMPLETE marker
  gym,       \* the processes in the Gym sandbox: "installing", "addressed", "serving", "dead"
  envs       \* files: "secrets" (secrets.env, gym.addr) and "sunk" (inference.env) in the
             \* run directory, "gym" (inference.env) in the sandbox

lvars == <<step, result, ids, found, missed, unsaid>>
jvars == <<job, exit0, trainer, cache, complete>>
ovars == <<lvars, asked, up, late, jvars, gym, envs>>
vars == <<wvars, ovars>>

Starting == {"start", "keying", "gateway", "gating", "readying", "gym", "gymming", "address",
             "submit", "queueing", "submitting", "staging", "deploy", "deploying", "configuring",
             "informing"}
Stopping == {"cancelling", "listing", "stopping", "undeploying", "ungating", "emptying", "revoking"}

DInit ==
  /\ WInit
  /\ step = "start" /\ result = "none" /\ ids = {} /\ found = {} /\ missed = {} /\ unsaid = {} /\ late = {}
  /\ asked = {} /\ up = {}
  /\ job = "none" /\ exit0 = FALSE /\ trainer = "staging"
  /\ cache \in SUBSET Shards /\ complete \in {FALSE, cache = Shards}   \* left by earlier runs
  /\ gym = "installing" /\ envs = {}

-----------------------------------------------------------------------------
(* Launcher.start(): ask for a thing, and learn its ID. *)

Ask(x, from, to) ==
  /\ step = from /\ step' = to /\ asked' = asked \cup {x}
  /\ UNCHANGED <<wvars, result, ids, found, missed, unsaid, up, late, jvars, gym, envs>>

Learn(x, from, to) ==
  /\ step = from /\ step' = to /\ ids' = ids \cup {x}
  /\ UNCHANGED <<wvars, result, found, missed, unsaid, asked, up, late, jvars, gym, envs>>

Passes(from, to) ==
  /\ step = from /\ step' = to
  /\ UNCHANGED <<wvars, result, ids, found, missed, unsaid, asked, up, late, jvars, gym, envs>>

WriteFile(from, where, to) ==
  /\ step = from /\ step' = to /\ envs' = envs \cup {where}
  /\ UNCHANGED <<wvars, result, ids, found, missed, unsaid, asked, up, late, jvars, gym>>

AskKey == Ask("key", "start", "keying")
KeyNamed == "key" \in up /\ Learn("key", "keying", "gateway")

(* The request is answered with the gateway's ID, which create_gateway() returns *)
(* to the launcher only once the gateway is READY.                              *)
AskGateway == Ask("gateway", "gateway", "gating")
GatewayAnswered == "gateway" \in up /\ Passes("gating", "readying")
GatewayReady == Learn("gateway", "readying", "gym")

(* create_with_retry(): a request that is rejected for lack of capacity is made *)
(* again.                                                                       *)
AskGym == Ask("gym", "gym", "gymming")
GymRejected == "gym" \notin up \cup asked /\ Passes("gymming", "gym")
GymNamed == "gym" \in up /\ Learn("gym", "gymming", "address")
ReadAddress == gym \in {"addressed", "serving"} /\ Passes("address", "submit")

WriteSecrets == WriteFile("submit", "secrets", "queueing")
AskJob == Ask("job", "queueing", "submitting")
JobNamed == job # "none" /\ Learn("job", "submitting", "staging")
ModelStaged == trainer \in {"staged", "calibrating"} /\ Passes("staging", "deploy")

(* The deployment loads the run's copy of the model when it is created. *)
AskDeployment == Ask("deployment", "deploy", "deploying")
DeploymentNamed ==
  /\ "deployment" \in up /\ Learn("deployment", "deploying", "configuring")

(* It is ready: inference.env is written for the trainer, then for Gym. *)
TellTrainer == WriteFile("configuring", "sunk", "informing")
TellGym == gym # "dead" /\ WriteFile("informing", "gym", "following")

(* start() raises out of create_gateway() with the ID that was answered.         *)
Ends(how) ==
  /\ step' = "cancelling" /\ result' = how
  /\ unsaid' = IF step = "readying" THEN {"gateway"} ELSE {}
  /\ UNCHANGED <<wvars, ids, found, missed, asked, up, late, jvars, gym, envs>>

(* check_peers(), where the launcher waits for others. *)
PeerStopped ==
  /\ \/ step = "address" /\ gym = "dead"
     \/ step = "staging" /\ (gym = "dead" \/ job \in {"cancelling", "ended"})
     \/ step = "following" /\ gym = "dead" /\ job # "ended"
  /\ Ends("stopped")

(* follow_job() returns the job's exit code. *)
JobFollowed == step = "following" /\ job = "ended" /\ Ends(IF exit0 THEN "ok" ELSE "stopped")

(* A step fails, its answer does not come in time, or Ctrl-C. *)
Raises == step \in Starting \cup {"following"} /\ Ends("error")

Launch ==
  \/ AskKey \/ KeyNamed \/ AskGateway \/ GatewayAnswered \/ GatewayReady
  \/ AskGym \/ GymRejected \/ GymNamed \/ ReadAddress \/ WriteSecrets \/ AskJob \/ JobNamed
  \/ ModelStaged \/ AskDeployment \/ DeploymentNamed \/ TellTrainer \/ TellGym \/ PeerStopped \/ JobFollowed \/ Raises

-----------------------------------------------------------------------------
(* stop_all(): each step runs even if an earlier one failed, and only for what  *)
(* the launcher has the ID of.                                                  *)

Goes(from, to) == step = from /\ step' = to
Same == UNCHANGED <<result, ids, asked, late, exit0, trainer, cache, complete>>
Rest == Same /\ UNCHANGED <<unsaid, envs>>
Misses(x) == missed' = missed \cup {x}

RunFiles == {"secrets", "sunk"}
Cancelled == CASE job = "pending" -> "ended" [] job = "running" -> "cancelling" [] OTHER -> job

(* scancel, which a job that runs takes its time to obey, then rm of the files   *)
(* with tokens, keys and endpoints: both with check=False, so that neither       *)
(* raises when it fails.  A job without an ID keeps its files as well.           *)
CancelJob ==
  /\ Goes("cancelling", "listing") /\ Same /\ UNCHANGED <<wvars, found, missed, up, gym>>
  /\ \/ /\ "job" \in ids
        /\ \E failed \in SUBSET {"job", "files"} :
             /\ job' = IF "job" \in failed THEN job ELSE Cancelled
             /\ envs' = IF "files" \in failed THEN envs ELSE envs \ RunFiles
             /\ unsaid' = unsaid \cup failed
     \/ "job" \notin ids /\ unsaid' = unsaid \cup {"files"} /\ UNCHANGED <<job, envs>>

ListSandboxes ==
  /\ Rest /\ UNCHANGED <<wvars, job, up, gym>>
  /\ \/ Goes("listing", "stopping") /\ found' = up \cap {"gym", "grader"} /\ UNCHANGED missed
     \/ Goes("listing", "undeploying") /\ missed' = missed \cup {"gym", "grader"} /\ UNCHANGED found

(* The first stop that fails ends the loop. *)
StopSandboxes ==
  /\ Goes("stopping", "undeploying") /\ Rest /\ UNCHANGED <<wvars, found, job>>
  /\ \E stopped \in SUBSET found :
       /\ up' = up \ stopped /\ missed' = missed \cup (found \ stopped)
       /\ gym' = IF "gym" \in stopped THEN "dead" ELSE gym

Delete(x, from, to) ==
  /\ Goes(from, to) /\ Rest /\ UNCHANGED <<wvars, found, job, gym>>
  /\ \/ x \in ids /\ up' = up \ {x} /\ UNCHANGED missed
     \/ x \in ids /\ Misses(x) /\ UNCHANGED up
     \/ x \notin ids /\ UNCHANGED <<up, missed>>

(* Bug: a deployment that cannot be deleted ends stop_all. *)
DeleteDeploymentRaises ==
  \/ Delete("deployment", "undeploying", "ungating") /\ UNCHANGED missed
  \/ /\ "deployment" \in ids /\ Goes("undeploying", "over") /\ Misses("deployment") /\ Rest
     /\ UNCHANGED <<wvars, found, job, gym, up>>

DeleteDeployment == Delete("deployment", "undeploying", "ungating")

(* A gateway cannot be deleted while a deployment uses it. *)
DeleteGateway ==
  Delete("gateway", "ungating", "emptying") /\ ("deployment" \in up => up' = up)

DeleteObjects ==
  /\ Goes("emptying", "revoking") /\ Rest
  /\ UNCHANGED <<phase, version, trained, at, held, export, holds, load, serves, up, found, job, gym>>
  /\ \/ "key" \in ids /\ snap' = [v \in Versions |-> "none"] /\ UNCHANGED missed
     \/ "key" \in ids /\ Misses("objects") /\ UNCHANGED snap
     \/ "key" \notin ids /\ UNCHANGED <<snap, missed>>

RevokeKey == Delete("key", "revoking", "over")

(* Ctrl-C again. *)
StopInterrupted ==
  /\ step \in Stopping /\ step' = "over" /\ result' = "aborted"
  /\ UNCHANGED <<wvars, ids, found, missed, unsaid, asked, up, late, jvars, gym, envs>>

StopAll ==
  \/ CancelJob \/ ListSandboxes \/ StopSandboxes \/ DeleteDeployment \/ DeleteGateway
  \/ DeleteObjects \/ RevokeKey \/ StopInterrupted

-----------------------------------------------------------------------------
(* Requests take effect, or are refused, sooner or later. *)

Listed == {"stopping", "undeploying", "ungating", "emptying", "revoking", "over"}

Lands(x) ==
  /\ x \in asked \ {"job"} /\ asked' = asked \ {x} /\ up' = up \cup {x}
  /\ late' = IF step \in Listed THEN late \cup {x} ELSE late
  /\ UNCHANGED <<wvars, lvars, jvars, gym, envs>>

Refused(x) ==
  /\ x \in asked /\ asked' = asked \ {x}
  /\ UNCHANGED <<wvars, lvars, up, late, jvars, gym, envs>>

JobLands ==
  /\ "job" \in asked /\ asked' = asked \ {"job"} /\ job' = "pending"
  /\ UNCHANGED <<wvars, lvars, up, late, exit0, trainer, cache, complete, gym, envs>>

-----------------------------------------------------------------------------
(* The Slurm job: sunk_job.py and run_trainer.py. *)

Runs == job \in {"running", "cancelling"}
Others == UNCHANGED <<lvars, asked, up, gym, envs>>

(* The script reads secrets.env first of all. *)
JobStarts ==
  /\ job = "pending" /\ job' = "running" /\ Others
  /\ trainer' = IF "secrets" \in envs THEN trainer ELSE "over"
  /\ UNCHANGED <<wvars, late, exit0, cache, complete>>

(* stage_model(): the model is uploaded once, the marker last, *)
UploadModel(s) ==
  /\ Runs /\ trainer = "staging" /\ ~complete /\ "key" \in up
  /\ cache' = cache \cup {s} /\ s \notin cache
  /\ Others /\ UNCHANGED <<wvars, late, job, exit0, trainer, complete>>

MarkComplete ==
  /\ Runs /\ trainer = "staging" /\ ~complete /\ cache = Shards /\ "key" \in up /\ complete' = TRUE
  /\ Others /\ UNCHANGED <<wvars, late, job, exit0, trainer, cache>>

StoresLate == late' = IF step \in {"revoking", "over"} THEN late \cup {"objects"} ELSE late
Base(how) ==
  /\ snap' = [snap EXCEPT ![0] = how] /\ StoresLate
  /\ UNCHANGED <<phase, version, trained, at, held, export, holds, load, serves>>

(* and copied to the prefix of the run. *)
CopyModel ==
  /\ Runs /\ trainer = "staging" /\ complete /\ "key" \in up
  /\ trainer' = "copying" /\ Base("part")
  /\ Others /\ UNCHANGED <<job, exit0, cache, complete>>

CopiedModel ==
  /\ Runs /\ trainer = "copying" /\ "key" \in up
  /\ trainer' = "staged" /\ Base(IF cache = Shards THEN "whole" ELSE "part")
  /\ Others /\ UNCHANGED <<job, exit0, cache, complete>>

(* The calibration has Gym's evaluation server create its grading sandboxes. *)
Calibrate ==
  /\ Runs /\ trainer = "staged" /\ gym = "serving"
  /\ trainer' = "calibrating" /\ asked' = asked \cup {"grader"}
  /\ UNCHANGED <<wvars, lvars, up, late, job, exit0, cache, complete, gym, envs>>

(* They have graded the known answers, and the deployment is ready. *)
TrainerStarts ==
  /\ Runs /\ trainer = "calibrating" /\ gym = "serving" /\ "sunk" \in envs
  /\ "grader" \in up
  /\ trainer' = "training" /\ phase' = "stale" /\ Others
  /\ UNCHANGED <<version, trained, at, held, export, snap, holds, load, serves,
                 late, job, exit0, cache, complete>>

Trains == Runs /\ trainer = "training" /\ Others /\ UNCHANGED jvars

CollectiveStep == Trains /\ Collective /\ UNCHANGED late
UploadStep == Trains /\ UploadSnapshot /\ "key" \in up /\ StoresLate
SyncStep ==
  /\ Trains /\ UNCHANGED late
  /\ \/ ExportBegins \/ WriteFails \/ HotLoad \/ Loaded \/ DeletePrevious \/ Synced
     \/ TrainStep \/ SyncFails

SwapStep == "deployment" \in up /\ (\E q \in Replicas : Swap(q)) /\ UNCHANGED ovars

(* The trainer has exited, or the job fails, is cancelled or out of time. *)
JobEnds ==
  /\ Runs /\ job' = "ended" /\ trainer' = "over"
  /\ exit0' = (phase = "done" /\ job = "running")
  /\ phase' = IF phase = "done" THEN "done" ELSE "failed"
  /\ Others
  /\ UNCHANGED <<version, trained, at, held, export, snap, holds, load, serves, late, cache, complete>>

Job ==
  \/ JobLands \/ JobStarts \/ MarkComplete \/ CopyModel \/ CopiedModel \/ Calibrate \/ TrainerStarts
  \/ CollectiveStep \/ UploadStep \/ SyncStep \/ SwapStep \/ JobEnds
  \/ \E s \in Shards : UploadModel(s)

-----------------------------------------------------------------------------
(* Gym: it publishes its tunnel address and waits for inference.env. *)

GymMoves(from, to) ==
  /\ "gym" \in up /\ gym = from /\ gym' = to
  /\ UNCHANGED <<wvars, lvars, asked, up, late, jvars, envs>>

Address == GymMoves("installing", "addressed")
Serve == "gym" \in envs /\ GymMoves("addressed", "serving")

(* The sandbox stops, or its container restarts. *)
GymDies ==
  /\ "gym" \in up /\ gym # "dead" /\ gym' = "dead" /\ up' \in {up, up \ {"gym"}}
  /\ UNCHANGED <<wvars, lvars, asked, late, jvars, envs>>

DNext ==
  \/ Launch \/ StopAll \/ Job \/ Address \/ Serve \/ GymDies
  \/ \E x \in asked : Lands(x) \/ Refused(x)

DSpec == DInit /\ [][DNext]_vars

(* The ranks run, and a collective all of them have come to completes. *)
DFairSpec == DSpec /\ WF_vars(CollectiveStep)

-----------------------------------------------------------------------------
Things == {"key", "gateway", "deployment", "gym", "grader", "job"}

(* "When the run ends, fails or is interrupted, the launcher deletes what it     *)
(* created", and "if a step fails, the launcher prints the command to run        *)
(* instead" (README.md:155-163).  What is left is what a step of stop_all failed *)
(* to delete and has printed the command for (`missed`), what came to be when    *)
(* that step was over (`late`), and what no answer has named (`Unanswered`); and *)
(* further, against that text, the three things of `unsaid`: a gateway that was  *)
(* not READY in time, a job whose scancel failed, and the files of the run       *)
(* directory when their rm failed or sbatch had given no job ID.  A run that     *)
(* came to its end leaves of these at most the files.                            *)
Unanswered == {"key", "gateway", "deployment", "job"} \ (ids \cup unsaid)

Left ==
  up \cup (IF job \in {"pending", "running"} THEN {"job"} ELSE {})
     \cup (IF \E v \in Versions : snap[v] # "none" THEN {"objects"} ELSE {})
     \cup (IF envs \cap RunFiles # {} THEN {"files"} ELSE {})

NothingLeft ==
  (step = "over" /\ result # "aborted") =>
    /\ Left \subseteq missed \cup late \cup unsaid \cup Unanswered
    /\ unsaid \subseteq {"gateway", "job", "files"}
    /\ result = "ok" => Left \subseteq missed \cup late \cup {"files"}

(* Whatever a replica serves can be loaded again: the base model is copied whole *)
(* before the deployment is created, and a snapshot is deleted only when every   *)
(* replica serves the next ("the replicas no longer need the previous one",      *)
(* weight_sync.py:81); and rollouts are on policy.                               *)
ServedPolicy ==
  /\ OnPolicy
  /\ ("deployment" \in up /\ step \in Starting \cup {"following"}) =>
       \A q \in Replicas : snap[serves[q]] = "whole"
=============================================================================
