---------------------------- MODULE TrainingRun ----------------------------
(***************************************************************************)
(* A taubench-verl training from the outside: the launcher that runs it in  *)
(* a GPU sandbox and watches its log (sandbox/trainer.py), the environment  *)
(* sandboxes that the training creates, and the sweeps that stop them at    *)
(* the end (sandbox/cleanup.py): one by the script's exit trap, one by the  *)
(* launcher.  On the SkyPilot track there is no launcher: the operator runs *)
(* the script on a pod, and again on the same disk.                         *)
(*                                                                         *)
(* The script inside, and what it saves and uploads, is CheckpointUpload.   *)
(***************************************************************************)
EXTENDS CheckpointUpload

CONSTANTS
  Envs,           \* environment sandboxes that may exist at a time: the pool's size
  MaxPasses       \* max_passes of cleanup_tag

ASSUME LaunchAssumption == MaxPasses \in Nat \ {0}

VARIABLES
  track,       \* "sandbox" or "pod"
  launcher,    \* "idle", "waiting" for the sandbox to run, "streaming", "probing",
               \* "completing", "interrupted", "stopping", "sweeping", "over"
  result,      \* what launch_and_wait gave: "none", "ok" by the exit code, "assumed"
               \* without one, "error"
  gpu,         \* the GPU sandbox: "none", "starting", "running", "completed",
               \* "failed", "stopped"
  overdue,     \* the lifetime of the GPU sandbox and ten minutes are over
  defied,      \* history: the stop of the running sandbox failed
  env,         \* environment sandboxes: "none", "asked" (a create in flight), "up"
  sweep        \* the sweep by "trap" and by "host"

Sweeper == {"trap", "host"}
lvars == <<launcher, result, gpu, overdue, defied>>
ovars == <<track, lvars, env, sweep>>
vars == <<cvars, ovars>>

NotSwept == [at |-> "off", pass |-> 1, targets |-> {}, flight |-> {}]
Empty == [e \in Envs |-> "none"]

TInit ==
  /\ Init /\ track \in {"sandbox", "pod"}
  /\ launcher = "idle" /\ result = "none" /\ gpu = "none" /\ overdue = FALSE
  /\ defied = FALSE
  /\ env = Empty /\ sweep = [x \in Sweeper |-> NotSwept]

Exited == trainer \in {"done", "failed"}
GpuAlive == gpu \in {"starting", "running"}

-----------------------------------------------------------------------------
(* The script, in the sandbox or on the pod. *)

(* A new run has a tag of its own: environment sandboxes of an earlier one are  *)
(* not followed any further.                                                    *)
NewTag == env' = Empty /\ sweep' = [x \in Sweeper |-> NotSwept]

ScriptSteps == (Train \/ Upload) /\ UNCHANGED ovars

RunOnPod == track = "pod" /\ Begin(TRUE) /\ NewTag /\ UNCHANGED <<track, lvars>>

RecoverOnPod ==
  /\ track = "pod" /\ (Exited => sweep["trap"].at \in {"over", "aborted"})
  /\ Recover /\ UNCHANGED ovars

PodDies == track = "pod" /\ Kill /\ UNCHANGED ovars

(* The pool's threads create environment sandboxes; a request that is under way *)
(* when the process ends may still take effect.                                 *)
EnvAsked(e) ==
  /\ trainer = "training" /\ env[e] = "none" /\ env' = [env EXCEPT ![e] = "asked"]
  /\ UNCHANGED <<cvars, track, lvars, sweep>>

EnvLands(e) ==
  /\ env[e] = "asked" /\ env' \in {[env EXCEPT ![e] = "up"], [env EXCEPT ![e] = "none"]}
  /\ UNCHANGED <<cvars, track, lvars, sweep>>

-----------------------------------------------------------------------------
(* cleanup_tag(): list the sandboxes of the tag, stop them all, and again until *)
(* a pass has stopped none.  `flight` and, at the end, `targets` are history:   *)
(* the creates in flight when a pass listed, and the stops it could not make:   *)
(* they are kept for the launcher's sweep once the training is stopped.         *)
Followed(x) == x = "host" /\ ~defied

(* `trap _cleanup EXIT` runs on every exit of the script but a kill. *)
TrapSprung ==
  /\ Exited /\ sweep["trap"].at = "off"
  /\ sweep' = [sweep EXCEPT !["trap"].at = "listing"]
  /\ UNCHANGED <<cvars, track, lvars, env>>

(* A pass needs its process: the script's, or the launcher's. *)
CanSweep(x) == x = "host" \/ (Exited /\ (track = "sandbox" => gpu = "running"))

List(x) ==
  /\ sweep[x].at = "listing" /\ CanSweep(x)
  /\ sweep' = [sweep EXCEPT
       ![x] = [@ EXCEPT !.at = "listed",
                        !.targets = {e \in Envs : env[e] = "up"},
                        !.flight = IF Followed(x) THEN {e \in Envs : env[e] = "asked"} ELSE {}]]
  /\ UNCHANGED <<cvars, track, lvars, env>>

ListFails(x) ==
  /\ sweep[x].at = "listing" /\ CanSweep(x)
  /\ sweep' = [sweep EXCEPT ![x] = [NotSwept EXCEPT !.at = "aborted"]]
  /\ UNCHANGED <<cvars, track, lvars, env>>

(* Bug: the sweep goes on while it finds something, without a budget. *)
StopAllUnbounded(x) ==
  /\ sweep[x].at = "listed" /\ CanSweep(x)
  /\ \E failed \in SUBSET sweep[x].targets :
       /\ env' = [e \in Envs |-> IF e \in sweep[x].targets \ failed THEN "none" ELSE env[e]]
       /\ sweep' = [sweep EXCEPT
            ![x] = IF failed # sweep[x].targets
                   THEN [@ EXCEPT !.at = "listing", !.pass = @ + 1, !.targets = failed]
                   ELSE [@ EXCEPT !.at = "over", !.targets = failed]]
  /\ UNCHANGED <<cvars, track, lvars>>

StopAll(x) ==
  /\ sweep[x].at = "listed" /\ CanSweep(x)
  /\ \E failed \in SUBSET sweep[x].targets :
       /\ env' = [e \in Envs |-> IF e \in sweep[x].targets \ failed THEN "none" ELSE env[e]]
       /\ sweep' = [sweep EXCEPT
            ![x] = IF failed # sweep[x].targets /\ sweep[x].pass < MaxPasses
                   THEN [sweep[x] EXCEPT !.at = "listing", !.pass = @ + 1, !.targets = failed]
                   ELSE IF Followed(x) THEN [sweep[x] EXCEPT !.at = "over", !.targets = failed]
                   ELSE [NotSwept EXCEPT !.at = "over"]]
  /\ UNCHANGED <<cvars, track, lvars>>

Swept(x) == sweep[x].at \in {"over", "aborted"}

-----------------------------------------------------------------------------
(* The GPU sandbox. *)

GpuStarts ==
  /\ gpu = "starting" /\ gpu' = "running" /\ Begin(FALSE)
  /\ UNCHANGED <<track, launcher, result, overdue, defied, env, sweep>>

(* Placement fails, or nothing more is to run. *)
GpuFails ==
  /\ gpu = "starting" /\ gpu' = "failed"
  /\ UNCHANGED <<cvars, track, launcher, result, overdue, defied, env, sweep>>

(* The main process ends: the script, then its trap. *)
GpuCompletes ==
  /\ gpu = "running" /\ Exited /\ Swept("trap") /\ gpu' = "completed"
  /\ UNCHANGED <<cvars, track, launcher, result, overdue, defied, env, sweep>>

(* It crashes or reaches max_lifetime_seconds. *)
GpuDies ==
  /\ gpu = "running" /\ gpu' = "failed"
  /\ IF trainer \in Alive THEN Kill ELSE UNCHANGED cvars
  /\ UNCHANGED <<track, launcher, result, overdue, defied, env, sweep>>

(* The deadline is the lifetime, counted from a later moment, and ten minutes.  *)
Overdue ==
  /\ launcher \in {"streaming", "probing"} /\ ~GpuAlive /\ ~overdue /\ overdue' = TRUE
  /\ UNCHANGED <<cvars, track, launcher, result, gpu, defied, env, sweep>>

-----------------------------------------------------------------------------
(* launch_and_wait(). *)

Goes(to) ==
  /\ launcher' = to
  /\ UNCHANGED <<cvars, track, result, gpu, overdue, defied, env, sweep>>

(* Sandbox.run returns, or its answer is lost: that call is outside the `try`.  *)
Launch ==
  /\ track = "sandbox" /\ launcher \in {"idle", "over"} /\ ~GpuAlive /\ run < MaxRuns
  /\ gpu' = "starting" /\ overdue' = FALSE /\ defied' = FALSE /\ NewTag
  /\ \/ launcher' = "waiting" /\ result' = "none"
     \/ launcher' = "over" /\ result' = "error"
  /\ UNCHANGED <<cvars, track>>

WaitReturns == launcher = "waiting" /\ gpu \in {"running", "completed"} /\ Goes("streaming")
WaitRaises == launcher = "waiting" /\ Goes("stopping")

(* The stream ends, whatever the reason, *)
StreamEnds == launcher = "streaming" /\ Goes("probing")

(* which is no evidence of completion: the sandbox is asked.  A probe that      *)
(* fails says no more than that the sandbox may be alive.                       *)
ProbeAlive == launcher = "probing" /\ ~overdue /\ Goes("streaming")
ProbeEnded == launcher = "probing" /\ ~GpuAlive /\ Goes("completing")
ProbeLate == launcher = "probing" /\ overdue /\ Goes("stopping")

(* wait_until_complete() raises for a sandbox that did not complete or does not *)
(* answer, and a return code other than 0 raises TrainingJobFailed; but where   *)
(* none was recorded, "the completed terminal state" is taken for success,      *)
(* whatever the script exited with.                                             *)
Completed ==
  /\ launcher = "completing" /\ gpu = "completed"
  /\ result' \in {"assumed"} \cup (IF trainer = "done" THEN {"ok"} ELSE {})
  /\ launcher' = "sweeping"
  /\ sweep' = [sweep EXCEPT !["host"].at = "listing"]
  /\ UNCHANGED <<cvars, track, gpu, overdue, defied, env>>

CompleteRaises == launcher = "completing" /\ Goes("stopping")

(* Bug: Ctrl-C sweeps without stopping the training first. *)
InterruptSweeps ==
  /\ launcher \in {"waiting", "streaming", "probing", "completing"}
  /\ launcher' = "sweeping" /\ result' = "error"
  /\ sweep' = [sweep EXCEPT !["host"].at = "listing"]
  /\ UNCHANGED <<cvars, track, gpu, overdue, defied, env>>

Interrupt ==
  /\ launcher \in {"waiting", "streaming", "probing", "completing"}
  /\ Goes("interrupted")

(* _stop_best_effort() suppresses what goes wrong; then the `finally`. *)
StopGpu ==
  /\ launcher \in {"interrupted", "stopping"} /\ launcher' = "sweeping" /\ result' = "error"
  /\ sweep' = [sweep EXCEPT !["host"].at = "listing"]
  /\ \/ defied' = GpuAlive /\ UNCHANGED <<cvars, gpu>>
     \/ /\ GpuAlive /\ gpu' = "stopped" /\ UNCHANGED defied
        /\ IF trainer \in Alive THEN Kill ELSE UNCHANGED cvars
  /\ UNCHANGED <<track, overdue, env>>

LauncherEnds == launcher = "sweeping" /\ Swept("host") /\ Goes("over")

-----------------------------------------------------------------------------

Watch ==
  \/ WaitReturns \/ WaitRaises \/ StreamEnds \/ ProbeAlive \/ ProbeEnded \/ ProbeLate
  \/ Completed \/ CompleteRaises \/ StopGpu \/ LauncherEnds

Sweeping(x) == List(x) \/ ListFails(x) \/ StopAll(x)

TNext ==
  \/ ScriptSteps \/ RunOnPod \/ RecoverOnPod \/ PodDies
  \/ \E e \in Envs : EnvAsked(e) \/ EnvLands(e)
  \/ TrapSprung \/ \E x \in Sweeper : Sweeping(x)
  \/ GpuStarts \/ GpuFails \/ GpuCompletes \/ GpuDies \/ Overdue
  \/ Launch \/ Watch \/ Interrupt

TSpec == TInit /\ [][TNext]_vars

-----------------------------------------------------------------------------
TTypeOK ==
  /\ TypeOK /\ track \in {"sandbox", "pod"}
  /\ launcher \in {"idle", "waiting", "streaming", "probing", "completing",
                   "interrupted", "stopping", "sweeping", "over"}
  /\ result \in {"none", "ok", "assumed", "error"}
  /\ gpu \in {"none", "starting", "running", "completed", "failed", "stopped"}
  /\ {overdue, defied} \subseteq BOOLEAN
  /\ env \in [Envs -> {"none", "asked", "up"}]
  /\ sweep \in [Sweeper -> [at : {"off", "listing", "listed", "over", "aborted"},
                            pass : 1 .. MaxPasses, targets : SUBSET Envs, flight : SUBSET Envs]]

(* A launcher that returns 0 by the exit code ran a script that exited with 0,  *)
(* and so left the checkpoints in the bucket, if it had the keys, although the  *)
(* sandbox and its disk are gone.  One that returns 0 because no exit code was  *)
(* recorded (trainer.py:474-485) only knows that the script came to its end, as *)
(* a failed one does: it was not killed half-way.                               *)
LaunchedIsPersisted ==
  /\ SuccessIsPersisted
  /\ result = "ok" => trainer = "done"
  /\ result = "assumed" => Exited

(* "the launcher reaps the CPU pool by the run's tag in a `finally`, on success, *)
(* crash, or Ctrl+C" (README.md:281): an environment sandbox that survives its   *)
(* sweep was not there yet when the last pass listed, although asked for, or     *)
(* could not be stopped.  Not so if the training could not be stopped first, or  *)
(* listing fails.                                                                *)
SweptUnlessInFlight ==
  (launcher = "over" /\ sweep["host"].at = "over" /\ ~defied) =>
    \A e \in Envs :
      env[e] = "up" => e \in sweep["host"].flight \cup sweep["host"].targets
=============================================================================
