----------------------------- MODULE WeightSync -----------------------------
(***************************************************************************)
(* How dapo-nemo-rl gets new weights into the inference deployment after    *)
(* each optimizer step: sync_weights() (nemo_rl_ext/weight_sync.py) has all *)
(* ranks of the policy export the weights (nemo_rl_ext/worker.py), uploads  *)
(* them as a snapshot, has every replica load it, and deletes the snapshot  *)
(* before.                                                                 *)
(*                                                                         *)
(* Gathering a tensor is a collective: no rank passes it before all have    *)
(* come to it.  Rank 0 alone writes.                                       *)
(*                                                                         *)
(* Definitions whose comment starts with "Bug:" are not part of the         *)
(* specification.                                                          *)
(***************************************************************************)
EXTENDS Naturals, FiniteSets

CONSTANTS
  Ranks,     \* of the policy workers
  Writer,    \* rank 0
  Replicas,  \* of the deployment
  Tensors,   \* of the model: as many collectives
  MaxSteps   \* optimizer steps of the run

ASSUME SyncAssumption ==
  /\ Writer \in Ranks /\ Replicas # {} /\ {Tensors, MaxSteps} \subseteq Nat \ {0}

VARIABLES
  phase,    \* of the trainer: "off", "stale", "exporting", "loading", "loaded",
            \* "deleted", "rollout", "done", "failed"
  version,  \* self._version
  trained,  \* optimizer steps made
  at,       \* the collective each rank comes to next; the last is the vote on errors
  held,     \* rank 0 holds a write error
  export,   \* the exported files: "none", "tmp" or, renamed, "whole"
  snap,     \* snapshots in the bucket: "none", "part", "whole"; 0 is the base model
  holds,    \* the optimizer steps behind the weights of each snapshot
  load,     \* the snapshot of the last hot-load
  serves    \* the snapshot each replica serves

wvars == <<phase, version, trained, at, held, export, snap, holds, load, serves>>

Vote == Tensors + 1
Versions == 0 .. MaxSteps + 1
Upcoming == version + 1

WInit ==
  /\ phase = "off" /\ version = 0 /\ trained = 0
  /\ at = [r \in Ranks |-> 1] /\ held = FALSE /\ export = "none"
  /\ snap = [v \in Versions |-> "none"] /\ holds = [v \in Versions |-> 0]
  /\ load = 0 /\ serves = [q \in Replicas |-> 0]

-----------------------------------------------------------------------------
(* The export: write_checkpoint() on every rank, then _any_rank_failed().       *)

ExportBegins ==
  /\ phase = "stale" /\ phase' = "exporting"
  /\ at' = [r \in Ranks |-> 1] /\ held' = FALSE /\ export' = "tmp"
  /\ UNCHANGED <<version, trained, snap, holds, load, serves>>

(* A collective completes when all ranks have come to it. *)
Met(r) == \A q \in Ranks : at[q] \in {at[r], at[r] + 1}

(* A rank goes on to the next tensor, and after the last to the vote.  Before   *)
(* the vote rank 0 renames its directory, or removes it after an error.         *)
Gather(r) ==
  /\ phase = "exporting" /\ at[r] <= Vote /\ Met(r)
  /\ at' = [at EXCEPT ![r] = @ + 1]
  /\ export' = IF r = Writer /\ at[r] = Tensors THEN IF held THEN "none" ELSE "whole" ELSE export
  /\ UNCHANGED <<phase, version, trained, held, snap, holds, load, serves>>

(* Bug: rank 0 leaves at its error, and its peers in a collective. *)
WriteFailsAtOnce ==
  /\ phase = "exporting" /\ at[Writer] <= Tensors /\ ~held /\ held' = TRUE
  /\ at' = [at EXCEPT ![Writer] = Vote + 1]
  /\ UNCHANGED <<phase, version, trained, export, snap, holds, load, serves>>

(* "A write error is held until iteration ends" (worker.py:55). *)
WriteFails ==
  /\ phase = "exporting" /\ at[Writer] <= Tensors /\ ~held /\ held' = TRUE
  /\ UNCHANGED <<phase, version, trained, at, export, snap, holds, load, serves>>

(* Every rank has voted: the export is there, or raises on all of them. *)
Exported ==
  /\ phase = "exporting" /\ \A r \in Ranks : at[r] = Vote + 1
  /\ phase' = IF held THEN "failed" ELSE "loading"
  /\ UNCHANGED <<version, trained, at, held, export, snap, holds, load, serves>>

-----------------------------------------------------------------------------
(* The hot-load. *)

(* publish() uploads the export as a snapshot of its own, object by object, *)
UploadSnapshot ==
  /\ phase = "loading" /\ snap[Upcoming] # "whole"
  /\ snap' = [snap EXCEPT ![Upcoming] = IF @ = "none" THEN "part" ELSE "whole"]
  /\ holds' = [holds EXCEPT ![Upcoming] = trained]
  /\ UNCHANGED <<phase, version, trained, at, held, export, load, serves>>

(* creates a hot-load of it, *)
HotLoad ==
  /\ phase = "loading" /\ snap[Upcoming] = "whole" /\ load' = Upcoming
  /\ UNCHANGED <<phase, version, trained, at, held, export, snap, holds, serves>>

(* which the service carries out on each replica, *)
Swap(q) ==
  /\ serves[q] # load /\ serves' = [serves EXCEPT ![q] = load]
  /\ UNCHANGED <<phase, version, trained, at, held, export, snap, holds, load>>

(* Bug: the hot-load is over once it is created. *)
LoadedEarly ==
  /\ phase = "loading" /\ load = Upcoming
  /\ phase' = "loaded" /\ export' = "none"
  /\ UNCHANGED <<version, trained, at, held, snap, holds, load, serves>>

(* and returns when every replica serves it; the export goes. *)
Loaded ==
  /\ phase = "loading" /\ \A q \in Replicas : serves[q] = Upcoming
  /\ phase' = "loaded" /\ export' = "none"
  /\ UNCHANGED <<version, trained, at, held, snap, holds, load, serves>>

(* The previous snapshot is not needed any more: the base is not deleted here.  *)
DeletePrevious ==
  /\ phase = "loaded" /\ phase' = "deleted"
  /\ snap' = IF version = 0 THEN snap ELSE [snap EXCEPT ![version] = "none"]
  /\ UNCHANGED <<version, trained, at, held, export, holds, load, serves>>

Synced ==
  /\ phase = "deleted" /\ phase' = "rollout" /\ version' = Upcoming
  /\ UNCHANGED <<trained, at, held, export, snap, holds, load, serves>>

(* Rollouts, then an optimizer step, after which the weights are stale; or the  *)
(* run is over.                                                                 *)
TrainStep ==
  /\ phase = "rollout"
  /\ IF trained < MaxSteps THEN phase' = "stale" /\ trained' = trained + 1
     ELSE phase' = "done" /\ UNCHANGED trained
  /\ UNCHANGED <<version, at, held, export, snap, holds, load, serves>>

(* Whatever raises ends the trainer; a hot-load may still be carried out.       *)
SyncFails ==
  /\ phase \in {"stale", "loading", "loaded", "rollout"} /\ phase' = "failed"
  /\ UNCHANGED <<version, trained, at, held, export, snap, holds, load, serves>>

Collective == Exported \/ \E r \in Ranks : Gather(r)

Sync ==
  \/ ExportBegins \/ Collective \/ WriteFails \/ UploadSnapshot \/ HotLoad \/ Loaded
  \/ DeletePrevious \/ Synced \/ TrainStep \/ SyncFails

-----------------------------------------------------------------------------
(* "GRPO is synchronous, so no rollout runs during this. The next rollout uses  *)
(* the new weights" (weight_sync.py:7): every replica that answers a rollout    *)
(* serves the policy as the last optimizer step left it.                        *)
OnPolicy ==
  phase = "rollout" => \A q \in Replicas : serves[q] = version /\ holds[version] = trained

(* An export ends on every rank, also when rank 0 cannot write: "peers never    *)
(* block in a collective" (worker.py:55).                                       *)
ExportEnds == phase = "exporting" ~> phase # "exporting"
=============================================================================
