------------------------- MODULE TrainingRunProofs -------------------------
(***************************************************************************)
(* Proofs about TrainingRun: every step of it is a step of CheckpointUpload *)
(* or leaves that alone, so the invariant proved there holds here; on top   *)
(* of it, what the launcher knows of the GPU sandbox (LaunchInv) and what   *)
(* its sweep has seen (SweepInv).                                          *)
(***************************************************************************)
EXTENDS TrainingRun, CheckpointUploadProofs

SweepType ==
  [at : {"off", "listing", "listed", "over", "aborted"},
   pass : 1 .. MaxPasses, targets : SUBSET Envs, flight : SUBSET Envs]

OuterType ==
  /\ track \in {"sandbox", "pod"}
  /\ launcher \in {"idle", "waiting", "streaming", "probing", "completing",
                   "interrupted", "stopping", "sweeping", "over"}
  /\ result \in {"none", "ok", "assumed", "error"}
  /\ gpu \in {"none", "starting", "running", "completed", "failed", "stopped"}
  /\ overdue \in BOOLEAN /\ defied \in BOOLEAN
  /\ env \in [Envs -> {"none", "asked", "up"}]
  /\ sweep \in [Sweeper -> SweepType]

(* The script runs in the GPU sandbox or on the pod; a launcher that is over, or *)
(* about to sweep, has stopped the sandbox unless that was refused.              *)
LaunchInv ==
  /\ launcher # "idle" \/ gpu # "none" => track = "sandbox"
  /\ track = "sandbox" /\ gpu # "running" => trainer \notin Alive
  /\ result = "ok" => launcher \in {"sweeping", "over"} /\ gpu = "completed" /\ trainer = "done"
  /\ result = "assumed" => launcher \in {"sweeping", "over"} /\ gpu = "completed" /\ Exited
  /\ gpu = "completed" => Exited
  /\ launcher = "completing" \/ overdue => ~GpuAlive
  /\ sweep["host"].at # "off" => launcher \in {"sweeping", "over"} /\ (GpuAlive => defied)
  /\ sweep["host"].at \in {"listing", "listed"} => launcher = "sweeping"

(* Once the launcher's sweep has listed, what exists later was listed or asked   *)
(* for before.                                                                   *)
SweepInv ==
  ~defied /\ sweep["host"].at \in {"listed", "over"} =>
    \A e \in Envs :
      /\ env[e] = "asked" => e \in sweep["host"].flight
      /\ env[e] = "up" => e \in sweep["host"].flight \cup sweep["host"].targets

TInv == IInv /\ OuterType /\ LaunchInv /\ SweepInv

USE DEF Fitting, Alive, local, remote,
        Exited, GpuAlive, Sweeper, Followed, Swept, lvars, ovars, vars, Goes, NewTag, Empty, NotSwept

(* The bound of a sweep is positive. *)
LEMMA PassBound == MaxPasses \in Nat \ {0}
BY LaunchAssumption

(* The initial state. *)
LEMMA TInitInv == TInit => TInv
<1> SUFFICES ASSUME TInit PROVE TInv
  OBVIOUS
<1>1. IInv
  BY InitInv DEF TInit
<1>2. OuterType
  <2>1. sweep \in [Sweeper -> SweepType] /\ env \in [Envs -> {"none", "asked", "up"}]
    BY PassBound DEF TInit, SweepType
  <2>2. overdue \in BOOLEAN /\ defied \in BOOLEAN
    BY DEF TInit
  <2> QED
    BY <2>1, <2>2 DEF TInit, OuterType
<1>3. LaunchInv /\ SweepInv
  <2>1. /\ launcher = "idle" /\ gpu = "none" /\ overdue = FALSE /\ result = "none"
        /\ sweep["host"].at = "off" /\ trainer = "off"
    BY DEF TInit, Init
  <2> QED
    BY <2>1 DEF LaunchInv, SweepInv
<1> QED
  BY <1>1, <1>2, <1>3 DEF TInv

-----------------------------------------------------------------------------
(* Every step is one of the script, or none. *)
LEMMA StepOfScript == [TNext]_vars => [Next]_cvars
<1> SUFFICES ASSUME [TNext]_vars PROVE [Next]_cvars
  OBVIOUS
<1>1. CASE ScriptSteps \/ RunOnPod \/ RecoverOnPod \/ PodDies \/ GpuStarts
  BY <1>1 DEF ScriptSteps, RunOnPod, RecoverOnPod, PodDies, GpuStarts, Next
<1>2. CASE GpuDies \/ StopGpu
  BY <1>2 DEF GpuDies, StopGpu, Next
<1>3. CASE (\E e \in Envs : EnvAsked(e) \/ EnvLands(e)) \/ TrapSprung \/ \E x \in Sweeper : Sweeping(x)
  BY <1>3 DEF EnvAsked, EnvLands, TrapSprung, Sweeping, List, ListFails, StopAll
<1>4. CASE GpuFails \/ GpuCompletes \/ Overdue \/ Launch \/ Interrupt
  BY <1>4 DEF GpuFails, GpuCompletes, Overdue, Launch, Interrupt
<1>5. CASE Watch /\ ~StopGpu
  BY <1>5 DEF Watch, WaitReturns, WaitRaises, StreamEnds, ProbeAlive, ProbeEnded, ProbeLate,
              Completed, CompleteRaises, LauncherEnds
<1>6. CASE UNCHANGED vars
  BY <1>6
<1> QED
  BY <1>1, <1>2, <1>3, <1>4, <1>5, <1>6 DEF TNext

(* A script that ended does not come to life by a step of its own. *)
LEMMA ScriptEnds ==
  ASSUME IInv, Train \/ Upload
  PROVE /\ trainer' \in Alive => trainer \in Alive
        /\ Exited => trainer' = trainer
<1> USE DEF IInv, LifeInv, TypeOK
<1>1. CASE Train
  BY <1>1 DEF Train, SaveShard, SaveDone, FitEnds, Drained
<1>2. CASE Upload
  <2>1. trainer \in Alive
    <3>1. CASE UploadBegins
      BY <3>1 DEF UploadBegins
    <3>2. CASE ~UploadBegins
      BY <1>2, <3>2 DEF Upload, UploadFile, UploadPointer, LogReference, WriteMarker, UploadFails
    <3> QED
      BY <3>1, <3>2
  <2> QED
    BY <2>1
<1> QED
  BY <1>1, <1>2

(* Types. *)
LEMMA AnotherPass ==
  ASSUME NEW r \in SweepType, NEW failed \in SUBSET Envs, r.pass < MaxPasses
  PROVE [r EXCEPT !.at = "listing", !.pass = @ + 1, !.targets = failed] \in SweepType
<1>1. r.pass + 1 \in 1 .. MaxPasses
  BY PassBound DEF SweepType
<1> QED
  BY <1>1 DEF SweepType

LEMMA NextSweepType == TInv /\ [TNext]_vars => sweep' \in [Sweeper -> SweepType]
<1> SUFFICES ASSUME TInv, [TNext]_vars PROVE sweep' \in [Sweeper -> SweepType]
  OBVIOUS
<1> USE PassBound DEF TInv, OuterType, SweepType
<1>1. CASE RunOnPod \/ Launch
  <2>1. sweep' = [x \in Sweeper |-> NotSwept]
    BY <1>1 DEF RunOnPod, Launch
  <2>2. NotSwept \in SweepType
    OBVIOUS
  <2> HIDE DEF NotSwept, SweepType
  <2> QED
    BY <2>1, <2>2
<1>2. CASE TrapSprung \/ Completed \/ StopGpu
  BY <1>2 DEF TrapSprung, Completed, StopGpu
<1>3. ASSUME NEW x \in Sweeper, Sweeping(x) PROVE sweep' \in [Sweeper -> SweepType]
  <2>1. \E new \in SweepType : sweep' = [sweep EXCEPT ![x] = new]
    <3>1. CASE List(x)
      <4> DEFINE new == [sweep[x] EXCEPT !.at = "listed",
                           !.targets = {e \in Envs : env[e] = "up"},
                           !.flight = IF Followed(x) THEN {e \in Envs : env[e] = "asked"} ELSE {}]
      <4>1. new \in SweepType
        OBVIOUS
      <4>2. sweep' = [sweep EXCEPT ![x] = new]
        BY <3>1 DEF List
      <4> QED
        BY <4>1, <4>2
    <3>2. CASE ListFails(x)
      <4>1. [NotSwept EXCEPT !.at = "aborted"] \in SweepType
        OBVIOUS
      <4> QED
        BY <3>2, <4>1 DEF ListFails
    <3>3. CASE StopAll(x)
      <4> DEFINE again(failed) == [sweep[x] EXCEPT !.at = "listing", !.pass = @ + 1, !.targets = failed]
                 last(failed) == [sweep[x] EXCEPT !.at = "over", !.targets = failed]
                 plain == [NotSwept EXCEPT !.at = "over"]
      <4>1. PICK failed \in SUBSET sweep[x].targets :
              sweep' = [sweep EXCEPT
                ![x] = IF failed # sweep[x].targets /\ sweep[x].pass < MaxPasses THEN again(failed)
                       ELSE IF Followed(x) THEN last(failed) ELSE plain]
        BY <3>3 DEF StopAll
      <4>2. sweep[x] \in SweepType /\ failed \subseteq Envs
        OBVIOUS
      <4>3. sweep[x].pass < MaxPasses => again(failed) \in SweepType
        BY <4>2, AnotherPass
      <4>4. last(failed) \in SweepType
        BY <4>2
      <4>5. plain \in SweepType
        OBVIOUS
      <4> HIDE DEF SweepType, again, last, plain
      <4> QED
        BY <4>1, <4>3, <4>4, <4>5
    <3> QED
      BY <1>3, <3>1, <3>2, <3>3 DEF Sweeping
  <2> HIDE DEF SweepType
  <2> QED
    BY <2>1
<1>4. CASE ScriptSteps \/ RecoverOnPod \/ PodDies \/ \E e \in Envs : EnvAsked(e) \/ EnvLands(e)
  BY <1>4 DEF ScriptSteps, RecoverOnPod, PodDies, EnvAsked, EnvLands
<1>5. CASE GpuStarts \/ GpuFails \/ GpuCompletes \/ GpuDies \/ Overdue \/ Interrupt \/ UNCHANGED vars
  BY <1>5 DEF GpuStarts, GpuFails, GpuCompletes, GpuDies, Overdue, Interrupt
<1>6. CASE Watch /\ ~Completed /\ ~StopGpu
  BY <1>6 DEF Watch, WaitReturns, WaitRaises, StreamEnds, ProbeAlive, ProbeEnded,
              ProbeLate, CompleteRaises, LauncherEnds
<1> QED
  BY <1>1, <1>2, <1>3, <1>4, <1>5, <1>6 DEF TNext

LEMMA NextOuterType == TInv /\ [TNext]_vars => OuterType'
<1> SUFFICES ASSUME TInv, [TNext]_vars PROVE OuterType'
  OBVIOUS
<1> DEFINE Rest == /\ track \in {"sandbox", "pod"}
                   /\ launcher \in {"idle", "waiting", "streaming", "probing", "completing",
                                    "interrupted", "stopping", "sweeping", "over"}
                   /\ result \in {"none", "ok", "assumed", "error"}
                   /\ gpu \in {"none", "starting", "running", "completed", "failed", "stopped"}
                   /\ overdue \in BOOLEAN /\ defied \in BOOLEAN
                   /\ env \in [Envs -> {"none", "asked", "up"}]
<1> SUFFICES Rest'
  BY NextSweepType DEF OuterType
<1>0. Rest
  BY DEF TInv, OuterType
<1>1. CASE ScriptSteps \/ RunOnPod \/ RecoverOnPod \/ PodDies \/ Launch
  BY <1>0, <1>1 DEF ScriptSteps, RunOnPod, RecoverOnPod, PodDies, Launch
<1>2. ASSUME NEW e \in Envs, EnvAsked(e) \/ EnvLands(e) PROVE Rest'
  BY <1>0, <1>2 DEF EnvAsked, EnvLands
<1>3. ASSUME NEW x \in Sweeper, Sweeping(x) PROVE Rest'
  BY <1>0, <1>3 DEF Sweeping, List, ListFails, StopAll
<1>4. CASE TrapSprung \/ GpuStarts \/ GpuFails \/ GpuCompletes \/ GpuDies \/ Overdue
  BY <1>0, <1>4 DEF TrapSprung, GpuStarts, GpuFails, GpuCompletes, GpuDies, Overdue
<1>5. CASE Completed \/ StopGpu
  <2>1. defied' \in BOOLEAN /\ overdue' = overdue
    <3>1. CASE Completed
      BY <1>0, <3>1 DEF Completed
    <3>2. CASE StopGpu
      <4>1. overdue' = overdue /\ (defied' = defied \/ defied' = GpuAlive)
        BY <3>2 DEF StopGpu
      <4>2. GpuAlive \in BOOLEAN
        OBVIOUS
      <4>3. defied' \in BOOLEAN
        BY <1>0, <4>1, <4>2, Zenon
      <4> QED
        BY <4>1, <4>3
    <3> QED
      BY <1>5, <3>1, <3>2
  <2>2. gpu' = gpu \/ gpu' = "stopped"
    BY <1>5 DEF Completed, StopGpu
  <2>3. track' = track /\ env' = env /\ launcher' = "sweeping" /\ result' \in {"ok", "assumed", "error"}
    BY <1>5 DEF Completed, StopGpu
  <2> QED
    BY <1>0, <2>1, <2>2, <2>3
<1>6. CASE Interrupt \/ (Watch /\ ~Completed /\ ~StopGpu)
  BY <1>0, <1>6 DEF Interrupt, Watch, WaitReturns, WaitRaises, StreamEnds, ProbeAlive, ProbeEnded,
                    ProbeLate, CompleteRaises, LauncherEnds
<1>7. CASE UNCHANGED vars
  BY <1>0, <1>7
<1> QED
  BY <1>1, <1>2, <1>3, <1>4, <1>5, <1>6, <1>7 DEF TNext

(* The launcher. *)
LEMMA NextLaunch == TInv /\ [TNext]_vars => LaunchInv'
<1> SUFFICES ASSUME TInv, [TNext]_vars PROVE LaunchInv'
  OBVIOUS
<1> USE DEF TInv, OuterType, LaunchInv, SweepType
<1>1. CASE ScriptSteps
  BY <1>1, ScriptEnds DEF ScriptSteps
<1>2. CASE RunOnPod \/ RecoverOnPod \/ PodDies
  <2>1. track = "pod" /\ UNCHANGED <<track, lvars>>
    BY <1>2 DEF RunOnPod, RecoverOnPod, PodDies
  <2>2. launcher = "idle" /\ gpu = "none" /\ sweep["host"].at = "off" /\ result \notin {"ok", "assumed"}
    BY <2>1
  <2>3. sweep'["host"].at = "off"
    <3>1. CASE RunOnPod
      BY <3>1 DEF RunOnPod
    <3>2. CASE RecoverOnPod \/ PodDies
      BY <2>2, <3>2 DEF RecoverOnPod, PodDies
    <3> QED
      BY <1>2, <3>1, <3>2
  <2> QED
    BY <2>1, <2>2, <2>3
<1>3. ASSUME NEW e \in Envs, EnvAsked(e) \/ EnvLands(e) PROVE LaunchInv'
  BY <1>3 DEF EnvAsked, EnvLands, cvars
<1>4. CASE TrapSprung
  BY <1>4 DEF TrapSprung, cvars
<1>5. ASSUME NEW x \in Sweeper, List(x) \/ ListFails(x) PROVE LaunchInv'
  <2>1. UNCHANGED <<cvars, track, lvars>>
    BY <1>5 DEF List, ListFails
  <2>2. sweep[x].at = "listing" /\ sweep'[x].at \in {"listed", "aborted"}
    <3>1. CASE List(x)
      BY <3>1 DEF List
    <3>2. CASE ListFails(x)
      BY <3>2 DEF ListFails
    <3> QED
      BY <1>5, <3>1, <3>2
  <2>3. \A y \in Sweeper \ {x} : sweep'[y] = sweep[y]
    BY <1>5 DEF List, ListFails
  <2> QED
    BY <2>1, <2>2, <2>3 DEF cvars
<1>6. ASSUME NEW x \in Sweeper, StopAll(x) PROVE LaunchInv'
  <2>1. UNCHANGED <<cvars, track, lvars>>
    BY <1>6 DEF StopAll
  <2>2. sweep[x].at = "listed" /\ sweep'[x].at \in {"listing", "over"}
    BY <1>6 DEF StopAll
  <2>3. \A y \in Sweeper \ {x} : sweep'[y] = sweep[y]
    BY <1>6 DEF StopAll
  <2> QED
    BY <2>1, <2>2, <2>3 DEF cvars
<1>7. CASE GpuStarts
  BY <1>7 DEF GpuStarts, Begin
<1>8. CASE GpuDies
  <2>1. trainer' \notin Alive /\ gpu' = "failed" /\ UNCHANGED <<track, launcher, result, overdue, defied, env, sweep>>
    BY <1>8 DEF GpuDies, Kill, cvars
  <2>2. gpu = "running"
    BY <1>8 DEF GpuDies
  <2> QED
    BY <2>1, <2>2
<1>9. CASE GpuFails \/ GpuCompletes
  BY <1>9 DEF GpuFails, GpuCompletes, cvars
<1>15. CASE Overdue
  BY <1>15 DEF Overdue, cvars
<1>10. CASE Launch
  BY <1>10 DEF Launch, cvars
<1>11. CASE StopGpu
  <2>1. /\ launcher \in {"interrupted", "stopping"} /\ launcher' = "sweeping" /\ result' = "error"
        /\ sweep'["host"].at = "listing" /\ UNCHANGED <<track, overdue>>
    BY <1>11 DEF StopGpu
  <2>2. CASE defied' = GpuAlive /\ UNCHANGED <<cvars, gpu>>
    BY <2>1, <2>2 DEF cvars
  <2>3. CASE gpu' = "stopped" /\ trainer' \notin Alive
    BY <2>1, <2>3
  <2>4. (defied' = GpuAlive /\ UNCHANGED <<cvars, gpu>>) \/ (gpu' = "stopped" /\ trainer' \notin Alive)
    BY <1>11 DEF StopGpu, Kill, cvars
  <2> QED
    BY <2>2, <2>3, <2>4
<1>12. CASE Completed
  BY <1>12 DEF Completed, cvars
<1>13. CASE Interrupt \/ (Watch /\ ~Completed /\ ~StopGpu)
  BY <1>13 DEF Interrupt, Watch, WaitReturns, WaitRaises, StreamEnds, ProbeAlive, ProbeEnded,
               ProbeLate, CompleteRaises, LauncherEnds, cvars
<1>14. CASE UNCHANGED vars
  BY <1>14 DEF cvars
<1> QED
  BY <1>1, <1>2, <1>3, <1>4, <1>5, <1>6, <1>7, <1>8, <1>9, <1>10, <1>11, <1>12, <1>13, <1>14, <1>15 DEF TNext, Sweeping

(* The launcher's sweep. *)
LEMMA NextSweep == TInv /\ [TNext]_vars => SweepInv'
<1> SUFFICES ASSUME TInv, [TNext]_vars PROVE SweepInv'
  OBVIOUS
<1> USE DEF TInv, OuterType, SweepInv, SweepType
<1>1. CASE ScriptSteps \/ RunOnPod \/ RecoverOnPod \/ PodDies
  BY <1>1 DEF ScriptSteps, RunOnPod, RecoverOnPod, PodDies
<1>2. ASSUME NEW e \in Envs, EnvAsked(e) PROVE SweepInv'
  <2>1. sweep["host"].at # "off" => defied
    <3>1. trainer \in Alive /\ trainer # "done"
      BY <1>2 DEF EnvAsked
    <3> QED
      BY <3>1 DEF LaunchInv
  <2> QED
    BY <1>2, <2>1 DEF EnvAsked
<1>3. ASSUME NEW e \in Envs, EnvLands(e) PROVE SweepInv'
  BY <1>3 DEF EnvLands
<1>4. CASE TrapSprung
  BY <1>4 DEF TrapSprung
<1>5. ASSUME NEW x \in Sweeper, List(x) \/ ListFails(x) PROVE SweepInv'
  <2>1. CASE x = "host"
    <3>1. CASE ListFails(x)
      BY <2>1, <3>1 DEF ListFails
    <3>2. CASE List(x)
      <4>1. env' = env /\ defied' = defied
        BY <3>2 DEF List
      <4>2. ~defied => /\ sweep'["host"].flight = {e \in Envs : env[e] = "asked"}
                       /\ sweep'["host"].targets = {e \in Envs : env[e] = "up"}
        BY <2>1, <3>2 DEF List
      <4> QED
        BY <4>1, <4>2
    <3> QED
      BY <1>5, <3>1, <3>2
  <2>2. CASE x = "trap"
    BY <1>5, <2>2 DEF List, ListFails
  <2> QED
    BY <2>1, <2>2
<1>6. ASSUME NEW x \in Sweeper, StopAll(x) PROVE SweepInv'
  <2>1. PICK failed \in SUBSET sweep[x].targets :
          /\ env' = [e \in Envs |-> IF e \in sweep[x].targets \ failed THEN "none" ELSE env[e]]
          /\ sweep' = [sweep EXCEPT
               ![x] = IF failed # sweep[x].targets /\ sweep[x].pass < MaxPasses
                      THEN [sweep[x] EXCEPT !.at = "listing", !.pass = @ + 1, !.targets = failed]
                      ELSE IF Followed(x) THEN [sweep[x] EXCEPT !.at = "over", !.targets = failed]
                      ELSE [NotSwept EXCEPT !.at = "over"]]
    BY <1>6 DEF StopAll
  <2>2. defied' = defied /\ sweep[x].at = "listed"
    BY <1>6 DEF StopAll
  <2>3. CASE x = "trap"
    BY <2>1, <2>2, <2>3
  <2>4. CASE x = "host"
    <3>1. CASE defied
      BY <2>2, <3>1
    <3>2. CASE ~defied /\ sweep'["host"].at # "listing"
      <4>1. /\ sweep'["host"].flight = sweep["host"].flight
            /\ sweep'["host"].targets = failed
        BY <2>1, <2>4, <3>2
      <4> QED
        BY <2>1, <2>2, <2>4, <3>2, <4>1
    <3>3. CASE sweep'["host"].at = "listing"
      BY <3>3
    <3> QED
      BY <3>1, <3>2, <3>3
  <2> QED
    BY <2>3, <2>4
<1>7. CASE GpuStarts \/ GpuFails \/ GpuCompletes \/ GpuDies \/ Overdue
  BY <1>7 DEF GpuStarts, GpuFails, GpuCompletes, GpuDies, Overdue
<1>8. CASE Launch
  BY <1>8 DEF Launch
<1>9. CASE Completed \/ StopGpu
  BY <1>9 DEF Completed, StopGpu
<1>10. CASE Interrupt \/ (Watch /\ ~Completed /\ ~StopGpu)
  BY <1>10 DEF Interrupt, Watch, WaitReturns, WaitRaises, StreamEnds, ProbeAlive, ProbeEnded,
               ProbeLate, CompleteRaises, LauncherEnds
<1>11. CASE UNCHANGED vars
  BY <1>11
<1> QED
  BY <1>1, <1>2, <1>3, <1>4, <1>5, <1>6, <1>7, <1>8, <1>9, <1>10, <1>11 DEF TNext, Sweeping

(* TInv is an invariant. *)
LEMMA TInductive == TSpec => []TInv
<1>1. TInv /\ [TNext]_vars => TInv'
  <2> SUFFICES ASSUME TInv, [TNext]_vars PROVE TInv'
    OBVIOUS
  <2>1. IInv'
    BY StepOfScript, StepKeepsInv DEF TInv
  <2> QED
    BY <2>1, NextOuterType, NextLaunch, NextSweep DEF TInv
<1> QED
  BY TInitInv, <1>1, PTL DEF TSpec

-----------------------------------------------------------------------------
(* Every variable keeps its type. *)
THEOREM TypesHold == TSpec => []TTypeOK
<1>1. TInv => TTypeOK
  BY DEF TInv, IInv, OuterType, SweepType, TTypeOK
<1> QED
  BY <1>1, TInductive, PTL

(* Launched, killed, run again or recovered: what the pointer and the registered *)
(* artifacts name is whole, and the bytes behind a marker are those saved.       *)
THEOREM TrainingPublishesWhole == TSpec => []Published
<1>1. TInv => Published
  BY InvGivesPublished DEF TInv
<1> QED
  BY <1>1, TInductive, PTL

(* A launch that returns 0 by the exit code of a script that had the keys has    *)
(* persisted every checkpoint; one without an exit code knows that it ended.     *)
THEOREM LaunchPersists == TSpec => []LaunchedIsPersisted
<1>1. TInv => LaunchedIsPersisted
  BY InvGivesSuccess DEF TInv, LaunchInv, LaunchedIsPersisted
<1> QED
  BY <1>1, TInductive, PTL

(* After its sweep only environment sandboxes that were being created survive,   *)
(* and those that could not be stopped.                                          *)
THEOREM SweepLeavesOnlyFlight == TSpec => []SweptUnlessInFlight
<1>1. TInv => SweptUnlessInFlight
  BY DEF TInv, SweepInv, SweptUnlessInFlight
<1> QED
  BY <1>1, TInductive, PTL
=============================================================================
