-------------------------- MODULE K3sClusterProofs --------------------------
(***************************************************************************)
(* Proofs for any number of identities, workers and interruptions:          *)
(* K3sCluster never runs two control planes, and its file names what runs.  *)
(*                                                                         *)
(* One control plane.  Only two steps create a server: the first of `up`,   *)
(* when there is none, and the one of `restore` after the original has been *)
(* stopped.  Neither can be repeated after an interruption: `up` refuses    *)
(* when the file exists, and `restore` saves the phase "restoring" before   *)
(* it creates.                                                             *)
(*                                                                         *)
(* The rest.  Sound says what the values are and where each command can be; *)
(* Honest, that what the file records of a removal is so, and that the      *)
(* checkpoint holds no member the file lacks; DownInv, which nodes `down`   *)
(* has already stopped.                                                    *)
(***************************************************************************)
EXTENDS K3sCluster, FiniteSetTheorems, TLAPS

USE DEF At, Goes, GoesWith, Over, Starts, Saves, NoSave

IsUp(s) == box[s] = "up"
Nobody == \A s \in Servers : ~IsUp(s)
Alone(s) == \A t \in Servers : IsUp(t) => t = s

\* The file may still be given a server, or be about to get the restored one.
MayLaunch == disk.server = None \/ disk.phase = "restoring"

SnapshotSteps == {"mark", "pause", "copy", "network", "prepared", "create", "created", "wait"}
Critical == SnapshotSteps \cup {"launch", "record", "fence", "fenced"}
Checkpointed == {"preparing", "prepared", "ready"}
Original == {"none"} \cup Checkpointed

\* What a step needs to know of the fields of the file.
Formed(d) == {"server", "phase", "next_worker"} \subseteq DOMAIN d /\ d.next_worker \in Nat

Shaped == state = disk /\ Formed(disk) /\ Servers \subseteq DOMAIN box

FileInv == file = "absent" => at = "prompt" /\ Nobody

StepInv ==
  /\ at = "launch" /\ node \in Servers => Nobody /\ MayLaunch
  /\ at = "record" /\ node \in Servers => Alone(node) /\ MayLaunch
  /\ at = "fence" => disk.server # None /\ disk.phase \in Original
  /\ at = "fenced" => Nobody
  /\ at \in SnapshotSteps => disk.server # None /\ disk.phase \in Original

ServerInv ==
  /\ disk.phase \in Checkpointed => disk.server # None
  /\ disk.server # None /\ disk.phase \in Original => Alone(disk.server)

OneUp == \A s, t \in Servers : IsUp(s) /\ IsUp(t) => s = t

IInv == Shaped /\ FileInv /\ StepInv /\ ServerInv /\ OneUp

-----------------------------------------------------------------------------
\* A step that creates no server, keeps the file's server and phase, and does
\* not lead to a step the invariant speaks of, unless it is already there.
Quiet ==
  /\ state' = disk' /\ Formed(disk') /\ disk'.server = disk.server /\ disk'.phase = disk.phase
  /\ Servers \subseteq DOMAIN box' /\ \A s \in Servers : IsUp(s)' => IsUp(s)
  /\ \/ file # "absent" /\ file' # "absent"
     \/ file' = file /\ at' = at
  /\ \/ at' = at /\ node' = node
     \/ at' \notin Critical
     \/ at \in SnapshotSteps /\ at' \in SnapshotSteps

LEMMA QuietStep == IInv /\ Quiet => IInv'
<1> SUFFICES ASSUME IInv, Quiet PROVE IInv'
  OBVIOUS
<1>1. Shaped'
  BY DEF Quiet, Shaped
<1>2. Nobody => Nobody'
  BY DEF Quiet, Nobody
<1>3. \A s : Alone(s) => (\A t \in Servers : IsUp(t)' => t = s)
  BY DEF Quiet, Alone
<1>4. FileInv'
  BY <1>2 DEF IInv, FileInv, Quiet
<1>5. StepInv'
  <2>1. CASE at' = at /\ node' = node
    BY <2>1, <1>2, <1>3 DEF IInv, StepInv, Quiet, MayLaunch, Alone
  <2>2. CASE at' \notin Critical
    BY <2>2 DEF StepInv, Critical
  <2>3. CASE at \in SnapshotSteps /\ at' \in SnapshotSteps
    BY <2>3 DEF IInv, StepInv, Quiet, SnapshotSteps
  <2> QED BY <2>1, <2>2, <2>3 DEF Quiet
<1>6. ServerInv'
  BY <1>3 DEF IInv, ServerInv, Quiet, Alone
<1>7. OneUp'
  BY DEF IInv, OneUp, Quiet
<1> QED BY <1>1, <1>4, <1>5, <1>6, <1>7 DEF IInv

-----------------------------------------------------------------------------

LEMMA InitIInv == Init => IInv
<1> SUFFICES ASSUME Init PROVE IInv
  OBVIOUS
<1>1. Empty.server = None /\ Empty.phase = "none" /\ Formed(Empty)
  BY DEF Empty, Formed
<1>2. Nobody /\ Servers \subseteq DOMAIN box
  BY DEF Init, Nobody, IsUp, Boxes
<1> QED BY <1>1, <1>2 DEF Init, IInv, Shaped, FileInv, StepInv, ServerInv, OneUp, Nobody,
        SnapshotSteps, Checkpointed

-----------------------------------------------------------------------------
(* Steps that are quiet. *)

\* They change neither the file nor a sandbox, and end or go on to `step`.
LEMMA GuestStep ==
  ASSUME IInv, UNCHANGED <<file, disk, state, box>>, at' = at \/ at # "prompt" \/ file # "absent",
         \/ at' = at /\ node' = node
         \/ at' \notin Critical
         \/ at \in SnapshotSteps /\ at' \in SnapshotSteps
  PROVE  IInv'
<1>1. Quiet
  BY DEF Quiet, IInv, Shaped, FileInv, IsUp
<1> QED BY <1>1, QuietStep

\* They save the file, with the server and the phase as they are.
LEMMA SaveStep ==
  ASSUME IInv, UNCHANGED <<file, box>>, state' = disk', at # "prompt",
         Formed(disk'), disk'.server = disk.server, disk'.phase = disk.phase,
         at' \notin Critical \/ (at \in SnapshotSteps /\ at' \in SnapshotSteps)
  PROVE  IInv'
<1>1. Quiet
  BY DEF Quiet, IInv, Shaped, FileInv, IsUp
<1> QED BY <1>1, QuietStep

LEMMA NextRemovalIsQuiet == \A p : NextRemoval(p) \notin Critical
  BY DEF NextRemoval, Critical, SnapshotSteps

LEMMA RecordsStep ==
  ASSUME IInv, NEW step, NEW field, NEW next, next \notin Critical, step # "prompt",
         Records(step, field, next)
  PROVE  IInv'
<1>1. disk' = Recorded(node, field) /\ Formed(disk)
  BY DEF Records, IInv, Shaped
<1>2. disk' = [disk EXCEPT !.progress[node] = @ \cup {field}]
  BY <1>1 DEF Recorded, IInv, Shaped
<1>3. Formed(disk') /\ disk'.server = disk.server /\ disk'.phase = disk.phase
  BY <1>1, <1>2 DEF Formed
<1>4. UNCHANGED <<file, box>> /\ state' = disk' /\ at # "prompt" /\ at' \notin Critical
  BY DEF Records, cloud
<1> QED BY <1>3, <1>4, SaveStep

\* A sandbox that stops is not up.
LEMMA StopsStep ==
  ASSUME IInv, NEW n, Stops(n), UNCHANGED <<file, disk, state>>, at # "prompt",
         at' \notin Critical
  PROVE  IInv'
<1>1. Servers \subseteq DOMAIN box' /\ \A s \in Servers : IsUp(s)' => IsUp(s)
  BY DEF Stops, IsUp, IInv, Shaped
<1>2. Quiet
  BY <1>1 DEF Quiet, IInv, Shaped, FileInv
<1> QED BY <1>2, QuietStep

-----------------------------------------------------------------------------
(* Steps that create a server, or lead to one that does. *)

LEMMA UpStep == ASSUME IInv, NEW k, Up(k) PROVE IInv'
<1>1. Empty.server = None /\ Empty.phase = "none" /\ Formed(Empty)
  BY DEF Empty, Formed
<1>2. Nobody /\ UNCHANGED box /\ disk' = Empty /\ state' = Empty /\ file' = "present" /\ at' = "launch"
  BY DEF Up, IInv, FileInv, cloud
<1>3. Nobody' /\ OneUp'
  BY <1>2 DEF Nobody, OneUp, IsUp
<1>4. StepInv' /\ ServerInv'
  BY <1>1, <1>2, <1>3 DEF StepInv, ServerInv, SnapshotSteps, Checkpointed, MayLaunch
<1> QED BY <1>1, <1>2, <1>3, <1>4 DEF IInv, Shaped, FileInv

LEMMA LaunchStep == ASSUME IInv, Launch PROVE IInv'
<1>1. UNCHANGED <<file, disk, state, node>> /\ at = "launch" /\ at' = "record"
  BY DEF Launch
<1>2. Shaped' /\ FileInv'
  BY <1>1 DEF Launch, IInv, Shaped, FileInv
<1>3. CASE node \in Servers
  <2>1. Nobody /\ MayLaunch
    BY <1>1, <1>3 DEF IInv, StepInv
  <2>2. \A t \in Servers : IsUp(t)' => t = node
    BY <2>1 DEF Launch, Nobody, IsUp, IInv, Shaped
  <2>3. ServerInv'
    BY <1>1, <2>1, <2>2 DEF IInv, ServerInv, MayLaunch, Original, Checkpointed
  <2> QED BY <1>1, <1>2, <2>1, <2>2, <2>3 DEF IInv, StepInv, OneUp, Alone, MayLaunch, SnapshotSteps
<1>4. CASE node \notin Servers
  <2>1. \A t \in Servers : IsUp(t)' <=> IsUp(t)
    BY <1>4 DEF Launch, IsUp, IInv, Shaped
  <2> QED BY <1>1, <1>2, <1>4, <2>1 DEF IInv, StepInv, ServerInv, OneUp, Alone, SnapshotSteps
<1> QED BY <1>3, <1>4

LEMMA RecordNodeStep == ASSUME IInv, RecordNode PROVE IInv'
<1>1. CASE node \in Workers /\ Saves([state EXCEPT !.workers = @ \cup {node}]) /\ Goes("join")
  <2>1. Formed(disk') /\ disk'.server = disk.server /\ disk'.phase = disk.phase
    BY <1>1 DEF Formed, IInv, Shaped
  <2>2. UNCHANGED <<file, box>> /\ state' = disk' /\ at # "prompt" /\ at' \notin Critical
    BY <1>1 DEF RecordNode, cloud, Critical, SnapshotSteps
  <2> QED BY <2>1, <2>2, SaveStep
<1>2. ASSUME node \in Servers, Saves([state EXCEPT !.server = node, !.ip = FALSE]),
             Goes(IF cmd = "up" THEN "setup" ELSE "reinstall")
      PROVE  IInv'
  <2>1. Formed(disk') /\ disk'.server = node /\ disk'.phase = disk.phase
    BY <1>2 DEF Formed, IInv, Shaped
  <2>2. UNCHANGED <<file, box>> /\ state' = disk' /\ at = "record" /\ at' \in {"setup", "reinstall"}
    BY <1>2 DEF RecordNode, cloud
  <2>3. Alone(node)
    BY <1>2, <2>2 DEF IInv, StepInv
  <2>4. node # None
    BY <1>2, ClusterAssumption DEF Boxes
  <2>5. Shaped' /\ FileInv' /\ StepInv'
    BY <2>1, <2>2 DEF IInv, Shaped, FileInv, StepInv, SnapshotSteps
  <2>6. ServerInv'
    BY <2>1, <2>2, <2>3, <2>4 DEF ServerInv, Alone, IsUp
  <2>7. OneUp'
    BY <2>2 DEF IInv, OneUp, IsUp
  <2> QED BY <2>5, <2>6, <2>7 DEF IInv
<1> QED BY <1>1, <1>2 DEF RecordNode

LEMMA GrowStep == ASSUME IInv, Grow PROVE IInv'
<1>1. /\ UNCHANGED <<file, box>> /\ at = "loop" /\ at' = "launch" /\ node' = disk.next_worker
      /\ state' = disk' /\ disk' = [disk EXCEPT !.next_worker = @ + 1]
  BY DEF Grow, cloud, IInv, Shaped
<1>2. Formed(disk') /\ disk'.server = disk.server /\ disk'.phase = disk.phase
  BY <1>1 DEF IInv, Shaped, Formed
<1>3. node' \notin Servers
  BY <1>1, ClusterAssumption DEF IInv, Shaped, Formed
<1> QED BY <1>1, <1>2, <1>3 DEF IInv, Shaped, FileInv, StepInv, ServerInv, OneUp, Alone, IsUp, SnapshotSteps

LEMMA RecordRestoringStep == ASSUME IInv, RecordRestoring PROVE IInv'
<1>1. /\ UNCHANGED <<file, box>> /\ at = "fenced" /\ at' = "launch" /\ Nobody
      /\ state' = disk'
      /\ disk' = [disk EXCEPT !.removed = @ \cup {disk.server}, !.phase = "restoring"]
  BY DEF RecordRestoring, cloud, IInv, Shaped, StepInv
<1>2. Formed(disk') /\ disk'.phase = "restoring"
  BY <1>1 DEF IInv, Shaped, Formed
<1>3. Nobody' /\ OneUp'
  BY <1>1 DEF Nobody, IInv, OneUp, IsUp
<1>4. StepInv' /\ ServerInv'
  BY <1>1, <1>2, <1>3 DEF StepInv, ServerInv, MayLaunch, SnapshotSteps, Checkpointed, Original
<1> QED BY <1>1, <1>2, <1>3, <1>4 DEF IInv, Shaped, FileInv

-----------------------------------------------------------------------------
(* Steps that change the phase, or begin to. *)

\* The phase moves on, for a server that is alone.
LEMMA PhaseStep ==
  ASSUME IInv, UNCHANGED <<file, box>>, state' = disk', at # "prompt", Formed(disk'),
         disk'.server = disk.server,
         \/ disk'.phase = "restored"
         \/ disk'.phase \in Original /\ disk.phase \in Original /\ disk.server # None,
         at' \notin Critical \/ (at' \in SnapshotSteps /\ disk'.phase \in Original /\ disk.server # None)
  PROVE  IInv'
<1>1. Shaped' /\ FileInv' /\ OneUp'
  BY DEF IInv, Shaped, FileInv, OneUp, IsUp
<1>2. StepInv'
  BY DEF StepInv, Critical, SnapshotSteps
<1>3. ServerInv'
  BY DEF IInv, ServerInv, Alone, IsUp, Original, Checkpointed
<1> QED BY <1>1, <1>2, <1>3 DEF IInv

LEMMA SnapshotStep == ASSUME IInv, Snapshot PROVE IInv'
<1>1. /\ UNCHANGED <<file, disk, state, box>> /\ file = "present" /\ at' = "mark"
      /\ disk.phase = "none" /\ disk.server # None
  BY DEF Snapshot
<1> QED BY <1>1 DEF IInv, Shaped, FileInv, StepInv, ServerInv, OneUp, Alone, IsUp, SnapshotSteps, Original

LEMMA RecordCheckpointStep == ASSUME IInv, RecordCheckpoint PROVE IInv'
<1>1. /\ UNCHANGED <<file, box>> /\ at = "mark" /\ at' = "pause" /\ state' = disk'
      /\ disk' = [disk EXCEPT !.phase = "preparing", !.manifest = disk.workers, !.source = disk.server]
  BY DEF RecordCheckpoint, cloud, IInv, Shaped
<1>2. Formed(disk') /\ disk'.server = disk.server /\ disk'.phase = "preparing"
  BY <1>1 DEF IInv, Shaped, Formed
<1>3. disk.server # None /\ disk.phase \in Original
  BY <1>1 DEF IInv, StepInv, SnapshotSteps
<1> QED BY <1>1, <1>2, <1>3, PhaseStep DEF Original, Checkpointed, SnapshotSteps

LEMMA RecordPreparedStep == ASSUME IInv, RecordPrepared PROVE IInv'
<1>1. /\ UNCHANGED <<file, box>> /\ at = "prepared" /\ at' \in {"prompt", "create"} /\ state' = disk'
      /\ disk' = [disk EXCEPT !.phase = "prepared"]
  BY DEF RecordPrepared, cloud, IInv, Shaped
<1>2. Formed(disk') /\ disk'.server = disk.server /\ disk'.phase = "prepared"
  BY <1>1 DEF IInv, Shaped, Formed
<1>3. disk.server # None /\ disk.phase \in Original
  BY <1>1 DEF IInv, StepInv, SnapshotSteps
<1> QED BY <1>1, <1>2, <1>3, PhaseStep DEF Original, Checkpointed, SnapshotSteps, Critical

LEMMA RecordSnapshotReadyStep == ASSUME IInv, RecordSnapshotReady PROVE IInv'
<1>1. /\ UNCHANGED <<file, box>> /\ at = "wait" /\ at' = "prompt" /\ state' = disk'
      /\ disk' = [disk EXCEPT !.phase = "ready"]
  BY DEF RecordSnapshotReady, cloud, IInv, Shaped
<1>2. Formed(disk') /\ disk'.server = disk.server /\ disk'.phase = "ready"
  BY <1>1 DEF IInv, Shaped, Formed
<1>3. disk.server # None /\ disk.phase \in Original
  BY <1>1 DEF IInv, StepInv, SnapshotSteps
<1> QED BY <1>1, <1>2, <1>3, PhaseStep DEF Original, Checkpointed, Critical, SnapshotSteps

LEMMA RecordRestoredStep == ASSUME IInv, RecordRestored PROVE IInv'
<1>1. /\ UNCHANGED <<file, box>> /\ at = "verify" /\ at' = "prompt" /\ state' = disk'
      /\ disk' = [disk EXCEPT !.phase = "restored"]
  BY DEF RecordRestored, cloud, IInv, Shaped
<1>2. Formed(disk') /\ disk'.server = disk.server /\ disk'.phase = "restored"
  BY <1>1 DEF IInv, Shaped, Formed
<1> QED BY <1>1, <1>2, PhaseStep DEF Critical, SnapshotSteps

LEMMA RestoreStep == ASSUME IInv, NEW i, Restore(i) PROVE IInv'
<1>1. /\ UNCHANGED <<file, box>> /\ file = "present" /\ disk.phase \in {"prepared", "ready"}
      /\ at = "prompt" /\ at' \in {"fence", "prompt"} /\ state' = disk'
      /\ disk' = [disk EXCEPT !.snapshot = i]
  BY DEF Restore, RestoreWith, cloud, command
<1>2. Formed(disk') /\ disk'.server = disk.server /\ disk'.phase = disk.phase
  BY <1>1 DEF IInv, Shaped, Formed
<1>3. disk.server # None /\ disk.phase \in Original
  BY <1>1 DEF IInv, ServerInv, Checkpointed, Original
<1>4. Shaped' /\ FileInv' /\ OneUp'
  BY <1>1, <1>2 DEF IInv, Shaped, FileInv, OneUp, IsUp
<1>5. StepInv'
  BY <1>1, <1>2, <1>3 DEF StepInv, SnapshotSteps
<1>6. ServerInv'
  BY <1>1, <1>2 DEF IInv, ServerInv, Alone, IsUp
<1> QED BY <1>4, <1>5, <1>6 DEF IInv

LEMMA StopOriginalStep == ASSUME IInv, StopOriginal PROVE IInv'
<1>1. /\ UNCHANGED <<file, disk, state>> /\ at = "fence" /\ at' = "fenced"
      /\ box' = [box EXCEPT ![disk.server] = "stopped"]
      /\ Servers \subseteq DOMAIN box
  BY DEF StopOriginal, Stops, IInv, Shaped
<1>2. Alone(disk.server)
  BY <1>1 DEF IInv, StepInv, ServerInv
<1>3. Nobody'
  BY <1>1, <1>2 DEF Nobody, Alone, IsUp
<1>4. Shaped' /\ FileInv'
  BY <1>1 DEF IInv, Shaped, FileInv
<1>5. StepInv' /\ OneUp'
  BY <1>1, <1>3 DEF StepInv, SnapshotSteps, OneUp, Nobody
<1>6. ServerInv'
  BY <1>1, <1>3 DEF IInv, ServerInv, Nobody, Alone
<1> QED BY <1>4, <1>5, <1>6 DEF IInv

-----------------------------------------------------------------------------
(* Every step. *)

LEMMA CommandStep == ASSUME IInv, Step PROVE IInv'
<1> USE DEF cloud, guest, command
<1>1. CASE Launch
  BY <1>1, LaunchStep
<1>2. CASE RecordNode
  BY <1>2, RecordNodeStep
<1>3. CASE SetupCoordinator
  BY <1>3, GuestStep DEF SetupCoordinator, Critical, SnapshotSteps
<1>4. CASE Join
  BY <1>4, GuestStep DEF Join, Critical, SnapshotSteps
<1>5. CASE RecordJoin
  <2>1. CASE node \in Workers
    <3>1. disk' = [disk EXCEPT !.progress[node] = @ \cup {"network_id"}]
      BY <1>5, <2>1 DEF RecordJoin, Recorded, IInv, Shaped
    <3>2. Formed(disk') /\ disk'.server = disk.server /\ disk'.phase = disk.phase
      BY <3>1 DEF IInv, Shaped, Formed
    <3> QED BY <1>5, <3>2, SaveStep DEF RecordJoin, Critical, SnapshotSteps
  <2>2. CASE node \notin Workers
    <3>1. disk' = [disk EXCEPT !.ip = TRUE]
      BY <1>5, <2>2 DEF RecordJoin, IInv, Shaped
    <3>2. Formed(disk') /\ disk'.server = disk.server /\ disk'.phase = disk.phase
      BY <3>1 DEF IInv, Shaped, Formed
    <3> QED BY <1>5, <3>2, SaveStep DEF RecordJoin, Critical, SnapshotSteps
  <2> QED BY <2>1, <2>2
<1>6. CASE StartServer
  BY <1>6, GuestStep DEF StartServer, Critical, SnapshotSteps
<1>7. CASE StartWorker
  BY <1>7, GuestStep DEF StartWorker, Critical, SnapshotSteps
<1>8. CASE RecordReady
  BY <1>8, RecordsStep DEF RecordReady, Critical, SnapshotSteps
<1>9. CASE Grow
  BY <1>9, GrowStep
<1>10. CASE Shrink
  <2>1. at' \notin Critical
    BY <1>10, NextRemovalIsQuiet DEF Shrink
  <2> QED BY <1>10, <2>1, GuestStep DEF Shrink
<1>11. CASE Scaled
  BY <1>11, GuestStep DEF Scaled, Critical, SnapshotSteps
<1>12. CASE Drain
  BY <1>12, GuestStep DEF Drain, Critical, SnapshotSteps
<1>13. CASE RecordDrained
  BY <1>13, RecordsStep, NextRemovalIsQuiet DEF RecordDrained
<1>14. CASE DeleteNode
  BY <1>14, GuestStep DEF DeleteNode, Critical, SnapshotSteps
<1>15. CASE RecordDeleted
  BY <1>15, RecordsStep, NextRemovalIsQuiet DEF RecordDeleted
<1>16. CASE Unlink
  BY <1>16, GuestStep DEF Unlink, Critical, SnapshotSteps
<1>17. CASE RecordUnlinked
  BY <1>17, RecordsStep DEF RecordUnlinked, Critical, SnapshotSteps
<1>18. CASE StopWorker
  BY <1>18, StopsStep DEF StopWorker, Critical, SnapshotSteps
<1>19. CASE RecordRemoved
  <2>1. disk' = [disk EXCEPT !.workers = @ \ {node}, !.removed = @ \cup {node}]
    BY <1>19 DEF RecordRemoved, IInv, Shaped
  <2>2. Formed(disk') /\ disk'.server = disk.server /\ disk'.phase = disk.phase
    BY <2>1 DEF IInv, Shaped, Formed
  <2> QED BY <1>19, <2>2, SaveStep DEF RecordRemoved, Critical, SnapshotSteps
<1>20. CASE RecordCheckpoint
  BY <1>20, RecordCheckpointStep
<1>21. CASE Pause
  BY <1>21, GuestStep DEF Pause, Critical, SnapshotSteps
<1>22. CASE Copy
  BY <1>22, GuestStep DEF Copy, Critical, SnapshotSteps
<1>23. CASE StartNetwork
  BY <1>23, GuestStep DEF StartNetwork, Critical, SnapshotSteps
<1>24. CASE RecordPrepared
  BY <1>24, RecordPreparedStep
<1>25. CASE CreateSnapshot
  BY <1>25, GuestStep DEF CreateSnapshot, Critical, SnapshotSteps
<1>26. CASE RecordSnapshot
  <2>1. disk' = [disk EXCEPT !.snapshot = "recipe"]
    BY <1>26 DEF RecordSnapshot, IInv, Shaped
  <2>2. Formed(disk') /\ disk'.server = disk.server /\ disk'.phase = disk.phase
    BY <2>1 DEF IInv, Shaped, Formed
  <2> QED BY <1>26, <2>2, SaveStep DEF RecordSnapshot, Critical, SnapshotSteps
<1>27. CASE RecordSnapshotReady
  BY <1>27, RecordSnapshotReadyStep
<1>28. CASE StopOriginal
  BY <1>28, StopOriginalStep
<1>29. CASE RecordRestoring
  BY <1>29, RecordRestoringStep
<1>30. CASE Reinstall
  BY <1>30, GuestStep DEF Reinstall, Critical, SnapshotSteps
<1>31. CASE RecordRestored
  BY <1>31, RecordRestoredStep
<1>32. CASE StopNode
  BY <1>32, StopsStep DEF StopNode, Critical, SnapshotSteps
<1>33. CASE Stopped
  BY <1>33, GuestStep DEF Stopped, Critical, SnapshotSteps
<1>34. CASE DeleteSnapshot
  BY <1>34, GuestStep DEF DeleteSnapshot, Critical, SnapshotSteps
<1>35. CASE Archive
  <2>1. Quiet
    BY <1>35 DEF Archive, Quiet, IInv, Shaped, FileInv, IsUp, Critical, SnapshotSteps
  <2> QED BY <2>1, QuietStep
<1>36. CASE Fails
  BY <1>36, GuestStep DEF Fails, Hopeless, CutShort, IInv, Shaped, Critical, SnapshotSteps
<1> QED BY <1>1, <1>2, <1>3, <1>4, <1>5, <1>6, <1>7, <1>8, <1>9, <1>10, <1>11, <1>12,
     <1>13, <1>14, <1>15, <1>16, <1>17, <1>18, <1>19, <1>20, <1>21, <1>22, <1>23,
     <1>24, <1>25, <1>26, <1>27, <1>28, <1>29, <1>30, <1>31, <1>32, <1>33, <1>34,
     <1>35, <1>36 DEF Step

LEMMA NextStep == ASSUME IInv, [Next]_vars PROVE IInv'
<1> USE DEF cloud, guest, command, memory
<1>1. ASSUME NEW k, Up(k) PROVE IInv'
  BY <1>1, UpStep
<1>2. ASSUME NEW k, Scale(k) PROVE IInv'
  BY <1>2, GuestStep DEF Scale, Critical, SnapshotSteps
<1>3. CASE Snapshot
  BY <1>3, SnapshotStep
<1>4. CASE Resume
  BY <1>4, GuestStep DEF Resume
<1>5. CASE CliSnapshot
  BY <1>5, GuestStep DEF CliSnapshot
<1>6. CASE Down
  BY <1>6, GuestStep DEF Down, Critical, SnapshotSteps
<1>7. ASSUME NEW i, Restore(i) PROVE IInv'
  BY <1>7, RestoreStep
<1>8. CASE Step
  BY <1>8, CommandStep
<1>9. CASE StopNodeFails
  <2>1. at = "stopping" /\ at' = "stopping" /\ UNCHANGED <<file, disk, state>>
    BY <1>9 DEF StopNodeFails
  <2>2. at # "prompt" /\ at' \notin Critical
    BY <2>1 DEF Critical, SnapshotSteps
  <2>3. CASE UNCHANGED cloud
    BY <2>1, <2>2, <2>3, GuestStep
  <2>4. CASE Stops(node)
    BY <2>1, <2>2, <2>4, StopsStep
  <2> QED BY <1>9, <2>3, <2>4 DEF StopNodeFails
<1>10. CASE Interrupt
  BY <1>10, GuestStep DEF Interrupt, CutShort, IInv, Shaped, Critical, SnapshotSteps
<1>11. ASSUME NEW w, Schedule(w) PROVE IInv'
  BY <1>11, GuestStep DEF Schedule
<1>12. ASSUME NEW w, Uncordon(w) PROVE IInv'
  BY <1>12, GuestStep DEF Uncordon
<1>13. CASE UNCHANGED vars
  BY <1>13, GuestStep DEF vars
<1> QED BY <1>1, <1>2, <1>3, <1>4, <1>5, <1>6, <1>7, <1>8, <1>9, <1>10, <1>11, <1>12, <1>13
    DEF Next, User

THEOREM Inductive == Spec => []IInv
<1>1. IInv /\ [Next]_vars => IInv'
  BY NextStep
<1> QED BY InitIInv, <1>1, PTL DEF Spec

(* In every behaviour, also one with any number of interruptions and of      *)
(* restores that were tried, at most one server sandbox runs (recovery.py:   *)
(* stop_node before new_sandbox, and the phase "restoring" before it).       *)
THEOREM OnlyOneControlPlane == Spec => []OneControlPlane
<1>1. IInv => OneControlPlane
  <2> SUFFICES ASSUME IInv PROVE OneControlPlane
    OBVIOUS
  <2> DEFINE U == {s \in Servers : box[s] = "up"}
  <2>1. CASE U = {}
    BY <2>1, FS_EmptySet DEF OneControlPlane
  <2>2. CASE U # {}
    <3>1. PICK s \in U : TRUE
      BY <2>2
    <3>2. U = {s}
      BY <3>1 DEF IInv, OneUp, IsUp
    <3>3. Cardinality(U) = 1
      BY <3>2, FS_Singleton
    <3> QED BY <3>3 DEF OneControlPlane
  <2> QED BY <2>1, <2>2
<1> QED BY Inductive, <1>1, PTL

-----------------------------------------------------------------------------
(* Running sandboxes are recorded. *)

RunningBoxes == {b \in Boxes : box[b] = "up"}

\* The running sandboxes that no step is about to record.
Forgotten == IF at = "record" THEN Lost \ {node} ELSE Lost

Tracked ==
  /\ {"server", "workers"} \subseteq DOMAIN disk /\ DOMAIN box = Boxes /\ faults \in Nat
  /\ disk.server \notin Workers
  /\ file = "absent" => at = "prompt" /\ RunningBoxes = {}
  /\ at = "removed" => node \notin RunningBoxes

RInv == IInv /\ Tracked /\ Cardinality(Forgotten) =< faults

LEMMA LostFinite == IsFiniteSet(Lost) /\ IsFiniteSet(Forgotten)
<1> MaxWorkers \in Nat /\ IsFiniteSet(Servers)
  BY ClusterAssumption
<1> IsFiniteSet(Workers)
  BY FS_Interval DEF Workers
<1>1. IsFiniteSet(Boxes)
  BY FS_Union DEF Boxes
<1> QED BY <1>1, FS_Subset DEF Lost, Forgotten

\* Nothing starts, the file names what it named, and no step to record or to
\* remove a sandbox is reached or left.
Calm ==
  /\ Tracked' /\ faults' = faults
  /\ RunningBoxes' \subseteq RunningBoxes /\ Known' = Known
  /\ (at' = at /\ node' = node) \/ (at # "record" /\ at' # "record")

LEMMA CalmStep == ASSUME RInv, IInv', Calm PROVE RInv'
<1>1. Lost' \subseteq Lost
  BY DEF Calm, Lost, RunningBoxes
<1>2. Forgotten' \subseteq Forgotten
  BY <1>1 DEF Calm, Forgotten
<1>3. Cardinality(Forgotten') =< Cardinality(Forgotten) /\ Cardinality(Forgotten) \in Nat
      /\ Cardinality(Forgotten') \in Nat
  BY <1>2, LostFinite, FS_Subset, FS_CardinalityType
<1>4. Cardinality(Forgotten') =< faults'
  BY <1>3 DEF RInv, Calm, Tracked
<1> QED BY <1>4 DEF RInv, Calm

\* A step of a command that leaves sandboxes and the names in the file alone.
LEMMA CalmCommand ==
  ASSUME RInv, IInv', UNCHANGED <<box, faults>>, file' # "absent" \/ (file' = file /\ at' = at),
         {"server", "workers"} \subseteq DOMAIN disk', disk'.server = disk.server, disk'.workers = disk.workers,
         (at' = at /\ node' = node) \/ (at # "record" /\ at' \notin {"record", "removed"})
  PROVE  RInv'
<1>1. RunningBoxes' = RunningBoxes /\ Known' = Known
  BY DEF RunningBoxes, Known
<1>2. Tracked'
  BY <1>1 DEF RInv, Tracked
<1> QED BY <1>1, <1>2, CalmStep DEF Calm

LEMMA CalmGuest ==
  ASSUME RInv, IInv', UNCHANGED <<file, disk, box, faults>>, at' = at \/ at # "prompt" \/ file # "absent",
         (at' = at /\ node' = node) \/ (at # "record" /\ at' \notin {"record", "removed"})
  PROVE  RInv'
<1> QED BY CalmCommand DEF RInv, Tracked

LEMMA CalmRecords ==
  ASSUME RInv, IInv', NEW step, NEW field, NEW next, next \notin {"record", "removed"},
         step \notin {"prompt", "record"}, Records(step, field, next)
  PROVE  RInv'
<1>1. disk' = [disk EXCEPT !.progress[node] = @ \cup {field}] /\ file # "absent"
  BY DEF Records, Recorded, RInv, IInv, Shaped, FileInv
<1>2. {"server", "workers"} \subseteq DOMAIN disk' /\ disk'.server = disk.server /\ disk'.workers = disk.workers
  BY <1>1 DEF RInv, Tracked
<1> QED BY <1>1, <1>2, CalmCommand DEF Records, cloud

LEMMA CalmStops ==
  ASSUME RInv, IInv', NEW n, Stops(n), UNCHANGED <<file, disk>>, faults' \in Nat,
         at \notin {"prompt", "record"}, at' # "record", at' = "removed" => node' = n
  PROVE  /\ Tracked' /\ RunningBoxes' \subseteq RunningBoxes /\ Known' = Known
         /\ faults' = faults => RInv'
<1>1. RunningBoxes' \subseteq RunningBoxes /\ Known' = Known /\ n \notin RunningBoxes' /\ DOMAIN box' = Boxes
  BY DEF Stops, RInv, Tracked, RunningBoxes, Known
<1>2. Tracked'
  BY <1>1 DEF RInv, Tracked
<1> QED BY <1>1, <1>2, CalmStep DEF Calm

LEMMA NextRemovalIsCalm == \A p : NextRemoval(p) \notin {"record", "removed"}
  BY DEF NextRemoval

-----------------------------------------------------------------------------

LEMMA InitRInv == Init => RInv
<1> SUFFICES ASSUME Init PROVE RInv
  OBVIOUS
<1>1. RunningBoxes = {} /\ Forgotten = {}
  BY DEF Init, RunningBoxes, Forgotten, Lost
<1>2. {"server", "workers"} \subseteq DOMAIN Empty /\ Empty.server \notin Workers
  BY ClusterAssumption DEF Empty, Boxes
<1> QED BY <1>1, <1>2, InitIInv, FS_EmptySet DEF Init, RInv, Tracked

LEMMA UpRecorded == ASSUME RInv, IInv', NEW k, Up(k) PROVE RInv'
<1>1. RunningBoxes' = {} /\ UNCHANGED <<box, faults>> /\ disk' = Empty /\ at' = "launch" /\ file' = "present"
  BY DEF Up, RInv, Tracked, RunningBoxes, cloud
<1>2. Forgotten' = {}
  BY <1>1 DEF Forgotten, Lost, RunningBoxes
<1>3. {"server", "workers"} \subseteq DOMAIN disk' /\ disk'.server \notin Workers
  BY <1>1, ClusterAssumption DEF Empty, Boxes
<1> QED BY <1>1, <1>2, <1>3, FS_EmptySet DEF RInv, Tracked

LEMMA LaunchRecorded == ASSUME RInv, IInv', Launch PROVE RInv'
<1>1. /\ UNCHANGED <<file, disk, node, faults>> /\ at = "launch" /\ at' = "record"
      /\ box' = [box EXCEPT ![node] = "up"]
  BY DEF Launch
<1>2. Forgotten' \subseteq Forgotten
  BY <1>1 DEF Forgotten, Lost, Known, RInv, Tracked
<1>3. Cardinality(Forgotten') =< Cardinality(Forgotten) /\ Cardinality(Forgotten) \in Nat
      /\ Cardinality(Forgotten') \in Nat
  BY <1>2, LostFinite, FS_Subset, FS_CardinalityType
<1>4. Tracked'
  BY <1>1 DEF RInv, Tracked
<1>5. Cardinality(Forgotten') =< faults'
  BY <1>1, <1>3 DEF RInv, Tracked
<1> QED BY <1>4, <1>5 DEF RInv

\* The file no longer names the server that is replaced, which is not running.
LEMMA RecordNodeRecorded == ASSUME RInv, IInv', RecordNode PROVE RInv'
<1>1. /\ UNCHANGED <<file, box, faults>> /\ at = "record" /\ at' \in {"join", "setup", "reinstall"}
      /\ \/ disk' = [disk EXCEPT !.workers = @ \cup {node}]
         \/ node \in Servers /\ disk' = [disk EXCEPT !.server = node, !.ip = FALSE]
  BY DEF RecordNode, cloud, RInv, IInv, Shaped
<1>2. Lost' \subseteq Lost \ {node} /\ {"server", "workers"} \subseteq DOMAIN disk'
      /\ disk'.server \notin Workers
  <2>1. CASE disk' = [disk EXCEPT !.workers = @ \cup {node}]
    <3>1. disk'.server = disk.server /\ disk'.workers = disk.workers \cup {node}
          /\ {"server", "workers"} \subseteq DOMAIN disk'
      BY <2>1 DEF RInv, Tracked
    <3> QED BY <1>1, <3>1 DEF Lost, Known, RInv, Tracked
  <2>2. CASE node \in Servers /\ disk' = [disk EXCEPT !.server = node, !.ip = FALSE]
    <3>1. Known' = {node} \cup disk.workers /\ {"server", "workers"} \subseteq DOMAIN disk'
          /\ disk'.server \notin Workers
      BY <2>2, ClusterAssumption DEF Known, RInv, Tracked, Workers
    <3>2. \A b \in Servers : box[b] = "up" => b = node
      BY <1>1, <2>2 DEF RInv, IInv, StepInv, Alone, IsUp
    <3>3. disk.server \in Servers \/ disk.server \notin Boxes \/ disk.server \in Workers
      BY DEF Boxes
    <3>4. disk.server \notin Workers
      BY DEF RInv, Tracked
    <3> QED BY <1>1, <3>1, <3>2, <3>3, <3>4 DEF Lost, Known
  <2> QED BY <1>1, <2>1, <2>2
<1>3. Forgotten' \subseteq Forgotten
  BY <1>1, <1>2 DEF Forgotten
<1>4. Cardinality(Forgotten') =< Cardinality(Forgotten) /\ Cardinality(Forgotten) \in Nat
      /\ Cardinality(Forgotten') \in Nat
  BY <1>3, LostFinite, FS_Subset, FS_CardinalityType
<1>5. Tracked'
  BY <1>1, <1>2 DEF RInv, Tracked
<1>6. Cardinality(Forgotten') =< faults'
  BY <1>1, <1>4 DEF RInv, Tracked
<1> QED BY <1>5, <1>6 DEF RInv

LEMMA RecordRemovedRecorded == ASSUME RInv, IInv', RecordRemoved PROVE RInv'
<1>1. /\ UNCHANGED <<file, box, faults>> /\ at = "removed" /\ at' = "loop" /\ node' = None
      /\ disk' = [disk EXCEPT !.workers = @ \ {node}, !.removed = @ \cup {node}]
  BY DEF RecordRemoved, cloud, RInv, IInv, Shaped
<1>2. /\ {"server", "workers"} \subseteq DOMAIN disk' /\ disk'.server = disk.server
      /\ disk'.workers = disk.workers \ {node}
  BY <1>1 DEF RInv, Tracked
<1>3. Lost' \subseteq Lost
  BY <1>1, <1>2 DEF Lost, Known, RInv, Tracked, RunningBoxes
<1>4. Forgotten' \subseteq Forgotten
  BY <1>1, <1>3 DEF Forgotten
<1>5. Cardinality(Forgotten') =< Cardinality(Forgotten) /\ Cardinality(Forgotten) \in Nat
      /\ Cardinality(Forgotten') \in Nat
  BY <1>4, LostFinite, FS_Subset, FS_CardinalityType
<1>6. Tracked' /\ Cardinality(Forgotten') =< faults'
  BY <1>1, <1>2, <1>5 DEF RInv, Tracked
<1> QED BY <1>6 DEF RInv

LEMMA LostCounted ==
  /\ Cardinality(Lost) \in Nat /\ Cardinality(Forgotten) \in Nat
  /\ Cardinality(Lost) =< Cardinality(Forgotten) + (IF at = "record" THEN 1 ELSE 0)
<1>1. CASE at = "record" /\ node \in Lost
  <2>1. Forgotten = Lost \ {node}
    BY <1>1 DEF Forgotten
  <2>2. Cardinality(Forgotten) = Cardinality(Lost) - 1
    BY <1>1, <2>1, LostFinite, FS_RemoveElement
  <2>3. Cardinality(Lost) \in Nat /\ Cardinality(Forgotten) \in Nat
    BY LostFinite, FS_CardinalityType
  <2>4. Cardinality(Lost) =< Cardinality(Forgotten) + 1
    BY <2>2, <2>3
  <2>5. at = "record"
    BY <1>1
  <2> QED BY <2>3, <2>4, <2>5
<1>2. CASE at = "record" /\ node \notin Lost
  <2>1. Forgotten = Lost
    BY <1>2 DEF Forgotten
  <2>2. Cardinality(Lost) \in Nat
    BY LostFinite, FS_CardinalityType
  <2>3. at = "record"
    BY <1>2
  <2> QED BY <2>1, <2>2, <2>3
<1>3. CASE at # "record"
  BY <1>3, LostFinite, FS_CardinalityType DEF Forgotten
<1> QED BY <1>1, <1>2, <1>3

\* An interruption forgets at most the sandbox that was about to be recorded.
LEMMA FaultRecorded ==
  ASSUME RInv, IInv', Tracked', faults' = faults + 1, Known' = Known,
         RunningBoxes' \subseteq RunningBoxes, at' # "record"
  PROVE  RInv'
<1>1. Forgotten' \subseteq Lost
  BY DEF Forgotten, Lost, RunningBoxes
<1>2. Cardinality(Forgotten') =< Cardinality(Lost) /\ Cardinality(Forgotten') \in Nat
  BY <1>1, LostFinite, FS_Subset, FS_CardinalityType
<1>3. Cardinality(Forgotten') =< faults'
  BY <1>2, LostCounted DEF RInv, Tracked
<1> QED BY <1>3 DEF RInv

LEMMA InterruptRecorded == ASSUME RInv, IInv', Interrupt PROVE RInv'
<1>1. UNCHANGED <<file, disk, box>> /\ faults' = faults + 1 /\ at # "prompt" /\ at' = "prompt"
  BY DEF Interrupt, CutShort
<1>2. RunningBoxes' = RunningBoxes /\ Known' = Known
  BY <1>1 DEF RunningBoxes, Known
<1>3. Tracked'
  BY <1>1, <1>2 DEF RInv, Tracked
<1> QED BY <1>1, <1>2, <1>3, FaultRecorded

LEMMA StopNodeFailsRecorded == ASSUME RInv, IInv', StopNodeFails PROVE RInv'
<1>1. UNCHANGED <<file, disk>> /\ faults' = faults + 1 /\ at = "stopping" /\ at' = "stopping"
  BY DEF StopNodeFails
<1>2. CASE UNCHANGED cloud
  <2>1. RunningBoxes' = RunningBoxes /\ Known' = Known
    BY <1>1, <1>2 DEF RunningBoxes, Known, cloud
  <2>2. Tracked'
    BY <1>1, <1>2, <2>1 DEF RInv, Tracked, cloud
  <2> QED BY <1>1, <2>1, <2>2, FaultRecorded
<1>3. CASE Stops(node)
  <2>1. Tracked' /\ RunningBoxes' \subseteq RunningBoxes /\ Known' = Known
    BY <1>1, <1>3, CalmStops DEF RInv, Tracked
  <2> QED BY <1>1, <2>1, FaultRecorded
<1> QED BY <1>2, <1>3 DEF StopNodeFails

LEMMA CommandRecorded == ASSUME RInv, IInv', Step PROVE RInv'
<1> USE DEF cloud, guest, command
<1>1. CASE Launch
  BY <1>1, LaunchRecorded
<1>2. CASE RecordNode
  BY <1>2, RecordNodeRecorded
<1>3. CASE SetupCoordinator
  BY <1>3, CalmGuest DEF SetupCoordinator
<1>4. CASE Join
  BY <1>4, CalmGuest DEF Join
<1>5. CASE RecordJoin
  <2>1. \/ disk' = [disk EXCEPT !.progress[node] = @ \cup {"network_id"}]
        \/ disk' = [disk EXCEPT !.ip = TRUE]
    BY <1>5 DEF RecordJoin, Recorded, RInv, IInv, Shaped
  <2>2. {"server", "workers"} \subseteq DOMAIN disk' /\ disk'.server = disk.server /\ disk'.workers = disk.workers
    BY <2>1 DEF RInv, Tracked
  <2>3. file # "absent"
    BY <1>5 DEF RecordJoin, RInv, Tracked
  <2> QED BY <1>5, <2>2, <2>3, CalmCommand DEF RecordJoin
<1>6. CASE StartServer
  BY <1>6, CalmGuest DEF StartServer
<1>7. CASE StartWorker
  BY <1>7, CalmGuest DEF StartWorker
<1>8. CASE RecordReady
  BY <1>8, CalmRecords DEF RecordReady
<1>9. CASE Grow
  <2>1. disk' = [disk EXCEPT !.next_worker = @ + 1] /\ at # "prompt"
    BY <1>9 DEF Grow, RInv, IInv, Shaped
  <2>2. {"server", "workers"} \subseteq DOMAIN disk' /\ disk'.server = disk.server /\ disk'.workers = disk.workers
    BY <2>1 DEF RInv, Tracked
  <2>3. file # "absent"
    BY <2>1 DEF RInv, Tracked
  <2> QED BY <1>9, <2>2, <2>3, CalmCommand DEF Grow
<1>10. CASE Shrink
  <2>1. at' \notin {"record", "removed"}
    BY <1>10, NextRemovalIsCalm DEF Shrink
  <2> QED BY <1>10, <2>1, CalmGuest DEF Shrink
<1>11. CASE Scaled
  BY <1>11, CalmGuest DEF Scaled
<1>12. CASE Drain
  BY <1>12, CalmGuest DEF Drain
<1>13. CASE RecordDrained
  BY <1>13, CalmRecords, NextRemovalIsCalm DEF RecordDrained
<1>14. CASE DeleteNode
  BY <1>14, CalmGuest DEF DeleteNode
<1>15. CASE RecordDeleted
  BY <1>15, CalmRecords, NextRemovalIsCalm DEF RecordDeleted
<1>16. CASE Unlink
  BY <1>16, CalmGuest DEF Unlink
<1>17. CASE RecordUnlinked
  BY <1>17, CalmRecords DEF RecordUnlinked
<1>18. CASE StopWorker
  BY <1>18, CalmStops DEF StopWorker, RInv, Tracked
<1>19. CASE RecordRemoved
  BY <1>19, RecordRemovedRecorded
<1>20. CASE RecordCheckpoint
  <2>1. disk' = [disk EXCEPT !.phase = "preparing", !.manifest = disk.workers, !.source = disk.server] /\ at # "prompt"
    BY <1>20 DEF RecordCheckpoint, RInv, IInv, Shaped
  <2>2. {"server", "workers"} \subseteq DOMAIN disk' /\ disk'.server = disk.server /\ disk'.workers = disk.workers
    BY <2>1 DEF RInv, Tracked
  <2>3. file # "absent"
    BY <2>1 DEF RInv, Tracked
  <2> QED BY <1>20, <2>2, <2>3, CalmCommand DEF RecordCheckpoint
<1>21. CASE Pause
  BY <1>21, CalmGuest DEF Pause
<1>22. CASE Copy
  BY <1>22, CalmGuest DEF Copy
<1>23. CASE StartNetwork
  BY <1>23, CalmGuest DEF StartNetwork
<1>24. CASE RecordPrepared
  <2>1. disk' = [disk EXCEPT !.phase = "prepared"] /\ at # "prompt"
    BY <1>24 DEF RecordPrepared, RInv, IInv, Shaped
  <2>2. {"server", "workers"} \subseteq DOMAIN disk' /\ disk'.server = disk.server /\ disk'.workers = disk.workers
    BY <2>1 DEF RInv, Tracked
  <2>3. file # "absent"
    BY <2>1 DEF RInv, Tracked
  <2> QED BY <1>24, <2>2, <2>3, CalmCommand DEF RecordPrepared
<1>25. CASE CreateSnapshot
  BY <1>25, CalmGuest DEF CreateSnapshot
<1>26. CASE RecordSnapshot
  <2>1. disk' = [disk EXCEPT !.snapshot = "recipe"] /\ at # "prompt"
    BY <1>26 DEF RecordSnapshot, RInv, IInv, Shaped
  <2>2. {"server", "workers"} \subseteq DOMAIN disk' /\ disk'.server = disk.server /\ disk'.workers = disk.workers
    BY <2>1 DEF RInv, Tracked
  <2>3. file # "absent"
    BY <2>1 DEF RInv, Tracked
  <2> QED BY <1>26, <2>2, <2>3, CalmCommand DEF RecordSnapshot
<1>27. CASE RecordSnapshotReady
  <2>1. disk' = [disk EXCEPT !.phase = "ready"] /\ at # "prompt"
    BY <1>27 DEF RecordSnapshotReady, RInv, IInv, Shaped
  <2>2. {"server", "workers"} \subseteq DOMAIN disk' /\ disk'.server = disk.server /\ disk'.workers = disk.workers
    BY <2>1 DEF RInv, Tracked
  <2>3. file # "absent"
    BY <2>1 DEF RInv, Tracked
  <2> QED BY <1>27, <2>2, <2>3, CalmCommand DEF RecordSnapshotReady
<1>28. CASE StopOriginal
  BY <1>28, CalmStops DEF StopOriginal, RInv, Tracked
<1>29. CASE RecordRestoring
  <2>1. disk' = [disk EXCEPT !.removed = @ \cup {disk.server}, !.phase = "restoring"] /\ at # "prompt"
    BY <1>29 DEF RecordRestoring, RInv, IInv, Shaped
  <2>2. {"server", "workers"} \subseteq DOMAIN disk' /\ disk'.server = disk.server /\ disk'.workers = disk.workers
    BY <2>1 DEF RInv, Tracked
  <2>3. file # "absent"
    BY <2>1 DEF RInv, Tracked
  <2> QED BY <1>29, <2>2, <2>3, CalmCommand DEF RecordRestoring
<1>30. CASE Reinstall
  BY <1>30, CalmGuest DEF Reinstall
<1>31. CASE RecordRestored
  <2>1. disk' = [disk EXCEPT !.phase = "restored"] /\ at # "prompt"
    BY <1>31 DEF RecordRestored, RInv, IInv, Shaped
  <2>2. {"server", "workers"} \subseteq DOMAIN disk' /\ disk'.server = disk.server /\ disk'.workers = disk.workers
    BY <2>1 DEF RInv, Tracked
  <2>3. file # "absent"
    BY <2>1 DEF RInv, Tracked
  <2> QED BY <1>31, <2>2, <2>3, CalmCommand DEF RecordRestored
<1>32. CASE StopNode
  BY <1>32, CalmStops DEF StopNode, RInv, Tracked
<1>33. CASE Stopped
  BY <1>33, CalmGuest DEF Stopped
<1>34. CASE DeleteSnapshot
  BY <1>34, CalmGuest DEF DeleteSnapshot
<1>35. CASE Archive
  BY <1>35, CalmCommand DEF Archive, RInv, Tracked
<1>36. CASE Fails
  BY <1>36, CalmGuest DEF Fails, Hopeless, CutShort
<1> QED BY <1>1, <1>2, <1>3, <1>4, <1>5, <1>6, <1>7, <1>8, <1>9, <1>10, <1>11, <1>12,
     <1>13, <1>14, <1>15, <1>16, <1>17, <1>18, <1>19, <1>20, <1>21, <1>22, <1>23,
     <1>24, <1>25, <1>26, <1>27, <1>28, <1>29, <1>30, <1>31, <1>32, <1>33, <1>34,
     <1>35, <1>36 DEF Step

LEMMA NextRecorded == ASSUME RInv, [Next]_vars PROVE RInv'
<1> USE DEF cloud, guest, command, memory
<1> IInv'
  BY NextStep DEF RInv
<1>1. ASSUME NEW k, Up(k) PROVE RInv'
  BY <1>1, UpRecorded
<1>2. ASSUME NEW k, Scale(k) PROVE RInv'
  BY <1>2, CalmGuest DEF Scale
<1>3. CASE Snapshot
  BY <1>3, CalmGuest DEF Snapshot
<1>4. CASE Resume
  BY <1>4, CalmGuest DEF Resume
<1>5. CASE CliSnapshot
  BY <1>5, CalmGuest DEF CliSnapshot
<1>6. CASE Down
  BY <1>6, CalmGuest DEF Down
<1>7. ASSUME NEW i, Restore(i) PROVE RInv'
  <2>1. /\ disk' = [disk EXCEPT !.snapshot = i] /\ file = "present" /\ UNCHANGED <<file, box, faults>>
        /\ at = "prompt" /\ at' \in {"fence", "prompt"}
    BY <1>7 DEF Restore, RestoreWith
  <2>2. {"server", "workers"} \subseteq DOMAIN disk' /\ disk'.server = disk.server /\ disk'.workers = disk.workers
    BY <2>1 DEF RInv, Tracked
  <2> QED BY <2>1, <2>2, CalmCommand
<1>8. CASE Step
  BY <1>8, CommandRecorded
<1>9. CASE StopNodeFails
  BY <1>9, StopNodeFailsRecorded
<1>10. CASE Interrupt
  BY <1>10, InterruptRecorded
<1>11. ASSUME NEW w, Schedule(w) PROVE RInv'
  BY <1>11, CalmGuest DEF Schedule
<1>12. ASSUME NEW w, Uncordon(w) PROVE RInv'
  BY <1>12, CalmGuest DEF Uncordon
<1>13. CASE UNCHANGED vars
  BY <1>13, CalmGuest DEF vars
<1> QED BY <1>1, <1>2, <1>3, <1>4, <1>5, <1>6, <1>7, <1>8, <1>9, <1>10, <1>11, <1>12, <1>13
    DEF Next, User

(* The file names every running sandbox, but at most one for each           *)
(* interruption or failed stop, and the one whose save is the next step      *)
(* (cluster.py:126-130, "Persist before any readiness/network operation").   *)
THEOREM RunningAlwaysRecorded == Spec => []RunningIsRecorded
<1>1. RInv /\ [Next]_vars => RInv'
  BY NextRecorded
<1>2. RInv => RunningIsRecorded
  BY LostCounted DEF RInv, Tracked, RunningIsRecorded
<1> QED BY InitRInv, <1>1, <1>2, PTL DEF Spec

-----------------------------------------------------------------------------

(* The greatest element of a set of numbers exists: of the intervals that start *)
(* in it and end at n, one is least, as finite sets are well founded.            *)
LEMMA GreatestExists ==
  ASSUME NEW n \in Nat, NEW T, T \subseteq 1..n, T # {}
  PROVE  \E x \in T : \A y \in T : x >= y
<1> DEFINE Above == {x..n : x \in T}
<1>1. Above \subseteq FiniteSubsetsOf(Nat) /\ Above # {}
  <2> SUFFICES ASSUME NEW x \in T PROVE x..n \in FiniteSubsetsOf(Nat)
    OBVIOUS
  <2>1. IsFiniteSet(x..n)
    BY FS_Interval
  <2> QED BY <2>1 DEF FiniteSubsetsOf
<1>2. PICK U \in Above : \A V \in Above : <<V, U>> \notin StrictSubsetOrdering(Nat)
  <2> HIDE DEF Above
  <2> QED BY <1>1, FS_StrictSubsetOrderingWellFounded, WFMin
<1>3. PICK x \in T : U = x..n
  OBVIOUS
<1>4. ASSUME NEW y \in T, y > x PROVE FALSE
  <2>1. y..n \subseteq x..n /\ x \in x..n /\ x \notin y..n /\ x..n \subseteq Nat
    BY <1>4
  <2>2. <<y..n, x..n>> \in StrictSubsetOrdering(Nat)
    BY <2>1 DEF StrictSubsetOrdering
  <2> QED BY <1>2, <1>3, <2>2
<1> QED BY <1>4

LEMMA MaxOf ==
  ASSUME NEW n \in Nat, NEW T, T \subseteq 1..n, T # {}
  PROVE  Max(T) \in T /\ \A y \in T : Max(T) >= y
BY GreatestExists DEF Max

-----------------------------------------------------------------------------

Phases == {"none", "preparing", "prepared", "ready", "restoring", "restored"}
Conditions == {"absent", "idle", "busy", "cordoned"}

\* The values of the state file; next_worker is bounded by MemberInv.
Files == [server : Servers \cup {None}, ip : BOOLEAN, workers : SUBSET Workers,
          progress : [Workers -> SUBSET Progress], next_worker : Nat \ {0},
          removed : SUBSET Boxes, phase : Phases, manifest : SUBSET Workers,
          source : Servers \cup {None}, snapshot : {None, "recipe", "cli"}]

WorldInv ==
  /\ box \in [Boxes -> {"none", "up", "stopped"}]
  /\ k3s \in {"none", "running", "paused"} /\ net \in BOOLEAN /\ marker \in BOOLEAN
  /\ kube \in [Workers -> Conditions] /\ vpn \in SUBSET Workers
  /\ staged \in [kube : [Workers -> Conditions], vpn : SUBSET Workers]
  /\ snaps \in SUBSET {"recipe", "cli"} /\ undone \in SUBSET Workers
  /\ faults \in 0..MaxFaults

Launching == {"launch", "record"}
Joining == {"join", "joined", "start"}
Removing == {"drain", "drained", "delete", "deleted", "unlink", "unlinked", "stop", "removed"}
Fencing == {"fence", "fenced"}
Scaling == Launching \cup {"setup", "ready", "loop"} \cup Joining \cup Removing
Restoring == Fencing \cup Launching \cup {"reinstall", "joined", "start", "verify"}

\* Which steps each command has.
CommandInv ==
  /\ cmd \in {"none", "up", "scale", "snapshot", "restore", "down"} /\ want \in Nat
  /\ (at = "prompt") = (cmd = "none")
  /\ cmd \in {"up", "scale"} => at \in Scaling
  /\ cmd = "snapshot" => at \in SnapshotSteps
  /\ cmd = "restore" => at \in Restoring
  /\ cmd = "down" => at \in {"stopping", "cleanup"}
  /\ file \in {"absent", "present", "archived"} /\ (file # "present" => at = "prompt")

\* What each step is about.
NodeInv ==
  /\ at \in Launching => node \in Servers \cup (Nat \ {0})
  /\ at \in Launching /\ cmd = "scale" => node \in Nat
  /\ cmd = "restore" /\ at \notin Fencing => node \in Servers
  /\ at \in {"setup", "reinstall"} => node \in Servers
  /\ at \in Joining => node \in Servers \cup disk.workers
  /\ at \in Removing \cup {"ready"} => node \in disk.workers
  /\ at = "stopping" => node \in disk.workers \cup {disk.server, None}
  /\ at \notin Launching => node \in Boxes \cup {None}

Used(s) == box[s] # "none"

\* Until a restore creates the second server there is one at most.
UsedInv ==
  /\ file = "absent" => disk = Empty /\ \A b \in Boxes : ~Used(b)
  /\ disk.phase \notin {"restoring", "restored"} =>
       \A s, t \in Servers : Used(s) /\ Used(t) => s = t
  /\ at = "launch" /\ cmd = "up" /\ node \in Servers => \A s \in Servers : ~Used(s)
  /\ at = "record" /\ node \in Servers => Used(node)
  /\ disk.server # None => Used(disk.server)
  /\ cmd = "restore" => disk.phase \in IF at \in Fencing THEN {"prepared", "ready"} ELSE {"restoring"}

BaseInv == disk \in Files /\ WorldInv /\ CommandInv /\ NodeInv /\ UsedInv

-----------------------------------------------------------------------------

Growing == Launching \cup {"setup", "ready", "loop"} \cup Joining
Fresh == at \in Launching /\ node \in Workers

\* The workers' numbers, and how far adding one has come.
MemberInv ==
  /\ disk.next_worker =< MaxWorkers + 1
  /\ disk.workers \cup (disk.removed \cap Workers) \subseteq 1..(disk.next_worker - 1)
  /\ disk.workers \cap disk.removed = {}
  /\ \A w \in Workers : w \notin disk.workers \cup disk.removed => disk.progress[w] = {}
  /\ \A w \in Workers : "ready" \in disk.progress[w] => "network_id" \in disk.progress[w]
  /\ Fresh => node \notin disk.workers \cup disk.removed /\ node < disk.next_worker
  /\ at \in Joining \cup {"ready"} /\ node \in Workers => disk.progress[node] \cap Removal = {}
  /\ at \in {"start", "ready"} /\ node \in Workers => "network_id" \in disk.progress[node]
  /\ cmd \in {"up", "scale"} => \A w \in disk.workers :
       "ready" \in disk.progress[w] \/ (at \in Joining \cup {"ready"} /\ w = node)

\* There are names left for the workers still wanted.
FitInv ==
  /\ cmd \in {"up", "scale"} /\ at \notin Removing =>
       want + disk.next_worker =<
         Cardinality(disk.workers) + MaxWorkers + 1 + (IF Fresh THEN 1 ELSE 0)
  /\ at \in Removing => want < Cardinality(disk.workers)
  /\ at \in Launching => node \in Boxes

-----------------------------------------------------------------------------

\* A Node is deleted after its drain.
DeletedIsDrained ==
  \A w \in Workers : "kubernetes_removed" \in disk.progress[w] => "drained" \in disk.progress[w]

\* How far a removal has come.
RemovalInv ==
  /\ at \in {"drain", "drained"} => "drained" \notin disk.progress[node]
  /\ at \in Removing \ {"drain", "drained"} => "drained" \in disk.progress[node]
  /\ at \in {"unlink", "unlinked", "stop", "removed"} => "kubernetes_removed" \in disk.progress[node]
  /\ at \in {"stop", "removed"} => "network_removed" \in disk.progress[node]
  /\ at = "drained" => kube[node] = "cordoned"
  /\ at = "deleted" => kube[node] = "absent"
  /\ at = "unlinked" => node \notin vpn
  /\ at = "removed" => box[node] # "up"

\* What the file says of w is true of the databases.
Truthful(w) ==
  /\ w \notin disk.workers => kube[w] = "absent" /\ w \notin vpn
  /\ "drained" \in disk.progress[w] => kube[w] \in {"absent", "cordoned"}
  /\ "kubernetes_removed" \in disk.progress[w] => kube[w] = "absent"
  /\ "network_removed" \in disk.progress[w] => w \notin vpn

TruthInv ==
  /\ \A w \in disk.removed \cap Workers : box[w] # "up"
  /\ \A w \in Workers \ undone : Truthful(w)
  /\ cmd = "restore" /\ at \in {"joined", "start"} =>
       \A w \in disk.workers : disk.progress[w] \cap Removal # {} => w \in undone

Copied == at \in {"network", "prepared", "create", "created", "wait"}

\* Nor does the checkpoint name anybody but the members.
StagedInv ==
  /\ cmd = "restore" \/ (cmd = "snapshot" /\ at # "mark") => disk.manifest = disk.workers
  /\ cmd = "restore" \/ Copied \/ disk.phase \in {"prepared", "ready"} =>
       \A w \in Workers \ undone :
         w \notin disk.manifest => staged.kube[w] = "absent" /\ w \notin staged.vpn

-----------------------------------------------------------------------------

\* There is no snapshot without a recorded source.
SnapInv ==
  /\ disk.phase # "none" \/ (cmd = "snapshot" /\ at # "mark") => disk.source # None
  /\ disk.source = None => snaps = {}

Kept == Known \ {None}

\* down has come past b: the workers above the next to stop, the server last.
Passed(b) == IF node \in Workers THEN b \in Workers /\ b > node ELSE node = None \/ b \in Workers

DownInv ==
  /\ at = "stopping" /\ want = 0 => \A b \in Kept : Passed(b) => box[b] # "up"
  /\ at = "cleanup" \/ file = "archived" => \A b \in Kept : box[b] # "up"
  /\ file = "archived" => snaps = {}

-----------------------------------------------------------------------------

LEMMA BaseFacts ==
  /\ MaxWorkers \in Nat /\ MaxFaults \in Nat /\ None \notin Servers /\ None \notin Workers
  /\ Servers \cap Nat = {} /\ Workers \subseteq Nat \ {0} /\ \E s, t \in Servers : s # t
  BY ClusterAssumption DEF Boxes, Workers

\* Recording a field of a worker leaves the rest of the file alone.
LEMMA RecordedFields ==
  ASSUME disk \in Files, state = disk, NEW n, NEW field \in Progress
  PROVE  /\ Recorded(n, field) \in Files
         /\ \A w \in Workers : Recorded(n, field).progress[w] =
              IF w = n THEN disk.progress[w] \cup {field} ELSE disk.progress[w]
         /\ Recorded(n, field).server = disk.server /\ Recorded(n, field).workers = disk.workers
         /\ Recorded(n, field).removed = disk.removed /\ Recorded(n, field).next_worker = disk.next_worker
         /\ Recorded(n, field).phase = disk.phase /\ Recorded(n, field).manifest = disk.manifest
         /\ Recorded(n, field).source = disk.source
<1> DEFINE p == [disk.progress EXCEPT ![n] = @ \cup {field}]
<1>1. p \in [Workers -> SUBSET Progress]
  BY DEF Files
<1>2. Recorded(n, field) = [disk EXCEPT !.progress = p]
  BY DEF Recorded, Files
<1>3. \A w \in Workers : p[w] = IF w = n THEN disk.progress[w] \cup {field} ELSE disk.progress[w]
  BY DEF Files
<1> HIDE DEF p
<1>4. [disk EXCEPT !.progress = p] \in Files
  BY <1>1 DEF Files
<1> QED BY <1>2, <1>3, <1>4 DEF Files

LEMMA FilesStep == ASSUME IInv, BaseInv, [Next]_vars PROVE disk' \in Files
<1> USE BaseFacts DEF BaseInv, cloud, guest, command
<1> state = disk /\ disk \in Files
  BY DEF IInv, Shaped
<1>1. ASSUME NEW k, Up(k) PROVE disk' \in Files
  BY <1>1 DEF Up, Empty, Files, Phases
<1>2. CASE RecordNode
  <2>1. ASSUME node \in Workers PROVE [disk EXCEPT !.workers = @ \cup {node}] \in Files
    BY <2>1 DEF Files
  <2>2. ASSUME node \in Servers PROVE [disk EXCEPT !.server = node, !.ip = FALSE] \in Files
    BY <2>2 DEF Files
  <2> QED BY <1>2, <2>1, <2>2 DEF RecordNode
<1>3. CASE RecordJoin
  <2>1. [disk EXCEPT !.ip = TRUE] \in Files
    BY DEF Files
  <2> QED BY <1>3, <2>1, RecordedFields DEF RecordJoin, Progress
<1>4. ASSUME NEW step, NEW field \in Progress, NEW next, Records(step, field, next)
      PROVE  disk' \in Files
  BY <1>4, RecordedFields DEF Records
<1>5. CASE Grow
  <2>1. [disk EXCEPT !.next_worker = @ + 1] \in Files
    BY DEF Files
  <2> QED BY <1>5, <2>1 DEF Grow
<1>6. CASE RecordRemoved
  <2>1. node \in Boxes
    BY <1>6 DEF RecordRemoved, NodeInv, Removing, Boxes, Files
  <2>2. [disk EXCEPT !.workers = @ \ {node}, !.removed = @ \cup {node}] \in Files
    BY <2>1 DEF Files
  <2> QED BY <1>6, <2>2 DEF RecordRemoved
<1>7. CASE RecordCheckpoint
  <2>1. [disk EXCEPT !.phase = "preparing", !.manifest = disk.workers, !.source = disk.server] \in Files
    BY DEF Files, Phases
  <2> QED BY <1>7, <2>1 DEF RecordCheckpoint
<1>8. ASSUME NEW p \in Phases PROVE [disk EXCEPT !.phase = p] \in Files
  BY DEF Files
<1>9. CASE RecordPrepared \/ RecordSnapshotReady \/ RecordRestored
  BY <1>8, <1>9 DEF RecordPrepared, RecordSnapshotReady, RecordRestored, Phases
<1>10. ASSUME NEW i \in {"recipe", "cli"} PROVE [disk EXCEPT !.snapshot = i] \in Files
  BY DEF Files
<1>11. CASE RecordSnapshot
  BY <1>10, <1>11 DEF RecordSnapshot
<1>12. ASSUME NEW i \in snaps, Restore(i) PROVE disk' \in Files
  BY <1>10, <1>12 DEF Restore, RestoreWith, WorldInv
<1>13. CASE RecordRestoring
  <2>1. disk.server \in Boxes
    BY <1>13 DEF RecordRestoring, CommandInv, UsedInv, Restoring, Scaling, Fencing, SnapshotSteps,
                 Launching, Joining, Removing, IInv, ServerInv, Checkpointed, Boxes, Files
  <2>2. [disk EXCEPT !.removed = @ \cup {disk.server}, !.phase = "restoring"] \in Files
    BY <2>1 DEF Files, Phases
  <2> QED BY <1>13, <2>2 DEF RecordRestoring
<1>14. CASE UNCHANGED disk
  BY <1>14
<1> HIDE DEF Saves, Starts
<1> QED
  BY <1>1, <1>2, <1>3, <1>4, <1>5, <1>6, <1>7, <1>9, <1>11, <1>12, <1>13, <1>14
     DEF Next, User, Step, vars, memory, Progress, Removal, RecordReady, RecordDrained, RecordDeleted, RecordUnlinked,
         Launch, SetupCoordinator, Join, StartServer, StartWorker, Shrink, Scaled, Scale, Snapshot, Resume,
         CliSnapshot, Down, Drain, DeleteNode, Unlink, StopWorker, Pause, Copy, StartNetwork,
         CreateSnapshot, StopOriginal, Reinstall, StopNode, Stopped, DeleteSnapshot, Archive,
         Fails, CutShort, StopNodeFails, Interrupt, Schedule, Uncordon

LEMMA BaseInit == Init => BaseInv
<1> SUFFICES ASSUME Init PROVE BaseInv
  OBVIOUS
<1> USE BaseFacts
<1>1. Empty \in Files
  BY DEF Empty, Files, Phases
<1>2. disk \in Files /\ disk.server = None /\ disk.phase = "none"
  BY <1>1 DEF Init, Empty
<1>3. WorldInv
  <2>1. kube \in [Workers -> Conditions] /\ box \in [Boxes -> {"none", "up", "stopped"}]
    BY DEF Init, Conditions
  <2>2. staged \in [kube : [Workers -> Conditions], vpn : SUBSET Workers]
    BY <2>1 DEF Init
  <2>3. k3s = "none" /\ net = FALSE /\ marker = FALSE
    BY DEF Init
  <2>4. vpn = {} /\ snaps = {} /\ undone = {} /\ faults = 0
    BY DEF Init
  <2>5. net \in BOOLEAN /\ marker \in BOOLEAN
    BY <2>3
  <2> QED BY <2>1, <2>2, <2>3, <2>4, <2>5 DEF WorldInv
<1>4. CommandInv
  BY DEF Init, CommandInv
<1>5. NodeInv /\ UsedInv
  BY <1>2 DEF Init, NodeInv, UsedInv, Used, Boxes, Launching, Joining, Removing
<1> QED BY <1>2, <1>3, <1>4, <1>5 DEF BaseInv

Members == <<disk.workers, disk.removed, disk.next_worker>>
Checkpoint == <<disk.phase, disk.manifest, disk.source>>

\* What a save changes of the file, and what not.
LEMMA RecordsFields ==
  ASSUME IInv, disk \in Files, NEW step, NEW field \in Progress, NEW next, Records(step, field, next)
  PROVE  /\ UNCHANGED <<file, disk.server, Members, Checkpoint>>
         /\ \A w \in Workers : disk'.progress[w] =
              IF w = node THEN disk.progress[w] \cup {field} ELSE disk.progress[w]
<1> state = disk
  BY DEF IInv, Shaped
<1>1. disk' = Recorded(node, field) /\ file' = file
  BY DEF Records
<1> QED BY <1>1, RecordedFields DEF Members, Checkpoint

LEMMA RecordNodeFields ==
  ASSUME IInv, disk \in Files, RecordNode
  PROVE  /\ UNCHANGED <<file, disk.removed, disk.next_worker, disk.progress, Checkpoint>>
         /\ \/ /\ node \in Workers /\ at' = "join"
               /\ disk'.workers = disk.workers \cup {node} /\ disk'.server = disk.server
            \/ /\ node \in Servers /\ at' = IF cmd = "up" THEN "setup" ELSE "reinstall"
               /\ disk'.workers = disk.workers /\ disk'.server = node
<1> state = disk
  BY DEF IInv, Shaped
<1>1. CASE node \in Workers /\ disk' = [disk EXCEPT !.workers = @ \cup {node}] /\ at' = "join"
  BY <1>1 DEF RecordNode, Checkpoint, Files
<1>2. CASE /\ node \in Servers /\ disk' = [disk EXCEPT !.server = node, !.ip = FALSE]
           /\ at' = IF cmd = "up" THEN "setup" ELSE "reinstall"
  BY <1>2 DEF RecordNode, Checkpoint, Files
<1> QED BY <1>1, <1>2 DEF RecordNode

LEMMA RecordJoinFields ==
  ASSUME IInv, disk \in Files, RecordJoin
  PROVE  /\ UNCHANGED <<file, disk.server, Members, Checkpoint>>
         /\ \A w \in Workers : disk'.progress[w] =
              IF w = node THEN disk.progress[w] \cup {"network_id"} ELSE disk.progress[w]
<1> state = disk
  BY DEF IInv, Shaped
<1>1. CASE node \in Workers
  BY <1>1, RecordedFields DEF RecordJoin, Members, Checkpoint, Progress
<1>2. CASE node \notin Workers /\ disk' = [disk EXCEPT !.ip = TRUE]
  BY <1>2 DEF RecordJoin, Members, Checkpoint, Files
<1> QED BY <1>1, <1>2 DEF RecordJoin

LEMMA GrowFields ==
  ASSUME IInv, disk \in Files, Grow
  PROVE  /\ UNCHANGED <<file, disk.server, disk.workers, disk.removed, disk.progress, Checkpoint>>
         /\ disk'.next_worker = disk.next_worker + 1
<1> state = disk
  BY DEF IInv, Shaped
<1> QED BY DEF Grow, Checkpoint, Files

LEMMA RecordRemovedFields ==
  ASSUME IInv, disk \in Files, RecordRemoved
  PROVE  /\ UNCHANGED <<file, disk.server, disk.next_worker, disk.progress, Checkpoint>>
         /\ disk'.workers = disk.workers \ {node} /\ disk'.removed = disk.removed \cup {node}
<1> state = disk
  BY DEF IInv, Shaped
<1> QED BY DEF RecordRemoved, Checkpoint, Files

LEMMA RecordCheckpointFields ==
  ASSUME IInv, disk \in Files, RecordCheckpoint
  PROVE  /\ UNCHANGED <<file, disk.server, Members, disk.progress>>
         /\ disk'.phase = "preparing" /\ disk'.manifest = disk.workers /\ disk'.source = disk.server
<1> state = disk
  BY DEF IInv, Shaped
<1> QED BY DEF RecordCheckpoint, Members, Files

\* A save of the phase.
LEMMA PhaseFields ==
  ASSUME disk \in Files, NEW p, disk' = [disk EXCEPT !.phase = p]
  PROVE  /\ UNCHANGED <<disk.server, Members, disk.progress, disk.manifest, disk.source>>
         /\ disk'.phase = p
BY DEF Members, Files

LEMMA RecordPhaseFields ==
  ASSUME IInv, disk \in Files, RecordPrepared \/ RecordSnapshotReady \/ RecordRestored
  PROVE  /\ UNCHANGED <<file, disk.server, Members, disk.progress, disk.manifest, disk.source>>
         /\ at \in {"prepared", "wait", "verify"}
         /\ disk'.phase = IF at = "prepared" THEN "prepared" ELSE IF at = "wait" THEN "ready" ELSE "restored"
<1> state = disk
  BY DEF IInv, Shaped
<1>1. CASE RecordPrepared
  BY <1>1, PhaseFields DEF RecordPrepared
<1>2. CASE RecordSnapshotReady
  BY <1>2, PhaseFields DEF RecordSnapshotReady
<1>3. CASE RecordRestored
  BY <1>3, PhaseFields DEF RecordRestored
<1> QED BY <1>1, <1>2, <1>3

\* A save of the snapshot's ID.
LEMMA SnapshotFields ==
  ASSUME IInv, disk \in Files, RecordSnapshot \/ \E i : Restore(i)
  PROVE  UNCHANGED <<file, disk.server, Members, disk.progress, Checkpoint>>
<1> state = disk
  BY DEF IInv, Shaped
<1>1. PICK i : disk' = [disk EXCEPT !.snapshot = i] /\ file' = file
  BY DEF RecordSnapshot, Restore, RestoreWith
<1> QED BY <1>1 DEF Members, Checkpoint, Files

LEMMA RecordRestoringFields ==
  ASSUME IInv, disk \in Files, RecordRestoring
  PROVE  /\ UNCHANGED <<file, disk.server, disk.workers, disk.next_worker, disk.progress, disk.manifest, disk.source>>
         /\ disk'.removed = disk.removed \cup {disk.server} /\ disk'.phase = "restoring"
<1> state = disk
  BY DEF IInv, Shaped
<1> QED BY DEF RecordRestoring, Files

LEMMA StopsBase ==
  ASSUME BaseInv, NEW n \in Workers \cup ({disk.server} \ {None}), Stops(n)
  PROVE  /\ box' \in [Boxes -> {"none", "up", "stopped"}] /\ k3s' \in {"none", "running", "paused"}
         /\ net' \in BOOLEAN
         /\ UNCHANGED <<kube, vpn, marker, staged, snaps, undone>>
         /\ \A s \in Servers : Used(s)' <=> Used(s)
<1>1. box' \in [Boxes -> {"none", "up", "stopped"}] /\ box' = [box EXCEPT ![n] = "stopped"]
  BY DEF Stops, BaseInv, WorldInv
<1>2. n \in Servers => Used(n)
  BY BaseFacts DEF BaseInv, UsedInv
<1>3. \A s \in Servers : Used(s)' <=> Used(s)
  BY <1>1, <1>2 DEF Used, Boxes, BaseInv, WorldInv
<1>4. k3s' \in {"none", "running", "paused"}
  BY DEF Stops, BaseInv, WorldInv
<1>5. net' \in BOOLEAN
  BY DEF Stops, BaseInv, WorldInv
<1> QED BY <1>1, <1>3, <1>4, <1>5 DEF Stops

\* The next node that down stops is one of the file's.
LEMMA LastIsKept ==
  ASSUME BaseInv, NEW T, T \subseteq disk.workers
  PROVE  Last(T, disk) \in T \cup {disk.server} /\ (T = {} => Last(T, disk) = disk.server)
BY BaseFacts, MaxOf DEF BaseInv, Files, Workers, Last

LEMMA BaseCommand == ASSUME IInv, BaseInv, Step, disk' \in Files PROVE BaseInv'
<1> USE BaseFacts DEF BaseInv, cloud, guest, command, Launching, Joining, Removing, Fencing, Scaling, Restoring,
                      SnapshotSteps, WorldInv, CommandInv, NodeInv, UsedInv, Used, Boxes
<1> HIDE DEF Saves
<1> state = disk /\ disk \in Files
  BY DEF IInv, Shaped
<1>1. CASE Launch
  <2>1. box' \in [Boxes -> {"none", "up", "stopped"}] /\ box' = [box EXCEPT ![node] = "up"]
    BY <1>1 DEF Launch
  <2>2. \A s \in Servers : Used(s)' <=> (Used(s) \/ s = node)
    BY <2>1
  <2> QED BY <1>1, <2>1, <2>2 DEF Launch
<1>2. CASE RecordNode
  BY <1>2, RecordNodeFields DEF RecordNode, Members, Checkpoint
<1>3. CASE SetupCoordinator
  BY <1>3 DEF SetupCoordinator
<1>4. CASE Join
  BY <1>4 DEF Join
<1>5. CASE RecordJoin
  BY <1>5, RecordJoinFields DEF RecordJoin, Members, Checkpoint
<1>6. CASE StartServer
  BY <1>6 DEF StartServer, Conditions
<1>7. CASE StartWorker
  BY <1>7 DEF StartWorker, Conditions
<1>8. CASE RecordReady
  BY <1>8, RecordsFields DEF RecordReady, Members, Checkpoint, Records, Progress, Removal, NextRemoval
<1>9. CASE Grow
  BY <1>9, GrowFields DEF Grow, Members, Checkpoint, Files
<1>10. CASE Shrink
  <2>1. disk.workers # {} /\ disk.workers \subseteq Workers
    BY <1>10, FS_EmptySet DEF Shrink, Files
  <2>2. Newest(disk) \in disk.workers
    BY <2>1, MaxOf DEF Newest, Workers
  <2>3. NextRemoval(disk.progress[Newest(disk)]) \in Removing
    BY DEF NextRemoval
  <2> QED BY <1>10, <2>1, <2>2, <2>3 DEF Shrink
<1>11. CASE Scaled
  BY <1>11 DEF Scaled
<1>12. CASE Drain
  BY <1>12 DEF Drain, Conditions
<1>13. CASE RecordDrained
  BY <1>13, RecordsFields DEF RecordDrained, Members, Checkpoint, Records, Progress, Removal, NextRemoval
<1>14. CASE DeleteNode
  BY <1>14 DEF DeleteNode, Conditions
<1>15. CASE RecordDeleted
  BY <1>15, RecordsFields DEF RecordDeleted, Members, Checkpoint, Records, Progress, Removal, NextRemoval
<1>16. CASE Unlink
  BY <1>16 DEF Unlink
<1>17. CASE RecordUnlinked
  BY <1>17, RecordsFields DEF RecordUnlinked, Members, Checkpoint, Records, Progress, Removal, NextRemoval
<1>18. CASE StopWorker
  <2>1. node \in Workers /\ disk.server \in Servers \cup {None}
    BY <1>18 DEF StopWorker, Files
  <2>2. /\ box' \in [Boxes -> {"none", "up", "stopped"}] /\ k3s' \in {"none", "running", "paused"}
        /\ net' \in BOOLEAN /\ UNCHANGED <<kube, vpn, marker, staged, snaps, undone>>
        /\ \A s \in Servers : Used(s)' <=> Used(s)
    BY <1>18, <2>1, StopsBase DEF StopWorker
  <2> QED BY <1>18, <2>1, <2>2 DEF StopWorker
<1>19. CASE RecordRemoved
  BY <1>19, RecordRemovedFields DEF RecordRemoved, Members, Checkpoint
<1>20. CASE RecordCheckpoint
  <2>1. disk.phase \in Original
    BY <1>20 DEF RecordCheckpoint, IInv, StepInv
  <2> QED BY <1>20, <2>1, RecordCheckpointFields DEF RecordCheckpoint, Members, Original, Checkpointed
<1>21. CASE Pause
  BY <1>21 DEF Pause
<1>22. CASE Copy
  BY <1>22 DEF Copy, Conditions
<1>23. CASE StartNetwork
  BY <1>23 DEF StartNetwork
<1>24. CASE RecordPrepared
  <2>1. disk.phase \in Original
    BY <1>24 DEF RecordPrepared, IInv, StepInv
  <2> QED BY <1>24, <2>1, RecordPhaseFields DEF RecordPrepared, Members, Original, Checkpointed
<1>25. CASE CreateSnapshot
  BY <1>25 DEF CreateSnapshot
<1>26. CASE RecordSnapshot
  BY <1>26, SnapshotFields DEF RecordSnapshot, Members, Checkpoint
<1>27. CASE RecordSnapshotReady
  <2>1. disk.phase \in Original
    BY <1>27 DEF RecordSnapshotReady, IInv, StepInv
  <2> QED BY <1>27, <2>1, RecordPhaseFields DEF RecordSnapshotReady, Members, Original, Checkpointed
<1>28. CASE StopOriginal
  <2>1. disk.server # None /\ disk.server \in Servers
    BY <1>28 DEF StopOriginal, IInv, StepInv, Files
  <2> QED BY <1>28, <2>1, StopsBase DEF StopOriginal
<1>29. CASE RecordRestoring
  <2>1. \E s \in Servers : ~Used(s)
    BY <1>29 DEF RecordRestoring
  <2>2. NewServer \in Servers /\ ~Used(NewServer)
    BY <2>1 DEF NewServer
  <2> QED BY <1>29, <2>2, RecordRestoringFields DEF RecordRestoring, Members
<1>30. CASE Reinstall
  <2>1. staged.vpn \in SUBSET Workers /\ disk.workers \subseteq Workers
    BY DEF Files
  <2> QED BY <1>30, <2>1 DEF Reinstall
<1>31. CASE RecordRestored
  BY <1>31, RecordPhaseFields DEF RecordRestored, Members, Checkpoint
<1>32. CASE StopNode
  <2>1. node \in Workers \cup ({disk.server} \ {None}) /\ disk.server \in Servers \cup {None}
    BY <1>32 DEF StopNode, Files
  <2>2. After(node, disk) \in disk.workers \cup {disk.server, None}
    BY LastIsKept DEF After
  <2>3. After(node, disk) \in Boxes \cup {None}
    BY <2>2 DEF Files
  <2>4. /\ box' \in [Boxes -> {"none", "up", "stopped"}] /\ k3s' \in {"none", "running", "paused"}
        /\ net' \in BOOLEAN /\ UNCHANGED <<kube, vpn, marker, staged, snaps, undone>>
        /\ \A s \in Servers : Used(s)' <=> Used(s)
    BY <1>32, <2>1, StopsBase DEF StopNode
  <2> QED BY <1>32, <2>1, <2>2, <2>3, <2>4 DEF StopNode
<1>33. CASE Stopped
  BY <1>33 DEF Stopped
<1>34. CASE DeleteSnapshot
  BY <1>34 DEF DeleteSnapshot
<1>35. CASE Archive
  BY <1>35 DEF Archive
<1>36. CASE Fails
  BY <1>36 DEF Fails, CutShort
<1> QED BY <1>1, <1>2, <1>3, <1>4, <1>5, <1>6, <1>7, <1>8, <1>9, <1>10, <1>11, <1>12, <1>13, <1>14, <1>15, <1>16, <1>17, <1>18, <1>19, <1>20, <1>21, <1>22, <1>23, <1>24, <1>25, <1>26, <1>27, <1>28, <1>29, <1>30, <1>31, <1>32, <1>33, <1>34, <1>35, <1>36 DEF Step

LEMMA BaseStep == ASSUME IInv, BaseInv, [Next]_vars PROVE BaseInv'
<1> USE BaseFacts DEF BaseInv, cloud, guest, command, memory, Launching, Joining, Removing, Fencing, Scaling,
                      Restoring, SnapshotSteps, WorldInv, CommandInv, NodeInv, UsedInv, Used, Boxes
<1>0. disk' \in Files
  BY FilesStep
<1> HIDE DEF Saves
<1> state = disk /\ disk \in Files
  BY DEF IInv, Shaped
<1>1. ASSUME NEW k \in 0..MaxWorkers, Up(k) PROVE BaseInv'
  <2>1. NewServer \in Servers
    BY <1>1 DEF Up, NewServer
  <2>2. disk' = Empty /\ disk'.server = None /\ disk'.phase = "none" /\ file' = "present"
    BY <1>1 DEF Up, Empty
  <2> QED BY <1>0, <1>1, <2>1, <2>2 DEF Up
<1>2. ASSUME NEW k \in 0..MaxWorkers, Scale(k) PROVE BaseInv'
  BY <1>2 DEF Scale
<1>3. CASE Snapshot
  BY <1>3 DEF Snapshot
<1>4. CASE Resume
  BY <1>4 DEF Resume
<1>5. CASE CliSnapshot
  BY <1>5 DEF CliSnapshot
<1>6. CASE Down
  <2>1. Last(disk.workers, disk) \in disk.workers \cup {disk.server}
    BY LastIsKept
  <2>2. Last(disk.workers, disk) \in Boxes \cup {None}
    BY <2>1 DEF Files
  <2> QED BY <1>6, <2>1, <2>2 DEF Down
<1>7. ASSUME NEW i, Restore(i) PROVE BaseInv'
  BY <1>0, <1>7, SnapshotFields DEF Restore, RestoreWith, Members, Checkpoint
<1>8. CASE Step
  BY <1>0, <1>8, BaseCommand
<1>9. CASE StopNodeFails
  <2>1. node \in Workers \cup ({disk.server} \ {None}) /\ disk.server \in Servers \cup {None}
    BY <1>9 DEF StopNodeFails, Files
  <2>2. After(node, disk) \in disk.workers \cup {disk.server, None}
    BY LastIsKept DEF After
  <2>3. After(node, disk) \in Boxes \cup {None}
    BY <2>2 DEF Files
  <2>4. CASE Stops(node)
    <3>1. /\ box' \in [Boxes -> {"none", "up", "stopped"}] /\ k3s' \in {"none", "running", "paused"}
          /\ net' \in BOOLEAN /\ UNCHANGED <<kube, vpn, marker, staged, snaps, undone>>
          /\ \A s \in Servers : Used(s)' <=> Used(s)
      BY <2>1, <2>4, StopsBase
    <3> QED BY <1>9, <2>1, <2>2, <2>3, <3>1 DEF StopNodeFails
  <2>5. CASE UNCHANGED cloud
    BY <1>9, <2>1, <2>2, <2>3, <2>5 DEF StopNodeFails
  <2> QED BY <1>9, <2>4, <2>5 DEF StopNodeFails
<1>10. CASE Interrupt
  <2>1. net' \in BOOLEAN
    BY <1>10 DEF Interrupt
  <2>2. faults' \in 0..MaxFaults
    BY <1>10 DEF Interrupt
  <2>3. /\ UNCHANGED <<file, disk, box, k3s, kube, vpn, marker, staged, snaps, undone>>
        /\ cmd' = "none" /\ at' = "prompt" /\ node' = None /\ want' = 0
    BY <1>10 DEF Interrupt, CutShort
  <2> QED BY <2>1, <2>2, <2>3
<1>11. ASSUME NEW w \in Workers, Schedule(w) PROVE BaseInv'
  BY <1>11 DEF Schedule, Conditions
<1>12. ASSUME NEW w \in Workers, Uncordon(w) PROVE BaseInv'
  <2>1. kube' \in [Workers -> Conditions]
    BY <1>12 DEF Uncordon, Conditions
  <2>2. undone' \in SUBSET Workers
    BY <1>12 DEF Uncordon
  <2> QED BY <1>12, <2>1, <2>2 DEF Uncordon
<1>13. CASE UNCHANGED vars
  BY <1>13 DEF vars
<1> QED BY <1>1, <1>2, <1>3, <1>4, <1>5, <1>6, <1>7, <1>8, <1>9, <1>10, <1>11, <1>12, <1>13
    DEF Next, User

(* The values and the commands' steps stay as BaseInv says, in every behaviour. *)
THEOREM BaseKept == Spec => [](IInv /\ BaseInv)
<1>1. IInv /\ BaseInv /\ [Next]_vars => BaseInv'
  BY BaseStep
<1> QED BY Inductive, BaseInit, <1>1, PTL DEF Spec

-----------------------------------------------------------------------------
(* The workers' numbers. *)

LEMMA MembersFinite == BaseInv => IsFiniteSet(disk.workers)
<1> IsFiniteSet(Workers)
  BY BaseFacts, FS_Interval DEF Workers
<1> QED BY FS_Subset DEF BaseInv, Files

LEMMA MemberInit == Init => MemberInv /\ FitInv
<1> SUFFICES ASSUME Init PROVE MemberInv /\ FitInv
  OBVIOUS
<1>1. /\ disk.workers = {} /\ disk.removed = {} /\ disk.next_worker = 1
      /\ \A w \in Workers : disk.progress[w] = {}
  BY DEF Init, Empty
<1> QED BY <1>1, BaseFacts DEF Init, MemberInv, FitInv, Fresh, Launching, Joining, Removing

LEMMA MemberCommand == ASSUME IInv, BaseInv, BaseInv', MemberInv, FitInv, Step PROVE MemberInv'
<1> USE BaseFacts DEF BaseInv, cloud, guest, command, Launching, Joining, Removing, Fencing, Scaling, Restoring,
                      SnapshotSteps, CommandInv, NodeInv, MemberInv, Fresh
<1> HIDE DEF Saves
<1> state = disk /\ disk \in Files /\ disk' \in Files
  BY DEF IInv, Shaped
<1> /\ disk.server \in Servers \cup {None} /\ disk.workers \in SUBSET Workers
    /\ disk.next_worker \in Nat \ {0}
  BY DEF Files
<1>1. CASE Launch
  BY <1>1 DEF Launch
<1>2. CASE RecordNode
  BY <1>2, RecordNodeFields DEF RecordNode, Members, Checkpoint
<1>3. CASE SetupCoordinator
  BY <1>3 DEF SetupCoordinator
<1>4. CASE Join
  BY <1>4 DEF Join
<1>5. CASE RecordJoin
  <2>1. \A w \in Workers : disk'.progress[w] \cap Removal = disk.progress[w] \cap Removal
    BY <1>5, RecordJoinFields DEF Removal
  <2>2. \A w \in Workers : "ready" \in disk'.progress[w] <=> "ready" \in disk.progress[w]
    BY <1>5, RecordJoinFields, "ready" # "network_id"
  <2>3. \A w \in Workers : w \notin disk.workers \cup disk.removed => disk'.progress[w] = disk.progress[w]
    BY <1>5, RecordJoinFields DEF RecordJoin
  <2>4. \A w \in Workers : "network_id" \in disk.progress[w] \/ w = node => "network_id" \in disk'.progress[w]
    BY <1>5, RecordJoinFields
  <2>5. UNCHANGED Members /\ at' = "start" /\ at = "joined" /\ UNCHANGED <<cmd, node, want>>
    BY <1>5, RecordJoinFields DEF RecordJoin
  <2> HIDE DEF Removal
  <2> QED BY <2>1, <2>2, <2>3, <2>4, <2>5 DEF Members
<1>6. CASE StartServer
  BY <1>6 DEF StartServer
<1>7. CASE StartWorker
  BY <1>7 DEF StartWorker
<1>8. CASE RecordReady
  <2>0. "ready" \in Progress
    BY DEF Progress
  <2>1. /\ UNCHANGED <<Members, cmd, node, want>> /\ at = "ready" /\ at' = "loop"
        /\ \A w \in Workers : disk'.progress[w] =
             IF w = node THEN disk.progress[w] \cup {"ready"} ELSE disk.progress[w]
    BY <1>8, <2>0, RecordsFields DEF RecordReady, Records
  <2>2. node \in disk.workers
    BY <2>1
  <2> QED BY <2>1, <2>2 DEF Members
<1>9. CASE Grow
  <2>1. disk.next_worker =< MaxWorkers
    <3>1. IsFiniteSet(disk.workers) /\ Cardinality(disk.workers) \in Nat
      BY MembersFinite, FS_CardinalityType
    <3> QED BY <1>9, <3>1 DEF Grow, FitInv
  <2>2. disk'.next_worker \in Nat /\ node' = disk.next_worker /\ at' = "launch" /\ at = "loop"
    BY <1>9, GrowFields DEF Grow
  <2>3. node' \in Workers /\ node' \notin disk.workers \cup disk.removed
    BY <2>1, <2>2 DEF Workers
  <2> QED BY <1>9, <2>1, <2>2, <2>3, GrowFields DEF Grow, Checkpoint
<1>10. CASE Shrink
  BY <1>10 DEF Shrink, NextRemoval
<1>11. CASE Scaled
  BY <1>11 DEF Scaled
<1>12. CASE Drain
  BY <1>12 DEF Drain
<1>13. CASE RecordDrained
  <2>0. "drained" \in Progress
    BY DEF Progress, Removal
  <2>1. /\ UNCHANGED <<Members, cmd, node, want>> /\ at = "drained" /\ at' \in Removing
        /\ \A w \in Workers : disk'.progress[w] =
             IF w = node THEN disk.progress[w] \cup {"drained"} ELSE disk.progress[w]
    BY <1>13, <2>0, RecordsFields DEF RecordDrained, Records, NextRemoval
  <2>2. node \in disk.workers
    BY <2>1
  <2> QED BY <2>1, <2>2 DEF Members
<1>14. CASE DeleteNode
  BY <1>14 DEF DeleteNode
<1>15. CASE RecordDeleted
  <2>0. "kubernetes_removed" \in Progress
    BY DEF Progress, Removal
  <2>1. /\ UNCHANGED <<Members, cmd, node, want>> /\ at = "deleted" /\ at' \in Removing
        /\ \A w \in Workers : disk'.progress[w] =
             IF w = node THEN disk.progress[w] \cup {"kubernetes_removed"} ELSE disk.progress[w]
    BY <1>15, <2>0, RecordsFields DEF RecordDeleted, Records, NextRemoval
  <2>2. node \in disk.workers
    BY <2>1
  <2> QED BY <2>1, <2>2 DEF Members
<1>16. CASE Unlink
  BY <1>16 DEF Unlink
<1>17. CASE RecordUnlinked
  <2>0. "network_removed" \in Progress
    BY DEF Progress, Removal
  <2>1. /\ UNCHANGED <<Members, cmd, node, want>> /\ at = "unlinked" /\ at' \in Removing
        /\ \A w \in Workers : disk'.progress[w] =
             IF w = node THEN disk.progress[w] \cup {"network_removed"} ELSE disk.progress[w]
    BY <1>17, <2>0, RecordsFields DEF RecordUnlinked, Records, NextRemoval
  <2>2. node \in disk.workers
    BY <2>1
  <2> QED BY <2>1, <2>2 DEF Members
<1>18. CASE StopWorker
  BY <1>18 DEF StopWorker
<1>19. CASE RecordRemoved
  BY <1>19, RecordRemovedFields DEF RecordRemoved, Members, Checkpoint
<1>20. CASE RecordCheckpoint
  BY <1>20, RecordCheckpointFields DEF RecordCheckpoint, Members, Checkpoint
<1>21. CASE Pause
  BY <1>21 DEF Pause
<1>22. CASE Copy
  BY <1>22 DEF Copy
<1>23. CASE StartNetwork
  BY <1>23 DEF StartNetwork
<1>24. CASE RecordPrepared
  BY <1>24, RecordPhaseFields DEF RecordPrepared, Members, Checkpoint
<1>25. CASE CreateSnapshot
  BY <1>25 DEF CreateSnapshot
<1>26. CASE RecordSnapshot
  BY <1>26, SnapshotFields DEF RecordSnapshot, Members, Checkpoint
<1>27. CASE RecordSnapshotReady
  BY <1>27, RecordPhaseFields DEF RecordSnapshotReady, Members, Checkpoint
<1>28. CASE StopOriginal
  BY <1>28 DEF StopOriginal
<1>29. CASE RecordRestoring
  BY <1>29, RecordRestoringFields DEF RecordRestoring, Members, Checkpoint
<1>30. CASE Reinstall
  BY <1>30 DEF Reinstall
<1>31. CASE RecordRestored
  BY <1>31, RecordPhaseFields DEF RecordRestored, Members, Checkpoint
<1>32. CASE StopNode
  BY <1>32 DEF StopNode
<1>33. CASE Stopped
  BY <1>33 DEF Stopped
<1>34. CASE DeleteSnapshot
  BY <1>34 DEF DeleteSnapshot
<1>35. CASE Archive
  BY <1>35 DEF Archive
<1>36. CASE Fails
  BY <1>36 DEF Fails, CutShort
<1> QED BY <1>1, <1>2, <1>3, <1>4, <1>5, <1>6, <1>7, <1>8, <1>9, <1>10, <1>11, <1>12, <1>13, <1>14, <1>15, <1>16, <1>17, <1>18, <1>19, <1>20, <1>21, <1>22, <1>23, <1>24, <1>25, <1>26, <1>27, <1>28, <1>29, <1>30, <1>31, <1>32, <1>33, <1>34, <1>35, <1>36 DEF Step

LEMMA MemberStep == ASSUME IInv, BaseInv, BaseInv', MemberInv, FitInv, [Next]_vars PROVE MemberInv'
<1> USE BaseFacts DEF cloud, guest, command, memory, Launching, Joining, Removing, CommandInv, NodeInv, MemberInv, Fresh
<1> HIDE DEF Saves
<1> state = disk /\ disk \in Files /\ disk' \in Files
  BY DEF IInv, Shaped, BaseInv
<1> /\ disk.server \in Servers \cup {None} /\ disk.workers \in SUBSET Workers /\ CommandInv /\ NodeInv
    /\ disk.next_worker \in Nat \ {0}
  BY DEF Files, BaseInv
<1>1. ASSUME NEW k \in 0..MaxWorkers, Up(k) PROVE MemberInv'
  <2>1. NewServer \in Servers
    BY <1>1 DEF Up, NewServer, BaseInv, UsedInv, Used, Boxes
  <2>2. /\ disk'.workers = {} /\ disk'.removed = {} /\ disk'.next_worker = 1
        /\ \A w \in Workers : disk'.progress[w] = {}
    BY <1>1 DEF Up, Empty
  <2>3. node' \in Servers /\ at' = "launch" /\ cmd' = "up"
    BY <1>1, <2>1 DEF Up
  <2>4. node' \notin Workers
    BY <2>3
  <2> QED BY <2>2, <2>3, <2>4
<1>2. ASSUME NEW k \in 0..MaxWorkers, Scale(k) PROVE MemberInv'
  BY <1>2 DEF Scale
<1>3. CASE Snapshot
  BY <1>3 DEF Snapshot
<1>4. CASE Resume
  BY <1>4 DEF Resume
<1>5. CASE CliSnapshot
  BY <1>5 DEF CliSnapshot
<1>6. CASE Down
  BY <1>6 DEF Down
<1>7. ASSUME NEW i, Restore(i) PROVE MemberInv'
  BY <1>7, SnapshotFields DEF Restore, RestoreWith, Members
<1>8. CASE Step
  BY <1>8, MemberCommand
<1>9. CASE StopNodeFails
  BY <1>9 DEF StopNodeFails
<1>10. CASE Interrupt
  BY <1>10 DEF Interrupt, CutShort
<1>11. ASSUME NEW w \in Workers, Schedule(w) PROVE MemberInv'
  BY <1>11 DEF Schedule
<1>12. ASSUME NEW w \in Workers, Uncordon(w) PROVE MemberInv'
  BY <1>12 DEF Uncordon
<1>13. CASE UNCHANGED vars
  BY <1>13 DEF vars
<1> QED BY <1>1, <1>2, <1>3, <1>4, <1>5, <1>6, <1>7, <1>8, <1>9, <1>10, <1>11, <1>12, <1>13
    DEF Next, User

\* A step that keeps the members, and neither begins nor ends a removal or the
\* adding of a worker.
LEMMA FitKept ==
  ASSUME FitInv, UNCHANGED <<disk.workers, disk.next_worker, want>>,
         \/ cmd' \notin {"up", "scale"} /\ at' \notin Launching \cup Removing
         \/ cmd' = cmd /\ (at \in Removing <=> at' \in Removing) /\ (Fresh' <=> Fresh)
            /\ (at' \in Launching => node' \in Boxes)
  PROVE  FitInv'
BY DEF FitInv, Fresh, Launching, Removing

LEMMA FitStep == ASSUME IInv, BaseInv, BaseInv', MemberInv, FitInv, [Next]_vars PROVE FitInv'
<1> USE BaseFacts DEF cloud, guest, command, memory, Launching, Joining, Removing, CommandInv, NodeInv
<1> HIDE DEF Saves
<1> state = disk /\ disk \in Files
  BY DEF IInv, Shaped, BaseInv
<1> /\ disk.server \in Servers \cup {None} /\ disk.workers \in SUBSET Workers /\ CommandInv /\ NodeInv
    /\ disk.next_worker \in Nat \ {0}
  BY DEF Files, BaseInv
<1> /\ Cardinality(disk.workers) \in Nat /\ IsFiniteSet(disk.workers)
  BY MembersFinite, FS_CardinalityType
<1>1. ASSUME NEW k \in 0..MaxWorkers, Up(k), Fits(k) PROVE FitInv'
  <2>1. NewServer \in Servers
    BY <1>1 DEF Up, NewServer, BaseInv, UsedInv, Used, Boxes
  <2>2. disk'.workers = {} /\ disk'.next_worker = 1 /\ disk.next_worker = 1 /\ disk.workers = {}
    BY <1>1 DEF Up, Empty, BaseInv, UsedInv
  <2>3. Cardinality(disk'.workers) = 0 /\ Cardinality(disk.workers) = 0
    BY <2>2, FS_EmptySet
  <2> QED BY <1>1, <2>1, <2>2, <2>3 DEF Up, Fits, FitInv, Fresh, Boxes
<1>2. ASSUME NEW k \in 0..MaxWorkers, Scale(k), Fits(k) PROVE FitInv'
  BY <1>2 DEF Scale, Fits, FitInv, Fresh
<1>3. CASE RecordNode
  <2>1. CASE node \in Workers /\ at' = "join" /\ disk'.workers = disk.workers \cup {node}
    <3>1. node \notin disk.workers
      BY <1>3, <2>1 DEF MemberInv, Fresh, RecordNode
    <3>2. Cardinality(disk.workers \cup {node}) = Cardinality(disk.workers) + 1
      BY <3>1, FS_AddElement
    <3> QED BY <1>3, <2>1, <3>2, RecordNodeFields DEF RecordNode, FitInv, Fresh
  <2>2. CASE node \in Servers /\ at' \in {"setup", "reinstall"} /\ disk'.workers = disk.workers
    BY <1>3, <2>2, FitKept, RecordNodeFields DEF RecordNode, Fresh
  <2> QED BY <1>3, <2>1, <2>2, RecordNodeFields
<1>4. CASE Grow
  <2>1. disk'.workers = disk.workers /\ disk'.next_worker = disk.next_worker + 1
    BY <1>4, GrowFields
  <2>2. disk.next_worker \in Workers
    BY <1>4 DEF Grow, FitInv, Fresh, Workers, SnapshotSteps, Restoring, Fencing
  <2> QED BY <1>4, <2>1, <2>2 DEF Grow, FitInv, Fresh, Boxes
<1>5. CASE Shrink
  <2>1. at' \in Removing
    BY <1>5 DEF Shrink, NextRemoval
  <2> QED BY <1>5, <2>1 DEF Shrink, FitInv, Fresh
<1>6. CASE RecordRemoved
  <2>1. disk'.workers = disk.workers \ {node} /\ disk'.next_worker = disk.next_worker
    BY <1>6, RecordRemovedFields
  <2>2. node \in disk.workers
    BY <1>6 DEF RecordRemoved
  <2>3. Cardinality(disk.workers \ {node}) = Cardinality(disk.workers) - 1
    <3> DEFINE T == disk.workers \ {node}
    <3>1. IsFiniteSet(T) /\ node \notin T /\ T \cup {node} = disk.workers
      BY <2>2, FS_Subset
    <3>2. Cardinality(T) \in Nat
      BY <3>1, FS_CardinalityType
    <3> HIDE DEF T
    <3>3. Cardinality(T \cup {node}) = Cardinality(T) + 1
      BY <3>1, FS_AddElement
    <3> QED BY <3>1, <3>2, <3>3 DEF T
  <2> QED BY <1>6, <2>1, <2>3 DEF RecordRemoved, FitInv, Fresh, MemberInv
<1>7. CASE Launch
  BY <1>7, FitKept DEF Launch, Fresh, FitInv
<1>8. ASSUME NEW step, NEW field \in Progress, NEW next, Records(step, field, next),
             step \notin Launching, next \notin Launching, step \in Removing <=> next \in Removing
      PROVE  FitInv'
  BY <1>8, RecordsFields, FitKept DEF Records, Members, Fresh
<1>9. CASE RecordReady \/ RecordDrained \/ RecordDeleted \/ RecordUnlinked
  <2>1. {"ready", "drained", "kubernetes_removed", "network_removed"} \subseteq Progress
    BY DEF Progress, Removal
  <2>2. \A p : NextRemoval(p) \in Removing
    BY DEF NextRemoval
  <2> QED BY <1>8, <1>9, <2>1, <2>2 DEF RecordReady, RecordDrained, RecordDeleted, RecordUnlinked
<1>10. CASE RecordJoin
  BY <1>10, RecordJoinFields, FitKept DEF RecordJoin, Members, Fresh
<1>11. CASE RecordRestoring
  <2>1. cmd = "restore" /\ cmd' = "restore" /\ at' = "launch"
    BY <1>11 DEF RecordRestoring, SnapshotSteps, Scaling
  <2>2. node' \in Servers
    BY <2>1 DEF BaseInv, Fencing
  <2> QED BY <2>1, <2>2 DEF FitInv, Fresh, Boxes
<1>12. CASE RecordCheckpoint \/ RecordPrepared \/ RecordSnapshotReady \/ RecordRestored \/ RecordSnapshot
            \/ \E i \in snaps : Restore(i)
  <2>1. UNCHANGED <<disk.workers, disk.next_worker>>
    BY <1>12, RecordCheckpointFields, RecordPhaseFields, SnapshotFields DEF Members
  <2>2. cmd' \notin {"up", "scale"} /\ at' \notin Launching \cup Removing
    BY <1>12 DEF RecordCheckpoint, RecordPrepared, RecordSnapshotReady, RecordRestored, RecordSnapshot,
                 Restore, RestoreWith, SnapshotSteps, Scaling, Restoring, Fencing
  <2> QED BY <2>1, <2>2 DEF FitInv, Fresh
<1>13. CASE UNCHANGED disk /\ (cmd' \notin {"up", "scale"} /\ at' \notin Launching \cup Removing)
  BY <1>13 DEF FitInv, Fresh
<1>14. CASE UNCHANGED <<disk, cmd, want>> /\ ((at \in Removing <=> at' \in Removing) /\ at \notin Launching /\ at' \notin Launching)
  BY <1>14 DEF FitInv, Fresh
<1>15. CASE UNCHANGED <<disk, command>>
  BY <1>15 DEF FitInv, Fresh
<1> QED
  BY <1>1, <1>2, <1>3, <1>4, <1>5, <1>6, <1>7, <1>9, <1>10, <1>11, <1>12, <1>13, <1>14, <1>15
     DEF Next, User, Step, vars, memory,
         SetupCoordinator, Join, StartServer, StartWorker, Scaled, Snapshot, Resume,
         CliSnapshot, Down, Drain, DeleteNode, Unlink, StopWorker, Pause, Copy, StartNetwork,
         CreateSnapshot, StopOriginal, Reinstall, StopNode, Stopped, DeleteSnapshot, Archive,
         Fails, CutShort, StopNodeFails, Interrupt, Schedule, Uncordon, SnapshotSteps, Scaling, Restoring, Fencing

\* The invariant so far: types, steps and members.
\* What every step may rely on.
Sound == IInv /\ BaseInv /\ MemberInv /\ FitInv

LEMMA SoundStep == Sound /\ [Next]_vars => Sound'
  BY NextStep, BaseStep, MemberStep, FitStep DEF Sound

LEMMA SoundInit == Init => Sound
  BY InitIInv, BaseInit, MemberInit DEF Sound

(* Every field of the file and of the databases keeps its type, a worker's      *)
(* number is never used again (new_sandbox takes next_worker and saves it       *)
(* before it creates), and the numbers last for what was asked for.             *)
THEOREM TypeCorrect == Spec => []TypeOK
<1>1. Sound => TypeOK
  <2> SUFFICES ASSUME Sound PROVE TypeOK
    OBVIOUS
  <2> USE DEF Sound, BaseInv
  <2>1. disk \in Files /\ state = disk
    BY DEF IInv, Shaped
  <2>2. /\ disk.server \in Servers \cup {None} /\ disk.ip \in BOOLEAN
        /\ disk.manifest \subseteq Workers /\ disk.progress \in [Workers -> SUBSET Progress]
        /\ disk.removed \subseteq Boxes /\ disk.phase \in Phases
        /\ disk.source \in Servers \cup {None} /\ disk.snapshot \in {None, "recipe", "cli"}
    BY <2>1 DEF Files
  <2>3. disk.next_worker \in 1..(MaxWorkers + 1) /\ disk.workers \subseteq 1..(disk.next_worker - 1)
    BY <2>1, BaseFacts DEF Files, MemberInv
  <2>4. /\ cmd \in {"none", "up", "scale", "snapshot", "restore", "down"} /\ want \in Nat
        /\ (at = "prompt") = (cmd = "none") /\ file \in {"absent", "present", "archived"}
    BY DEF CommandInv
  <2>5. node \in Boxes \cup {None}
    BY DEF NodeInv, FitInv
  <2>6. /\ {kube, staged.kube} \subseteq [Workers -> Conditions]
        /\ vpn \cup staged.vpn \cup undone \subseteq Workers
    BY DEF WorldInv
  <2> QED BY <2>1, <2>2, <2>3, <2>4, <2>5, <2>6 DEF TypeOK, WorldInv, Phases, Conditions
<1> QED BY SoundStep, SoundInit, <1>1, PTL DEF Spec

-----------------------------------------------------------------------------
(* Removals. *)

LEMMA NextRemovalIs ==
  ASSUME NEW p
  PROVE  /\ NextRemoval(p) \in {"drain", "delete", "unlink", "stop"}
         /\ NextRemoval(p) = "drain" <=> "drained" \notin p
         /\ NextRemoval(p) \in {"unlink", "stop"} => "kubernetes_removed" \in p
         /\ NextRemoval(p) = "stop" => "network_id" \notin p \/ "network_removed" \in p
BY DEF NextRemoval

\* Whoever is removed has been ready, so it has a VPN identity.
LEMMA RemovedWasReady ==
  ASSUME Sound, at \in Removing \cup {"loop"}, NEW w \in disk.workers
  PROVE  "network_id" \in disk.progress[w]
<1>1. cmd \in {"up", "scale"}
  BY DEF Sound, BaseInv, CommandInv, NodeInv, Removing, SnapshotSteps, Restoring, Fencing, Launching
<1>2. w \in Workers
  BY DEF Sound, BaseInv, Files
<1> QED BY <1>1, <1>2 DEF Sound, MemberInv, Joining, Removing

\* The field of the worker at hand that the step records.
Learns(field) ==
  <<at, field>> \in {<<"joined", "network_id">>, <<"ready", "ready">>, <<"drained", "drained">>,
                    <<"deleted", "kubernetes_removed">>, <<"unlinked", "network_removed">>}

\* No step forgets what is recorded of a worker.
LEMMA ProgressStep ==
  ASSUME Sound, [Next]_vars, NEW w \in Workers
  PROVE  /\ disk.progress[w] \subseteq disk'.progress[w]
         /\ \A field \in disk'.progress[w] : field \in disk.progress[w] \/ (w = node /\ Learns(field))
<1> USE DEF memory, vars
<1> HIDE DEF Saves
<1> IInv /\ disk \in Files
  BY DEF Sound, BaseInv
<1>1. ASSUME NEW k \in 0..MaxWorkers, Up(k) PROVE disk'.progress[w] = {} /\ disk.progress[w] = {}
  BY <1>1 DEF Up, Saves, Empty, Sound, BaseInv, UsedInv
<1>2. CASE RecordJoin
  BY <1>2, RecordJoinFields DEF RecordJoin, Learns
<1>3. ASSUME NEW step, NEW field \in Progress, NEW next, Records(step, field, next)
      PROVE  /\ at = step
             /\ disk'.progress[w] = IF w = node THEN disk.progress[w] \cup {field} ELSE disk.progress[w]
  BY <1>3, RecordsFields DEF Records
<1>4. CASE RecordReady
  <2>1. "ready" \in Progress
    BY DEF Progress, Removal
  <2>2. /\ at = "ready"
        /\ disk'.progress[w] = IF w = node THEN disk.progress[w] \cup {"ready"} ELSE disk.progress[w]
    BY <1>3, <1>4, <2>1 DEF RecordReady
  <2> QED BY <2>2 DEF Learns
<1>5. CASE RecordDrained
  <2>1. "drained" \in Progress
    BY DEF Progress, Removal
  <2>2. /\ at = "drained"
        /\ disk'.progress[w] = IF w = node THEN disk.progress[w] \cup {"drained"} ELSE disk.progress[w]
    BY <1>3, <1>5, <2>1 DEF RecordDrained
  <2> QED BY <2>2 DEF Learns
<1>6. CASE RecordDeleted
  <2>1. "kubernetes_removed" \in Progress
    BY DEF Progress, Removal
  <2>2. /\ at = "deleted"
        /\ disk'.progress[w] = IF w = node THEN disk.progress[w] \cup {"kubernetes_removed"} ELSE disk.progress[w]
    BY <1>3, <1>6, <2>1 DEF RecordDeleted
  <2> QED BY <2>2 DEF Learns
<1>7. CASE RecordUnlinked
  <2>1. "network_removed" \in Progress
    BY DEF Progress, Removal
  <2>2. /\ at = "unlinked"
        /\ disk'.progress[w] = IF w = node THEN disk.progress[w] \cup {"network_removed"} ELSE disk.progress[w]
    BY <1>3, <1>7, <2>1 DEF RecordUnlinked
  <2> QED BY <2>2 DEF Learns
<1>8. CASE RecordNode \/ Grow \/ RecordRemoved \/ RecordCheckpoint \/ RecordPrepared \/ RecordSnapshotReady
           \/ RecordRestored \/ RecordSnapshot \/ RecordRestoring \/ \E i : Restore(i)
  BY <1>8, RecordNodeFields, GrowFields, RecordRemovedFields, RecordCheckpointFields, RecordPhaseFields,
     SnapshotFields, RecordRestoringFields
<1>9. CASE UNCHANGED disk
  BY <1>9
<1> QED
  BY <1>1, <1>2, <1>4, <1>5, <1>6, <1>7, <1>8, <1>9
     DEF Next, User, Step, Launch, SetupCoordinator, Join, StartServer, StartWorker, Shrink, Scaled, Scale,
         Snapshot, Resume, CliSnapshot, Down, Drain, DeleteNode, Unlink, StopWorker, Pause, Copy, StartNetwork,
         CreateSnapshot, StopOriginal, Reinstall, StopNode, Stopped, DeleteSnapshot, Archive,
         Fails, CutShort, StopNodeFails, Interrupt, Schedule, Uncordon

LEMMA RemovalStep == ASSUME Sound, Sound', RemovalInv, [Next]_vars PROVE RemovalInv'
<1> USE BaseFacts DEF cloud, guest, command, memory, Removing
<1> HIDE DEF Saves
<1> state = disk /\ disk \in Files /\ CommandInv /\ NodeInv /\ WorldInv
  BY DEF Sound, IInv, Shaped, BaseInv
<1> at \in Removing => node \in Workers /\ node \in disk.workers
  BY DEF NodeInv, Files
<1>1. CASE at' \notin Removing
  BY <1>1 DEF RemovalInv
<1>2. CASE Shrink
  <2>1. /\ at' = NextRemoval(disk.progress[node']) /\ at = "loop"
    BY <1>2 DEF Shrink
  <2>2. node' \in disk'.workers /\ disk' = disk
    BY <1>2, <2>1, NextRemovalIs DEF Shrink, Sound, BaseInv, NodeInv
  <2>3. "network_id" \in disk.progress[node']
    BY <2>1, <2>2, RemovedWasReady
  <2> QED BY <2>1, <2>2, <2>3, NextRemovalIs DEF RemovalInv
<1>3. CASE Drain
  BY <1>3 DEF Drain, RemovalInv, WorldInv
<1>4. ASSUME NEW step, NEW field \in Removal, NEW next, Records(step, field, next), step \in Removing
      PROVE  /\ disk'.progress[node] = disk.progress[node] \cup {field}
             /\ UNCHANGED <<node, kube, vpn, box>> /\ at = step /\ at' = next
  <2>1. field \in Progress
    BY DEF Progress
  <2> QED BY <1>4, <2>1, RecordsFields DEF Records, Sound
<1>5. CASE RecordDrained
  <2>1. "drained" \in Removal /\ "drained" \in Removing
    BY DEF Removal
  <2>2. at = "drained" /\ at' = NextRemoval(disk.progress[node] \cup {"drained"})
    BY <1>5 DEF RecordDrained, Records
  <2>3. /\ disk'.progress[node] = disk.progress[node] \cup {"drained"}
        /\ UNCHANGED <<node, kube, vpn, box>>
    BY <1>4, <1>5, <2>1 DEF RecordDrained
  <2>4. "network_id" \in disk.progress[node]
    BY <2>2, RemovedWasReady
  <2> DEFINE p == disk.progress[node] \cup {"drained"}
  <2>5. /\ NextRemoval(p) \in {"drain", "delete", "unlink", "stop"}
        /\ NextRemoval(p) = "drain" <=> "drained" \notin p
        /\ NextRemoval(p) \in {"unlink", "stop"} => "kubernetes_removed" \in p
        /\ NextRemoval(p) = "stop" => "network_id" \notin p \/ "network_removed" \in p
    BY NextRemovalIs
  <2> QED BY <2>2, <2>3, <2>4, <2>5 DEF RemovalInv
<1>6. CASE DeleteNode
  BY <1>6 DEF DeleteNode, RemovalInv, WorldInv
<1>7. CASE RecordDeleted
  <2>1. "kubernetes_removed" \in Removal /\ "deleted" \in Removing
    BY DEF Removal
  <2>2. at = "deleted" /\ at' = NextRemoval(disk.progress[node] \cup {"kubernetes_removed"})
    BY <1>7 DEF RecordDeleted, Records
  <2>3. /\ disk'.progress[node] = disk.progress[node] \cup {"kubernetes_removed"}
        /\ UNCHANGED <<node, kube, vpn, box>>
    BY <1>4, <1>7, <2>1 DEF RecordDeleted
  <2>4. "network_id" \in disk.progress[node]
    BY <2>2, RemovedWasReady
  <2> DEFINE p == disk.progress[node] \cup {"kubernetes_removed"}
  <2>5. /\ NextRemoval(p) \in {"drain", "delete", "unlink", "stop"}
        /\ NextRemoval(p) = "drain" <=> "drained" \notin p
        /\ NextRemoval(p) \in {"unlink", "stop"} => "kubernetes_removed" \in p
        /\ NextRemoval(p) = "stop" => "network_id" \notin p \/ "network_removed" \in p
    BY NextRemovalIs
  <2> QED BY <2>2, <2>3, <2>4, <2>5 DEF RemovalInv
<1>8. CASE Unlink
  BY <1>8 DEF Unlink, RemovalInv
<1>9. CASE RecordUnlinked
  <2>1. "network_removed" \in Removal /\ "unlinked" \in Removing
    BY DEF Removal
  <2>2. at = "unlinked" /\ at' = "stop"
    BY <1>9 DEF RecordUnlinked, Records
  <2>3. /\ disk'.progress[node] = disk.progress[node] \cup {"network_removed"}
        /\ UNCHANGED <<node, kube, vpn, box>>
    BY <1>4, <1>9, <2>1 DEF RecordUnlinked
  <2> QED BY <2>2, <2>3 DEF RemovalInv
<1>10. CASE StopWorker
  BY <1>10 DEF StopWorker, Stops, RemovalInv, WorldInv, Boxes
<1>11. ASSUME NEW w, Schedule(w) PROVE RemovalInv'
  BY <1>11 DEF Schedule, RemovalInv, WorldInv
<1>12. CASE UNCHANGED <<at, node, disk, kube, vpn, box>>
  BY <1>12 DEF RemovalInv
<1> QED
  BY <1>1, <1>2, <1>3, <1>5, <1>6, <1>7, <1>8, <1>9, <1>10, <1>11, <1>12
     DEF Next, User, Step, vars, Up, Scale, Snapshot, Resume, CliSnapshot, Down, Restore, RestoreWith,
         Launch, RecordNode, SetupCoordinator, Join, RecordJoin, StartServer, StartWorker, RecordReady, Records,
         Grow, Scaled, RecordRemoved, RecordCheckpoint, Pause, Copy, StartNetwork, RecordPrepared,
         CreateSnapshot, RecordSnapshot, RecordSnapshotReady, StopOriginal, RecordRestoring, Reinstall,
         RecordRestored, StopNode, Stopped, DeleteSnapshot, Archive, Fails, CutShort, StopNodeFails, Interrupt, Uncordon

\* Who joins and who leaves the file.
LEMMA MembersMove ==
  ASSUME Sound, [Next]_vars, NEW w \in Workers
  PROVE  /\ w \in disk.workers \ disk'.workers => at = "removed" /\ w = node
         /\ w \in disk'.workers \ disk.workers => at = "record" /\ w = node
         /\ w \in disk'.removed \ disk.removed => at = "removed" /\ w = node
<1> USE DEF memory, vars
<1> HIDE DEF Saves
<1> IInv /\ disk \in Files
  BY DEF Sound, BaseInv
<1>1. ASSUME NEW k \in 0..MaxWorkers, Up(k)
      PROVE  disk'.workers = {} /\ disk'.removed = {} /\ disk.workers = {}
  BY <1>1 DEF Up, Saves, Empty, Sound, BaseInv, UsedInv
<1>2. CASE RecordNode
  BY <1>2, RecordNodeFields DEF RecordNode
<1>3. CASE RecordRemoved
  BY <1>3, RecordRemovedFields DEF RecordRemoved
<1>4. CASE RecordRestoring
  <2>1. w # disk.server
    BY BaseFacts DEF Files
  <2> QED BY <1>4, <2>1, RecordRestoringFields
<1>5. ASSUME NEW step, NEW field \in Progress, NEW next, Records(step, field, next)
      PROVE  UNCHANGED Members
  BY <1>5, RecordsFields
<1>6. CASE RecordReady \/ RecordDrained \/ RecordDeleted \/ RecordUnlinked
  <2>1. {"ready", "drained", "kubernetes_removed", "network_removed"} \subseteq Progress
    BY DEF Progress, Removal
  <2>2. UNCHANGED Members
    BY <1>5, <1>6, <2>1 DEF RecordReady, RecordDrained, RecordDeleted, RecordUnlinked
  <2> QED BY <2>2 DEF Members
<1>7. CASE RecordJoin \/ Grow \/ RecordCheckpoint \/ RecordPrepared \/ RecordSnapshotReady
           \/ RecordRestored \/ RecordSnapshot \/ \E i : Restore(i)
  BY <1>7, RecordJoinFields, GrowFields, RecordCheckpointFields, RecordPhaseFields, SnapshotFields DEF Members
<1>8. CASE UNCHANGED disk
  BY <1>8
<1> QED
  BY <1>1, <1>2, <1>3, <1>4, <1>6, <1>7, <1>8
     DEF Next, User, Step, Launch, SetupCoordinator, Join, StartServer, StartWorker, Shrink, Scaled, Scale,
         Snapshot, Resume, CliSnapshot, Down, Drain, DeleteNode, Unlink, StopWorker, Pause, Copy, StartNetwork,
         CreateSnapshot, StopOriginal, Reinstall, StopNode, Stopped, DeleteSnapshot, Archive,
         Fails, CutShort, StopNodeFails, Interrupt, Schedule, Uncordon

\* Only Launch starts a worker.
LEMMA BoxStep ==
  ASSUME Sound, [Next]_vars, NEW b \in Boxes, box'[b] = "up", box[b] # "up"
  PROVE  at = "launch" /\ b = node
<1> USE DEF cloud, memory, vars, Sound, BaseInv, WorldInv
<1>1. CASE Launch
  BY <1>1 DEF Launch
<1>2. ASSUME NEW n, Stops(n) PROVE FALSE
  BY <1>2 DEF Stops
<1>3. CASE UNCHANGED box
  BY <1>3
<1> HIDE DEF Saves
<1> QED
  BY <1>1, <1>2, <1>3
     DEF Next, User, Step, Up, Scale, Snapshot, Resume, CliSnapshot, Down, Restore, RestoreWith,
         RecordNode, SetupCoordinator, Join, RecordJoin, StartServer, StartWorker, RecordReady, Records,
         Grow, Shrink, Scaled, Drain, RecordDrained, DeleteNode, RecordDeleted, Unlink, RecordUnlinked, StopWorker,
         RecordRemoved, RecordCheckpoint, Pause, Copy, StartNetwork, RecordPrepared,
         CreateSnapshot, RecordSnapshot, RecordSnapshotReady, StopOriginal, RecordRestoring, Reinstall,
         RecordRestored, StopNode, Stopped, DeleteSnapshot, Archive, Fails, CutShort, StopNodeFails, Interrupt,
         Schedule, Uncordon

\* The file, the databases and the checkpoint agree.
Honest == DeletedIsDrained /\ RemovalInv /\ TruthInv /\ StagedInv

LEMMA DeletedIsDrainedStep == ASSUME Sound, DeletedIsDrained, RemovalInv, [Next]_vars PROVE DeletedIsDrained'
<1> SUFFICES ASSUME NEW w \in Workers, "kubernetes_removed" \in disk'.progress[w] PROVE "drained" \in disk'.progress[w]
  BY DEF DeletedIsDrained
<1>1. "drained" \in disk.progress[w]
  BY ProgressStep DEF DeletedIsDrained, RemovalInv, Learns, Removing
<1> QED BY <1>1, ProgressStep

LEMMA StoppedStep ==
  ASSUME Sound, Honest, [Next]_vars, NEW w \in disk'.removed \cap Workers
  PROVE  box'[w] # "up"
<1>1. CASE w \in disk.removed
  <2>1. box[w] # "up"
    BY <1>1 DEF Honest, TruthInv
  <2>2. ~(at = "launch" /\ w = node)
    BY <1>1 DEF Sound, MemberInv, Fresh, Launching
  <2> QED BY <2>1, <2>2, BoxStep DEF Boxes
<1>2. CASE w \notin disk.removed
  <2>1. at = "removed" /\ w = node
    BY <1>2, MembersMove
  <2>2. box[w] # "up"
    BY <2>1 DEF Honest, RemovalInv
  <2> QED BY <2>1, <2>2, BoxStep DEF Boxes
<1> QED BY <1>1, <1>2

\* A step that changes no database.
LEMMA FileTruthful ==
  ASSUME Sound, Honest, [Next]_vars, NEW w \in Workers \ undone, UNCHANGED <<kube, vpn>>
  PROVE  Truthful(w)'
<1>0. Truthful(w)
  BY DEF Honest, TruthInv
<1>1. ASSUME w \notin disk'.workers PROVE kube[w] = "absent" /\ w \notin vpn
  <2>1. CASE w \in disk.workers
    <3>1. at = "removed" /\ w = node
      BY <1>1, <2>1, MembersMove
    <3> QED BY <1>0, <3>1 DEF Honest, RemovalInv, Removing, Truthful
  <2> QED BY <1>0, <2>1 DEF Truthful
<1>2. ASSUME "drained" \in disk'.progress[w] PROVE kube[w] \in {"absent", "cordoned"}
  <2>1. "drained" \in disk.progress[w] \/ (w = node /\ at = "drained")
    BY <1>2, ProgressStep DEF Learns
  <2> QED BY <1>0, <2>1 DEF Truthful, Honest, RemovalInv
<1>3. ASSUME "kubernetes_removed" \in disk'.progress[w] PROVE kube[w] = "absent"
  <2>1. "kubernetes_removed" \in disk.progress[w] \/ (w = node /\ at = "deleted")
    BY <1>3, ProgressStep DEF Learns
  <2> QED BY <1>0, <2>1 DEF Truthful, Honest, RemovalInv
<1>4. ASSUME "network_removed" \in disk'.progress[w] PROVE w \notin vpn
  <2>1. "network_removed" \in disk.progress[w] \/ (w = node /\ at = "unlinked")
    BY <1>4, ProgressStep DEF Learns
  <2> QED BY <1>0, <2>1 DEF Truthful, Honest, RemovalInv
<1> QED BY <1>1, <1>2, <1>3, <1>4 DEF Truthful

\* A step that writes a database.
LEMMA DatabaseTruthful ==
  ASSUME Sound, Honest, NEW w \in Workers \ undone, w \notin undone',
         \/ StartServer \/ StartWorker \/ Drain \/ DeleteNode \/ Join \/ Unlink \/ Reinstall
         \/ \E n \in Workers : Schedule(n) \/ Uncordon(n)
  PROVE  Truthful(w)'
<1> USE DEF Truthful, memory
<1>0. /\ Truthful(w) /\ disk' = disk /\ kube \in [Workers -> Conditions] /\ w \in Workers
      /\ NodeInv /\ disk.workers \subseteq Workers /\ state = disk
  BY DEF Honest, TruthInv, StartServer, StartWorker, Drain, DeleteNode, Join, Unlink, Reinstall, Schedule, Uncordon,
         Sound, BaseInv, WorldInv, IInv, Shaped, Files
<1>1. w = node /\ w \notin Servers /\ at \in Joining => disk.progress[w] \cap Removal = {} /\ w \in disk.workers
  BY <1>0 DEF Sound, MemberInv, NodeInv
<1>2. cmd = "restore" /\ w \notin disk.workers => staged.kube[w] = "absent" /\ w \notin staged.vpn
  BY DEF Honest, StagedInv
<1>3. CASE StartServer
  <2>1. CASE cmd = "restore"
    <3>1. w \in disk.workers => disk.progress[w] \cap Removal = {}
      BY <1>3, <2>1 DEF StartServer, Honest, TruthInv
    <3>2. w \notin disk.workers => w \notin vpn
      BY <1>0
    <3>3. kube' = staged.kube /\ vpn' = vpn
      BY <1>3, <2>1 DEF StartServer
    <3>4. "network_removed" \in disk.progress[w] => w \notin vpn
      BY <1>0
    <3>5. kube'[w] = staged.kube[w] /\ disk' = disk
      BY <1>0, <3>3
    <3>6. CASE w \in disk.workers
      <4>1. {"drained", "kubernetes_removed", "network_removed"} \cap disk.progress[w] = {}
        BY <3>1, <3>6 DEF Removal
      <4> QED BY <3>5, <3>6, <4>1
    <3>7. CASE w \notin disk.workers
      BY <1>2, <2>1, <3>2, <3>3, <3>5, <3>7
    <3> QED BY <3>6, <3>7
  <2>2. CASE cmd # "restore"
    BY <1>0, <1>3, <2>2 DEF StartServer
  <2> QED BY <2>1, <2>2
<1>4. CASE StartWorker
  BY <1>0, <1>1, <1>4, BaseFacts DEF StartWorker, Joining, Removal
<1>5. CASE Drain
  <2>1. at = "drain" => node \in disk.workers /\ "drained" \notin disk.progress[node]
    BY <1>0 DEF NodeInv, Removing, Honest, RemovalInv
  <2>2. at = "drain" => "kubernetes_removed" \notin disk.progress[node]
    BY <1>0, <2>1 DEF Honest, DeletedIsDrained
  <2> QED BY <1>0, <1>5, <2>1, <2>2 DEF Drain
<1>6. CASE DeleteNode
  BY <1>0, <1>6 DEF DeleteNode
<1>7. CASE Join
  BY <1>0, <1>1, <1>7, BaseFacts DEF Join, Joining, Removal
<1>8. CASE Unlink
  BY <1>0, <1>8 DEF Unlink
<1>9. CASE Reinstall
  <2>1. cmd = "restore" /\ vpn' = staged.vpn /\ kube' = kube
    BY <1>9 DEF Reinstall, Sound, BaseInv, CommandInv, SnapshotSteps, Scaling, Launching, Joining, Removing
  <2>2. w \in disk.workers => disk.progress[w] \cap Removal = {}
    BY <1>0, <1>9 DEF Reinstall
  <2> QED BY <1>0, <1>2, <2>1, <2>2 DEF Removal
<1>10. ASSUME NEW n \in Workers, Schedule(n) PROVE Truthful(w)'
  BY <1>0, <1>10 DEF Schedule
<1>11. ASSUME NEW n \in Workers, Uncordon(n) PROVE Truthful(w)'
  BY <1>0, <1>11 DEF Uncordon, Removal
<1> QED BY <1>3, <1>4, <1>5, <1>6, <1>7, <1>8, <1>9, <1>10, <1>11

\* Which steps write a database, and that what was reverted stays known.
LEMMA Databases ==
  ASSUME [Next]_vars
  PROVE  /\ undone \subseteq undone'
         /\ \/ UNCHANGED <<kube, vpn>>
            \/ StartServer \/ StartWorker \/ Drain \/ DeleteNode \/ Join \/ Unlink \/ Reinstall
            \/ \E n \in Workers : Schedule(n) \/ Uncordon(n)
<1> HIDE DEF Saves
<1> QED
  BY DEF Next, User, Step, cloud, guest, vars, Stops,
         Launch, RecordNode, SetupCoordinator, Join, RecordJoin, StartServer, StartWorker, RecordReady, Records,
         Grow, Shrink, Scaled, Drain, RecordDrained, DeleteNode, RecordDeleted, Unlink, RecordUnlinked, StopWorker,
         RecordRemoved, RecordCheckpoint, Pause, Copy, StartNetwork, RecordPrepared,
         CreateSnapshot, RecordSnapshot, RecordSnapshotReady, StopOriginal, RecordRestoring, Reinstall,
         RecordRestored, StopNode, Stopped, DeleteSnapshot, Archive, Fails, CutShort, StopNodeFails, Interrupt,
         Up, Scale, Snapshot, Resume, CliSnapshot, Down, Restore, RestoreWith, Schedule, Uncordon

\* What becomes of the checkpoint's fields.
LEMMA CheckpointStep ==
  ASSUME Sound, [Next]_vars
  PROVE  \/ UNCHANGED Checkpoint
         \/ RecordCheckpoint
         \/ /\ file = "absent" /\ cmd' = "up" /\ at' = "launch" /\ disk' = Empty
         \/ /\ UNCHANGED <<disk.manifest, disk.source>>
            /\ <<at, disk'.phase>> \in {<<"prepared", "prepared">>, <<"wait", "ready">>,
                                       <<"verify", "restored">>, <<"fenced", "restoring">>}
<1> USE DEF memory, vars
<1> HIDE DEF Saves
<1> IInv /\ disk \in Files
  BY DEF Sound, BaseInv
<1>1. ASSUME NEW k \in 0..MaxWorkers, Up(k)
      PROVE  file = "absent" /\ cmd' = "up" /\ at' = "launch" /\ disk' = Empty
  BY <1>1 DEF Up
<1>2. CASE RecordPrepared \/ RecordSnapshotReady \/ RecordRestored
  <2>1. <<at, disk'.phase>> \in {<<"prepared", "prepared">>, <<"wait", "ready">>, <<"verify", "restored">>}
    BY <1>2, RecordPhaseFields
  <2> QED BY <1>2, <2>1, RecordPhaseFields
<1>3. CASE RecordRestoring
  BY <1>3, RecordRestoringFields DEF RecordRestoring
<1>4. ASSUME NEW step, NEW field \in Progress, NEW next, Records(step, field, next)
      PROVE  UNCHANGED Checkpoint
  BY <1>4, RecordsFields
<1>5. CASE RecordReady \/ RecordDrained \/ RecordDeleted \/ RecordUnlinked
  <2>1. {"ready", "drained", "kubernetes_removed", "network_removed"} \subseteq Progress
    BY DEF Progress, Removal
  <2> QED BY <1>4, <1>5, <2>1 DEF RecordReady, RecordDrained, RecordDeleted, RecordUnlinked
<1>6. CASE RecordNode \/ RecordJoin \/ Grow \/ RecordRemoved \/ RecordSnapshot \/ \E i : Restore(i)
  BY <1>6, RecordNodeFields, RecordJoinFields, GrowFields, RecordRemovedFields, SnapshotFields
<1>7. CASE UNCHANGED disk
  BY <1>7 DEF Checkpoint
<1> QED
  BY <1>1, <1>2, <1>3, <1>5, <1>6, <1>7
     DEF Next, User, Step, Launch, SetupCoordinator, Join, StartServer, StartWorker, Shrink, Scaled, Scale,
         Snapshot, Resume, CliSnapshot, Down, Drain, DeleteNode, Unlink, StopWorker, Pause, Copy, StartNetwork,
         CreateSnapshot, StopOriginal, Reinstall, StopNode, Stopped, DeleteSnapshot, Archive,
         Fails, CutShort, StopNodeFails, Interrupt, Schedule, Uncordon

\* How a command comes to where the checkpoint matters.
LEMMA Arrivals ==
  ASSUME Sound, [Next]_vars
  PROVE  /\ cmd' = "restore" => cmd = "restore"
              \/ (at = "prompt" /\ disk.phase \in {"prepared", "ready"} /\ disk.manifest = disk.workers)
         /\ cmd' = "snapshot" /\ at' # "mark" => cmd = "snapshot" /\ (at = "mark" => RecordCheckpoint)
         /\ Copied' => Copied \/ Copy
         /\ cmd' = "restore" /\ at' \in {"joined", "start"} =>
              (cmd = "restore" /\ at \in {"joined", "start"}) \/ Reinstall
         /\ staged' = staged \/ Copy
<1> USE DEF cloud, guest, command, memory, vars
<1> USE DEF Next, User, Step, Stops, Records,
         Launch, RecordNode, SetupCoordinator, Join, RecordJoin, StartServer, StartWorker, RecordReady,
         Grow, Shrink, Scaled, Drain, RecordDrained, DeleteNode, RecordDeleted, Unlink, RecordUnlinked, StopWorker,
         RecordRemoved, RecordCheckpoint, Pause, Copy, StartNetwork, RecordPrepared,
         CreateSnapshot, RecordSnapshot, RecordSnapshotReady, StopOriginal, RecordRestoring, Reinstall,
         RecordRestored, StopNode, Stopped, DeleteSnapshot, Archive, Fails, CutShort, StopNodeFails, Interrupt,
         Up, Scale, Snapshot, Resume, CliSnapshot, Down, Restore, RestoreWith, Schedule, Uncordon
<1> HIDE DEF Saves
<1>1. CommandInv
  BY DEF Sound, BaseInv
<1>2. \A p : NextRemoval(p) \in Removing
  BY DEF NextRemoval, Removing
<1>3. cmd' = "restore" => cmd = "restore"
        \/ (at = "prompt" /\ disk.phase \in {"prepared", "ready"} /\ disk.manifest = disk.workers)
  OBVIOUS
<1>4. cmd' = "snapshot" /\ at' # "mark" => cmd = "snapshot" /\ (at = "mark" => RecordCheckpoint)
  OBVIOUS
<1>5. Copied' => Copied \/ Copy
  BY <1>2 DEF Copied, Removing
<1>6. cmd' = "restore" /\ at' \in {"joined", "start"} =>
        (cmd = "restore" /\ at \in {"joined", "start"}) \/ Reinstall
  BY <1>1, <1>2 DEF CommandInv, Restoring, Launching, Fencing, Removing
<1>7. staged' = staged \/ Copy
  OBVIOUS
<1> QED BY <1>3, <1>4, <1>5, <1>6, <1>7

LEMMA RevertedStep ==
  ASSUME Sound, Sound', Honest, [Next]_vars, cmd' = "restore", at' \in {"joined", "start"},
         NEW w \in disk'.workers, disk'.progress[w] \cap Removal # {}
  PROVE  w \in undone'
<1>1. w \in Workers
  BY DEF Sound, BaseInv, Files
<1>2. CASE cmd = "restore" /\ at \in {"joined", "start"}
  <2>1. w \in disk.workers
    BY <1>1, <1>2, MembersMove
  <2>2. disk.progress[w] \cap Removal # {}
    BY <1>1, <1>2, ProgressStep DEF Learns, Removal
  <2> QED BY <1>2, <2>1, <2>2, Databases DEF Honest, TruthInv
<1>3. CASE Reinstall
  BY <1>3 DEF Reinstall, Sound, IInv, Shaped
<1> QED BY <1>2, <1>3, Arrivals

LEMMA TruthStep == ASSUME Sound, Sound', Honest, [Next]_vars PROVE TruthInv'
<1>1. \A w \in disk'.removed \cap Workers : box'[w] # "up"
  BY StoppedStep
<1>2. ASSUME NEW w \in Workers \ undone' PROVE Truthful(w)'
  <2>1. w \in Workers \ undone
    BY Databases
  <2> QED BY <1>2, <2>1, Databases, FileTruthful, DatabaseTruthful
<1>3. cmd' = "restore" /\ at' \in {"joined", "start"} =>
        \A w \in disk'.workers : disk'.progress[w] \cap Removal # {} => w \in undone'
  BY RevertedStep
<1> QED BY <1>1, <1>2, <1>3 DEF TruthInv

\* Between its check and its end, a snapshot or restore keeps the membership.
LEMMA ManifestStep ==
  ASSUME Sound, Sound', Honest, [Next]_vars, cmd' = "restore" \/ (cmd' = "snapshot" /\ at' # "mark")
  PROVE  disk'.manifest = disk'.workers
<1>1. disk \in Files /\ disk' \in Files /\ IInv /\ CommandInv /\ NodeInv
  BY DEF Sound, BaseInv
<1>2. CASE RecordCheckpoint
  BY <1>1, <1>2, RecordCheckpointFields DEF Members
<1>3. CASE ~RecordCheckpoint
  <2>1. (disk.manifest = disk.workers /\ at \notin {"removed", "record"}) \/ cmd = "restore"
    BY <1>1, <1>3, Arrivals DEF Honest, StagedInv, CommandInv, SnapshotSteps
  <2>2. disk.manifest = disk.workers /\ at # "removed" /\ (at = "record" => node \in Servers)
    BY <1>1, <2>1 DEF Honest, StagedInv, CommandInv, NodeInv, Restoring, Fencing, Launching
  <2>3. \A w \in Workers : w \in disk'.workers <=> w \in disk.workers
    BY <2>2, MembersMove, BaseFacts
  <2>4. disk'.workers = disk.workers
    BY <1>1, <2>3 DEF Files
  <2>5. disk'.manifest = disk.manifest
    BY <1>3, CheckpointStep DEF Checkpoint
  <2> QED BY <2>2, <2>4, <2>5
<1> QED BY <1>2, <1>3

Trusted == cmd = "restore" \/ Copied \/ disk.phase \in {"prepared", "ready"}

LEMMA TrustedStep ==
  ASSUME Sound, Sound', Honest, [Next]_vars, Trusted'
  PROVE  Copy \/ (Trusted /\ UNCHANGED <<disk.manifest, staged>>)
<1>1. ~RecordCheckpoint
  <2> SUFFICES ASSUME RecordCheckpoint PROVE FALSE
    OBVIOUS
  <2>1. disk'.phase = "preparing" /\ at' = "pause" /\ cmd' = "snapshot"
    BY RecordCheckpointFields DEF Sound, BaseInv, RecordCheckpoint, CommandInv, Scaling, Restoring,
       Launching, Joining, Removing, Fencing
  <2> QED BY <2>1 DEF Trusted, Copied
<1>2. ~(file = "absent" /\ cmd' = "up" /\ at' = "launch" /\ disk' = Empty)
  BY DEF Trusted, Copied, Empty
<1>3. UNCHANGED disk.manifest
  BY <1>1, <1>2, CheckpointStep DEF Checkpoint
<1>4. disk'.phase \in {"prepared", "ready"} => disk.phase \in {"prepared", "ready"} \/ Copied
  BY <1>1, <1>2, CheckpointStep DEF Checkpoint, Copied
<1> QED BY <1>3, <1>4, Arrivals DEF Trusted

LEMMA StagedStep == ASSUME Sound, Sound', Honest, [Next]_vars PROVE StagedInv'
<1>1. cmd' = "restore" \/ (cmd' = "snapshot" /\ at' # "mark") => disk'.manifest = disk'.workers
  BY ManifestStep
<1>2. ASSUME Trusted', NEW w \in Workers \ undone', w \notin disk'.manifest
      PROVE  staged'.kube[w] = "absent" /\ w \notin staged'.vpn
  <2>1. w \in Workers \ undone
    BY Databases
  <2>2. CASE Copy
    <3>1. disk' = disk /\ staged' = [kube |-> kube, vpn |-> vpn]
      BY <2>2 DEF Copy
    <3>2. disk.manifest = disk.workers
      BY <2>2 DEF Copy, Honest, StagedInv, Sound, BaseInv, CommandInv, Scaling, Restoring,
         Launching, Joining, Removing, Fencing
    <3>3. kube[w] = "absent" /\ w \notin vpn
      BY <1>2, <2>1, <3>1, <3>2 DEF Honest, TruthInv, Truthful
    <3> QED BY <3>1, <3>3
  <2>3. CASE Trusted /\ UNCHANGED <<disk.manifest, staged>>
    BY <1>2, <2>1, <2>3 DEF Honest, StagedInv, Trusted
  <2> QED BY <1>2, <2>2, <2>3, TrustedStep
<1> QED BY <1>1, <1>2 DEF StagedInv, Trusted

LEMMA HonestInit == Init => Honest
<1> SUFFICES ASSUME Init PROVE Honest
  OBVIOUS
<1>1. /\ disk.workers = {} /\ disk.removed = {} /\ disk.phase = "none"
      /\ \A w \in Workers : disk.progress[w] = {} /\ kube[w] = "absent"
  BY DEF Init, Empty
<1> QED BY <1>1 DEF Init, Honest, DeletedIsDrained, RemovalInv, TruthInv, Truthful, StagedInv, Removing, Copied

LEMMA HonestStep == Sound /\ Sound' /\ Honest /\ [Next]_vars => Honest'
  BY DeletedIsDrainedStep, RemovalStep, TruthStep, StagedStep DEF Honest

LEMMA AlwaysHonest == Spec => [](Sound /\ Honest)
<1> QED BY SoundInit, SoundStep, HonestInit, HonestStep, PTL DEF Spec

(* What scale removed stays stopped and without identity, across any number of   *)
(* interruptions and restores, unless what the file records of its removal had  *)
(* been reverted (cluster.py:314).                                             *)
THEOREM RemovedAreGone == Spec => []RemovedIsGone
<1>1. Sound /\ Honest => RemovedIsGone
  BY DEF Sound, MemberInv, Honest, TruthInv, Truthful, RemovedIsGone, Gone
<1> QED BY AlwaysHonest, <1>1, PTL

(* scale deletes no Node that runs pods, except one whose recorded drain was     *)
(* reverted by kubectl or by a restore.                                        *)
THEOREM DrainsBeforeDeletes == Spec => DrainedBeforeDeleted
<1> DEFINE Drains == \A w \in Workers :
                       cmd = "scale" /\ kube[w] = "busy" /\ kube'[w] = "absent" => w \in undone
<1>1. Sound /\ Honest /\ [Next]_vars => [Drains]_vars
  <2> SUFFICES ASSUME Sound, Honest, [Next]_vars, NEW w \in Workers,
                      cmd = "scale", kube[w] = "busy", kube'[w] = "absent", w \notin undone
               PROVE  FALSE
    OBVIOUS
  <2>1. DeleteNode /\ w = node
    <3>1. kube \in [Workers -> Conditions]
      BY DEF Sound, BaseInv, WorldInv
    <3> QED BY <3>1, Databases DEF StartServer, StartWorker, Drain, DeleteNode, Join, Unlink, Reinstall, Schedule, Uncordon
  <2>2. "drained" \in disk.progress[w]
    BY <2>1 DEF DeleteNode, Honest, RemovalInv, Removing
  <2> QED BY <2>2 DEF Honest, TruthInv, Truthful
<1> QED BY AlwaysHonest, <1>1, PTL DEF Spec, DrainedBeforeDeleted

-----------------------------------------------------------------------------
(* Taking down. *)

\* Who makes and deletes snapshots.
LEMMA SnapsStep ==
  ASSUME [Next]_vars
  PROVE  \/ UNCHANGED snaps
         \/ CreateSnapshot \/ CliSnapshot \/ DeleteSnapshot
<1> USE DEF cloud, guest, vars
<1> HIDE DEF Saves
<1> QED
  BY DEF Next, User, Step, Stops,
         Launch, RecordNode, SetupCoordinator, Join, RecordJoin, StartServer, StartWorker, RecordReady, Records,
         Grow, Shrink, Scaled, Drain, RecordDrained, DeleteNode, RecordDeleted, Unlink, RecordUnlinked, StopWorker,
         RecordRemoved, RecordCheckpoint, Pause, Copy, StartNetwork, RecordPrepared,
         RecordSnapshot, RecordSnapshotReady, StopOriginal, RecordRestoring, Reinstall,
         RecordRestored, StopNode, Stopped, Archive, Fails, CutShort, StopNodeFails, Interrupt,
         Up, Scale, Snapshot, Resume, Down, Restore, RestoreWith, Schedule, Uncordon

LEMMA SnapStep == ASSUME Sound, Sound', SnapInv, [Next]_vars PROVE SnapInv'
<1>1. disk \in Files /\ IInv /\ CommandInv
  BY DEF Sound, BaseInv
<1>2. disk'.phase # "none" \/ (cmd' = "snapshot" /\ at' # "mark") => disk'.source # None
  <2>1. CASE RecordCheckpoint
    <3>1. disk.server # None
      BY <2>1 DEF RecordCheckpoint, Sound, IInv, StepInv, SnapshotSteps
    <3> QED BY <1>1, <2>1, <3>1, RecordCheckpointFields
  <2>2. CASE file = "absent" /\ cmd' = "up" /\ at' = "launch" /\ disk' = Empty
    BY <2>2 DEF Empty
  <2>3. CASE UNCHANGED Checkpoint /\ ~RecordCheckpoint
    BY <2>3, Arrivals DEF SnapInv, Checkpoint
  <2>4. CASE /\ UNCHANGED <<disk.manifest, disk.source>>
             /\ <<at, disk'.phase>> \in {<<"prepared", "prepared">>, <<"wait", "ready">>,
                                        <<"verify", "restored">>, <<"fenced", "restoring">>}
    <3>1. cmd = "snapshot" \/ (cmd = "restore" /\ disk.phase # "none")
      BY <1>1, <2>4 DEF CommandInv, Scaling, Restoring, Launching, Joining, Removing, Fencing, SnapshotSteps,
         Sound, BaseInv, UsedInv
    <3> QED BY <2>4, <3>1 DEF SnapInv
  <2> QED BY <2>1, <2>2, <2>3, <2>4, CheckpointStep
<1>3. ASSUME disk'.source = None PROVE snaps' = {}
  <2>1. disk.source = None
    <3>1. CASE RecordCheckpoint
      BY <1>1, <1>3, <3>1, RecordCheckpointFields DEF RecordCheckpoint, IInv, StepInv, SnapshotSteps
    <3>2. CASE file = "absent"
      BY <3>2 DEF Sound, BaseInv, UsedInv, Empty
    <3> QED BY <1>3, <3>1, <3>2, CheckpointStep DEF Checkpoint
  <2>2. snaps = {}
    BY <2>1 DEF SnapInv
  <2>3. ~CreateSnapshot /\ ~CliSnapshot
    BY <1>1, <2>1 DEF CreateSnapshot, CliSnapshot, SnapInv, CommandInv, Scaling, Restoring, Launching,
       Joining, Removing, Fencing
  <2>4. snaps' \subseteq snaps
    BY <2>3, SnapsStep DEF DeleteSnapshot
  <2> QED BY <2>2, <2>4
<1> QED BY <1>2, <1>3 DEF SnapInv

LEMMA LastIsGreatest ==
  ASSUME BaseInv, NEW T, T \subseteq disk.workers, NEW b \in T
  PROVE  Last(T, disk) \in Workers /\ b =< Last(T, disk)
<1>1. T \subseteq 1..MaxWorkers /\ T # {} /\ MaxWorkers \in Nat
  BY BaseFacts DEF BaseInv, Files, Workers
<1>2. Max(T) \in T /\ Max(T) >= b
  BY <1>1, MaxOf
<1> QED BY <1>1, <1>2 DEF Last, Workers

\* Where down begins, goes on and ends.
LEMMA DownArrivals ==
  ASSUME Sound, [Next]_vars
  PROVE  /\ at' = "stopping" /\ want' = 0 => Down \/ StopNode \/ UNCHANGED <<at, node, want, disk, box>>
         /\ at' = "cleanup" => /\ at = "cleanup" \/ (at = "stopping" /\ node = None /\ want = 0)
                               /\ UNCHANGED <<disk, box>>
         /\ file' = "archived" => (at = "cleanup" /\ Archive) \/ (file = "archived" /\ UNCHANGED <<disk, box, snaps>>)
<1> USE DEF cloud, guest, command, memory, vars, Next, User, Step, Records,
         Launch, RecordNode, SetupCoordinator, Join, RecordJoin, StartServer, StartWorker, RecordReady,
         Grow, Shrink, Scaled, Drain, RecordDrained, DeleteNode, RecordDeleted, Unlink, RecordUnlinked, StopWorker,
         RecordRemoved, RecordCheckpoint, Pause, Copy, StartNetwork, RecordPrepared,
         CreateSnapshot, RecordSnapshot, RecordSnapshotReady, StopOriginal, RecordRestoring, Reinstall,
         RecordRestored, StopNode, Stopped, DeleteSnapshot, Archive, Fails, CutShort, StopNodeFails, Interrupt,
         Up, Scale, Snapshot, Resume, CliSnapshot, Down, Restore, RestoreWith, Schedule, Uncordon
<1>1. \A p : NextRemoval(p) \notin {"stopping", "cleanup"}
  BY DEF NextRemoval
<1>2. file # "present" => at = "prompt"
  BY DEF Sound, BaseInv, CommandInv
<1>3. at' = "stopping" /\ want' = 0 => Down \/ StopNode \/ UNCHANGED <<at, node, want, disk, box>>
  BY <1>1
<1>4. at' = "cleanup" => /\ at = "cleanup" \/ (at = "stopping" /\ node = None /\ want = 0)
                         /\ UNCHANGED <<disk, box>>
  BY <1>1
<1>5. file' = "archived" => (at = "cleanup" /\ Archive) \/ (file = "archived" /\ UNCHANGED <<disk, box, snaps>>)
  BY <1>2
<1> QED BY <1>3, <1>4, <1>5

LEMMA PassedStep ==
  ASSUME Sound, DownInv, [Next]_vars, at' = "stopping", want' = 0, NEW b \in Kept', Passed(b)'
  PROVE  box'[b] # "up"
<1> USE DEF Passed, Kept, Known
<1>1. /\ disk.workers \subseteq Workers /\ disk.server \in Servers \cup {None} /\ state = disk
      /\ box \in [Boxes -> {"none", "up", "stopped"}] /\ BaseInv /\ NodeInv
  BY DEF Sound, BaseInv, Files, WorldInv, IInv, Shaped
<1>2. ASSUME NEW T, T \subseteq disk.workers, node' = Last(T, disk), disk' = disk
      PROVE  b \in disk.workers \ T
  <2>1. CASE b \in disk.workers
    <3>1. b \in Workers /\ Workers \subseteq Nat
      BY <1>1, <2>1 DEF Workers
    <3>2. ASSUME b \in T PROVE FALSE
      <4>1. node' \in Workers /\ b =< node'
        BY <1>1, <1>2, <3>2, LastIsGreatest
      <4>2. b > node'
        BY <4>1
      <4> QED BY <3>1, <4>1, <4>2
    <3> QED BY <2>1, <3>2
  <2>2. CASE b \notin disk.workers
    <3>1. b = disk.server /\ b \in Servers
      BY <1>1, <1>2, <2>2
    <3>2. node' \in Workers \cup {disk.server}
      BY <1>1, <1>2, LastIsKept
    <3> QED BY <1>1, <3>1, <3>2, BaseFacts
  <2> QED BY <2>1, <2>2
<1>3. CASE Down
  BY <1>2, <1>3 DEF Down
<1>4. CASE StopNode
  <2>1. /\ disk' = disk /\ node' = After(node, disk) /\ box' = [box EXCEPT ![node] = "stopped"]
        /\ at = "stopping" /\ want = 0 /\ node # None
    BY <1>1, <1>4 DEF StopNode, Stops
  <2>2. CASE b = node
    BY <1>1, <2>1, <2>2 DEF Boxes
  <2>3. CASE b # node
    <3>1. Passed(b)
      <4>1. CASE node \in Workers
        <5> DEFINE T == {w \in disk.workers : w < node}
        <5>1. b \in disk.workers \ T
          BY <1>2, <2>1, <4>1 DEF After
        <5>2. b \in Workers /\ Workers \subseteq Nat /\ ~(b < node)
          BY <1>1, <5>1 DEF Workers
        <5>3. b > node
          <6> HIDE DEF T
          <6>1. b \in Nat /\ node \in Nat
            BY <4>1, <5>2
          <6> QED BY <2>3, <5>2, <6>1
        <5> QED BY <4>1, <5>2, <5>3
      <4>2. CASE node \notin Workers
        BY <1>1, <2>1, <2>3, <4>2 DEF NodeInv
      <4> QED BY <4>1, <4>2
    <3> QED BY <1>1, <2>1, <2>3, <3>1 DEF DownInv
  <2> QED BY <2>2, <2>3
<1>5. CASE UNCHANGED <<at, node, want, disk, box>>
  BY <1>5 DEF DownInv
<1> QED BY <1>3, <1>4, <1>5, DownArrivals

LEMMA DownStep == ASSUME Sound, SnapInv, DownInv, [Next]_vars PROVE DownInv'
<1>1. ASSUME at' = "cleanup" \/ file' = "archived", NEW b \in Kept' PROVE box'[b] # "up"
  <2>1. UNCHANGED <<disk, box>>
    BY <1>1, DownArrivals DEF Archive, cloud
  <2>2. box[b] # "up"
    BY <1>1, <2>1, DownArrivals, BaseFacts DEF DownInv, Passed, Kept, Known
  <2> QED BY <2>1, <2>2
<1>2. ASSUME file' = "archived" PROVE snaps' = {}
  <2>1. CASE Archive
    <3>1. Doomed = {} /\ snaps' = snaps
      BY <2>1 DEF Archive, cloud
    <3> QED BY <3>1 DEF Doomed, SnapInv, Sound, IInv, Shaped
  <2>2. CASE file = "archived" /\ UNCHANGED snaps
    BY <2>2 DEF DownInv
  <2> QED BY <1>2, <2>1, <2>2, DownArrivals
<1> QED BY <1>1, <1>2, PassedStep DEF DownInv

LEMMA DownInit == Init => SnapInv /\ DownInv
BY DEF Init, Empty, SnapInv, DownInv

(* What scale removed stays gone, and an archived file leaves nothing of what it  *)
(* named: no sandbox runs, no snapshot is kept.  down stops the workers from the  *)
(* last to the first, then the server, and a node whose stop raises keeps the     *)
(* file where it is (cluster.py:542-558).                                        *)
THEOREM GoneAfterDown == Spec => []GoneForGood
<1>1. Sound /\ Sound' /\ SnapInv /\ DownInv /\ [Next]_vars => (SnapInv /\ DownInv)'
  BY SnapStep, DownStep
<1>2. DownInv => (file = "archived" => snaps = {} /\ \A b \in Known \ {None} : box[b] # "up")
  BY DEF DownInv, Kept
<1>3. RemovedIsGone /\ DownInv => GoneForGood
  BY <1>2 DEF GoneForGood
<1> QED BY SoundInit, SoundStep, DownInit, RemovedAreGone, <1>1, <1>3, PTL DEF Spec
=============================================================================
