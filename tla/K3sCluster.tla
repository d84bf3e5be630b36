----------------------------- MODULE K3sCluster -----------------------------
(***************************************************************************)
(* The k3s-private-cluster recipe (cluster.py, recovery.py): one command at *)
(* a time reads the state file, changes sandboxes, Kubernetes and the VPN,  *)
(* and saves the file after each change.  A command may be cut short        *)
(* between any two of its steps, by an exception, Ctrl-C or a crash; only   *)
(* the file is left to the next command.                                   *)
(*                                                                         *)
(* An action is one change of the outside world, or one save(state) with    *)
(* the assignments before it.  Kubernetes' and Headscale's databases live   *)
(* in the server sandbox and are kept here per worker.  The lifetime of the *)
(* sandboxes is not modelled.                                              *)
(*                                                                         *)
(* Definitions whose comment starts with "Bug:" are not part of the         *)
(* specification.                                                          *)
(***************************************************************************)
EXTENDS Naturals, FiniteSets, FiniteSetsExt

CONSTANTS
  Servers,     \* identities for control-plane sandboxes
  MaxWorkers,  \* bound on next_worker - 1
  MaxFaults,   \* bound on interruptions and failed stops
  None

Workers == 1..MaxWorkers
Boxes == Servers \cup Workers

\* new_sandbox never wants for an identity; at most two servers are ever created.
ASSUME ClusterAssumption ==
  /\ IsFiniteSet(Servers) /\ (\E s, t \in Servers : s # t) /\ {MaxWorkers, MaxFaults} \subseteq Nat
  /\ Servers \cap Nat = {} /\ None \notin Boxes

VARIABLES
  file,    \* the state file: "absent", "present", "archived"
  disk,    \* what it holds
  state,   \* the command's copy; at the prompt, what load() would return
  cmd, at, \* the running command and its next step; "none" and "prompt"
  node,    \* the node that step is about
  want,    \* --workers
  box,     \* the sandboxes: "none", "up", "stopped"
  k3s,     \* the control plane of the server: "none", "running", "paused"
  net,     \* Headscale runs in the server
  kube,    \* each worker's Node: "absent", "idle", "busy" (it runs pods), "cordoned"
  vpn,     \* the workers Headscale knows
  marker,  \* the ConfigMap restore-marker exists
  staged,  \* the databases in /checkpoint
  snaps,   \* the platform's snapshots of the server
  undone,  \* history: workers whose recorded removal steps were reverted
  faults

command == <<cmd, at, node, want>>
memory == <<file, disk, state, command>>
guest == <<k3s, net, kube, vpn, marker>>
cloud == <<box, guest, staged, snaps, undone>>
vars == <<memory, cloud, faults>>

\* The fields of a worker that record how far adding or removing it has come.
Removal == {"drained", "kubernetes_removed", "network_removed"}
Progress == Removal \cup {"network_id", "ready"}

Empty == [server |-> None, ip |-> FALSE, workers |-> {},
          progress |-> [w \in Workers |-> {}], next_worker |-> 1, removed |-> {},
          phase |-> "none", manifest |-> {}, source |-> None, snapshot |-> None]

Init ==
  /\ file = "absent" /\ disk = Empty /\ state = Empty
  /\ cmd = "none" /\ at = "prompt" /\ node = None /\ want = 0
  /\ box = [b \in Boxes |-> "none"]
  /\ k3s = "none" /\ net = FALSE /\ kube = [w \in Workers |-> "absent"] /\ vpn = {}
  /\ marker = FALSE /\ staged = [kube |-> kube, vpn |-> {}] /\ snaps = {}
  /\ undone = {} /\ faults = 0

-----------------------------------------------------------------------------
(* Steps of a command. *)

At(step) == at = step
Goes(step) == at' = step /\ UNCHANGED <<cmd, node, want>>
GoesWith(step, n) == at' = step /\ node' = n /\ UNCHANGED <<cmd, want>>

\* The command is over, and its copy of the state with it.
Over == cmd' = "none" /\ at' = "prompt" /\ node' = None /\ want' = 0

Starts(c, step, n, k) ==
  at = "prompt" /\ cmd' = c /\ at' = step /\ node' = n /\ want' = k

Saves(s) == disk' = s /\ state' = s /\ UNCHANGED file
NoSave == UNCHANGED <<file, disk, state>>

Recorded(w, field) == [state EXCEPT !.progress[w] = @ \cup {field}]

\* A save that only sets a field of the worker at hand.
Records(step, field, next) ==
  /\ At(step)
  /\ Saves(Recorded(node, field))
  /\ Goes(next)
  /\ UNCHANGED <<cloud, faults>>

NewServer == CHOOSE s \in Servers : box[s] = "none"

-----------------------------------------------------------------------------
(* new_sandbox and what joins a sandbox to the cluster. *)

Up(k) ==
  /\ file = "absent"
  /\ Starts("up", "launch", NewServer, k)
  /\ file' = "present" /\ disk' = Empty /\ state' = Empty
  /\ UNCHANGED <<cloud, faults>>

\* Sandbox.run has created the sandbox; its ID is only in memory.
Launch ==
  /\ At("launch")
  /\ box' = [box EXCEPT ![node] = "up"]
  /\ Goes("record")
  /\ NoSave /\ UNCHANGED <<guest, staged, snaps, undone, faults>>

(* Bug: the sandbox is in the file only when it is ready. *)
RecordNodeLate ==
  /\ At("record")
  /\ \/ /\ node \in Workers
        /\ state' = [state EXCEPT !.workers = @ \cup {node}]
        /\ Goes("join")
     \/ /\ node \in Servers
        /\ state' = [state EXCEPT !.server = node, !.ip = FALSE]
        /\ Goes(IF cmd = "up" THEN "setup" ELSE "reinstall")
  /\ UNCHANGED <<file, disk, cloud, faults>>

RecordNode ==
  /\ At("record")
  /\ \/ /\ node \in Workers
        /\ Saves([state EXCEPT !.workers = @ \cup {node}])
        /\ Goes("join")
     \/ /\ node \in Servers
        /\ Saves([state EXCEPT !.server = node, !.ip = FALSE])
        /\ Goes(IF cmd = "up" THEN "setup" ELSE "reinstall")
  /\ UNCHANGED <<cloud, faults>>

SetupCoordinator ==
  /\ At("setup")
  /\ net' = TRUE
  /\ Goes("join")
  /\ NoSave /\ UNCHANGED <<box, k3s, kube, vpn, marker, staged, snaps, undone, faults>>

\* connect_network: tailscale up, then the address and the ID are saved.
Join ==
  /\ At("join") /\ net
  /\ vpn' = vpn \cup ({node} \cap Workers)
  /\ Goes("joined")
  /\ NoSave /\ UNCHANGED <<box, k3s, net, kube, marker, staged, snaps, undone, faults>>

RecordJoin ==
  /\ At("joined")
  /\ Saves(IF node \in Workers THEN Recorded(node, "network_id")
                               ELSE [state EXCEPT !.ip = TRUE])
  /\ Goes("start")
  /\ UNCHANGED <<cloud, faults>>

\* node_command and wait_node.  A restored server starts on the checkpoint's database.
StartServer ==
  /\ At("start") /\ node \in Servers
  /\ k3s' = "running"
  /\ kube' = IF cmd = "restore" THEN staged.kube ELSE kube
  /\ Goes(IF cmd = "restore" THEN "verify" ELSE "loop")
  /\ NoSave /\ UNCHANGED <<box, net, vpn, marker, staged, snaps, undone, faults>>

StartWorker ==
  /\ At("start") /\ node \in Workers /\ k3s = "running"
  /\ kube' = [kube EXCEPT ![node] = "idle"]
  /\ Goes("ready")
  /\ NoSave /\ UNCHANGED <<box, k3s, net, vpn, marker, staged, snaps, undone, faults>>

RecordReady == Records("ready", "ready", "loop")

-----------------------------------------------------------------------------
(* scale, and the loop of up: workers are added or removed one by one. *)

\* The first step of remove_worker that the file does not record as done.
NextRemoval(p) ==
  IF "drained" \notin p THEN "drain"
  ELSE IF "kubernetes_removed" \notin p THEN "delete"
  ELSE IF "network_id" \in p /\ "network_removed" \notin p THEN "unlink"
  ELSE "stop"

Newest(st) == Max(st.workers)

Scale(k) ==
  /\ file = "present"
  /\ \A w \in disk.workers : "ready" \in disk.progress[w]
  /\ Starts("scale", "loop", None, k)
  /\ NoSave /\ UNCHANGED <<cloud, faults>>

(* Bug: the number is used again after an interruption. *)
GrowSameName ==
  /\ At("loop") /\ Cardinality(state.workers) < want
  /\ state.server # None
  /\ GoesWith("launch", state.next_worker)
  /\ NoSave /\ UNCHANGED <<cloud, faults>>

Grow ==
  /\ At("loop") /\ Cardinality(state.workers) < want
  /\ state.server # None
  /\ Saves([state EXCEPT !.next_worker = @ + 1])
  /\ GoesWith("launch", state.next_worker)
  /\ UNCHANGED <<cloud, faults>>

Shrink ==
  /\ At("loop") /\ Cardinality(state.workers) > want
  /\ GoesWith(NextRemoval(state.progress[Newest(state)]), Newest(state))
  /\ NoSave /\ UNCHANGED <<cloud, faults>>

Scaled ==
  /\ At("loop") /\ Cardinality(state.workers) = want
  /\ Over
  /\ NoSave /\ UNCHANGED <<cloud, faults>>

(* Bug: kubectl cordon, which evicts nothing. *)
DrainCordons ==
  /\ At("drain") /\ k3s = "running"
  /\ kube' = [kube EXCEPT ![node] = IF @ = "idle" THEN "cordoned" ELSE @]
  /\ Goes("drained")
  /\ NoSave /\ UNCHANGED <<box, k3s, net, vpn, marker, staged, snaps, undone, faults>>

\* kubectl drain cordons the node and evicts its pods.
Drain ==
  /\ At("drain") /\ k3s = "running"
  /\ kube' = [kube EXCEPT ![node] = "cordoned"]
  /\ Goes("drained")
  /\ NoSave /\ UNCHANGED <<box, k3s, net, vpn, marker, staged, snaps, undone, faults>>

RecordDrained == Records("drained", "drained", NextRemoval(state.progress[node] \cup {"drained"}))

DeleteNode ==
  /\ At("delete") /\ k3s = "running"
  /\ kube' = [kube EXCEPT ![node] = "absent"]
  /\ Goes("deleted")
  /\ NoSave /\ UNCHANGED <<box, k3s, net, vpn, marker, staged, snaps, undone, faults>>

RecordDeleted ==
  Records("deleted", "kubernetes_removed",
          NextRemoval(state.progress[node] \cup {"kubernetes_removed"}))

Unlink ==
  /\ At("unlink") /\ net
  /\ vpn' = vpn \ {node}
  /\ Goes("unlinked")
  /\ NoSave /\ UNCHANGED <<box, k3s, net, kube, marker, staged, snaps, undone, faults>>

RecordUnlinked == Records("unlinked", "network_removed", "stop")

\* Stopping the server ends what runs in it.
Stops(n) ==
  /\ box' = [box EXCEPT ![n] = "stopped"]
  /\ IF n \in Servers THEN k3s' = "none" /\ net' = FALSE ELSE UNCHANGED <<k3s, net>>
  /\ UNCHANGED <<kube, vpn, marker, staged, snaps, undone>>

StopWorker ==
  /\ At("stop")
  /\ Stops(node)
  /\ Goes("removed")
  /\ NoSave /\ UNCHANGED faults

RecordRemoved ==
  /\ At("removed")
  /\ Saves([state EXCEPT !.workers = @ \ {node}, !.removed = @ \cup {node}])
  /\ GoesWith("loop", None)
  /\ UNCHANGED <<cloud, faults>>

-----------------------------------------------------------------------------
(* snapshot and resume. *)

\* The first change is a ConfigMap that must not exist yet.
Snapshot ==
  /\ file = "present" /\ disk.phase = "none" /\ disk.server # None
  /\ k3s = "running" /\ ~marker
  /\ marker' = TRUE
  /\ Starts("snapshot", "mark", None, 0)
  /\ NoSave /\ UNCHANGED <<box, k3s, net, kube, vpn, staged, snaps, undone, faults>>

RecordCheckpoint ==
  /\ At("mark")
  /\ Saves([state EXCEPT !.phase = "preparing", !.manifest = state.workers,
                         !.source = state.server])
  /\ Goes("pause")
  /\ UNCHANGED <<cloud, faults>>

\* BACKUP stops K3s and the network daemons, then copies their databases.
Pause ==
  /\ At("pause")
  /\ k3s' = "paused" /\ net' = FALSE
  /\ Goes("copy")
  /\ NoSave /\ UNCHANGED <<box, kube, vpn, marker, staged, snaps, undone, faults>>

Copy ==
  /\ At("copy")
  /\ staged' = [kube |-> kube, vpn |-> vpn]
  /\ Goes("network")
  /\ NoSave /\ UNCHANGED <<box, guest, snaps, undone, faults>>

StartNetwork ==
  /\ At("network")
  /\ net' = TRUE
  /\ Goes("prepared")
  /\ NoSave /\ UNCHANGED <<box, k3s, kube, vpn, marker, staged, snaps, undone, faults>>

\* With --prepare-only the command ends here.
RecordPrepared ==
  /\ At("prepared")
  /\ Saves([state EXCEPT !.phase = "prepared"])
  /\ Over \/ Goes("create")
  /\ UNCHANGED <<cloud, faults>>

CreateSnapshot ==
  /\ At("create")
  /\ snaps' = snaps \cup {"recipe"}
  /\ Goes("created")
  /\ NoSave /\ UNCHANGED <<box, guest, staged, undone, faults>>

RecordSnapshot ==
  /\ At("created")
  /\ Saves([state EXCEPT !.snapshot = "recipe"])
  /\ Goes("wait")
  /\ UNCHANGED <<cloud, faults>>

\* get_snapshot says "ready" in time; otherwise the command is cut short.
RecordSnapshotReady ==
  /\ At("wait")
  /\ Saves([state EXCEPT !.phase = "ready"])
  /\ Over
  /\ UNCHANGED <<cloud, faults>>

\* docker start of the paused K3s, which does not come up without the network
\* daemons; where it runs already, nothing changes.
Resume ==
  /\ at = "prompt" /\ file = "present" /\ disk.server # None
  /\ box[disk.server] = "up" /\ k3s = "paused" /\ net
  /\ k3s' = "running"
  /\ UNCHANGED <<memory, box, net, kube, vpn, marker, staged, snaps, undone, faults>>

-----------------------------------------------------------------------------
(* restore: a new server sandbox starts on the snapshot's databases. *)

\* The snapshot is chosen and saved before the membership is compared.
RestoreWith(i, fence) ==
  /\ file = "present" /\ disk.phase \in {"prepared", "ready"}
  /\ disk' = [disk EXCEPT !.snapshot = i] /\ state' = disk' /\ UNCHANGED file
  /\ \/ /\ disk.manifest = disk.workers
        /\ Starts("restore", fence, None, 0)
     \/ /\ disk.manifest # disk.workers
        /\ at = "prompt" /\ UNCHANGED command
  /\ UNCHANGED <<cloud, faults>>

(* Bug: workers may have come or gone since the checkpoint. *)
RestoreAnyMembers(i) ==
  /\ file = "present" /\ disk.phase \in {"prepared", "ready"}
  /\ disk' = [disk EXCEPT !.snapshot = i] /\ state' = disk' /\ UNCHANGED file
  /\ Starts("restore", "fence", None, 0)
  /\ UNCHANGED <<cloud, faults>>

(* Bug: the original server is not stopped before its replacement is created. *)
RestoreUnfenced(i) == RestoreWith(i, "fenced")

Restore(i) == RestoreWith(i, "fence")

StopOriginal ==
  /\ At("fence")
  /\ Stops(state.server)
  /\ Goes("fenced")
  /\ NoSave /\ UNCHANGED faults

RecordRestoring ==
  /\ At("fenced")
  /\ Saves([state EXCEPT !.removed = @ \cup {state.server}, !.phase = "restoring"])
  /\ GoesWith("launch", NewServer)
  /\ UNCHANGED <<cloud, faults>>

\* Headscale runs on the checkpoint's database.  What the file records of a
\* worker's removal is no longer true of the databases.
Reinstall ==
  /\ At("reinstall")
  /\ net' = TRUE /\ vpn' = staged.vpn
  /\ undone' = undone \cup {w \in state.workers : state.progress[w] \cap Removal # {}}
  /\ Goes("joined")
  /\ NoSave /\ UNCHANGED <<box, k3s, kube, marker, staged, snaps, faults>>

\* Every worker's kubelet has renewed its lease since, and answers pings.
Reconnected == \A w \in state.workers : box[w] = "up" /\ kube[w] # "absent" /\ w \in vpn

RecordRestored ==
  /\ At("verify") /\ Reconnected
  /\ Saves([state EXCEPT !.phase = "restored"])
  /\ Over
  /\ UNCHANGED <<cloud, faults>>

-----------------------------------------------------------------------------
(* down: workers, newest first, then the server; then snapshots and the file. *)

\* `node` is the next to stop, `want` is 1 once a stop has failed.
Last(ws, st) == IF ws = {} THEN st.server ELSE Max(ws)
After(n, st) == IF n \in Workers THEN Last({w \in st.workers : w < n}, st) ELSE None

(* Bug: down needs the server to be in the file. *)
DownWithServer ==
  /\ file = "present" /\ disk.server # None
  /\ Starts("down", "stopping", Last(disk.workers, disk), 0)
  /\ NoSave /\ UNCHANGED <<cloud, faults>>

Down ==
  /\ file = "present"
  /\ Starts("down", "stopping", Last(disk.workers, disk), 0)
  /\ NoSave /\ UNCHANGED <<cloud, faults>>

StopNode ==
  /\ At("stopping") /\ node # None
  /\ Stops(node)
  /\ node' = After(node, state) /\ UNCHANGED <<cmd, at, want>>
  /\ NoSave /\ UNCHANGED faults

\* `except Exception`: the other nodes are stopped all the same.
StopNodeFails ==
  /\ At("stopping") /\ node # None
  /\ faults < MaxFaults /\ faults' = faults + 1
  /\ UNCHANGED cloud \/ Stops(node)
  /\ node' = After(node, state) /\ want' = 1 /\ UNCHANGED <<cmd, at>>
  /\ NoSave

Stopped ==
  /\ At("stopping") /\ node = None
  /\ IF want = 0 THEN Goes("cleanup") ELSE Over
  /\ NoSave /\ UNCHANGED <<cloud, faults>>

\* cleanup_snapshots: the recorded one and all of the checkpoint's source.
Doomed == IF state.source = None THEN snaps \cap {state.snapshot} ELSE snaps

DeleteSnapshot ==
  /\ At("cleanup")
  /\ \E i \in Doomed : snaps' = snaps \ {i}
  /\ NoSave /\ UNCHANGED <<command, box, guest, staged, undone, faults>>

Archive ==
  /\ At("cleanup") /\ Doomed = {}
  /\ file' = "archived"
  /\ Over
  /\ state' = disk
  /\ UNCHANGED <<disk, cloud, faults>>

-----------------------------------------------------------------------------
(* A command cut short, and the rest of the world. *)

\* A step that cannot succeed: the call raises, or times out.  `headscale nodes
\* delete` of a worker it no longer knows may succeed or raise: it is not said.
Hopeless ==
  \/ At("join") /\ ~net
  \/ At("start") /\ node \in Workers /\ k3s # "running"
  \/ At("loop") /\ Cardinality(state.workers) < want /\ state.server = None
  \/ At("drain") /\ k3s # "running"
  \/ At("delete") /\ k3s # "running"
  \/ At("unlink") /\ (~net \/ node \notin vpn)
  \/ At("verify") /\ ~Reconnected

CutShort == Over /\ state' = disk /\ UNCHANGED <<file, disk>>

Fails == Hopeless /\ CutShort /\ UNCHANGED <<cloud, faults>>

\* `finally: start_network`, unless the process is killed or that fails too.
Interrupt ==
  /\ at # "prompt" /\ faults < MaxFaults /\ faults' = faults + 1
  /\ CutShort
  /\ net' \in {net} \cup (IF at \in {"copy", "network"} THEN {TRUE} ELSE {})
  /\ UNCHANGED <<box, k3s, kube, vpn, marker, staged, snaps, undone>>

\* Kubernetes runs pods on a worker.
Schedule(w) ==
  /\ k3s = "running" /\ kube[w] = "idle"
  /\ kube' = [kube EXCEPT ![w] = "busy"]
  /\ UNCHANGED <<memory, box, k3s, net, vpn, marker, staged, snaps, undone, faults>>

\* "Use `./sandbox-k3s kubectl uncordon <node>` if you abandon removal"
\* (README.md:91), after any removal that was cut short.
Uncordon(w) ==
  /\ at = "prompt" /\ file = "present" /\ k3s = "running" /\ kube[w] = "cordoned"
  /\ kube' = [kube EXCEPT ![w] = "idle"]
  /\ undone' = undone \cup {x \in {w} : disk.progress[x] \cap Removal # {}}
  /\ UNCHANGED <<memory, box, k3s, net, vpn, marker, staged, snaps, faults>>

\* cwsandbox snapshots create, after --prepare-only.
CliSnapshot ==
  /\ at = "prompt" /\ file = "present" /\ disk.phase = "prepared"
  /\ box[disk.source] = "up"
  /\ snaps' = snaps \cup {"cli"}
  /\ UNCHANGED <<memory, box, guest, staged, undone, faults>>

Step ==
  \/ Launch \/ RecordNode \/ SetupCoordinator \/ Join \/ RecordJoin
  \/ StartServer \/ StartWorker \/ RecordReady
  \/ Grow \/ Shrink \/ Scaled
  \/ Drain \/ RecordDrained \/ DeleteNode \/ RecordDeleted
  \/ Unlink \/ RecordUnlinked \/ StopWorker \/ RecordRemoved
  \/ RecordCheckpoint \/ Pause \/ Copy \/ StartNetwork \/ RecordPrepared
  \/ CreateSnapshot \/ RecordSnapshot \/ RecordSnapshotReady
  \/ StopOriginal \/ RecordRestoring \/ Reinstall \/ RecordRestored
  \/ StopNode \/ Stopped \/ DeleteSnapshot \/ Archive
  \/ Fails

\* Bound: `k` workers can be named with MaxWorkers names.
Fits(k) == k =< Cardinality(disk.workers) + MaxWorkers + 1 - disk.next_worker

User ==
  \/ \E k \in 0..MaxWorkers : Fits(k) /\ (Up(k) \/ Scale(k))
  \/ Snapshot \/ Resume \/ CliSnapshot \/ Down
  \/ \E i \in snaps : Restore(i)

Next ==
  \/ User \/ Step \/ StopNodeFails \/ Interrupt
  \/ \E w \in Workers : Schedule(w) \/ Uncordon(w)

Spec == Init /\ [][Next]_vars

\* A command runs on by itself, and whoever began a cluster retries down.
Fairness == WF_vars(Step) /\ SF_vars(Down)

FairSpec == Spec /\ Fairness

-----------------------------------------------------------------------------
(* Properties. *)

(* The file's fields and the databases hold values of their kind, a worker's *)
(* number is below next_worker, and nothing is carried over a prompt but the *)
(* file.                                                                    *)
TypeOK ==
  /\ cmd \in {"none", "up", "scale", "snapshot", "restore", "down"}
  /\ node \in Boxes \cup {None} /\ want \in Nat /\ faults \in 0..MaxFaults
  /\ (at = "prompt") = (cmd = "none") /\ (at = "prompt" => state = disk)
  /\ file \in {"absent", "present", "archived"}
  /\ \A s \in {disk, state} :
       /\ s.server \in Servers \cup {None} /\ s.ip \in BOOLEAN
       /\ s.workers \subseteq 1..(s.next_worker - 1) /\ s.manifest \subseteq Workers
       /\ s.progress \in [Workers -> SUBSET Progress]
       /\ s.next_worker \in 1..(MaxWorkers + 1) /\ s.removed \subseteq Boxes
       /\ s.phase \in {"none", "preparing", "prepared", "ready", "restoring", "restored"}
       /\ s.source \in Servers \cup {None} /\ s.snapshot \in {None, "recipe", "cli"}
  /\ box \in [Boxes -> {"none", "up", "stopped"}]
  /\ k3s \in {"none", "running", "paused"} /\ net \in BOOLEAN /\ marker \in BOOLEAN
  /\ {kube, staged.kube} \subseteq [Workers -> {"absent", "idle", "busy", "cordoned"}]
  /\ vpn \cup staged.vpn \cup undone \subseteq Workers
  /\ snaps \subseteq {"recipe", "cli"}

(* Two server sandboxes never run at once: restore fences the original      *)
(* before the identities it takes over are used again (recovery.py:168),    *)
(* whatever was interrupted before and however often restore is tried.      *)
OneControlPlane == Cardinality({s \in Servers : box[s] = "up"}) =< 1

Known == {disk.server} \cup disk.workers
Lost == {b \in Boxes : box[b] = "up"} \ Known

(* The file names every running sandbox but those whose creation was cut    *)
(* short before its save: at most one for each interruption.                *)
RunningIsRecorded == Cardinality(Lost) =< faults + (IF at = "record" THEN 1 ELSE 0)

Gone(w) == box[w] # "up" /\ kube[w] = "absent" /\ w \notin vpn

(* A worker that scale has removed is stopped and has no Node and no VPN    *)
(* identity left, however often its removal was cut short, and no restore   *)
(* brings it back; except one whose finished steps were reverted before the *)
(* removal went on.                                                        *)
RemovedIsGone == \A w \in (disk.removed \cap Workers) \ undone : Gone(w)

(* Nor is anything left once down has put the file away: no sandbox the file *)
(* named runs and no snapshot is kept, also none whose ID was never saved.  *)
GoneForGood ==
  /\ RemovedIsGone
  /\ file = "archived" => snaps = {} /\ \A b \in Known \ {None} : box[b] # "up"

(* README.md:12: "Scale-down that drains Kubernetes workloads, removes the  *)
(* node/network identity, and confirms sandbox termination."  A worker's Node *)
(* and sandbox are not taken while pods run on it, and once it is recorded as *)
(* removed nothing is left of it.  It does not hold: the steps that the file  *)
(* records as done are skipped, although the operator has given the removal   *)
(* up with uncordon, or a restore has brought back older databases.          *)
ScaleDownRemoves ==
  /\ [][\A w \in Workers :
         cmd = "scale" /\ kube[w] = "busy" => kube'[w] # "absent" /\ box'[w] = box[w]]_vars
  /\ [](\A w \in disk.removed \cap Workers : Gone(w))

(* A Node on which pods run is deleted by scale only when a drain of it was   *)
(* recorded and then reverted (`undone`), in one of the two ways that          *)
(* ScaleDownRemoves fails; in no other order of steps and interruptions.      *)
DrainedBeforeDeleted ==
  [][\A w \in Workers :
       cmd = "scale" /\ kube[w] = "busy" /\ kube'[w] = "absent" => w \in undone]_vars

(* Whatever was interrupted, no state of the file keeps down from ending:   *)
(* every cluster that was begun is taken down.                             *)
DownCompletes == file = "present" ~> file = "archived"
=============================================================================
