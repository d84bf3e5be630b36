# TLA+ models of the CoreWeave Sandbox recipes

The repository is a collection of nine recipes, Python programs that create
sandboxes in the CoreWeave cloud, talk to them and stop them again. They share
no code, but they share their difficulty: a sandbox costs money until somebody
stops it, an operation on it can fail, time out or be cancelled half-way, and
several coroutines, threads or processes do all of this at once. The modules in
this directory model the recipes whose own logic is hard for that reason, the
`.cfg` files check them with TLC on small instances, and the proof modules prove
their safety properties for every instance with TLAPS.

Paths below are relative to `src/recipes/`; `TB` is `taubench-verl/verl_taubench`.

## Inventory

| Part | State | Operations | What is hard | Correct when |
|---|---|---|---|---|
| **taubench-verl, sandbox pool** (`TB/sandbox/pool.py`) | `_idle` (LIFO), `_slots` (semaphore), `_live`, `_closed`; the locals of each coroutine; sandboxes in the backend | `acquire`, `release`, `lease`, `prewarm`, `aclose`, `provision`/`destroy` on threads | coroutines interleave at every await; an await can be cancelled, its thread cannot; resets, provisions and stops fail; `aclose` races everything | leases exclusive, capacity conserved, `size` a ceiling, nothing lost, closing leaves nothing |
| **taubench-verl, episode** (`TB/agent/taubench_loop.py`, `TB/tools/sandbox_taubench_tool.py`, `TB/sandbox/client.py`, `TB/sandbox/env_server.py`) | the loop's `done` and token lists; `instance_registry`; the server's `EpisodeState` | `create`, `execute`, `calc_reward`, `release`; `/reset`, `/step`, `/reward` | a request outlives its caller: the server runs a thread per connection, the caller gives up after 30 s, the sandbox goes to the next episode | rewards and histories belong to one episode; grading once; every episode ends |
| taubench-verl, user simulator (`TB/sandbox/simulator.py`) | a conversation per episode | `start`, `respond`, `finish` | a failed completion in the middle of a turn | customer and server have heard the same messages; nothing remains after `finish` |
| taubench-verl, orphan sweep (`TB/sandbox/cleanup.py`, `reap_orphans`) | the tagged sandboxes | up to four list-and-stop passes | creates that land after the listing, stops that fail | a survivor was in flight at the last listing, or could not be stopped |
| taubench-verl, checkpoint upload (`TB/checkpoint_artifacts.py`, `TB/trainer/checkpointing.py`, `scripts/upload_checkpoints.py`, `scripts/train_grpo.sh`) | local shards, objects, pointer, references, markers, the upload queue | `submit`, `finish`, `upload_checkpoint_step`, `log_missing_references`, `main` of the script | a crash or a failed request between any two of four writes; no credentials; a second run on the same disk; shards that look alike | pointer and references name whole steps; a success with credentials means every step is persisted |
| taubench-verl, launcher (`TB/sandbox/trainer.py`) | the GPU sandbox, its log stream | `launch_and_wait` | the stream breaks while the training goes on; the training dies while the stream is open; Ctrl-C anywhere | the exit code 0 is returned only for a script that succeeded; the environment sandboxes are swept after it |
| **warm-pool** (`warm-pool/warm_pool.py`) | `available`, `admission`, `closing`, `error`, the worker tasks | `__aenter__`, `claim`, `__aexit__`, `_maintain_slot` | workers, claims, expiry and closing race for an entry; cancellation | no sandbox used twice; the total bounded; claims answered; closing ends and leaves nothing |
| **k3s-private-cluster** (`cluster.py`, `recovery.py`) | a state file; sandboxes; Kubernetes and VPN registrations; a snapshot | `up`, `scale`, `snapshot`, `resume`, `restore`, `down` | the process dies between any two steps, then another command runs on the file it left | every sandbox is in the file; one control plane at a time; removed workers leave no identity; `down` completes |
| **claude-code-cloud** (`cloud.py`, `entrypoint.py`) | order records, deployment record, host and worker sandboxes | `spawn`, `deploy`, `stop`, adoption by `status`, `logs`, `read`, `stop`; the `supervise` loop in the host | hooks in parallel, killed in the middle, racing `stop`; creations whose answer is lost | one submission per token; worker limit; one orchestrator; `stop` leaves nothing |
| **dapo-nemo-rl** (`dapo_nemo_rl/`, `gym_env/`) | key, gateway, deployment, Gym sandbox, Slurm job, objects; ranks, snapshots, replicas | start, follow, `stop_all`; weight export, hot-load | creations without an answer, deletions that fail, a job that ends first; one rank fails in a collective | nothing left without a command to delete it; rollouts use the last weights; no rank waits for ever |
| openai-agents-api (`run.py`) | a journal of remote resources, an event cursor | `run`, `events_until`, `cleanup` | lost create responses, reconnecting event streams | every resource is deleted; no event twice |
| github-actions, deepswe, tailcat | one sandbox | create, run, stop in `finally` | little of their own | the sandbox is stopped |
| scripts, datasets, notebooks, `_template` | none | input/output | none | not modelled |

How the taubench parts interact: veRL calls the agent loop's `run` once per
episode, many at a time. The loop calls the tool; the tool asks the pool for a
sandbox, and the pool resets it through the client, over HTTP, before it lends
it. Each action of the policy is one `/step`; a `respond` action also goes to the
user simulator. In the end the loop asks for the reward and releases, and the
pool lends the same sandbox, with a new `/reset`, to another episode. The pool
runs the SDK's blocking calls on threads. Around it, `train_grpo.sh` saves
checkpoints, which an uploader thread publishes, and sweeps the environment
sandboxes in its exit trap; on the sandbox track the launcher runs that script in
a GPU sandbox, decides from its log and its status whether it is over, and sweeps
once more from outside.

In dapo-nemo-rl the launcher creates the inference gateway and deployment, the Gym
sandbox and a Slurm job, which find each other through files in the run directory
on SUNK (`secrets.env`, `gym.addr`, `inference.env`) and in the Gym sandbox, carried
by the launcher. The job's trainer writes a snapshot of the weights into object
storage after each step and has the deployment's replicas load it; Gym sends the rollouts
to the deployment and grades them in sandboxes of its own.

## Modules

| Module | Models |
|---|---|
| `LeasePool` | what a caller of the pool may rely on, and nothing of how: ask, be granted a sandbox nobody else has, be refused, give back |
| `SandboxPool` | `SandboxPool` and `CwSandboxBackend` of `pool.py`; with the instance `Lease` of `LeasePool` and its refinement mapping |
| `SandboxPoolProofs` | its inductive invariant and theorems; that it implements the safety part of `LeasePool` |
| `TauEpisode`, `TauEpisodeProofs` | successive episodes on one sandbox: loop, token trajectory, tool, client, simulator, network and server |
| `CheckpointUpload`, `CheckpointUploadProofs` | what a training saves and publishes, and the recovery after it |
| `TrainingRun`, `TrainingRunProofs` | extends `CheckpointUpload` with the launcher, the GPU sandbox, the environment sandboxes and the two sweeps |
| `WarmPool`, `WarmPoolProofs` | `warm_pool.py` |
| `K3sCluster`, `K3sClusterProofs` | `cluster.py` and `recovery.py`: commands, the state file, the sandboxes and the databases inside |
| `ClaudeCloud`, `ClaudeCloudProofs` | one deployment: operator, host, hooks, workers |
| `WeightSync` | the export of the weights by all ranks, the snapshots and the replicas that load them |
| `DapoRun`, `DapoRunProofs` | extends `WeightSync` with the launcher, the job, Gym and `stop_all`; the proofs are about both |
| `MCSandboxPool`, `MCTrainingRun`, `MCClaudeCloud` | add the symmetry of their constants for TLC |

`TrainingRun` and `DapoRun` are compositions: their actions are the inner module's,
conjoined with what the surroundings do at that moment, and actions of the
surroundings alone. The training under a launcher is killed when the launcher stops
its sandbox; the deployment's replicas are those that `WeightSync` hot-loads, and
what deletes a snapshot may be the trainer or `stop_all`.

In every module a definition whose comment starts with `Bug:` is not part of the
specification. It is a definition of the module with a plausible mistake, kept
next to the right one to confirm that a property would notice.

### SandboxPool

One action is what a coroutine does between two awaits; `pc[p]` names the await
it is in, and `held`, `tries` and `attempts` are its locals. `_lock` is never held
over an await, so a block under it is one step with its surroundings. `p` ranges
over `Episodes`, the callers of `acquire` and `release`, and over `Warmers`, the
children that `prewarm` gathers; `_provision_one` is the same code for both
(`TryProvision`, `ProvisionReturns`, `ProvisionRaises`).

| Code | Actions |
|---|---|
| `acquire` | `Acquire`, `AcquireTimeout`, `TakeSlot` (with `GetHandle`), `ResetSucceeds`, `ResetFails`, `ReplaceReturns`; cancelled: `CancelReset`, `CancelProvision`, `CancelDestroy` |
| `_provision_one` | `ProvisionReturns`, `ProvisionRaises`, `AbandonReturns` |
| `release` | `Release` (healthy or not), `ReleaseReturns` |
| `prewarm` | `Prewarm`, `WarmerStarts`, `PrewarmReturns`, `PrewarmCancelled` |
| `aclose` | `Aclose`, `AcloseReturns` |
| threads, backend | `ThreadReady`, `ThreadRaises`, `ThreadRaisesLost`, `StopSucceeds`, `StopFails`, `Dies` |

`sandbox[s]` is the truth in the cloud, which the coroutines do not see: a
cancelled await leaves its thread running, so a sandbox can be `starting` or
`stopping` with nobody waiting for it. A stop that fails makes it `lost`:
running, while the code has suppressed the error. Sandbox identities are unique
in reality; here an identity is used again when nothing refers to it, which keeps
the model finite. The pool may start `warm`, for the callers that lease without
prewarming.

Left out: statistics and logging; the closing of the HTTP transport and of the
SDK session at the end of `aclose`; a second, concurrent `aclose` (the first has
emptied everything) and the cancellation of `aclose` itself.

### TauEpisode

The pool is reduced to what it does for one sandbox: lend it, reset it, take it
back healthy, or destroy it, in which case the next episode has a new one
(`NewSandbox`). Every request that was sent is in `network` until a thread of the
server gets to it (`Serve`) or its connection breaks (`Lose`), whether its caller
still waits or not: that is the whole difficulty. The server's lock makes serving
one request one step. An action in the history is recorded as the episode that
sent it and its number there; a reward as who asked for it, in whose Env, and the
history it was computed from; `calculate_reward` replays the solution in the
database and appends it to the same list (`Solution`), which is why grading must
come last.

The trajectory is kept token by token (`ids`, `mask`, `logprobs`), as who produced
each. The conversation of the simulator is the numbers of the agent's messages
with 0 for the customer's. Where veRL's token builder is used, it is external and
taken to keep the mask aligned. The policy's server reports log-probabilities with
all generations of an episode or with none; a mixture would shift them in the
fallback path that has no token builder (`taubench_loop.py:569`), and no code in
the repository produces one.

An HTTP error, a broken connection and a time-out are one case for the caller
(`StepFails` and the like), with the request served before, after or never. A
`calculate_reward` that raises half-way through its replay is not modelled.

Left out: the value of the reward and the partial credit; `/spec`, `/health` and
4xx replies to malformed requests, which change no state of the server; the choice
among several pools, prewarming once per domain and closing all of them.

### CheckpointUpload and TrainingRun

A step is published in four writes: shards, pointer, W&B reference, local marker.
`work.at` is the next of them; the uploader's thread and the trainer that saves
interleave. A shard is the number of the run that wrote it, because
`sync_directory` compares sizes, and shards of two runs have the same size
(`checkpoint_artifacts.py:143`). `stale` is a history variable: the steps of which
an earlier run on the same prefix left objects (`train_grpo.sh:41` has a default
name); for these the bucket may keep the old bytes, and no document promises
otherwise. `keys` says whether the storage credentials are set. Without them, or
without a checkpoint directory, the script skips the upload and the check and still
exits with 0 (`Verifiable`; `train_grpo.sh:202`): "Without storage credentials,
checkpoints remain local", as README.md:258 of the recipe says.

| Code | Actions |
|---|---|
| `train_grpo.sh`, veRL's `fit` | `Begin`, `SaveShard`, `SaveDone`, `FitEnds`, `Kill` |
| `AsyncCheckpointUploader`, `upload_checkpoint_step` | `UploadBegins`, `UploadFile`, `UploadPointer`, `LogReference`, `WriteMarker`, `UploadFails` |
| the end of `train_grpo.sh`, `upload_checkpoints.py` | `Drained`, `Verifiable`, `Verifying`, `Repair`, `Recover` |
| `launch_and_wait` | `Launch`, `WaitReturns`, `WaitRaises`, `StreamEnds`, `ProbeAlive`, `ProbeEnded`, `ProbeLate`, `Completed`, `CompleteRaises`, `Interrupt`, `StopGpu`, `LauncherEnds` |
| `cleanup_tag`, `reap_orphans`, `_cleanup` | `TrapSprung`, `List`, `ListFails`, `StopAll`, `Swept` |
| the pool's creates | `EnvAsked`, `EnvLands` |

A sweep ends after a pass that stopped none (`cleanup.py:33`), be it that none was
there or that every stop failed. `Sandbox.run` is called outside the launcher's
`try` (`trainer.py:421`), so a launch that fails there sweeps nothing and has
nothing to sweep. `launch_and_wait` returns 0 in two ways: by the exit code of the
script (`result` is "ok"), or because a completed sandbox has no exit code on record
("assumed", `trainer.py:474`), which says nothing of how the script ended. `overdue` stands for the lifetime of the GPU sandbox and the ten
minutes after it; the launcher gives up only then, and by then the sandbox is not
alive. A repeat of `upload_checkpoints.py` by hand
(`RecoverOnPod`) is taken to be what README.md of the recipe describes: for a
training that completed, with the credentials set. Left out: the aliases of W&B
artifacts, the pruning of local checkpoints by veRL, environment variables, secrets
and files of the GPU sandbox.

### WarmPool

One action per stretch between two awaits, `worker[w]` and `claim[c]` name the
await. An entry's `claimed`, `wake` and age are flags kept with the worker that
waits on it, which is the only one to read them after the entry has left the
deque. `available.remove` is modelled as taking an entry that is there (`RemoveAt`);
`OwnedOnce` shows that it always is. The session's own cleanup when it exits is not
modelled, nor is the cancellation of the closing context or of a worker task.

### K3sCluster

The recipe is sequential: one command at a time per state file. What is hard is
that a command has up to a dozen steps with a save between them, and may end
after any of them (`Interrupt`; `Fails` when a step cannot succeed, as a drain
while K3s is paused). `at` is the next step of the running command `cmd`; an
action is one change of the outside world, or one `save(state)` with the
assignments before it. `state` is the command's copy, `disk` the file; at the
prompt `state` is what `load()` would return. The commands share their steps, as
in the code: `up`, `scale` and `restore` all go through `new_sandbox` (`Launch`,
`RecordNode`) and `connect_network` (`Join`, `RecordJoin`).

| Code | Actions |
|---|---|
| `new_sandbox` | `Launch`, `RecordNode` |
| `setup_coordinator`, `connect_network`, `node_command` with `wait_node` | `SetupCoordinator`, `Join`, `RecordJoin`, `StartServer`, `StartWorker` |
| `up`, `add_worker` | `Up`, `Grow`, `RecordReady`, `Scaled` |
| `scale`, `remove_worker` | `Scale`, `Shrink`, `Drain`, `RecordDrained`, `DeleteNode`, `RecordDeleted`, `Unlink`, `RecordUnlinked`, `StopWorker`, `RecordRemoved` |
| `snapshot` | `Snapshot`, `RecordCheckpoint`, `Pause`, `Copy`, `StartNetwork`, `RecordPrepared`, `CreateSnapshot`, `RecordSnapshot`, `RecordSnapshotReady` |
| `resume`, `restore` | `Resume`, `Restore`, `StopOriginal`, `RecordRestoring`, `Reinstall`, `RecordRestored` |
| `down`, `cleanup_snapshots` | `Down`, `StopNode`, `StopNodeFails`, `Stopped`, `DeleteSnapshot`, `Archive` |
| around the recipe | `Schedule` (pods), `Uncordon` (`kubectl`), `CliSnapshot` |

A worker is its number: `next_worker` is saved before the sandbox is created, so
a name never has two sandboxes, which `TypeOK` confirms. `undone` is a history
variable: the workers whose recorded removal steps were made untrue by a restore
of the databases or by `kubectl uncordon`, the two ways of finding 4. It occurs in
no guard, and in one property: `DrainedBeforeDeleted` says that in no other way a
Node is deleted under running pods. `Hopeless` has the steps that fail whenever they
are repeated, such as `headscale nodes delete` of an identity that is gone.

Two refusals are guards without a property of their own: the marker in the
cluster that makes a second attempt at a snapshot impossible (`recovery.py:69`),
and the fresh lease a restore wants to see (`recovery.py:122`).

Left out: the common deadline of the sandboxes (a backstop behind `down`); the
workloads, apart from whether a worker runs pods; a second cluster after `down`.

### ClaudeCloud

The operator's commands exclude each other by a file lock, except that `status`
adopts an uncertain deployment without it (`StatusAdopts`, `StatusSaves`), so it
may write the record that `stop` has just removed. A creation is asked for, then it
takes effect or not (`HostComes`, `WorkerComes`, `WorkerNeverComes`), whether or not
anybody still waits. `HookStep` is the hook: it waits for the lock, counts the
workers, writes the order's record, submits, writes the sandbox's ID, and releases
the lock. `hook[h]` returns to "out" from anywhere when it is killed, and all hooks
are killed with the host. `late` is a history variable: the workers whose creation
took effect when nobody waited for it any more. A record without a sandbox ID can
be stopped only while its host is listed (`Adoptable`; `cloud.py:186`): if the host
has died by then, `stop` raises every time and the workers are left to their
lifetime.
`StatusAdopts` stands for `logs` and `read` too, which go through the same
`deployment()` (`cloud.py:342`). The module is about one deployment: that `Deploy`
needs `~stopped` is its own guard, since the code asks only that there is no record
(`cloud.py:211`). A second deployment under the same path, and a record that a late
`status` saves over it, are outside the model. Of `entrypoint.py` it has only that
the host ends with its process (`HostEnds`).

### WeightSync and DapoRun

A rank's export is a collective per tensor: `Met` completes it when every rank has
come. Rank 0 writes, and after an error goes on meeting the others without
writing; the vote at the end tells all of them. A rank other than the writer that
raised outside a collective would block its peers. The code holds back the errors of
writing; one of moving the model to the GPU or of the generator of the tensors
(`worker.py:150-160`) is outside that `try` and is not modelled. A snapshot is "partial", "whole" or deleted, and `serves[q]` is what replica
`q` answers with.

In `DapoRun` the launcher's `step` is its line in `start`, `follow_job` or
`stop_all`. A creation is asked for, takes effect or not, and is answered or not;
`ids` is what the launcher learnt of. `stop_all` goes through its steps although
earlier ones fail (`Misses`), and Ctrl-C in it aborts it. `missed`, `late` and
`unsaid` are history variables. `missed` is what a step failed to delete and printed
a command for, as README.md:163 of the recipe promises. `unsaid` is what it leaves
without a command, in which the code falls short of that text:

* a gateway that is not READY in time: its ID stays in `create_gateway`
  (`launch.py:176`, `inference.py:72`);
* a job whose `scancel` failed, because it runs with `check=False` (`sunk.py:60`);
* the files of the run directory with tokens and keys, when their `rm` failed, or
  when there is no job ID because `sbatch` failed (`launch.py:372`, `:378`).

`NothingLeft` says that there are these three and no other, and that a run which
came to its end leaves at most the files. A creation whose answer is lost has no ID
either (`Unanswered`).
Left out: the image import, the tunnel, the data preparation, the standalone
cleanup command, and the pool in which Gym keeps its grading sandboxes.

## Runs

| Run | Instance | Result |
|---|---|---|
| `pool_safety` | 3 episodes, size 2, 5 identities, 1 retry, 2 faults, `prewarm` not cancelled; symmetric | passes |
| `pool_liveness` | 2 episodes, size 1, 3 identities, 1 retry, 1 fault, `prewarm` may be cancelled, with fairness | passes |
| `pool_ceiling_cancelled_prewarm` | 2 episodes, size 2, no retry, 1 fault, `prewarm` may be cancelled | `LiveCeiling` violated |
| `episode` | 3 episodes, 3 turns, 2 user turns, 2 resets, response length 4, generations of at most 2 tokens, observations of at most 1; an episode may be cancelled in every await but that of a `/step` | passes |
| `episode_stale_reward` | 2 episodes, no cancellation | `OwnReward` violated |
| `episode_cancelled` | 2 episodes, an episode may be cancelled in the await of a `/step` | `OwnActions` violated |
| `training` | with or without credentials, 2 saves, 2 shards, 2 runs, 2 environment sandboxes, 2 passes; symmetric | passes |
| `warm_pool` | 1 worker, 2 claims, 1 permit, 2 attempts, 4 identities, 1 fault, with fairness | passes |
| `k3s_cluster` | 2 worker names, 3 server identities, 2 interruptions or failed stops, with fairness | passes |
| `k3s_removal_reverted` | 1 worker name, 1 interruption | `ScaleDownRemoves` violated |
| `cloud` | 3 orders, 2 hooks, worker limit 1; symmetric | passes |
| `dapo` | 2 ranks, 2 replicas, 2 tensors, 1 optimizer step, 2 shards of the model, with fairness of the collective | passes |

What the properties say is in the comments above them; these carry most:

* `LeaseExclusive`, `SlotsConserved`, `LiveCeiling`, `ClosedPoolEmpty`: the pool
  keeps count of slots, handles and sandboxes on every way out of its coroutines;
  `ImplementsLeasePool` and the liveness say that its callers see a lease pool.
* `SampleIsSound`, `HistoriesAgree`, `GradedOnce`: training sees an aligned sample
  whose reward is that of its own actions, though requests are lost, doubled by a
  late service or cut off by a time-out.
* `Published`, `LaunchedIsPersisted`, `SweptUnlessInFlight`: wherever it is killed, a
  training publishes whole steps only; a success with credentials is a persisted one;
  and the launcher leaves only sandboxes whose creation was in flight at its last
  pass, or whose stop failed.
* `OwnedOnce`, `TotalBound`, `ClosedClean` and three liveness properties of the
  warm pool. `Replenishes` begins at every state in which a worker has nothing that a
  claim may take: it prepares, retires, backs off, or waits on a claimed entry.
* `OneControlPlane`, `RunningIsRecorded`, `GoneForGood`, `DrainedBeforeDeleted`,
  `DownCompletes`: what the k3s file records is worth something to the next command.
* `DeployedOnce`, `TokenOnce`, `WorkerLimit`, `StoppedIsClean`: write-ahead records
  make creations that cannot be repeated safe.
* `NothingLeft`, `ServedPolicy`, `ExportEnds`: a dapo run leaves only what it
  printed a command for or is listed above, is on policy, and does not hang in an export.

Deadlock is not checked:
an open pool nobody uses, a closed one, a finished series of episodes, a cluster
whose file is archived and a run that is over may stop.

**Bounds.** Size 2 with three episodes is the smallest pool where two lease, a
third waits, and the order of the idle stack matters; one retry makes both the
retry and its exhaustion happen; two faults let a cancellation meet a failed stop.
Five identities are enough for two leased, two stopping and one starting. For
liveness a pool of one already has waiters, replacements and closing races. Three
episodes on a sandbox let a request of the first meet the third. A response length
of 4 is exceeded by a generation, by an observation, or not at all. For the
training, two saves and two shards make a step half-saved, half-uploaded, or
overtaken by the next, and two runs let a second one meet the first one's files;
of two environment sandboxes one can be swept while the other is in flight, and two
passes are the fewest in which a later one finds more. For the cloud, two hooks
race for the lock and a third order comes when one worker is there and one is late.
In `DapoRun` a second tensor lets rank 0 fail between two collectives, and a
second replica makes the hot-load partial. For the warm
pool, two claims with one permit give a waiter at the semaphore and one at the
condition. `MaxFaults` counts only what the environment need not do: cancelled
awaits and stops that fail; failed resets, provisions, requests and crashes are
not bounded by it. Identities bound how many orphans there can be at once: an
identity that is never free again only disables further creations. In
`K3sCluster` two workers make the order of removal, a member that came after the
checkpoint and one that left it possible; two interruptions let a command that
repairs be interrupted itself; `Fits` keeps `scale` within the names that are left.

**Fairness.** Weak fairness of what an event loop or a thread runs once it is
ready, and of answers that SDK calls and requests give because they carry a
time-out. In `TauEpisode` every await ends, at the latest in its time-out (30 s for
a request, the SDK's for a completion), and the loop goes on. In `DapoRun` only the
ranks and the collective are fair, which `ExportEnds` is about. Strong fairness only where the code has a queue: the waiters of the
semaphores (`TakeSlot`, `Admit`) and of the condition (`Take`), which are served in
order. A lease is released because the loop and the tool do it in a `finally`, and
a workload in a claim is assumed to end. Nothing obliges a caller to ask or a pool
to be closed. In `K3sCluster` a command goes on by itself, and whoever began a cluster is
assumed to run `down` again and again, as the message of every failed command
says; every other command may come in between. In `WarmPool`, `ClaimResolves` is stated for the behaviours in which
claims do not go on meeting entries that are too old: an entry needs 300 s to
become so, and it would have to do that during every stop of the one before.

## Findings

1. **A cancelled `prewarm` breaks the ceiling** (`TB/sandbox/pool.py:628`). The
   children that had finished are registered in `_live`, but their handles were
   only in `gather`'s result. They never become idle, the slots are all free, and
   `_live` grows to more than `size` with the next acquires. With `prewarm` not
   cancelled the ceiling holds, checked and proved.
2. **A late reward request grades the next episode**
   (`TB/tools/sandbox_taubench_tool.py:467-484`). `calc_reward` swallows the
   time-out, the sandbox is returned as healthy, and `/reward`, which names no
   episode, is served after the next `/reset`.
3. **A cancelled episode's action lands in the next one**
   (`TB/sandbox/env_server.py:84`, `:158`). `CancelledError` is not caught by
   `execute`, so the sandbox counts as healthy while its `/step` is under way. The
   lock orders the requests, but does not tell the episodes apart. With `/step` not
   cancelled the histories stay apart, checked and proved.
4. **A recorded removal step is skipped after it was reverted**
   (`k3s-private-cluster/cluster.py:314`). The file remembers that a worker was
   drained, its Node deleted, its identity removed, and nothing resets that.
   README.md:91 of the recipe tells the operator to `kubectl uncordon` a node whose
   removal is given up; once pods run there again, the next scale-down deletes the
   Node without a drain and stops the sandbox, against README.md:12. This is the
   run's counterexample. A `restore` does the same by itself: it brings the older
   databases back, with the Node and the VPN identity, and is allowed because the
   worker is still a member (`recovery.py:159`). Without `Uncordon` the property
   fails that way.

That `stop_all` leaves three things without the command README.md:163 of the
dapo-nemo-rl recipe promises is stated in `NothingLeft` (see above) and has no run of
its own.

## Proofs

`SandboxPoolProofs` proves for every finite set of callers, every size, every
number of retries and of faults:

* `TypeCorrect`, with the bounds of the retry counters;
* `SlotsAlwaysConserved`: `slots + |Holders| = Size`;
* `LeasesExclusive`;
* `CeilingHolds`, under the assumption `~PrewarmCancellable` (finding 1 is the
  other case);
* `HandlesAlwaysRegistered` and `ClosedPoolStaysEmpty`;
* `LeaksAreFaults`, under the same assumption: sandboxes unknown to the pool are never
  more than the cancelled awaits of a provision and the failed stops together.

None of the last five is inductive. The invariant behind them is
`IInv == TypeInv /\ PhaseInv /\ SlotsConserved /\ HandleInv /\ Capacity /\ LiveInv`:

* `PhaseInv` ties the counters and `held` to `pc`: who is in which await has a
  handle, or none;
* `HandleInv` says that a handle is in one place only: one coroutine, or one
  position of the idle stack;
* `Capacity` bounds the idle stack by the free slots. It is what makes the ceiling
  true: a sandbox is created only by a coroutine that has a slot and found the
  stack empty, or by one of the missing children of `prewarm`;
* `LiveInv` says where each registered handle is, and that one which is idle, lent
  or reset is registered and not being stopped.

`Inductive` is `Spec => []IInv`; below it there is one lemma per conjunct, with one
step per action. `LeakInv`, next to it, counts the sandboxes that nothing in the
pool accounts for against the faults there have been: each step is shown to add at
most one, and only when it counts a fault. `ImplementsLeases` uses `IInv` to map
each step to a step of `LeasePool` or a stutter. The proofs assume only the named
`ASSUME`s of `SandboxPool`.

`K3sClusterProofs` proves every safety property of `K3sCluster`'s run for any number
of server identities, workers and interruptions:

* `OnlyOneControlPlane`. `OneControlPlane` is not inductive: it says nothing of
  what an interrupted command left behind. `IInv` adds what each step may rely on
  (`StepInv`: when a server is about to be created none runs), and that the file's
  server, if it has one and no restore has begun, is the only one that can be
  running (`ServerInv`). An interrupted `up` cannot be repeated because the file
  exists, an interrupted `restore` because its phase was saved first.
* `RunningAlwaysRecorded`, by counting: `RInv` says that the running sandboxes the
  file does not name, apart from the one about to be recorded, are at most the
  interruptions. It needs `IInv`, because recording a restored server makes the
  file forget the original, which must not be running then.
* `TypeCorrect`. That a new worker has a number within the bound is a count:
  `next_worker` only grows, and `scale` asks for no more than are left (`FitInv`);
  that a restore finds a second server's identity unused is `UsedInv`. Together with
  `IInv` these are `Sound == IInv /\ BaseInv /\ MemberInv /\ FitInv`, which says for
  each step of each command what it is about (`CommandInv`, `NodeInv`) and how far
  adding a worker has come (`MemberInv`).
* `DrainsBeforeDeletes` and `RemovedAreGone`. What the file records of a removal is
  true of the databases (`Truthful`), for every worker of which no restore and no
  operator has undone it. `restore` replaces the databases, so that the checkpoint
  must be truthful too: it has nobody who is not in the manifest, and it is restored
  only while the members are the manifest's (`StagedInv`, recovery.py:159). A
  snapshot cut short while it copies the databases leaves the phase "preparing",
  which no restore accepts. `Honest` is the conjunction, proved with `Sound`.
* `GoneAfterDown`, the same with `DownInv`: while `down` runs, the nodes it has come
  past are stopped, workers from the last to the first and then the server, so that
  the file is archived only when all are (`DownInv`), and a snapshot is never without
  a recorded source that makes `down` delete it (`SnapInv`).

`down` goes from one worker to the greatest below it. That a set of workers has a
greatest member (`GreatestExists`) is an induction, done on the well-founded order
of finite sets. The proofs assume `ClusterAssumption` only: finitely many
identities for servers, two at least, as the code creates one for `up` and one for
`restore`, with a limit on workers and interruptions which may be any number.

`TauEpisodeProofs` proves for any number of episodes, turns, resets and tokens:

* `TypeCorrect` and `GradesOnce`, whichever awaits may be cancelled;
* `SamplesAligned`: ids, mask and log-probabilities of a sample agree;
* `SamplesSound` and `HistoriesKept` under `"stepping" \notin CancelAt` (finding 3
  is the other case).

The last two say what the tool, the server and the simulator have in common only
when no request is under way. The invariant says it always: `Has(h)` is "the server
has the history h of this episode, ungraded, or graded on just h"; while a `/step`
is under way and unserved h is one action short of what was posted, and after it
was served it is all (`StepInv`, `RecordInv`). A request that its caller gave up on
may still be served. It does no harm if it is a `/reward`, because grading on the
whole history is idempotent (`RewardKeeps`), and there is no old `/step` because a
`/step` that failed gives up the sandbox (`StepInv`), nor an old `/reset` because a
reset that failed does (`LoadedInv`). `TokenInv` and `TalkInv` are independent of it.

`WarmPoolProofs` proves `TypeCorrect`, `EntriesOwnedOnce`, `ClosedIsClean` and
`TotalIsBounded` for any number of workers, claims and permits. An entry belongs to
its worker until a claim takes it out of the deque, and the `claimed` flag says
which (`WorkerInv`, `ClaimInv`, `DequeInv`); every sandbox somebody must still stop
has such an owner (`OwnerInv`); permits and admitted claims add up (`PermitInv`).
The bound on the total is then a count of owners.

`CheckpointUploadProofs` proves `PublishedIsWhole` and `SuccessPersists` (of a script
that had the credentials and a checkpoint directory) for any number of steps, shards
and runs: only steps that are whole on the disk are queued,
such a step is not written again in the same life of the disk, so what the bucket
has of it is what the disk has, and the uploader goes past the shards only when all
are there. `TrainingRunProofs` maps each step of `TrainingRun` to a step of
`CheckpointUpload` or none, so that the same invariant holds, and adds what the
launcher knows (`LaunchInv`) and what its sweep has seen (`SweepInv`). `LaunchPersists`
says of a launch that returned 0 without an exit code only that the script ended.

`ClaudeCloudProofs` proves the four properties of the run and `TypeCorrect` for any
orders, hooks and limit. The lock makes the hooks one after the other (`LockInv`);
record and token follow the hook at work (`OrderInv`); the host has one life
(`HostInv`); workers somebody waits for come up one at a time (`LimitInv`).

`DapoRunProofs` proves about `DapoRun`, and so about the `WeightSync` in it, for any
ranks, replicas, tensors, optimizer steps and shards of the model:

* `ServesPolicy` and `PublishesWhole`. `WeightInv` follows one version of the
  weights: how many versions there were against how many optimizer steps
  (`CountInv`), which of them each replica serves in each phase (`ReplicaInv`), and
  that a snapshot which is not the one before the upcoming was made of the last
  weights (`HoldInv`). `StageInv` does this for the base model, on which the
  deployment starts; `ExportInv` says that only a whole export is published.
* `NeverBlocked`: in an export that is not over, the rank that is furthest behind
  is at a collective that every rank comes to. That the export also ends is liveness
  and is checked (`ExportEnds`).
* `LeavesNothing`. `OrderInv` says what the launcher must have learnt by the time
  something else exists: a job needs the key, objects need the job. `KnownInv` says
  which IDs it has and what `unsaid` can be at each step. `LeftInv` says, for each
  step of `stop_all` that is past, that what it deletes is gone or is excused: never
  named by an answer, created after the step, missed by it with a command printed, or
  one of the three in `unsaid`.

They assume `SyncAssumption` only.

Only model-checked:

* liveness: `AcquireResolves`, `CloseSettles`, `EpisodeEnds`, `ClaimResolves`,
  `PoolCloses`, `Replenishes`, `DownCompletes`, `ExportEnds`, and `ImplementsLeasePool`
  as far as it includes the fairness of `LeasePool` (`ImplementsLeases` is its safety
  part). TLAPS has neither ENABLED nor the induction over behaviours they need;
* the findings, which are counterexamples. With the cancellation that causes them
  excluded, `LiveCeiling` and the agreement of histories are proved; `OwnReward` and
  `ScaleDownRemoves` are false whatever the bounds.

## Plan

Order of work, the most important behaviour first; all of it is in place but the
last point.

1. `LeasePool`, `SandboxPool`, their proofs and the refinement.
2. `TauEpisode` with its trajectory and dialogue, and its proofs.
3. `WarmPool` and its proofs.
4. `K3sCluster` and its proofs.
5. `CheckpointUpload` and `TrainingRun`, their proofs, the first carried over to the
   composition.
6. `ClaudeCloud` and its proofs.
7. `WeightSync` and `DapoRun`, and their proofs.
8. The pool of grading sandboxes in `gym_env`, which puts a sandbox back in whatever
   state it is (`app.py:122-123`; a dead one is not replaced), and the journal and event cursor of openai-agents-api.

## Not modelled

* **openai-agents-api**: a sequential client of one remote session and one sandbox,
  found again by the tag its journal names beforehand. The one concurrent part is
  the reader thread behind `events_until`. It comes after the recipes that run
  concurrently.
* **github-actions, deepswe, tailcat**: straight-line scripts around one sandbox,
  stopped in a `finally`.
* **Scripts, datasets, configuration, notebooks, `_template`**: input and output.
* Parts of modelled components are named above, and per part in `PROJECT.json`.
