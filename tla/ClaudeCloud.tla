---------------------------- MODULE ClaudeCloud ----------------------------
(***************************************************************************)
(* One deployment of the claude-code-cloud recipe (cloud.py).  An operator  *)
(* deploys a sandbox that hosts the Claude orchestrator, asks for its       *)
(* status and stops it; the orchestrator hands each work order to a hook,   *)
(* which creates a worker sandbox with the order's one-use token.           *)
(*                                                                         *)
(* A creation is not idempotent and its answer may be lost: whoever asks    *)
(* for one writes down first that it will.  A process may be killed between *)
(* any two steps, and what it asked for may still come into being.          *)
(*                                                                         *)
(* Definitions whose comment starts with "Bug:" are not part of the         *)
(* specification.                                                          *)
(***************************************************************************)
EXTENDS Naturals, FiniteSets

CONSTANTS
  Orders,       \* work orders, each with its token
  Hooks,        \* hook processes: one at a time, unless the orchestrator is restarted
  MaxWorkers,   \* --max-workers
  None

ASSUME CloudAssumption ==
  /\ IsFiniteSet(Orders) /\ IsFiniteSet(Hooks) /\ MaxWorkers \in Nat \ {0} /\ None \notin Orders \cup Hooks

VARIABLES
  file,       \* .deployment.json: "none", "written", "named" (with a sandbox ID)
  op,         \* the locked command: "prompt", "submitting", "naming", "connecting",
              \* "stopping", "waiting", "listing", "clearing"
  found,      \* the workers `stop` listed and has not stopped
  status,     \* an unlocked `status`: "out", or "adopting" a file without an ID
  host,       \* the orchestrator's sandbox: "none", "asked", "up", "stopping", "gone"
  hosts,      \* creations of it submitted
  stopped,    \* `stop` has succeeded
  lock,       \* the hook that has spawn.lock
  hook,       \* a hook: "out", "waiting", "deciding", "claiming", "submitting", "naming"
  order,      \* its order
  record,     \* orders/<order>.json: "none", "written", "named"
  worker,     \* its sandbox: "none", "asked", "up", "gone"
  tokens,     \* how often each token was submitted
  acked,      \* orders for which a hook exited with 0
  late        \* history: orders whose sandbox came up when their hook was over

operator == <<file, op, found, status, stopped>>
hookvars == <<lock, hook, order, record, acked>>
vars == <<operator, host, hosts, hookvars, worker, tokens, late>>

Init ==
  /\ file = "none" /\ op = "prompt" /\ found = {} /\ status = "out" /\ stopped = FALSE
  /\ host = "none" /\ hosts = 0
  /\ lock = None /\ hook = [h \in Hooks |-> "out"] /\ order = [h \in Hooks |-> None]
  /\ record = [o \in Orders |-> "none"] /\ worker = [o \in Orders |-> "none"]
  /\ tokens = [o \in Orders |-> 0] /\ acked = {} /\ late = {}

Up == {o \in Orders : worker[o] = "up"}

-----------------------------------------------------------------------------
(* spawn(): a hook runs in the host and dies with it. *)

Runs == host \in {"up", "stopping"}
At(h, from) == Runs /\ hook[h] = from
Becomes(h, at) == hook' = [hook EXCEPT ![h] = at]
Exits(h) ==
  /\ Becomes(h, "out") /\ order' = [order EXCEPT ![h] = None]
  /\ lock' = IF lock = h THEN None ELSE lock

(* The orchestrator runs the hook for an order, or once more for one that it    *)
(* has not been told is done.                                                   *)
HookStarts(h, o) ==
  /\ At(h, "out") /\ Becomes(h, "waiting") /\ order' = [order EXCEPT ![h] = o]
  /\ UNCHANGED <<operator, host, hosts, lock, record, acked, worker, tokens, late>>

(* Bug: the hook does not wait for the lock. *)
HookLocksAtOnce(h) ==
  /\ At(h, "waiting")
  /\ IF record[order[h]] = "none"
       THEN lock' = h /\ Becomes(h, "deciding") /\ UNCHANGED <<order, acked>>
       ELSE /\ Exits(h)
            /\ acked' = IF record[order[h]] = "named" THEN acked \cup {order[h]} ELSE acked
  /\ UNCHANGED <<operator, host, hosts, record, worker, tokens, late>>

(* flock(); then an order on record is not submitted again: 0 if its sandbox is *)
(* known, else 2.                                                               *)
HookLocks(h) ==
  /\ At(h, "waiting") /\ lock = None
  /\ IF record[order[h]] = "none"
       THEN lock' = h /\ Becomes(h, "deciding") /\ UNCHANGED <<order, acked>>
       ELSE /\ Exits(h)
            /\ acked' = IF record[order[h]] = "named" THEN acked \cup {order[h]} ELSE acked
  /\ UNCHANGED <<operator, host, hosts, record, worker, tokens, late>>

(* The workers are listed: at the limit, or if that fails, 1: retry later. *)
HookDecides(h) ==
  /\ At(h, "deciding")
  /\ \/ Cardinality(Up) < MaxWorkers /\ Becomes(h, "claiming") /\ UNCHANGED <<order, lock>>
     \/ Exits(h)
  /\ UNCHANGED <<operator, host, hosts, record, acked, worker, tokens, late>>

(* save(record, ...), before *)
HookClaims(h) ==
  /\ At(h, "claiming") /\ Becomes(h, "submitting")
  /\ record' = [record EXCEPT ![order[h]] = "written"]
  /\ UNCHANGED <<operator, host, hosts, lock, order, acked, worker, tokens, late>>

(* run_box() submits the token. *)
HookSubmits(h) ==
  /\ At(h, "submitting") /\ Becomes(h, "naming")
  /\ tokens' = [tokens EXCEPT ![order[h]] = @ + 1]
  /\ worker' = [worker EXCEPT ![order[h]] = "asked"]
  /\ UNCHANGED <<operator, host, hosts, lock, order, record, acked, late>>

(* It answers, and the ID is saved: 0. *)
HookNames(h) ==
  /\ At(h, "naming") /\ worker[order[h]] \in {"up", "gone"}
  /\ record' = [record EXCEPT ![order[h]] = "named"] /\ acked' = acked \cup {order[h]}
  /\ Exits(h)
  /\ UNCHANGED <<operator, host, hosts, worker, tokens, late>>

(* Bug: what raised is retried: the order's record goes. *)
HookEndsForgets(h) ==
  /\ Runs /\ hook[h] # "out" /\ Exits(h)
  /\ record' = IF hook[h] = "naming" THEN [record EXCEPT ![order[h]] = "none"] ELSE record
  /\ UNCHANGED <<operator, host, hosts, acked, worker, tokens, late>>

(* It raises, although the API may have accepted the request: 2.  Or the hook   *)
(* is killed, by its time-out or with the orchestrator.                         *)
HookEnds(h) ==
  /\ Runs /\ hook[h] # "out" /\ Exits(h)
  /\ UNCHANGED <<operator, host, hosts, record, acked, worker, tokens, late>>

HookStep(h) ==
  \/ HookLocks(h) \/ HookDecides(h) \/ HookClaims(h) \/ HookSubmits(h) \/ HookNames(h)
  \/ HookEnds(h) \/ \E o \in Orders : HookStarts(h, o)

-----------------------------------------------------------------------------
(* The sandboxes. *)

WorkerComes(o) ==
  /\ worker[o] = "asked" /\ worker' = [worker EXCEPT ![o] = "up"]
  /\ late' = IF \E h \in Hooks : hook[h] = "naming" /\ order[h] = o THEN late ELSE late \cup {o}
  /\ UNCHANGED <<operator, host, hosts, hookvars, tokens>>

WorkerNeverComes(o) ==
  /\ worker[o] = "asked" /\ worker' = [worker EXCEPT ![o] = "none"]
  /\ UNCHANGED <<operator, host, hosts, hookvars, tokens, late>>

(* It has been idle, has reached its lifetime or crashes. *)
WorkerEnds(o) ==
  /\ worker[o] = "up" /\ worker' = [worker EXCEPT ![o] = "gone"]
  /\ UNCHANGED <<operator, host, hosts, hookvars, tokens, late>>

HostComes ==
  /\ host = "asked" /\ host' \in {"up", "none"}
  /\ UNCHANGED <<operator, hosts, hookvars, worker, tokens, late>>

(* The host stops, crashes or reaches its lifetime; its hooks die with it. *)
HostEnds ==
  /\ host \in {"up", "stopping"} /\ host' = "gone"
  /\ hook' = [h \in Hooks |-> "out"] /\ order' = [h \in Hooks |-> None] /\ lock' = None
  /\ UNCHANGED <<operator, hosts, record, acked, worker, tokens, late>>

-----------------------------------------------------------------------------
(* The operator's commands; deploy and stop exclude each other by a file lock.  *)

Goes(from, to) == op = from /\ op' = to

(* Bug: deploy() submits again where there is a record without an ID. *)
DeployAgain ==
  /\ Goes("prompt", "submitting") /\ file # "named" /\ ~stopped
  /\ file' = "written"
  /\ UNCHANGED <<found, status, stopped, host, hosts, hookvars, worker, tokens, late>>

(* deploy() refuses if there is a record, and writes one before it submits. *)
Deploy ==
  /\ Goes("prompt", "submitting") /\ file = "none" /\ ~stopped
  /\ file' = "written"
  /\ UNCHANGED <<found, status, stopped, host, hosts, hookvars, worker, tokens, late>>

SubmitHost ==
  /\ Goes("submitting", "naming") /\ hosts' = hosts + 1
  /\ host' = IF host = "none" THEN "asked" ELSE host
  /\ UNCHANGED <<file, found, status, stopped, hookvars, worker, tokens, late>>

NameHost ==
  /\ Goes("naming", "connecting") /\ host \notin {"none", "asked"} /\ file' = "named"
  /\ UNCHANGED <<found, status, stopped, host, hosts, hookvars, worker, tokens, late>>

Connected ==
  /\ Goes("connecting", "prompt")
  /\ UNCHANGED <<file, found, status, stopped, host, hosts, hookvars, worker, tokens, late>>

(* deployment(): a record without an ID adopts the only host the tag has. *)
Adoptable == host \in {"up", "stopping"} /\ hosts = 1

(* Bug: a record without an ID and no host to adopt: nothing to stop. *)
StopUncertain ==
  /\ op = "prompt"
  /\ \/ file = "named" /\ op' = "stopping" /\ UNCHANGED file
     \/ file = "written" /\ Adoptable /\ op' = "stopping" /\ file' = "named"
     \/ file = "written" /\ ~Adoptable /\ op' = "listing" /\ UNCHANGED file
  /\ UNCHANGED <<found, status, stopped, host, hosts, hookvars, worker, tokens, late>>

(* stop(): the host is stopped, *)
Stop ==
  /\ Goes("prompt", "stopping")
  /\ \/ file = "named" /\ UNCHANGED file
     \/ file = "written" /\ Adoptable /\ file' = "named"
  /\ UNCHANGED <<found, status, stopped, host, hosts, hookvars, worker, tokens, late>>

StopHost ==
  /\ Goes("stopping", "waiting")
  /\ host' = IF host = "up" THEN "stopping" ELSE host
  /\ UNCHANGED <<file, found, status, stopped, hosts, hookvars, worker, tokens, late>>

(* and has stopped before its workers are listed, *)
HostStopped ==
  /\ Goes("waiting", "listing") /\ host = "gone"
  /\ UNCHANGED <<file, found, status, stopped, host, hosts, hookvars, worker, tokens, late>>

ListWorkers ==
  /\ Goes("listing", "clearing") /\ found' = Up
  /\ UNCHANGED <<file, status, stopped, host, hosts, hookvars, worker, tokens, late>>

StopWorker(o) ==
  /\ op = "clearing" /\ o \in found
  /\ found' = found \ {o}
  /\ worker' = [worker EXCEPT ![o] = IF @ = "up" THEN "gone" ELSE @]
  /\ UNCHANGED <<file, op, status, stopped, host, hosts, hookvars, tokens, late>>

(* and nothing with the tag is left when the record goes. *)
Unlink ==
  /\ op = "clearing" /\ found = {} /\ op' = "prompt"
  /\ Up = {} /\ ~Runs
  /\ file' = "none" /\ stopped' = TRUE
  /\ UNCHANGED <<found, status, host, hosts, hookvars, worker, tokens, late>>

(* An error, a time-out or Ctrl-C; also a check that finds something left. *)
OpFails ==
  /\ op # "prompt" /\ op' = "prompt" /\ found' = {}
  /\ UNCHANGED <<file, status, stopped, host, hosts, hookvars, worker, tokens, late>>

(* status, logs and read take no lock: what they read may be out of date when   *)
(* they save the host they adopt.                                               *)
StatusAdopts ==
  /\ status = "out" /\ file = "written" /\ Adoptable /\ status' = "adopting"
  /\ UNCHANGED <<file, op, found, stopped, host, hosts, hookvars, worker, tokens, late>>

StatusSaves ==
  /\ status = "adopting" /\ status' = "out" /\ file' \in {file, "named"}
  /\ UNCHANGED <<op, found, stopped, host, hosts, hookvars, worker, tokens, late>>

OpStep ==
  \/ Deploy \/ SubmitHost \/ NameHost \/ Connected \/ Stop \/ StopHost \/ HostStopped
  \/ ListWorkers \/ Unlink \/ OpFails \/ StatusAdopts \/ StatusSaves
  \/ \E o \in Orders : StopWorker(o)

Next ==
  \/ OpStep \/ HostComes \/ HostEnds
  \/ \E h \in Hooks : HookStep(h)
  \/ \E o \in Orders : WorkerComes(o) \/ WorkerNeverComes(o) \/ WorkerEnds(o)

Spec == Init /\ [][Next]_vars

-----------------------------------------------------------------------------
TypeOK ==
  /\ file \in {"none", "written", "named"}
  /\ op \in {"prompt", "submitting", "naming", "connecting", "stopping", "waiting", "listing", "clearing"}
  /\ found \subseteq Orders /\ status \in {"out", "adopting"} /\ stopped \in BOOLEAN
  /\ host \in {"none", "asked", "up", "stopping", "gone"} /\ hosts \in Nat
  /\ lock \in Hooks \cup {None}
  /\ hook \in [Hooks -> {"out", "waiting", "deciding", "claiming", "submitting", "naming"}]
  /\ order \in [Hooks -> Orders \cup {None}]
  /\ record \in [Orders -> {"none", "written", "named"}]
  /\ worker \in [Orders -> {"none", "asked", "up", "gone"}]
  /\ tokens \in [Orders -> Nat] /\ acked \subseteq Orders /\ late \subseteq Orders

(* However deploy is killed, repeated or left without an answer, it creates one  *)
(* orchestrator ("do not redeploy blindly", cloud.py:188), and none that runs or *)
(* may still come is without a record by which stop can find it.                *)
DeployedOnce == hosts <= 1 /\ (Runs \/ host = "asked" => file # "none")

(* "Never replay the one-use token" (cloud.py:130): whatever is killed, repeated *)
(* or uncertain, and with two hooks at the same order, its token is submitted at *)
(* most once, and the orchestrator is told that it was only if it was.           *)
TokenOnce ==
  \A o \in Orders : tokens[o] <= 1 /\ (o \in acked => tokens[o] = 1 /\ record[o] = "named")

(* --max-workers bounds the workers that are up, but for those whose creation   *)
(* took effect when their hook had given it up: nobody waits for these, and the *)
(* listing another hook decides on does not have them yet.                      *)
WorkerLimit == Cardinality(Up \ late) <= MaxWorkers

(* "Stopped orchestrator and workers; removed local deployment record"          *)
(* (cloud.py:295): no host is left that might create workers, and no worker but *)
(* one whose creation took effect after its hook and the last listing.          *)
StoppedIsClean == stopped => ~Runs /\ host # "asked" /\ Up \subseteq late
=============================================================================
