------------------------------ MODULE WarmPool ------------------------------
(***************************************************************************)
(* WarmPool of the warm-pool recipe (warm_pool.py): `size` worker tasks     *)
(* keep one clean sandbox each ready, at most `concurrency` claims take one *)
(* and never put it back.                                                  *)
(*                                                                         *)
(* One asyncio event loop runs everything; an action is what a task does    *)
(* between two awaits.  No task keeps `changed` over an await other than    *)
(* the condition's own, so an `async with self.changed` block is one step   *)
(* with the code around it.                                                *)
(*                                                                         *)
(* Definitions whose comment starts with "Bug:" are not part of the         *)
(* specification.                                                          *)
(***************************************************************************)
EXTENDS Naturals, FiniteSets, SequencesExt

CONSTANTS
  Workers,          \* the tasks in self.workers: `size` of them
  Claims,           \* callers of claim()
  Concurrency,      \* the semaphore `admission`
  PrepareAttempts,  \* PREPARE_ATTEMPTS
  Sandboxes,        \* identities, used again once nobody refers to them
  MaxFaults,        \* bound on stops that fail or are cancelled
  None

ASSUME PoolAssumption ==
  /\ IsFiniteSet(Workers) /\ Workers # {} /\ IsFiniteSet(Claims)
  /\ {Concurrency, PrepareAttempts} \subseteq Nat \ {0} /\ MaxFaults \in Nat
  /\ None \notin Sandboxes

VARIABLES
  worker,     \* the await each worker is in
  mine,       \* its entry
  flags,      \* of its entry: "claimed", "woken" (`wake` is set), "old" (MAX_CLAIM_AGE_SECONDS)
  attempt,    \* _prepare_slot's attempt, from 1; 0 outside it
  claim,      \* the await each claim is in
  got,        \* its entry
  permits,    \* the semaphore's value
  available,  \* the deque, oldest first
  pool,       \* the context: "out", "entering", "open", "closing", "closed"
  error,      \* self.error is set
  sandbox,    \* "gone", "creating", "up", "stopping", "lost" (stop failed or given up)
  faults

tasks == <<worker, mine, flags, attempt>>
claims == <<claim, got, permits>>
vars == <<tasks, claims, available, pool, error, sandbox, faults>>

WorkerPCs == {"off", "spawned", "preparing", "unwinding", "backoff", "idle",
              "retiring", "expiring", "discarding", "ended"}
ClaimPCs == {"out", "queued", "waiting", "probing", "using", "recycling", "leaving"}

closing == pool \in {"closing", "closed"}

Init ==
  /\ worker = [w \in Workers |-> "off"] /\ mine = [w \in Workers |-> None]
  /\ attempt = [w \in Workers |-> 0]
  /\ claim = [c \in Claims |-> "out"] /\ got = [c \in Claims |-> None]
  /\ permits = Concurrency
  /\ available = <<>>
  /\ flags = [w \in Workers |-> {}]
  /\ pool = "out" /\ error = FALSE
  /\ sandbox = [s \in Sandboxes |-> "gone"]
  /\ faults = 0

Fault == faults < MaxFaults /\ faults' = faults + 1

Referred == Range(mine) \cup Range(got)
Fresh(s) == sandbox[s] = "gone" /\ s \notin Referred

(* `await sandbox.stop(missing_ok=True)` begins, and is over. *)
BeginStop(s) == sandbox' = [sandbox EXCEPT ![s] = IF @ = "up" THEN "stopping" ELSE @]
Stopped(s) == sandbox[s] = "gone"
StopRaised(s) == sandbox[s] = "lost"

-----------------------------------------------------------------------------
(* A worker: _maintain_slot, _prepare_slot and prepare. *)

Moves(w, to) == worker' = [worker EXCEPT ![w] = to]

Ends(w) ==
  /\ Moves(w, "ended")
  /\ mine' = [mine EXCEPT ![w] = None] /\ flags' = [flags EXCEPT ![w] = {}]
  /\ attempt' = [attempt EXCEPT ![w] = 0]

(* `except Exception`: the error is for every claim to see. *)
EndsInError(w) == Ends(w) /\ error' = TRUE

(* The head of the loops: nothing is created once the pool is closing. *)
Prepare(w, n) ==
  \/ /\ closing
     /\ Ends(w)
     /\ UNCHANGED sandbox
  \/ /\ ~closing
     /\ \E s \in Sandboxes :
          /\ Fresh(s)
          /\ mine' = [mine EXCEPT ![w] = s]
          /\ sandbox' = [sandbox EXCEPT ![s] = "creating"]
     /\ flags' = [flags EXCEPT ![w] = {}]
     /\ attempt' = [attempt EXCEPT ![w] = n]
     /\ Moves(w, "preparing")

Begin(w) ==
  /\ worker[w] = "spawned"
  /\ Prepare(w, 1)
  /\ UNCHANGED <<claims, available, pool, error, faults>>

(* Bug: a sandbox that is ready when the pool closes is forgotten. *)
PreparedDrops(w) ==
  /\ worker[w] = "preparing" /\ sandbox[mine[w]] = "up"
  /\ \/ /\ closing
        /\ Ends(w)
        /\ UNCHANGED available
     \/ /\ ~closing
        /\ available' = Append(available, mine[w])
        /\ attempt' = [attempt EXCEPT ![w] = 0]
        /\ Moves(w, "idle")
        /\ UNCHANGED <<mine, flags>>
  /\ UNCHANGED <<claims, pool, error, sandbox, faults>>

(* The probe succeeded: the entry becomes available, unless it is too late. *)
Prepared(w) ==
  /\ worker[w] = "preparing" /\ sandbox[mine[w]] = "up"
  /\ attempt' = [attempt EXCEPT ![w] = 0]
  /\ \/ /\ closing
        /\ BeginStop(mine[w]) /\ Moves(w, "discarding")
        /\ UNCHANGED available
     \/ /\ ~closing /\ "old" \in flags[w]
        /\ BeginStop(mine[w]) /\ Moves(w, "expiring")
        /\ UNCHANGED available
     \/ /\ ~closing /\ "old" \notin flags[w]
        /\ available' = Append(available, mine[w])
        /\ Moves(w, "idle")
        /\ UNCHANGED sandbox
  /\ UNCHANGED <<mine, flags, claims, pool, error, faults>>

(* Creation or the probe failed; what there is of the sandbox is stopped. *)
PrepareFails(w) ==
  /\ worker[w] = "preparing" /\ sandbox[mine[w]] \in {"gone", "up"}
  /\ BeginStop(mine[w])
  /\ Moves(w, "unwinding")
  /\ UNCHANGED <<mine, flags, attempt, claims, available, pool, error, faults>>

(* A retryable failure with attempts left waits and tries again; any other, or  *)
(* a stop that could not be confirmed, ends the worker.                       *)
Unwound(w) ==
  /\ worker[w] = "unwinding"
  /\ \/ /\ Stopped(mine[w]) /\ attempt[w] < PrepareAttempts
        /\ Moves(w, "backoff")
        /\ mine' = [mine EXCEPT ![w] = None] /\ flags' = [flags EXCEPT ![w] = {}]
        /\ UNCHANGED <<attempt, error>>
     \/ /\ Stopped(mine[w]) \/ StopRaised(mine[w])
        /\ EndsInError(w)
  /\ UNCHANGED <<claims, available, pool, sandbox, faults>>

(* The delay is over, or the pool is closing. *)
BackoffOver(w) ==
  /\ worker[w] = "backoff"
  /\ Prepare(w, attempt[w] + 1)
  /\ UNCHANGED <<claims, available, pool, error, faults>>

(* Bug: the entry is retired although a claim woke the worker. *)
WakesUnchecked(w) ==
  /\ worker[w] = "idle" /\ flags[w] # {}
  /\ available' = SelectSeq(available, LAMBDA s : s # mine[w])
  /\ BeginStop(mine[w]) /\ Moves(w, "retiring")
  /\ UNCHANGED <<mine, flags, attempt, claims, pool, error, faults>>

(* Bug: the worker returns once its entry was claimed. *)
WakesOnce(w) ==
  /\ worker[w] = "idle" /\ flags[w] # {}
  /\ \/ /\ "claimed" \in flags[w]
        /\ Ends(w)
        /\ UNCHANGED <<available, sandbox>>
     \/ /\ "claimed" \notin flags[w]
        /\ \E i \in DOMAIN available :
             available[i] = mine[w] /\ available' = RemoveAt(available, i)
        /\ BeginStop(mine[w]) /\ Moves(w, "retiring")
        /\ UNCHANGED <<mine, flags, attempt>>
  /\ UNCHANGED <<claims, pool, error, faults>>

(* wait_for(entry.wake.wait()) ends: claimed, closing, or at the age limit.    *)
(* remove() takes an entry that is there, as OwnedOnce says it always is.      *)
Wakes(w) ==
  /\ worker[w] = "idle" /\ flags[w] # {}
  /\ \/ /\ "claimed" \in flags[w]
        /\ Prepare(w, 1)
        /\ UNCHANGED available
     \/ /\ "claimed" \notin flags[w]
        /\ \E i \in DOMAIN available :
             available[i] = mine[w] /\ available' = RemoveAt(available, i)
        /\ BeginStop(mine[w]) /\ Moves(w, "retiring")
        /\ UNCHANGED <<mine, flags, attempt>>
  /\ UNCHANGED <<claims, pool, error, faults>>

(* The worker's own stop is over. *)
Discarded(w) ==
  /\ worker[w] \in {"retiring", "discarding", "expiring"}
  /\ \/ /\ Stopped(mine[w]) /\ worker[w] = "retiring"
        /\ Prepare(w, 1)
        /\ UNCHANGED error
     \/ /\ Stopped(mine[w]) /\ worker[w] = "discarding"
        /\ Ends(w)
        /\ UNCHANGED <<error, sandbox>>
     \/ /\ StopRaised(mine[w]) \/ (Stopped(mine[w]) /\ worker[w] = "expiring")
        /\ EndsInError(w)
        /\ UNCHANGED sandbox
  /\ UNCHANGED <<claims, available, pool, faults>>

-----------------------------------------------------------------------------
(* claim(). *)

(* An entry's flags, kept with the worker that waits on it. *)
Owners(s) == {w \in Workers : worker[w] = "idle" /\ mine[w] = s}
Flags(s) == UNION {flags[w] : w \in Owners(s)}
Flag(s, set) ==
  flags' = [w \in Workers |-> IF w \in Owners(s) THEN flags[w] \cup set ELSE flags[w]]

Goes(c, to) == claim' = [claim EXCEPT ![c] = to]

(* The context manager exits: the permit comes back. *)
Leaves(c) ==
  /\ Goes(c, "out")
  /\ got' = [got EXCEPT ![c] = None]
  /\ permits' = permits + 1

Ask(c) ==
  /\ claim[c] = "out" /\ pool \in {"open", "closing", "closed"}
  /\ Goes(c, "queued")
  /\ UNCHANGED <<tasks, got, permits, available, pool, error, sandbox, faults>>

(* Bug: every claim is admitted. *)
AdmitAll(c) ==
  /\ claim[c] = "queued"
  /\ permits' = IF permits > 0 THEN permits - 1 ELSE 0
  /\ Goes(c, "waiting")
  /\ UNCHANGED <<tasks, got, available, pool, error, sandbox, faults>>

Admit(c) ==
  /\ claim[c] = "queued" /\ permits > 0
  /\ permits' = permits - 1
  /\ Goes(c, "waiting")
  /\ UNCHANGED <<tasks, got, available, pool, error, sandbox, faults>>

(* The pool has failed or is closing. *)
Refused(c) ==
  /\ claim[c] = "waiting" /\ (error \/ closing)
  /\ Leaves(c)
  /\ UNCHANGED <<tasks, available, pool, error, sandbox, faults>>

(* The oldest entry; one that is too old is stopped and another one taken. *)
Take(c) ==
  /\ claim[c] = "waiting" /\ ~error /\ ~closing /\ available # <<>>
  /\ got' = [got EXCEPT ![c] = Head(available)]
  /\ available' = Tail(available)
  /\ Flag(Head(available), {"claimed", "woken"})
  /\ IF "old" \in Flags(Head(available))
     THEN BeginStop(Head(available)) /\ Goes(c, "recycling")
     ELSE Goes(c, "probing") /\ UNCHANGED sandbox
  /\ UNCHANGED <<worker, mine, attempt, permits, pool, error, faults>>

(* The probe, and then the workload. *)
Probed(c) ==
  /\ claim[c] = "probing" /\ sandbox[got[c]] = "up"
  /\ Goes(c, "using")
  /\ UNCHANGED <<tasks, got, permits, available, pool, error, sandbox, faults>>

(* The `finally`, after a failed probe, the workload's end or a cancellation. *)
StopsUsing(c) ==
  /\ claim[c] \in {"probing", "using"}
  /\ BeginStop(got[c])
  /\ Goes(c, "leaving")
  /\ UNCHANGED <<tasks, got, permits, available, pool, error, faults>>

(* Bug: the permit is kept. *)
ReleasedKeepsPermit(c) ==
  /\ claim[c] \in {"recycling", "leaving"} /\ (Stopped(got[c]) \/ StopRaised(got[c]))
  /\ got' = [got EXCEPT ![c] = None]
  /\ Goes(c, IF claim[c] = "recycling" /\ Stopped(got[c]) THEN "waiting" ELSE "out")
  /\ UNCHANGED <<tasks, permits, available, pool, error, sandbox, faults>>

(* Bug: the permit is given back for an entry that is too old, and the claim   *)
(* goes on.                                                                  *)
ReleasedEachTime(c) ==
  /\ claim[c] \in {"recycling", "leaving"} /\ (Stopped(got[c]) \/ StopRaised(got[c]))
  /\ got' = [got EXCEPT ![c] = None] /\ permits' = permits + 1
  /\ Goes(c, IF claim[c] = "recycling" /\ Stopped(got[c]) THEN "waiting" ELSE "out")
  /\ UNCHANGED <<tasks, available, pool, error, sandbox, faults>>

(* Its stop is over, or raised. *)
Released(c) ==
  /\ \/ /\ claim[c] = "recycling" /\ Stopped(got[c])
        /\ Goes(c, "waiting")
        /\ got' = [got EXCEPT ![c] = None]
        /\ UNCHANGED permits
     \/ /\ \/ claim[c] = "leaving" /\ Stopped(got[c])
           \/ claim[c] \in {"recycling", "leaving"} /\ StopRaised(got[c])
        /\ Leaves(c)
  /\ UNCHANGED <<tasks, available, pool, error, sandbox, faults>>

CancelWait(c) ==
  /\ claim[c] \in {"queued", "waiting"}
  /\ IF claim[c] = "waiting" THEN Leaves(c) ELSE Goes(c, "out") /\ UNCHANGED <<got, permits>>
  /\ UNCHANGED <<tasks, available, pool, error, sandbox, faults>>

(* The await of the stop is cancelled: whether it happens is not known. *)
CancelStop(c) ==
  /\ claim[c] \in {"recycling", "leaving"} /\ sandbox[got[c]] = "stopping"
  /\ Fault
  /\ sandbox' = [sandbox EXCEPT ![got[c]] = "lost"]
  /\ Leaves(c)
  /\ UNCHANGED <<tasks, available, pool, error>>

-----------------------------------------------------------------------------
(* __aenter__, __aexit__ and _close. *)

Enter ==
  /\ pool = "out"
  /\ pool' = "entering"
  /\ worker' = [w \in Workers |-> "spawned"]
  /\ UNCHANGED <<mine, flags, attempt, claims, available, error, sandbox, faults>>

Entered ==
  /\ pool = "entering" /\ Len(available) = Cardinality(Workers) /\ ~error
  /\ pool' = "open"
  /\ UNCHANGED <<tasks, claims, available, error, sandbox, faults>>

(* Bug: the workers that hold available entries are not woken. *)
CloseSilently ==
  /\ pool \in {"open", "entering"}
  /\ pool' = "closing"
  /\ UNCHANGED <<tasks, claims, available, error, sandbox, faults>>

(* The context exits, or entering it failed or was cancelled. *)
Close ==
  /\ pool \in {"open", "entering"}
  /\ pool' = "closing"
  /\ flags' = [w \in Workers |->
       IF worker[w] = "idle" /\ mine[w] \in Range(available)
       THEN flags[w] \cup {"woken"} ELSE flags[w]]
  /\ UNCHANGED <<worker, mine, attempt, claims, available, error, sandbox, faults>>

Closed ==
  /\ pool = "closing" /\ \A w \in Workers : worker[w] = "ended"
  /\ pool' = "closed"
  /\ UNCHANGED <<tasks, claims, available, error, sandbox, faults>>

-----------------------------------------------------------------------------
(* The service. *)

Becomes(s, state) ==
  /\ sandbox' = [sandbox EXCEPT ![s] = state]
  /\ UNCHANGED <<tasks, claims, available, pool, error>>

Created(s) == sandbox[s] = "creating" /\ Becomes(s, "up") /\ UNCHANGED faults
NotCreated(s) == sandbox[s] = "creating" /\ Becomes(s, "gone") /\ UNCHANGED faults
Stops(s) == sandbox[s] = "stopping" /\ Becomes(s, "gone") /\ UNCHANGED faults
StopFails(s) == sandbox[s] = "stopping" /\ Becomes(s, "lost") /\ Fault
Dies(s) == sandbox[s] \in {"up", "lost"} /\ Becomes(s, "gone") /\ UNCHANGED faults

(* 300 s since the creation of an entry that no claim has taken. *)
Ages(w) ==
  /\ worker[w] \in {"preparing", "idle"} /\ flags[w] \cap {"claimed", "old"} = {}
  /\ flags' = [flags EXCEPT ![w] = @ \cup {"old"}]
  /\ UNCHANGED <<worker, mine, attempt, claims, available, pool, error, sandbox, faults>>

-----------------------------------------------------------------------------

WorkerStep(w) ==
  \/ Begin(w) \/ Prepared(w) \/ PrepareFails(w) \/ Unwound(w) \/ BackoffOver(w)
  \/ Wakes(w) \/ Discarded(w)

ClaimStep(c) ==
  \/ Ask(c) \/ Admit(c) \/ Refused(c) \/ Take(c) \/ Probed(c) \/ StopsUsing(c)
  \/ Released(c) \/ CancelWait(c) \/ CancelStop(c)

ServiceStep(s) ==
  Created(s) \/ NotCreated(s) \/ Stops(s) \/ StopFails(s) \/ Dies(s)

Next ==
  \/ \E w \in Workers : WorkerStep(w) \/ Ages(w)
  \/ \E c \in Claims : ClaimStep(c)
  \/ Enter \/ Entered \/ Close \/ Closed
  \/ \E s \in Sandboxes : ServiceStep(s)

Spec == Init /\ [][Next]_vars

(***************************************************************************)
(* Tasks that are ready run, SDK calls return, workloads end.  A waiting    *)
(* claim is woken by the very append that gives it an entry, long before    *)
(* that entry is old (300 s): strong fairness of taking a young one; the    *)
(* semaphore is first come, first served.                                  *)
(***************************************************************************)
Fairness ==
  /\ \A w \in Workers : WF_vars(WorkerStep(w))
  /\ \A c \in Claims :
       /\ SF_vars(Admit(c))
       /\ SF_vars(Take(c) /\ "old" \notin Flags(Head(available)))
       /\ WF_vars(Refused(c)) /\ WF_vars(StopsUsing(c)) /\ WF_vars(Released(c))
  /\ WF_vars(Closed)
  /\ \A s \in Sandboxes : WF_vars(Created(s) \/ NotCreated(s)) /\ WF_vars(Stops(s))

FairSpec == Spec /\ Fairness

-----------------------------------------------------------------------------
(* Properties. *)

TypeOK ==
  /\ worker \in [Workers -> WorkerPCs] /\ claim \in [Claims -> ClaimPCs]
  /\ mine \in [Workers -> Sandboxes \cup {None}]
  /\ got \in [Claims -> Sandboxes \cup {None}]
  /\ attempt \in [Workers -> 0 .. PrepareAttempts]
  /\ permits \in 0 .. Concurrency
  /\ available \in Seq(Sandboxes)
  /\ flags \in [Workers -> SUBSET {"claimed", "woken", "old"}]
  /\ pool \in {"out", "entering", "open", "closing", "closed"} /\ error \in BOOLEAN
  /\ sandbox \in [Sandboxes -> {"gone", "creating", "up", "stopping", "lost"}]
  /\ faults \in 0 .. MaxFaults

(* "Each gets a separate sandbox that is never assigned to another workload"   *)
(* (README.md:65), through the probe, the workload and the stop, while workers *)
(* retire entries and other claims are cancelled; and of a worker and a claim  *)
(* "only one can own the entry" (warm_pool.py:116): it is in the deque exactly *)
(* while its worker waits on it and no claim has taken it, so that             *)
(* available.remove never raises and a retired sandbox is no claim's.          *)
OwnedOnce ==
  /\ \A c, d \in Claims : c # d /\ got[c] # None => got[c] # got[d]
  /\ \A c \in Claims : got[c] \notin Range(available)
  /\ IsInjective(available)
  /\ \A s \in Range(available) : \E w \in Workers : worker[w] = "idle" /\ mine[w] = s
  /\ \A w \in Workers : worker[w] = "idle" =>
       ("claimed" \in flags[w] <=> mine[w] \notin Range(available))
  /\ \A w \in Workers, c \in Claims : worker[w] = "retiring" => got[c] # mine[w]

(* "Together they bound the total at POOL_SIZE + CONCURRENCY sandboxes"         *)
(* (README.md:231): those being created, idle, used and stopped.  Only a stop   *)
(* that failed or was cancelled leaves one more.                              *)
TotalBound ==
  Cardinality({s \in Sandboxes : sandbox[s] # "gone"})
    <= Cardinality(Workers) + Concurrency + faults

(* "Exiting the pool stops idle sandboxes and finishes outstanding preparation" *)
(* (README.md:244): once the context is closed, only a claim still in progress  *)
(* has a sandbox, or a stop has failed.                                        *)
ClosedClean ==
  pool = "closed" =>
    /\ available = <<>>
    /\ \A s \in Sandboxes :
         sandbox[s] \in {"creating", "up", "stopping"} => s \in Range(got)

(* A claim that asks is given a sandbox or ends: it does not wait for a pool   *)
(* whose workers have all failed, nor for a permit that never comes back.      *)
(* Provided that not every entry a claim meets is too old, which would need     *)
(* stops as slow as 300 s, one after the other.                               *)
ClaimResolves ==
  (\A c \in Claims : <>[](claim[c] # "recycling")) =>
    \A c \in Claims : claim[c] = "queued" ~> claim[c] \in {"using", "out"}

(* Closing waits for the workers, and each of them ends: those that hold an    *)
(* entry, those that prepare one and those between two attempts.               *)
PoolCloses == pool = "closing" ~> pool = "closed"

(* "A claim signals the worker to start a replacement immediately" and an        *)
(* expired entry is retired and replaced (README.md:20-22, warm_pool.py:113-121): *)
(* whenever a worker has no entry that a claim may still take, because it was    *)
(* claimed, is too old, was retired or could not be prepared, it has one again    *)
(* or has ended, and then has reported why, or the pool closes.                  *)
Ready(w) == worker[w] = "idle" /\ flags[w] = {}

Replenishes ==
  \A w \in Workers :
    worker[w] # "off" /\ ~Ready(w) ~>
      \/ Ready(w)
      \/ worker[w] = "ended" /\ (error \/ closing)
=============================================================================
