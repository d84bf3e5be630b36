----------------------------- MODULE SandboxPool -----------------------------
(***************************************************************************)
(* SandboxPool and the blocking half of CwSandboxBackend                    *)
(* (verl_taubench/sandbox/pool.py).                                         *)
(*                                                                         *)
(* Coroutines of one asyncio event loop run between awaits without         *)
(* interleaving; an action is such a stretch, and pc names the await it    *)
(* ends in.  Creating and stopping a sandbox happen on worker threads       *)
(* (asyncio.to_thread) that a cancelled await does not stop: they are       *)
(* actions of the sandbox, not of the coroutine.                            *)
(*                                                                         *)
(* Definitions whose comment starts with "Bug:" are not part of the         *)
(* specification: each is a definition with a mistake that one of the       *)
(* properties at the end would expose.                                     *)
(***************************************************************************)
EXTENDS Naturals, Sequences, FiniteSets, Functions

CONSTANTS
  Episodes,             \* callers of acquire() / release()
  Sandboxes,            \* sandbox identities, used again once nobody knows them
  Size,                 \* SandboxPool.size
  MaxProvisionRetries,  \* SandboxPool.max_provision_retries
  PrewarmCancellable,   \* may the task that awaits prewarm() be cancelled?
  MaxFaults,            \* bound on cancellations and failed stops
  None                  \* "no sandbox"

ASSUME EpisodesAssumption == IsFiniteSet(Episodes)
ASSUME SizeAssumption == Size \in Nat \ {0}
ASSUME RetriesAssumption == MaxProvisionRetries \in Nat
ASSUME FaultsAssumption == MaxFaults \in Nat
ASSUME PrewarmAssumption == PrewarmCancellable \in BOOLEAN
ASSUME NoneAssumption == None \notin Sandboxes

Warmers == 1..Size      \* the children prewarm() gathers
ASSUME WarmersAssumption == Warmers \cap Episodes = {}
Procs == Episodes \cup Warmers

VARIABLES
  pc,        \* the await each coroutine is in
  held,      \* the sandbox its local variable `handle` names
  tries,     \* _provision_one's `attempt`, from 1; 0 outside it
  attempts,  \* acquire's `attempts`; 0 outside it
  idle,      \* _idle, the top of the LIFO last
  live,      \* _live
  slots,     \* _slots: the semaphore's value
  warm,      \* prewarm(): "cold", "warming", "warm" (the tool asks for leases only when warm)
  closer,    \* aclose(): "open", "closing", "closed"
  sweep,     \* the handles aclose() gathers
  sandbox,   \* the backend: "gone", "starting", "up", "stopping", "lost" (running, stop failed)
  faults     \* faults so far

vars == <<pc, held, tries, attempts, idle, live, slots, warm, closer, sweep, sandbox, faults>>

EpisodePCs == {"idle", "waiting", "provisioning", "resetting", "replacing",
               "abandoning", "leased", "returning"}
WarmerPCs == {"off", "spawned", "provisioning", "abandoning", "warmed", "failed"}
SandboxStates == {"gone", "starting", "up", "stopping", "lost"}

(* _closed is set in aclose's first line. *)
isClosed == closer # "open"

IdleSet == Range(idle)

(* The coroutines between slots.acquire() and slots.release(). *)
Holders == {e \in Episodes : pc[e] \notin {"idle", "waiting"}}

(* Sandbox ids are unique; here an id returns once nothing refers to it. *)
Fresh(s) ==
  /\ sandbox[s] = "gone"
  /\ s \notin live \cup IdleSet \cup sweep
  /\ \A p \in Procs : held[p] # s

Fault == faults < MaxFaults /\ faults' = faults + 1

(* What backend.destroy does to the backend: the stop is under way. *)
Stopping(S) ==
  [s \in Sandboxes |-> IF s \in S /\ sandbox[s] \in {"up", "lost"} THEN "stopping"
                                                                  ELSE sandbox[s]]

Init ==
  /\ pc       = [p \in Procs |-> IF p \in Episodes THEN "idle" ELSE "off"]
  /\ held     = [p \in Procs |-> None]
  /\ tries    = [p \in Procs |-> 0]
  /\ attempts = [p \in Procs |-> 0]
  /\ idle     = <<>>
  /\ live     = {}
  /\ slots    = Size
  /\ warm \in {"cold", "warm"}    \* preflight.py leases without a prewarm
  /\ closer   = "open"
  /\ sweep    = {}
  /\ sandbox  = [s \in Sandboxes |-> "gone"]
  /\ faults   = 0

-----------------------------------------------------------------------------
(* Pieces of handlers. *)

(* A coroutine ends without a sandbox: acquire releases its slot and raises,  *)
(* a child of prewarm raises.  `free` is the semaphore's value without it.  *)
GiveUp(p, free) ==
  /\ pc'   = [pc EXCEPT ![p] = IF p \in Episodes THEN "idle" ELSE "failed"]
  /\ held' = [held EXCEPT ![p] = None]
  /\ tries' = [tries EXCEPT ![p] = 0]
  /\ attempts' = [attempts EXCEPT ![p] = 0]
  /\ slots' = IF p \in Episodes THEN free + 1 ELSE free

(* backend.provision(): a thread starts to create s. *)
BeginProvision(p, s) ==
  /\ Fresh(s)
  /\ pc'      = [pc EXCEPT ![p] = "provisioning"]
  /\ held'    = [held EXCEPT ![p] = s]
  /\ sandbox' = [sandbox EXCEPT ![s] = "starting"]

(* The head of _provision_one's loop, for the n-th time; k counts acquire's   *)
(* iterations.                                                              *)
TryProvision(p, n, k, free) ==
  \/ /\ ~isClosed
     /\ \E s \in Sandboxes : BeginProvision(p, s)
     /\ tries' = [tries EXCEPT ![p] = n]
     /\ attempts' = [attempts EXCEPT ![p] = k]
     /\ slots' = free
  \/ /\ isClosed
     /\ GiveUp(p, free)
     /\ UNCHANGED sandbox

(* Bug: the top of the idle queue is read and stays there. *)
GetHandlePeeks(e, k, free) ==
  \/ /\ idle # <<>>
     /\ held' = [held EXCEPT ![e] = idle[Len(idle)]]
     /\ pc'   = [pc EXCEPT ![e] = "resetting"]
     /\ attempts' = [attempts EXCEPT ![e] = k]
     /\ slots' = free
     /\ UNCHANGED <<idle, tries, sandbox>>
  \/ /\ idle = <<>>
     /\ TryProvision(e, 1, k, free)
     /\ UNCHANGED idle

(* The head of acquire's loop, for the k-th time: an idle sandbox, else a new  *)
(* one.                                                                     *)
GetHandle(e, k, free) ==
  \/ /\ idle # <<>>
     /\ held' = [held EXCEPT ![e] = idle[Len(idle)]]
     /\ idle' = SubSeq(idle, 1, Len(idle) - 1)
     /\ pc'   = [pc EXCEPT ![e] = "resetting"]
     /\ attempts' = [attempts EXCEPT ![e] = k]
     /\ slots' = free
     /\ UNCHANGED <<tries, sandbox>>
  \/ /\ idle = <<>>
     /\ TryProvision(e, 1, k, free)
     /\ UNCHANGED idle

(* Bug: the destroyed handle stays registered. *)
BeginDestroyKeepsLive(p, then) ==
  /\ pc'      = [pc EXCEPT ![p] = then]
  /\ sandbox' = Stopping({held[p]})
  /\ UNCHANGED live

(* _destroy(handle), up to its await. *)
BeginDestroy(p, then) ==
  /\ pc'      = [pc EXCEPT ![p] = then]
  /\ live'    = live \ {held[p]}
  /\ sandbox' = Stopping({held[p]})

(* _destroy's await is over: the stop succeeded, or its failure was suppressed. *)
DestroyOver(p) == sandbox[held[p]] # "stopping"

-----------------------------------------------------------------------------
(* acquire(). *)

Acquire(e) ==
  /\ pc[e] = "idle"
  /\ warm = "warm" /\ ~isClosed
  /\ pc' = [pc EXCEPT ![e] = "waiting"]
  /\ UNCHANGED <<held, tries, attempts, idle, live, slots, warm, closer, sweep, sandbox, faults>>

(* wait_for(slots.acquire()) ends in TimeoutError, or the caller is cancelled. *)
AcquireTimeout(e) ==
  /\ pc[e] = "waiting"
  /\ pc' = [pc EXCEPT ![e] = "idle"]
  /\ UNCHANGED <<held, tries, attempts, idle, live, slots, warm, closer, sweep, sandbox, faults>>

(* Bug: no wait on the semaphore. *)
TakeSlotUnchecked(e) ==
  /\ pc[e] = "waiting"
  /\ GetHandle(e, 1, IF slots > 0 THEN slots - 1 ELSE 0)
  /\ UNCHANGED <<live, warm, closer, sweep, faults>>

TakeSlot(e) ==
  /\ pc[e] = "waiting" /\ slots > 0
  /\ GetHandle(e, 1, slots - 1)
  /\ UNCHANGED <<live, warm, closer, sweep, faults>>

(* wait_for(client.reset(...)) returned: the Lease is the caller's. *)
ResetSucceeds(e) ==
  /\ pc[e] = "resetting" /\ sandbox[held[e]] \in {"up", "stopping", "lost"}
  /\ pc' = [pc EXCEPT ![e] = "leased"]
  /\ attempts' = [attempts EXCEPT ![e] = 0]
  /\ UNCHANGED <<held, tries, idle, live, slots, warm, closer, sweep, sandbox, faults>>

(* It raised or timed out: destroy, then try another. *)
ResetFails(e) ==
  /\ pc[e] = "resetting"
  /\ BeginDestroy(e, "replacing")
  /\ UNCHANGED <<held, tries, attempts, idle, slots, warm, closer, sweep, faults>>

CancelReset(e) ==
  /\ pc[e] = "resetting"
  /\ Fault
  /\ BeginDestroy(e, "abandoning")
  /\ UNCHANGED <<held, tries, attempts, idle, slots, warm, closer, sweep>>

(* Bug: one replacement too many. *)
ReplaceReturnsOffByOne(e) ==
  /\ pc[e] = "replacing" /\ DestroyOver(e)
  /\ \/ /\ attempts[e] > MaxProvisionRetries + 2
        /\ GiveUp(e, slots)
        /\ UNCHANGED <<idle, sandbox>>
     \/ /\ attempts[e] <= MaxProvisionRetries + 2
        /\ GetHandle(e, attempts[e] + 1, slots)
  /\ UNCHANGED <<live, warm, closer, sweep, faults>>

ReplaceReturns(e) ==
  /\ pc[e] = "replacing" /\ DestroyOver(e)
  /\ \/ /\ attempts[e] > MaxProvisionRetries + 1
        /\ GiveUp(e, slots)
        /\ UNCHANGED <<idle, sandbox>>
     \/ /\ attempts[e] <= MaxProvisionRetries + 1
        /\ GetHandle(e, attempts[e] + 1, slots)
  /\ UNCHANGED <<live, warm, closer, sweep, faults>>

(* The await of backend.destroy is cancelled: the slot comes back at once,   *)
(* the thread goes on stopping the sandbox.                                 *)
CancelDestroy(e) ==
  /\ pc[e] \in {"replacing", "abandoning", "returning"}
  /\ Fault
  /\ GiveUp(e, slots)
  /\ UNCHANGED <<idle, live, warm, closer, sweep, sandbox>>

-----------------------------------------------------------------------------
(* _provision_one(), for a caller of acquire and for a child of prewarm. *)

(* Bug: the new handle is not registered. *)
ProvisionReturnsUnregistered(p) ==
  /\ pc[p] = "provisioning" /\ sandbox[held[p]] = "up"
  /\ \/ /\ ~isClosed
        /\ pc' = [pc EXCEPT ![p] = IF p \in Episodes THEN "resetting" ELSE "warmed"]
        /\ UNCHANGED <<live, sandbox>>
     \/ /\ isClosed
        /\ BeginDestroy(p, "abandoning")
  /\ tries' = [tries EXCEPT ![p] = 0]
  /\ UNCHANGED <<held, attempts, idle, slots, warm, closer, sweep, faults>>

(* Bug: a pool closed in the meantime is noticed by nobody. *)
ProvisionReturnsLate(p) ==
  /\ pc[p] = "provisioning" /\ sandbox[held[p]] = "up"
  /\ live' = live \cup {held[p]}
  /\ pc' = [pc EXCEPT ![p] = IF p \in Episodes THEN "resetting" ELSE "warmed"]
  /\ tries' = [tries EXCEPT ![p] = 0]
  /\ UNCHANGED <<held, attempts, idle, slots, warm, closer, sweep, sandbox, faults>>

(* Bug: it is noticed, and the sandbox is dropped without a stop. *)
ProvisionReturnsDrops(p) ==
  /\ pc[p] = "provisioning" /\ sandbox[held[p]] = "up"
  /\ \/ /\ ~isClosed
        /\ live' = live \cup {held[p]}
        /\ pc' = [pc EXCEPT ![p] = IF p \in Episodes THEN "resetting" ELSE "warmed"]
        /\ tries' = [tries EXCEPT ![p] = 0]
        /\ UNCHANGED <<held, attempts, slots>>
     \/ /\ isClosed
        /\ GiveUp(p, slots)
        /\ UNCHANGED live
  /\ UNCHANGED <<idle, warm, closer, sweep, sandbox, faults>>

ProvisionReturns(p) ==
  /\ pc[p] = "provisioning" /\ sandbox[held[p]] = "up"
  /\ \/ /\ ~isClosed
        /\ live' = live \cup {held[p]}
        /\ pc' = [pc EXCEPT ![p] = IF p \in Episodes THEN "resetting" ELSE "warmed"]
        /\ UNCHANGED sandbox
     \/ /\ isClosed                 \* registered and taken off _live again: _destroy
        /\ BeginDestroy(p, "abandoning")
  /\ tries' = [tries EXCEPT ![p] = 0]
  /\ UNCHANGED <<held, attempts, idle, slots, warm, closer, sweep, faults>>

ProvisionRaises(p) ==
  /\ pc[p] = "provisioning" /\ sandbox[held[p]] \in {"gone", "lost"}
  /\ \/ /\ tries[p] <= MaxProvisionRetries
        /\ TryProvision(p, tries[p] + 1, attempts[p], slots)
     \/ /\ tries[p] > MaxProvisionRetries
        /\ GiveUp(p, slots)
        /\ UNCHANGED sandbox
  /\ UNCHANGED <<idle, live, warm, closer, sweep, faults>>

(* Bug: the cancelled caller keeps its slot (`except Exception`). *)
CancelProvisionKeepsSlot(e) ==
  /\ pc[e] = "provisioning"
  /\ Fault
  /\ GiveUp(e, slots - 1)
  /\ UNCHANGED <<idle, live, warm, closer, sweep, sandbox>>

(* Only the await is cancelled: the thread will finish a sandbox nobody knows. *)
CancelProvision(e) ==
  /\ pc[e] = "provisioning"
  /\ Fault
  /\ GiveUp(e, slots)
  /\ UNCHANGED <<idle, live, warm, closer, sweep, sandbox>>

(* Bug: the slot is not given back before the raise. *)
AbandonReturnsKeepsSlot(p) ==
  /\ pc[p] = "abandoning" /\ DestroyOver(p)
  /\ GiveUp(p, IF p \in Episodes THEN slots - 1 ELSE slots)
  /\ UNCHANGED <<idle, live, warm, closer, sweep, sandbox, faults>>

(* _destroy before a raise: a cancelled reset, or provisioned after aclose. *)
AbandonReturns(p) ==
  /\ pc[p] = "abandoning" /\ DestroyOver(p)
  /\ GiveUp(p, slots)
  /\ UNCHANGED <<idle, live, warm, closer, sweep, sandbox, faults>>

-----------------------------------------------------------------------------
(* release(lease, healthy=...). *)

Release(e, healthy) ==
  /\ pc[e] = "leased"
  /\ \/ /\ healthy /\ ~isClosed
        /\ idle' = Append(idle, held[e])
        /\ GiveUp(e, slots)
        /\ UNCHANGED <<live, sandbox>>
     \/ /\ ~(healthy /\ ~isClosed)
        /\ BeginDestroy(e, "returning")
        /\ UNCHANGED <<held, tries, attempts, idle, slots>>
  /\ UNCHANGED <<warm, closer, sweep, faults>>

(* Bug: an unhealthy sandbox takes its slot with it. *)
ReleaseReturnsKeepsSlot(e) ==
  /\ pc[e] = "returning" /\ DestroyOver(e)
  /\ GiveUp(e, slots - 1)
  /\ UNCHANGED <<idle, live, warm, closer, sweep, sandbox, faults>>

ReleaseReturns(e) ==
  /\ pc[e] = "returning" /\ DestroyOver(e)
  /\ GiveUp(e, slots)
  /\ UNCHANGED <<idle, live, warm, closer, sweep, sandbox, faults>>

-----------------------------------------------------------------------------
(* prewarm(), called by _ensure_prewarmed under the tool's _pools_lock. *)

Prewarm ==
  /\ warm = "cold" /\ ~isClosed
  /\ LET missing == Size - Cardinality(live)
     IN  \/ /\ missing <= 0
            /\ warm' = "warm"
            /\ UNCHANGED pc
         \/ /\ missing > 0
            /\ warm' = "warming"
            /\ pc' = [p \in Procs |-> IF p \in Warmers /\ p <= missing THEN "spawned" ELSE pc[p]]
  /\ UNCHANGED <<held, tries, attempts, idle, live, slots, closer, sweep, sandbox, faults>>

WarmerStarts(w) ==
  /\ pc[w] = "spawned"
  /\ TryProvision(w, 1, 0, slots)
  /\ UNCHANGED <<idle, live, warm, closer, sweep, faults>>

Warmed == {w \in Warmers : pc[w] = "warmed"}

(* gather() returned: what was provisioned becomes idle, in some order; if     *)
(* every child failed prewarm raises, and the next caller prewarms again.      *)
PrewarmReturns ==
  /\ warm = "warming"
  /\ \A w \in Warmers : pc[w] \in {"off", "warmed", "failed"}
  /\ \E order \in Bijection(1..Cardinality(Warmed), Warmed) :
       idle' = idle \o [i \in 1..Cardinality(Warmed) |-> held[order[i]]]
  /\ warm' = IF Warmed = {} THEN "cold" ELSE "warm"
  /\ pc'   = [p \in Procs |-> IF p \in Warmers THEN "off" ELSE pc[p]]
  /\ held' = [p \in Procs |-> IF p \in Warmers THEN None ELSE held[p]]
  /\ UNCHANGED <<tries, attempts, live, slots, closer, sweep, sandbox, faults>>

(* CancelledError in gather(): the children are cancelled and every handle,   *)
(* provisioned or still being so, is dropped.  _live keeps the provisioned.    *)
PrewarmCancelled ==
  /\ PrewarmCancellable
  /\ warm = "warming"
  /\ Fault
  /\ warm' = "cold"
  /\ pc'   = [p \in Procs |-> IF p \in Warmers THEN "off" ELSE pc[p]]
  /\ held' = [p \in Procs |-> IF p \in Warmers THEN None ELSE held[p]]
  /\ tries' = [p \in Procs |-> IF p \in Warmers THEN 0 ELSE tries[p]]
  /\ UNCHANGED <<attempts, idle, live, slots, closer, sweep, sandbox>>

-----------------------------------------------------------------------------
(* aclose(). *)

Aclose ==
  /\ closer = "open"
  /\ closer'  = "closing"
  /\ idle'    = <<>>
  /\ sweep'   = live
  /\ live'    = {}
  /\ sandbox' = Stopping(live)
  /\ UNCHANGED <<pc, held, tries, attempts, slots, warm, faults>>

AcloseReturns ==
  /\ closer = "closing"
  /\ \A s \in sweep : sandbox[s] # "stopping"
  /\ closer' = "closed"
  /\ sweep'  = {}
  /\ UNCHANGED <<pc, held, tries, attempts, idle, live, slots, warm, sandbox, faults>>

-----------------------------------------------------------------------------
(* The worker threads and the backend. *)

Backend(s, state) ==
  /\ sandbox' = [sandbox EXCEPT ![s] = state]
  /\ UNCHANGED <<pc, held, tries, attempts, idle, live, slots, warm, closer, sweep>>

(* _provision_blocking returns a handle. *)
ThreadReady(s) == sandbox[s] = "starting" /\ Backend(s, "up") /\ UNCHANGED faults

(* It raises: create failed, or a later step did and the sandbox is stopped. *)
ThreadRaises(s) == sandbox[s] = "starting" /\ Backend(s, "gone") /\ UNCHANGED faults

(* It raises and its best-effort stop fails too. *)
ThreadRaisesLost(s) == sandbox[s] = "starting" /\ Backend(s, "lost") /\ Fault

StopSucceeds(s) == sandbox[s] = "stopping" /\ Backend(s, "gone") /\ UNCHANGED faults

StopFails(s) == sandbox[s] = "stopping" /\ Backend(s, "lost") /\ Fault

(* A sandbox crashes or reaches max_lifetime_seconds; while its provisioning   *)
(* is about to return nobody could tell, so it dies after that.             *)
Dies(s) ==
  /\ sandbox[s] \in {"up", "lost"}
  /\ \A p \in Procs : ~(pc[p] = "provisioning" /\ held[p] = s)
  /\ Backend(s, "gone") /\ UNCHANGED faults

-----------------------------------------------------------------------------

EpisodeStep(e) ==
  \/ Acquire(e) \/ AcquireTimeout(e) \/ TakeSlot(e)
  \/ ResetSucceeds(e) \/ ResetFails(e) \/ CancelReset(e)
  \/ ReplaceReturns(e) \/ CancelDestroy(e) \/ CancelProvision(e)
  \/ \E healthy \in BOOLEAN : Release(e, healthy)
  \/ ReleaseReturns(e)

ProvisionStep(p) == ProvisionReturns(p) \/ ProvisionRaises(p) \/ AbandonReturns(p)

PrewarmStep ==
  \/ Prewarm \/ PrewarmReturns \/ PrewarmCancelled
  \/ \E w \in Warmers : WarmerStarts(w)

BackendStep(s) ==
  \/ ThreadReady(s) \/ ThreadRaises(s) \/ ThreadRaisesLost(s)
  \/ StopSucceeds(s) \/ StopFails(s) \/ Dies(s)

Next ==
  \/ \E e \in Episodes : EpisodeStep(e)
  \/ \E p \in Procs : ProvisionStep(p)
  \/ PrewarmStep
  \/ Aclose \/ AcloseReturns
  \/ \E s \in Sandboxes : BackendStep(s)

Spec == Init /\ [][Next]_vars

(***************************************************************************)
(* Every await of the code ends: SDK calls and resets carry timeouts, the  *)
(* event loop runs what is ready, and a lease is released in a `finally`    *)
(* (taubench_loop.py:685, sandbox_taubench_tool.py:473).  The semaphore     *)
(* wakes its waiters in order, hence strong fairness of TakeSlot.           *)
(* Nothing obliges a caller to acquire or to close.                        *)
(***************************************************************************)
Fairness ==
  /\ \A e \in Episodes :
       /\ SF_vars(TakeSlot(e))
       /\ WF_vars(ResetSucceeds(e) \/ ResetFails(e))
       /\ WF_vars(ReplaceReturns(e))
       /\ WF_vars(\E healthy \in BOOLEAN : Release(e, healthy))
       /\ WF_vars(ReleaseReturns(e))
  /\ \A p \in Procs : WF_vars(ProvisionStep(p))
  /\ \A w \in Warmers : WF_vars(WarmerStarts(w))
  /\ WF_vars(PrewarmReturns)
  /\ WF_vars(AcloseReturns)
  /\ \A s \in Sandboxes :
       /\ WF_vars(ThreadReady(s) \/ ThreadRaises(s))
       /\ WF_vars(StopSucceeds(s))

FairSpec == Spec /\ Fairness

-----------------------------------------------------------------------------
(* Properties. *)

(* Type correctness. *)
TypeOK ==
  /\ pc \in [Procs -> EpisodePCs \cup WarmerPCs]
  /\ \A e \in Episodes : pc[e] \in EpisodePCs
  /\ \A w \in Warmers : pc[w] \in WarmerPCs
  /\ held \in [Procs -> Sandboxes \cup {None}]
  /\ tries \in [Procs -> 0..(MaxProvisionRetries + 1)]
  /\ attempts \in [Procs -> 0..(MaxProvisionRetries + 2)]
  /\ idle \in Seq(Sandboxes)
  /\ live \in SUBSET Sandboxes
  /\ slots \in Nat
  /\ warm \in {"cold", "warming", "warm"}
  /\ closer \in {"open", "closing", "closed"}
  /\ sweep \in SUBSET Sandboxes
  /\ sandbox \in [Sandboxes -> SandboxStates]
  /\ faults \in 0..MaxFaults

(* The coroutines with a registered sandbox of their own. *)
Owners == {p \in Procs : pc[p] \in {"resetting", "leased", "warmed"}}

(* "A leased sandbox is never handed to a second episode concurrently"       *)
(* (pool.py:537): no two coroutines that work with a sandbox have the same   *)
(* one, none of them is idle, and none is in the idle queue twice.           *)
LeaseExclusive ==
  /\ \A p, q \in Owners : held[p] = held[q] => p = q
  /\ \A p \in Owners : held[p] \notin IdleSet
  /\ IsInjective(idle)

(* "release always returns capacity" (pool.py:538): the semaphore and the     *)
(* coroutines that passed it always add up to the size, on every path out of  *)
(* acquire and release, cancelled ones included.                             *)
SlotsConserved == slots + Cardinality(Holders) = Size

(* "size is a hard ceiling on live sandboxes" (pool.py:540), of the           *)
(* sandboxes the pool itself counts (live_count).                            *)
LiveCeiling == Cardinality(live) <= Size

(* While the pool is open it never keeps idle, resets or lends a sandbox it    *)
(* has forgotten, still builds or is stopping: the handle in hand is always  *)
(* one that aclose() would find.                                             *)
HandlesRegistered ==
  ~isClosed => \A s \in IdleSet \cup {held[p] : p \in Owners} :
                 s \in live /\ sandbox[s] \in {"up", "gone"}

(* Running sandboxes that neither _live nor a coroutine accounts for. *)
Leaked ==
  {s \in Sandboxes : /\ sandbox[s] \in {"starting", "up", "lost"}
                     /\ s \notin live
                     /\ \A p \in Procs : ~(pc[p] = "provisioning" /\ held[p] = s)}

(* A sandbox runs unknown to the pool only where the code says it may: each   *)
(* is due to one cancellation of an await of provision() (reap_orphans,      *)
(* pool.py:488-491) or to one stop that failed and was suppressed.  Retries, *)
(* failed resets, release and aclose racing them leak nothing.               *)
LeaksNeedFaults == ~PrewarmCancellable => Cardinality(Leaked) <= faults

(* From the moment aclose() gathers its stops nothing is registered any more,  *)
(* whatever was in flight when it began (pool.py:729-730), and no sandbox that *)
(* a coroutine or the idle queue still names is left running unnoticed.      *)
ClosedPoolEmpty ==
  isClosed => /\ live = {}
              /\ \A s \in IdleSet \cup {held[p] : p \in Owners} : sandbox[s] # "up"

-----------------------------------------------------------------------------
(* Liveness, and the abstract specification. *)

(* An acquire that waits for a slot gets an answer: a lease or an exception,    *)
(* however many failed resets and provisions lie in between.                *)
AcquireResolves == \A e \in Episodes : pc[e] = "waiting" ~> pc[e] \in {"leased", "idle"}

(* After aclose() nobody is left inside the pool: it returns, no waiter hangs  *)
(* on a slot, and every sandbox the pool knew has stopped for good.          *)
CloseSettles ==
  isClosed ~> [](/\ closer = "closed"
                 /\ Holders = {} /\ slots = Size
                 /\ \A s \in Sandboxes : sandbox[s] # "stopping")

(* What a caller sees of the await it is in. *)
Role(at) == CASE at \in {"idle", "returning"} -> "out"
              [] at = "leased" -> "served"
              [] OTHER -> "asking"

Callers == [e \in Episodes |-> Role(pc[e])]
Lent == [e \in Episodes |-> IF pc[e] = "leased" THEN held[e] ELSE None]

Lease == INSTANCE LeasePool WITH caller <- Callers, lent <- Lent

(* The pool keeps LeasePool's promises, safety and liveness. *)
ImplementsLeasePool == Lease!Spec
=============================================================================
