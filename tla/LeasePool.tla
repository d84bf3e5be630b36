------------------------------ MODULE LeasePool ------------------------------
(***************************************************************************)
(* What the sandbox pool of taubench-verl promises its callers, and        *)
(* nothing of how it does it: a caller asks, is granted one sandbox that    *)
(* no other caller has, or is refused, and gives the sandbox back.  At     *)
(* most Size callers hold a sandbox at a time.                             *)
(*                                                                         *)
(* SandboxPool implements this specification.                              *)
(***************************************************************************)
EXTENDS Naturals, FiniteSets

CONSTANTS Episodes,   \* the callers
          Sandboxes,  \* sandbox identities
          Size,       \* SandboxPool.size
          None        \* "no sandbox"

VARIABLES caller,     \* caller[e]: "out", "asking" or "served"
          lent        \* lent[e]: the sandbox e was granted, or None

vars == <<caller, lent>>

Served == {e \in Episodes : caller[e] = "served"}

Init ==
  /\ caller = [e \in Episodes |-> "out"]
  /\ lent   = [e \in Episodes |-> None]

(* `await pool.acquire(...)` is called. *)
Ask(e) ==
  /\ caller[e] = "out"
  /\ caller' = [caller EXCEPT ![e] = "asking"]
  /\ UNCHANGED lent

(* acquire() returns a Lease: the sandbox is nobody else's. *)
Grant(e, s) ==
  /\ caller[e] = "asking"
  /\ Cardinality(Served) < Size
  /\ \A d \in Episodes : lent[d] # s
  /\ caller' = [caller EXCEPT ![e] = "served"]
  /\ lent'   = [lent EXCEPT ![e] = s]

(* acquire() raises: timeout, cancellation, closed pool, retries used up. *)
Refuse(e) ==
  /\ caller[e] = "asking"
  /\ caller' = [caller EXCEPT ![e] = "out"]
  /\ UNCHANGED lent

(* release(): from its first step on the caller no longer has the sandbox. *)
GiveBack(e) ==
  /\ caller[e] = "served"
  /\ caller' = [caller EXCEPT ![e] = "out"]
  /\ lent'   = [lent EXCEPT ![e] = None]

Answer(e) == Refuse(e) \/ \E s \in Sandboxes : Grant(e, s)

Next == \E e \in Episodes : Ask(e) \/ Answer(e) \/ GiveBack(e)

Safety == Init /\ [][Next]_vars

(* Every question is answered, every sandbox comes back. *)
Spec ==
  /\ Safety
  /\ \A e \in Episodes : WF_vars(Answer(e)) /\ WF_vars(GiveBack(e))
=============================================================================
