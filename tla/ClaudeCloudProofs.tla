------------------------- MODULE ClaudeCloudProofs -------------------------
(***************************************************************************)
(* Proofs about ClaudeCloud, for any set of orders and hooks and any limit. *)
(*                                                                         *)
(* The hooks are serialised by the lock: whoever decides, records, submits  *)
(* or waits for an answer has it (LockInv).  Hence the record of an order   *)
(* and the number of its submissions follow the one hook at work (OrderInv), *)
(* and workers that somebody waits for come up one after the other          *)
(* (LimitInv).  The operator's side rests on the host having one life       *)
(* (HostInv), and on hooks dying with it.                                   *)
(***************************************************************************)
EXTENDS ClaudeCloud, FiniteSetTheorems, TLAPS

Critical == {"deciding", "claiming", "submitting", "naming"}

LockInv ==
  /\ \A h \in Hooks : hook[h] # "out" => order[h] \in Orders
  /\ \A h \in Hooks : hook[h] \in Critical => lock = h

OrderInv ==
  /\ \A h \in Hooks : hook[h] \in {"deciding", "claiming"} => record[order[h]] = "none"
  /\ \A h \in Hooks : hook[h] = "submitting" => record[order[h]] = "written" /\ tokens[order[h]] = 0
  /\ \A h \in Hooks : hook[h] = "naming" => record[order[h]] = "written" /\ tokens[order[h]] = 1
  /\ \A o \in Orders : tokens[o] <= 1
  /\ \A o \in Orders : record[o] = "none" => tokens[o] = 0
  /\ \A o \in Orders : record[o] = "named" => tokens[o] = 1
  /\ \A o \in acked : record[o] = "named"

HostInv ==
  /\ hosts \in {0, 1}
  /\ hosts = 0 => host = "none" /\ status = "out"
  /\ file = "none" => hosts = 0 \/ (host = "gone" /\ stopped)
  /\ op = "submitting" => hosts = 0 /\ file = "written"
  /\ op \in {"listing", "clearing"} => host = "gone"
  /\ stopped => host = "gone" /\ Up \subseteq late
  /\ ~Runs => \A h \in Hooks : hook[h] = "out"

(* Workers up whose hook has waited for them. *)
Awaited == Up \ late

LimitInv ==
  /\ Cardinality(Awaited) <= MaxWorkers
  /\ \A h \in Hooks : hook[h] \in {"claiming", "submitting"} => Cardinality(Awaited) < MaxWorkers
  /\ \A h \in Hooks :
       hook[h] = "naming" /\ worker[order[h]] = "asked" => Cardinality(Awaited) < MaxWorkers

(* The initial state. *)
LEMMA InitInv == Init => TypeOK /\ LockInv /\ OrderInv /\ HostInv /\ LimitInv
<1> SUFFICES ASSUME Init PROVE TypeOK /\ LockInv /\ OrderInv /\ HostInv /\ LimitInv
  OBVIOUS
<1> USE CloudAssumption DEF Init
<1>1. TypeOK
  BY DEF TypeOK
<1>2. LockInv /\ OrderInv
  BY DEF LockInv, OrderInv, Critical
<1>3. HostInv
  BY DEF HostInv, Up, Runs
<1>4. Awaited = {}
  BY DEF Awaited, Up
<1>5. LimitInv
  BY <1>4, FS_EmptySet DEF LimitInv
<1> QED
  BY <1>1, <1>2, <1>3, <1>5

-----------------------------------------------------------------------------
(* Types. *)

LEMMA NextType == TypeOK /\ LockInv /\ [Next]_vars => TypeOK'
<1> SUFFICES ASSUME TypeOK, LockInv, [Next]_vars PROVE TypeOK'
  OBVIOUS
<1> USE CloudAssumption DEF TypeOK, LockInv
<1>1. ASSUME NEW h \in Hooks, HookStep(h) PROVE TypeOK'
  <2> USE DEF At, Becomes, Exits
  <2>1. ASSUME NEW o \in Orders, HookStarts(h, o) PROVE TypeOK'
    BY <2>1 DEF HookStarts, operator
  <2>2. CASE HookLocks(h)
    BY <2>2 DEF HookLocks, operator
  <2>3. CASE HookDecides(h)
    BY <2>3 DEF HookDecides, operator
  <2>4. CASE HookClaims(h)
    BY <2>4 DEF HookClaims, operator
  <2>5. CASE HookSubmits(h)
    BY <2>5 DEF HookSubmits, operator
  <2>6. CASE HookNames(h)
    BY <2>6 DEF HookNames, operator
  <2>7. CASE HookEnds(h)
    BY <2>7 DEF HookEnds, operator
  <2> QED
    BY <1>1, <2>1, <2>2, <2>3, <2>4, <2>5, <2>6, <2>7 DEF HookStep
<1>2. CASE OpStep
  <2> USE DEF Goes, hookvars
  <2>1. CASE Deploy \/ SubmitHost \/ NameHost \/ Connected \/ Stop \/ StopHost \/ HostStopped
    BY <2>1 DEF Deploy, SubmitHost, NameHost, Connected, Stop, StopHost, HostStopped
  <2>2. CASE ListWorkers \/ Unlink \/ OpFails \/ StatusAdopts \/ StatusSaves
    BY <2>2 DEF ListWorkers, Unlink, OpFails, StatusAdopts, StatusSaves, Up
  <2>3. ASSUME NEW o \in Orders, StopWorker(o) PROVE TypeOK'
    BY <2>3 DEF StopWorker
  <2> QED
    BY <1>2, <2>1, <2>2, <2>3 DEF OpStep
<1>3. CASE HostComes \/ HostEnds
  BY <1>3 DEF HostComes, HostEnds, operator, hookvars
<1>4. ASSUME NEW o \in Orders, WorkerComes(o) \/ WorkerNeverComes(o) \/ WorkerEnds(o) PROVE TypeOK'
  BY <1>4 DEF WorkerComes, WorkerNeverComes, WorkerEnds, operator, hookvars
<1>5. CASE UNCHANGED vars
  BY <1>5 DEF vars, operator, hookvars
<1> QED
  BY <1>1, <1>2, <1>3, <1>4, <1>5 DEF Next

-----------------------------------------------------------------------------
(* The hooks. *)

(* What the hooks' invariants speak of changes in their own steps, and when the *)
(* host ends.                                                                *)
LEMMA HooksAlone ==
  ASSUME [Next]_vars
  PROVE  \/ \E h \in Hooks : HookStep(h)
         \/ HostEnds
         \/ UNCHANGED <<hookvars, tokens>>
<1>1. CASE OpStep
  BY <1>1 DEF OpStep, Deploy, SubmitHost, NameHost, Connected, Stop, StopHost, HostStopped,
              ListWorkers, Unlink, OpFails, StatusAdopts, StatusSaves, StopWorker
<1>2. CASE HostComes
  BY <1>2 DEF HostComes
<1>3. ASSUME NEW o \in Orders, WorkerComes(o) \/ WorkerNeverComes(o) \/ WorkerEnds(o)
      PROVE  UNCHANGED <<hookvars, tokens>>
  BY <1>3 DEF WorkerComes, WorkerNeverComes, WorkerEnds
<1>4. CASE UNCHANGED vars
  BY <1>4 DEF vars
<1> QED
  BY <1>1, <1>2, <1>3, <1>4 DEF Next

LEMMA NextLock == TypeOK /\ LockInv /\ [Next]_vars => LockInv'
<1> SUFFICES ASSUME TypeOK, LockInv, [Next]_vars PROVE LockInv'
  OBVIOUS
<1> USE CloudAssumption DEF TypeOK, LockInv, Critical
<1>1. ASSUME NEW h \in Hooks, HookStep(h) PROVE LockInv'
  <2> USE DEF At, Becomes, Exits
  <2>1. ASSUME NEW o \in Orders, HookStarts(h, o) PROVE LockInv'
    BY <2>1 DEF HookStarts
  <2>2. CASE HookLocks(h)
    BY <2>2 DEF HookLocks
  <2>3. CASE HookDecides(h)
    BY <2>3 DEF HookDecides
  <2>4. CASE HookClaims(h)
    BY <2>4 DEF HookClaims
  <2>5. CASE HookSubmits(h)
    BY <2>5 DEF HookSubmits
  <2>6. CASE HookNames(h)
    BY <2>6 DEF HookNames
  <2>7. CASE HookEnds(h)
    BY <2>7 DEF HookEnds
  <2> QED
    BY <1>1, <2>1, <2>2, <2>3, <2>4, <2>5, <2>6, <2>7 DEF HookStep
<1>2. CASE HostEnds
  BY <1>2 DEF HostEnds
<1>3. CASE UNCHANGED <<hookvars, tokens>>
  BY <1>3 DEF hookvars
<1> QED
  BY <1>1, <1>2, <1>3, HooksAlone

LEMMA NextOrder == TypeOK /\ LockInv /\ OrderInv /\ [Next]_vars => OrderInv'
<1> SUFFICES ASSUME TypeOK, LockInv, OrderInv, [Next]_vars PROVE OrderInv'
  OBVIOUS
<1> USE CloudAssumption DEF TypeOK, LockInv, OrderInv, Critical
<1>1. ASSUME NEW h \in Hooks, HookStep(h) PROVE OrderInv'
  <2> USE DEF At, Becomes, Exits
  <2>1. ASSUME NEW o \in Orders, HookStarts(h, o) PROVE OrderInv'
    BY <2>1 DEF HookStarts
  <2>2. CASE HookLocks(h)
    BY <2>2 DEF HookLocks
  <2>3. CASE HookDecides(h)
    BY <2>3 DEF HookDecides
  <2>4. CASE HookClaims(h)
    BY <2>4 DEF HookClaims
  <2>5. CASE HookSubmits(h)
    BY <2>5 DEF HookSubmits
  <2>6. CASE HookNames(h)
    BY <2>6 DEF HookNames
  <2>7. CASE HookEnds(h)
    BY <2>7 DEF HookEnds
  <2> QED
    BY <1>1, <2>1, <2>2, <2>3, <2>4, <2>5, <2>6, <2>7 DEF HookStep
<1>2. CASE HostEnds
  BY <1>2 DEF HostEnds
<1>3. CASE UNCHANGED <<hookvars, tokens>>
  BY <1>3 DEF hookvars
<1> QED
  BY <1>1, <1>2, <1>3, HooksAlone

-----------------------------------------------------------------------------
(* The host has one life. *)

LEMMA NextHost == TypeOK /\ HostInv /\ [Next]_vars => HostInv'
<1> SUFFICES ASSUME TypeOK, HostInv, [Next]_vars PROVE HostInv'
  OBVIOUS
<1> USE CloudAssumption DEF TypeOK, HostInv, Runs, Up
<1>1. ASSUME NEW h \in Hooks, HookStep(h) PROVE HostInv'
  <2>1. UNCHANGED <<operator, host, hosts, late>> /\ Runs
    BY <1>1 DEF HookStep, HookStarts, HookLocks, HookDecides, HookClaims, HookSubmits, HookNames,
                HookEnds, At
  <2> QED
    BY <2>1 DEF operator
<1>2. CASE OpStep
  <2> USE DEF Goes, hookvars, Adoptable
  <2>1. CASE Deploy \/ SubmitHost \/ NameHost \/ Connected
    BY <2>1 DEF Deploy, SubmitHost, NameHost, Connected
  <2>2. CASE Stop \/ StopHost \/ HostStopped \/ ListWorkers
    BY <2>2 DEF Stop, StopHost, HostStopped, ListWorkers
  <2>3. CASE Unlink
    BY <2>3 DEF Unlink
  <2>4. CASE OpFails \/ StatusAdopts \/ StatusSaves
    BY <2>4 DEF OpFails, StatusAdopts, StatusSaves
  <2>5. ASSUME NEW o \in Orders, StopWorker(o) PROVE HostInv'
    BY <2>5 DEF StopWorker
  <2> QED
    BY <1>2, <2>1, <2>2, <2>3, <2>4, <2>5 DEF OpStep
<1>3. CASE HostComes
  BY <1>3 DEF HostComes, operator, hookvars
<1>4. CASE HostEnds
  BY <1>4 DEF HostEnds, operator
<1>5. ASSUME NEW o \in Orders, WorkerComes(o) PROVE HostInv'
  BY <1>5 DEF WorkerComes, operator, hookvars
<1>6. ASSUME NEW o \in Orders, WorkerNeverComes(o) \/ WorkerEnds(o) PROVE HostInv'
  BY <1>6 DEF WorkerNeverComes, WorkerEnds, operator, hookvars
<1>7. CASE UNCHANGED vars
  BY <1>7 DEF vars, operator, hookvars
<1> QED
  BY <1>1, <1>2, <1>3, <1>4, <1>5, <1>6, <1>7 DEF Next

-----------------------------------------------------------------------------
(* The worker limit. *)

LEMMA AwaitedFinite == TypeOK => IsFiniteSet(Awaited) /\ Cardinality(Awaited) \in Nat
<1> SUFFICES ASSUME TypeOK PROVE IsFiniteSet(Awaited) /\ Cardinality(Awaited) \in Nat
  OBVIOUS
<1>1. Awaited \subseteq Orders
  BY DEF Awaited, Up
<1> QED
  BY <1>1, CloudAssumption, FS_Subset, FS_CardinalityType

LEMMA OneMore ==
  ASSUME NEW S, NEW x, IsFiniteSet(S)
  PROVE  IsFiniteSet(S \cup {x}) /\ Cardinality(S \cup {x}) <= Cardinality(S) + 1
<1>1. Cardinality(S) \in Nat
  BY FS_CardinalityType
<1> QED
  BY <1>1, FS_AddElement

(* A step that makes nobody decide, and adds no awaited worker. *)
LEMMA LimitKept ==
  ASSUME TypeOK, LimitInv, Awaited' \subseteq Awaited,
         \A h \in Hooks : hook'[h] \in {"claiming", "submitting"} => hook[h] \in {"claiming", "submitting"},
         \A h \in Hooks : hook'[h] = "naming" /\ worker'[order'[h]] = "asked" =>
           \/ hook[h] = "submitting"
           \/ hook[h] = "naming" /\ worker[order[h]] = "asked"
  PROVE  LimitInv'
<1>1. Cardinality(Awaited') \in Nat /\ Cardinality(Awaited') <= Cardinality(Awaited)
  BY AwaitedFinite, FS_Subset, FS_CardinalityType
<1>2. Cardinality(Awaited) \in Nat /\ MaxWorkers \in Nat
  BY AwaitedFinite, CloudAssumption
<1> QED
  BY <1>1, <1>2 DEF LimitInv

LEMMA NextLimit == TypeOK /\ LockInv /\ LimitInv /\ [Next]_vars => LimitInv'
<1> SUFFICES ASSUME TypeOK, LockInv, LimitInv, [Next]_vars PROVE LimitInv'
  OBVIOUS
<1> USE CloudAssumption DEF TypeOK, LockInv, Critical
<1>1. ASSUME NEW h \in Hooks, HookDecides(h) PROVE LimitInv'
  <2> USE <1>1 DEF HookDecides, At, Becomes, Exits
  <2>1. Awaited' = Awaited
    BY DEF Awaited, Up
  <2>2. CASE Cardinality(Up) < MaxWorkers /\ Becomes(h, "claiming")
    <3>1. IsFiniteSet(Up)
      BY FS_Subset DEF Up
    <3>2. Cardinality(Awaited) <= Cardinality(Up) /\ Cardinality(Up) \in Nat
      BY <3>1, FS_Subset, FS_CardinalityType DEF Awaited
    <3>3. Cardinality(Awaited) < MaxWorkers
      BY <2>2, <3>2, AwaitedFinite
    <3> QED
      BY <2>1, <3>3 DEF LimitInv
  <2>3. CASE Exits(h)
    BY <2>1, <2>3, LimitKept
  <2> QED
    BY <2>2, <2>3
<1>2. ASSUME NEW h \in Hooks, HookStep(h), ~HookDecides(h) PROVE LimitInv'
  <2> USE DEF At, Becomes, Exits, Awaited, Up
  <2>1. ASSUME NEW o \in Orders, HookStarts(h, o) PROVE LimitInv'
    BY <2>1, LimitKept DEF HookStarts
  <2>2. CASE HookLocks(h)
    BY <2>2, LimitKept DEF HookLocks
  <2>3. CASE HookClaims(h)
    BY <2>3, LimitKept DEF HookClaims
  <2>4. CASE HookSubmits(h)
    BY <2>4, LimitKept DEF HookSubmits
  <2>5. CASE HookNames(h)
    BY <2>5, LimitKept DEF HookNames
  <2>6. CASE HookEnds(h)
    BY <2>6, LimitKept DEF HookEnds
  <2> QED
    BY <1>2, <2>1, <2>2, <2>3, <2>4, <2>5, <2>6 DEF HookStep
<1>3. ASSUME NEW o \in Orders, WorkerComes(o) PROVE LimitInv'
  <2> USE <1>3 DEF WorkerComes, hookvars
  <2>1. CASE \E h \in Hooks : hook[h] = "naming" /\ order[h] = o
    <3>1. Awaited' \subseteq Awaited \cup {o}
      BY <2>1 DEF Awaited, Up
    <3>2. Cardinality(Awaited) < MaxWorkers
      BY <2>1 DEF LimitInv
    <3>3. IsFiniteSet(Awaited \cup {o}) /\ Cardinality(Awaited \cup {o}) <= Cardinality(Awaited) + 1
      BY AwaitedFinite, OneMore
    <3>4. Cardinality(Awaited') <= MaxWorkers
      BY <3>1, <3>2, <3>3, AwaitedFinite, FS_Subset, FS_CardinalityType
    <3>5. \A h \in Hooks : hook[h] \in Critical => hook[h] = "naming" /\ order[h] = o
      BY <2>1
    <3> QED
      BY <3>4, <3>5 DEF LimitInv
  <2>2. CASE ~ \E h \in Hooks : hook[h] = "naming" /\ order[h] = o
    <3>1. Awaited' \subseteq Awaited
      BY <2>2 DEF Awaited, Up
    <3> QED
      BY <3>1, <2>2, LimitKept
  <2> QED
    BY <2>1, <2>2
<1>4. ASSUME NEW o \in Orders, WorkerNeverComes(o) \/ WorkerEnds(o) PROVE LimitInv'
  <2>1. Awaited' \subseteq Awaited
    BY <1>4 DEF WorkerNeverComes, WorkerEnds, Awaited, Up
  <2> QED
    BY <1>4, <2>1, LimitKept DEF WorkerNeverComes, WorkerEnds, hookvars
<1>5. ASSUME NEW o \in Orders, StopWorker(o) PROVE LimitInv'
  <2>1. Awaited' \subseteq Awaited
    BY <1>5 DEF StopWorker, Awaited, Up
  <2> QED
    BY <1>5, <2>1, LimitKept DEF StopWorker, hookvars
<1>6. CASE HostEnds
  <2>1. Awaited' \subseteq Awaited
    BY <1>6 DEF HostEnds, Awaited, Up
  <2> QED
    BY <1>6, <2>1, LimitKept DEF HostEnds
<1>7. CASE UNCHANGED <<hookvars, worker, late>>
  BY <1>7, LimitKept DEF hookvars, Awaited, Up
<1>8. OpStep => UNCHANGED <<hookvars, worker, late>> \/ \E o \in Orders : StopWorker(o)
  BY DEF OpStep, Deploy, SubmitHost, NameHost, Connected, Stop, StopHost, HostStopped, ListWorkers,
         Unlink, OpFails, StatusAdopts, StatusSaves
<1>9. HostComes \/ UNCHANGED vars => UNCHANGED <<hookvars, worker, late>>
  BY DEF HostComes, vars
<1> QED
  BY <1>1, <1>2, <1>3, <1>4, <1>5, <1>6, <1>7, <1>8, <1>9 DEF Next

-----------------------------------------------------------------------------
(* The invariant, and what follows from it. *)

IInv == TypeOK /\ LockInv /\ OrderInv /\ HostInv /\ LimitInv

(* The parts hold together: each step keeps a part with the help of the others. *)
LEMMA Inductive == Spec => []IInv
<1>1. Init => IInv
  BY InitInv DEF IInv
<1>2. IInv /\ [Next]_vars => IInv'
  BY NextType, NextLock, NextOrder, NextHost, NextLimit DEF IInv
<1> QED
  BY <1>1, <1>2, PTL DEF Spec

(* Every variable keeps its type. *)
THEOREM TypeCorrect == Spec => []TypeOK
<1>1. IInv => TypeOK
  BY DEF IInv
<1> QED
  BY <1>1, Inductive, PTL

(* No token is submitted twice, and an order is reported done only if it was     *)
(* submitted, for any number of hooks and orders and however they are cut short. *)
THEOREM TokensOnce == Spec => []TokenOnce
<1>1. IInv => TokenOnce
  BY DEF IInv, OrderInv, TypeOK, TokenOnce
<1> QED
  BY <1>1, Inductive, PTL

(* There is one orchestrator at most, and a record of it while it lives. *)
THEOREM OneOrchestrator == Spec => []DeployedOnce
<1>1. IInv => DeployedOnce
  BY DEF IInv, HostInv, DeployedOnce, Runs
<1> QED
  BY <1>1, Inductive, PTL

(* The workers up, but for those nobody waited for, keep within the limit. *)
THEOREM LimitHolds == Spec => []WorkerLimit
<1>1. IInv => WorkerLimit
  BY DEF IInv, LimitInv, WorkerLimit, Awaited
<1> QED
  BY <1>1, Inductive, PTL

(* After a successful stop nothing runs that could be known. *)
THEOREM StopLeavesNothing == Spec => []StoppedIsClean
<1>1. IInv => StoppedIsClean
  BY DEF IInv, HostInv, StoppedIsClean, Runs
<1> QED
  BY <1>1, Inductive, PTL
=============================================================================
