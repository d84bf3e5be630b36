-------------------------- MODULE SandboxPoolProofs --------------------------
(***************************************************************************)
(* Proofs about SandboxPool, for any number of episodes, any pool size and *)
(* any retry budget.                                                       *)
(***************************************************************************)
EXTENDS SandboxPool, FiniteSetTheorems, SequenceTheorems, TLAPS

-----------------------------------------------------------------------------
(* The idle queue. *)

(* Taking the last element off a queue. *)
LEMMA PopLast ==
  ASSUME NEW S, NEW q \in Seq(S), q # <<>>
  PROVE  LET r == SubSeq(q, 1, Len(q) - 1)
             top == q[Len(q)]
         IN  /\ r \in Seq(S) /\ top \in S /\ Len(r) = Len(q) - 1
             /\ Range(q) = Range(r) \cup {top}
             /\ IsInjective(q) => IsInjective(r) /\ top \notin Range(r)
<1> DEFINE r == SubSeq(q, 1, Len(q) - 1)
           top == q[Len(q)]
<1>1. Len(q) \in Nat \ {0} /\ DOMAIN q = 1..Len(q)
  BY EmptySeq, LenProperties
<1>2. \A i \in 1..Len(q) : q[i] \in S
  BY ElementOfSeq
<1>3. /\ r \in Seq(S) /\ Len(r) = Len(q) - 1
      /\ \A i \in 1..(Len(q) - 1) : r[i] = q[i]
  <2>1. \A i \in 1..(Len(q) - 1) : q[i] \in S
    BY <1>1, <1>2
  <2> QED BY <1>1, <2>1, SubSeqProperties
<1>4. DOMAIN r = 1..(Len(q) - 1)
  BY <1>3, LenProperties
<1>5. Range(q) = Range(r) \cup {top}
  <2>1. Range(q) = {q[i] : i \in 1..Len(q)} /\ Range(r) = {q[i] : i \in 1..(Len(q) - 1)}
    BY <1>1, <1>3, <1>4 DEF Range
  <2>2. 1..Len(q) = 1..(Len(q) - 1) \cup {Len(q)}
    BY <1>1
  <2> HIDE DEF r
  <2> QED BY <2>1, <2>2
<1>6. IsInjective(q) => IsInjective(r) /\ top \notin Range(r)
  BY <1>1, <1>3, <1>4 DEF Range, IsInjective
<1> QED BY <1>1, <1>2, <1>3, <1>5, <1>6

(* Putting an element at the end of a queue. *)
LEMMA PushLast ==
  ASSUME NEW S, NEW q \in Seq(S), NEW x \in S
  PROVE  /\ Append(q, x) \in Seq(S) /\ Len(Append(q, x)) = Len(q) + 1
         /\ Range(Append(q, x)) = Range(q) \cup {x}
         /\ IsInjective(q) /\ x \notin Range(q) => IsInjective(Append(q, x))
<1> DEFINE r == Append(q, x)
<1>1. /\ r \in Seq(S) /\ Len(r) = Len(q) + 1
      /\ \A i \in 1..Len(q) : r[i] = q[i]
      /\ r[Len(q) + 1] = x
  BY AppendProperties
<1>2. Len(q) \in Nat /\ DOMAIN q = 1..Len(q) /\ DOMAIN r = 1..(Len(q) + 1)
  BY <1>1, LenProperties
<1>3. Range(r) = Range(q) \cup {x}
  BY <1>1, <1>2 DEF Range
<1>4. IsInjective(q) /\ x \notin Range(q) => IsInjective(r)
  BY <1>1, <1>2 DEF Range, IsInjective
<1> QED BY <1>1, <1>3, <1>4

(* Two queues without repetition and without a common element, in a row. *)
LEMMA ConcatInjective ==
  ASSUME NEW S, NEW q \in Seq(S), NEW r \in Seq(S),
         IsInjective(q), IsInjective(r), Range(q) \cap Range(r) = {}
  PROVE  IsInjective(q \o r)
<1>1. /\ q \o r \in Seq(S) /\ Len(q \o r) = Len(q) + Len(r)
      /\ \A i \in 1..(Len(q) + Len(r)) :
           (q \o r)[i] = IF i <= Len(q) THEN q[i] ELSE r[i - Len(q)]
  BY ConcatProperties
<1>2. /\ Len(q) \in Nat /\ DOMAIN q = 1..Len(q)
      /\ Len(r) \in Nat /\ DOMAIN r = 1..Len(r)
      /\ DOMAIN (q \o r) = 1..(Len(q) + Len(r))
  BY <1>1, LenProperties
<1> SUFFICES ASSUME NEW i \in 1..(Len(q) + Len(r)), NEW j \in 1..(Len(q) + Len(r)),
                    (q \o r)[i] = (q \o r)[j]
             PROVE  i = j
  BY <1>2 DEF IsInjective
<1>3. \A m \in 1..Len(q), n \in 1..Len(r) : q[m] # r[n]
  BY <1>2 DEF Range
<1>4. CASE i <= Len(q) /\ j <= Len(q)
  BY <1>1, <1>2, <1>4 DEF IsInjective
<1>5. CASE i > Len(q) /\ j > Len(q)
  <2>1. i - Len(q) \in 1..Len(r) /\ j - Len(q) \in 1..Len(r)
    BY <1>2, <1>5
  <2>2. r[i - Len(q)] = r[j - Len(q)]
    BY <1>1, <1>2, <1>5
  <2> QED BY <1>2, <2>1, <2>2 DEF IsInjective
<1>6. CASE i <= Len(q) /\ j > Len(q)
  BY <1>1, <1>2, <1>3, <1>6
<1>7. CASE i > Len(q) /\ j <= Len(q)
  BY <1>1, <1>2, <1>3, <1>7
<1> QED BY <1>2, <1>4, <1>5, <1>6, <1>7

-----------------------------------------------------------------------------
(* Types. *)

(* The awaits at which a coroutine names no sandbox. *)
Unhanded == {"idle", "waiting", "off", "spawned", "failed"}

HeldIffHanded == \A p \in Procs : held[p] = None <=> pc[p] \in Unhanded

TypeInv == TypeOK /\ HeldIffHanded

(* Leases come after the prewarm, and its children live only as long as it. *)
PhaseInv ==
  /\ warm # "warming" => \A w \in Warmers : pc[w] = "off"
  /\ warm # "warm" => idle = <<>> /\ \A e \in Episodes : pc[e] = "idle"

LEMMA InitTypeInv == Init => TypeInv /\ PhaseInv
BY EpisodesAssumption, SizeAssumption, RetriesAssumption, FaultsAssumption,
   NoneAssumption, WarmersAssumption
   DEF Init, TypeInv, TypeOK, PhaseInv, HeldIffHanded, Unhanded, Procs, Warmers,
       EpisodePCs, WarmerPCs, SandboxStates

(* A lemma per piece that the handlers share, then the step. *)
LEMMA GiveUpTypes ==
  ASSUME TypeInv, NEW p \in Procs, NEW free \in Nat, GiveUp(p, free)
  PROVE  /\ pc' \in [Procs -> EpisodePCs \cup WarmerPCs]
         /\ \A e \in Episodes : pc'[e] \in EpisodePCs
         /\ \A w \in Warmers : pc'[w] \in WarmerPCs
         /\ held' \in [Procs -> Sandboxes \cup {None}]
         /\ tries' \in [Procs -> 0..(MaxProvisionRetries + 1)]
         /\ attempts' \in [Procs -> 0..(MaxProvisionRetries + 2)]
         /\ slots' \in Nat
         /\ HeldIffHanded'
BY WarmersAssumption, RetriesAssumption
   DEF TypeInv, TypeOK, HeldIffHanded, Unhanded, Procs, Warmers,
       EpisodePCs, WarmerPCs, GiveUp

LEMMA TryProvisionTypes ==
  ASSUME TypeInv, NEW p \in Procs, NEW free \in Nat,
         NEW n \in 1..(MaxProvisionRetries + 1), NEW k \in 0..(MaxProvisionRetries + 2),
         TryProvision(p, n, k, free)
  PROVE  /\ pc' \in [Procs -> EpisodePCs \cup WarmerPCs]
         /\ \A e \in Episodes : pc'[e] \in EpisodePCs
         /\ \A w \in Warmers : pc'[w] \in WarmerPCs
         /\ held' \in [Procs -> Sandboxes \cup {None}]
         /\ tries' \in [Procs -> 0..(MaxProvisionRetries + 1)]
         /\ attempts' \in [Procs -> 0..(MaxProvisionRetries + 2)]
         /\ slots' \in Nat
         /\ sandbox' \in [Sandboxes -> SandboxStates]
         /\ HeldIffHanded'
<1>1. CASE GiveUp(p, free) /\ UNCHANGED sandbox
  BY <1>1, GiveUpTypes DEF TypeInv, TypeOK
<1>2. CASE ~isClosed
  <2>1. PICK s \in Sandboxes : BeginProvision(p, s)
    BY <1>2 DEF TryProvision
  <2>2. s # None
    BY NoneAssumption
  <2>3. /\ tries' = [tries EXCEPT ![p] = n]
        /\ attempts' = [attempts EXCEPT ![p] = k]
        /\ slots' = free
    BY <1>2 DEF TryProvision
  <2>4. /\ pc' \in [Procs -> EpisodePCs \cup WarmerPCs]
        /\ \A e \in Episodes : pc'[e] \in EpisodePCs
        /\ \A w \in Warmers : pc'[w] \in WarmerPCs
    BY <2>1 DEF BeginProvision, TypeInv, TypeOK, Procs, EpisodePCs, WarmerPCs
  <2>5. held' \in [Procs -> Sandboxes \cup {None}] /\ sandbox' \in [Sandboxes -> SandboxStates]
    BY <2>1 DEF BeginProvision, TypeInv, TypeOK, SandboxStates
  <2>6. /\ tries' \in [Procs -> 0..(MaxProvisionRetries + 1)]
        /\ attempts' \in [Procs -> 0..(MaxProvisionRetries + 2)]
    BY <2>3, RetriesAssumption DEF TypeInv, TypeOK
  <2>7. HeldIffHanded'
    BY <2>1, <2>2 DEF BeginProvision, TypeInv, TypeOK, HeldIffHanded, Unhanded
  <2> QED BY <2>3, <2>4, <2>5, <2>6, <2>7
<1> QED BY <1>1, <1>2 DEF TryProvision

LEMMA GetHandleTypes ==
  ASSUME TypeInv, NEW e \in Episodes, NEW free \in Nat,
         NEW k \in 0..(MaxProvisionRetries + 2), GetHandle(e, k, free)
  PROVE  /\ pc' \in [Procs -> EpisodePCs \cup WarmerPCs]
         /\ \A f \in Episodes : pc'[f] \in EpisodePCs
         /\ \A w \in Warmers : pc'[w] \in WarmerPCs
         /\ held' \in [Procs -> Sandboxes \cup {None}]
         /\ tries' \in [Procs -> 0..(MaxProvisionRetries + 1)]
         /\ attempts' \in [Procs -> 0..(MaxProvisionRetries + 2)]
         /\ slots' \in Nat
         /\ idle' \in Seq(Sandboxes)
         /\ sandbox' \in [Sandboxes -> SandboxStates]
         /\ HeldIffHanded'
<1>1. CASE idle # <<>>
  <2>1. idle[Len(idle)] \in Sandboxes /\ SubSeq(idle, 1, Len(idle) - 1) \in Seq(Sandboxes)
    BY <1>1, PopLast DEF TypeInv, TypeOK
  <2>2. idle[Len(idle)] # None /\ e \in Procs /\ e \notin Warmers
    BY <2>1, NoneAssumption, WarmersAssumption DEF Procs
  <2>3. /\ held' = [held EXCEPT ![e] = idle[Len(idle)]]
        /\ idle' = SubSeq(idle, 1, Len(idle) - 1)
        /\ pc'   = [pc EXCEPT ![e] = "resetting"]
        /\ attempts' = [attempts EXCEPT ![e] = k]
        /\ slots' = free
        /\ UNCHANGED <<tries, sandbox>>
    BY <1>1 DEF GetHandle
  <2>4. /\ pc' \in [Procs -> EpisodePCs \cup WarmerPCs]
        /\ \A f \in Episodes : pc'[f] \in EpisodePCs
        /\ \A w \in Warmers : pc'[w] \in WarmerPCs
    BY <2>2, <2>3 DEF TypeInv, TypeOK, EpisodePCs, WarmerPCs
  <2>5. /\ held' \in [Procs -> Sandboxes \cup {None}]
        /\ attempts' \in [Procs -> 0..(MaxProvisionRetries + 2)]
    BY <2>1, <2>3 DEF TypeInv, TypeOK
  <2>6. HeldIffHanded'
    BY <2>2, <2>3 DEF TypeInv, TypeOK, HeldIffHanded, Unhanded
  <2> QED BY <2>1, <2>3, <2>4, <2>5, <2>6 DEF TypeInv, TypeOK
<1>2. CASE idle = <<>>
  <2>1. TryProvision(e, 1, k, free) /\ idle' = idle
    BY <1>2 DEF GetHandle
  <2>2. e \in Procs /\ 1 \in 1..(MaxProvisionRetries + 1)
    BY RetriesAssumption DEF Procs
  <2> QED BY <2>1, <2>2, TryProvisionTypes DEF TypeInv, TypeOK
<1> QED BY <1>1, <1>2

LEMMA BeginDestroyTypes ==
  ASSUME TypeInv, NEW p \in Procs, pc[p] \notin Unhanded,
         NEW then, p \in Episodes => then \in EpisodePCs \ Unhanded,
         p \in Warmers => then \in WarmerPCs \ Unhanded,
         BeginDestroy(p, then), held' = held
  PROVE  /\ pc' \in [Procs -> EpisodePCs \cup WarmerPCs]
         /\ \A f \in Episodes : pc'[f] \in EpisodePCs
         /\ \A w \in Warmers : pc'[w] \in WarmerPCs
         /\ live' \in SUBSET Sandboxes
         /\ sandbox' \in [Sandboxes -> SandboxStates]
         /\ HeldIffHanded'
BY WarmersAssumption
   DEF BeginDestroy, Stopping, TypeInv, TypeOK, HeldIffHanded, Unhanded, Procs,
       Warmers, EpisodePCs, WarmerPCs, SandboxStates

(* What prewarm() hands to the idle queue. *)
LEMMA WarmedHandles ==
  ASSUME TypeInv, NEW order \in Bijection(1..Cardinality(Warmed), Warmed)
  PROVE  /\ Cardinality(Warmed) \in Nat
         /\ order \in [1..Cardinality(Warmed) -> Warmed]
         /\ \A i \in 1..Cardinality(Warmed) : held[order[i]] \in Sandboxes
         /\ [i \in 1..Cardinality(Warmed) |-> held[order[i]]] \in Seq(Sandboxes)
<1>1. IsFiniteSet(Warmed)
  BY SizeAssumption, FS_Interval, FS_Subset DEF Warmed, Warmers
<1>2. Cardinality(Warmed) \in Nat
  BY <1>1, FS_CardinalityType
<1>3. order \in [1..Cardinality(Warmed) -> Warmed]
  BY DEF Bijection, Injection
<1>4. \A i \in 1..Cardinality(Warmed) : held[order[i]] \in Sandboxes
  <2>1. \A w \in Warmed : w \in Procs /\ pc[w] = "warmed"
    BY DEF Warmed, Procs
  <2>2. \A w \in Warmed : held[w] \in Sandboxes
    BY <2>1 DEF TypeInv, TypeOK, HeldIffHanded, Unhanded
  <2> QED BY <1>3, <2>2
<1> QED BY <1>2, <1>3, <1>4, IsASeq

LEMMA TypeStep == TypeInv /\ PhaseInv /\ [Next]_vars => TypeInv'
<1> SUFFICES ASSUME TypeInv, PhaseInv, [Next]_vars PROVE TypeInv'
  OBVIOUS
<1> USE DEF TypeInv
<1> DEFINE types == /\ pc' \in [Procs -> EpisodePCs \cup WarmerPCs]
                    /\ \A e \in Episodes : pc'[e] \in EpisodePCs
                    /\ \A w \in Warmers : pc'[w] \in WarmerPCs
                    /\ HeldIffHanded'
<1>a. \A e \in Episodes : e \in Procs /\ e \notin Warmers
  BY WarmersAssumption DEF Procs
<1>b. \A w \in Warmers : w \in Procs /\ w \notin Episodes
  BY WarmersAssumption DEF Procs
<1>c. MaxProvisionRetries \in Nat /\ slots \in Nat
  BY RetriesAssumption DEF TypeOK
<1>d. Fault => faults' \in 0..MaxFaults
  BY FaultsAssumption DEF Fault, TypeOK
<1>1. ASSUME NEW e \in Episodes, Acquire(e) \/ AcquireTimeout(e) PROVE TypeInv'
  <2>1. HeldIffHanded'
    BY <1>1 DEF Acquire, AcquireTimeout, TypeOK, HeldIffHanded, Unhanded
  <2>2. /\ pc' \in [Procs -> EpisodePCs \cup WarmerPCs]
        /\ \A f \in Episodes : pc'[f] \in EpisodePCs
        /\ \A w \in Warmers : pc'[w] \in WarmerPCs
    <3>1. PICK x \in {"idle", "waiting"} : pc' = [pc EXCEPT ![e] = x]
      BY <1>1 DEF Acquire, AcquireTimeout
    <3>2. x \in EpisodePCs
      BY DEF EpisodePCs
    <3> QED BY <3>1, <3>2, <1>a DEF TypeOK
  <2> QED BY <1>1, <2>1, <2>2 DEF Acquire, AcquireTimeout, TypeOK
<1>2. ASSUME NEW e \in Episodes, TakeSlot(e) PROVE TypeInv'
  <2>1. slots - 1 \in Nat /\ 1 \in 0..(MaxProvisionRetries + 2)
    BY <1>2, <1>c DEF TakeSlot
  <2> QED BY <1>2, <2>1, GetHandleTypes DEF TakeSlot, TypeOK
<1>3. ASSUME NEW e \in Episodes, ResetSucceeds(e) PROVE TypeInv'
  <2>1. HeldIffHanded'
    BY <1>3 DEF ResetSucceeds, TypeOK, HeldIffHanded, Unhanded
  <2>2. /\ attempts' \in [Procs -> 0..(MaxProvisionRetries + 2)]
        /\ pc' \in [Procs -> EpisodePCs \cup WarmerPCs]
        /\ \A f \in Episodes : pc'[f] \in EpisodePCs
        /\ \A w \in Warmers : pc'[w] \in WarmerPCs
    BY <1>3, <1>a, <1>c DEF ResetSucceeds, TypeOK, EpisodePCs, WarmerPCs
  <2> QED BY <1>3, <2>1, <2>2 DEF ResetSucceeds, TypeOK
<1>4. ASSUME NEW e \in Episodes, ResetFails(e) \/ CancelReset(e) PROVE TypeInv'
  BY <1>4, <1>a, <1>d, BeginDestroyTypes
     DEF ResetFails, CancelReset, TypeOK, Unhanded, EpisodePCs
<1>5. ASSUME NEW e \in Episodes, ReplaceReturns(e) PROVE TypeInv'
  <2>1. CASE GiveUp(e, slots) /\ UNCHANGED <<idle, sandbox>>
    BY <1>5, <2>1, <1>a, <1>c, GiveUpTypes DEF ReplaceReturns, TypeOK
  <2>2. CASE attempts[e] <= MaxProvisionRetries + 1 /\ GetHandle(e, attempts[e] + 1, slots)
    <3>1. attempts[e] + 1 \in 0..(MaxProvisionRetries + 2)
      BY <2>2, <1>a, <1>c DEF TypeOK
    <3> QED BY <1>5, <2>2, <3>1, <1>c, GetHandleTypes DEF ReplaceReturns, TypeOK
  <2> QED BY <1>5, <2>1, <2>2 DEF ReplaceReturns
<1>6. ASSUME NEW e \in Episodes, CancelDestroy(e) \/ CancelProvision(e) PROVE TypeInv'
  BY <1>6, <1>a, <1>c, <1>d, GiveUpTypes DEF CancelDestroy, CancelProvision, TypeOK
<1>7. ASSUME NEW e \in Episodes, NEW healthy \in BOOLEAN, Release(e, healthy) PROVE TypeInv'
  <2>1. CASE idle' = Append(idle, held[e]) /\ GiveUp(e, slots) /\ UNCHANGED <<live, sandbox>>
    <3>1. held[e] \in Sandboxes
      BY <1>7, <1>a DEF Release, TypeOK, HeldIffHanded, Unhanded
    <3>2. idle' \in Seq(Sandboxes)
      BY <2>1, <3>1, PushLast DEF TypeOK
    <3> QED BY <1>7, <2>1, <3>2, <1>a, <1>c, GiveUpTypes DEF Release, TypeOK
  <2>2. CASE BeginDestroy(e, "returning") /\ UNCHANGED <<held, tries, attempts, idle, slots>>
    BY <1>7, <2>2, <1>a, BeginDestroyTypes DEF Release, TypeOK, Unhanded, EpisodePCs
  <2> QED BY <1>7, <2>1, <2>2 DEF Release
<1>8. ASSUME NEW e \in Episodes, ReleaseReturns(e) PROVE TypeInv'
  BY <1>8, <1>a, <1>c, GiveUpTypes DEF ReleaseReturns, TypeOK
<1>9. ASSUME NEW p \in Procs, ProvisionReturns(p) PROVE TypeInv'
  <2>1. CASE /\ live' = live \cup {held[p]}
             /\ pc' = [pc EXCEPT ![p] = IF p \in Episodes THEN "resetting" ELSE "warmed"]
             /\ UNCHANGED sandbox
    <3>1. held[p] \in Sandboxes
      BY <1>9 DEF ProvisionReturns, TypeOK, HeldIffHanded, Unhanded
    <3> QED BY <1>9, <2>1, <3>1, <1>a, <1>b, <1>c
            DEF ProvisionReturns, TypeOK, HeldIffHanded, Unhanded, Procs, EpisodePCs, WarmerPCs
  <2>2. CASE BeginDestroy(p, "abandoning")
    <3>1. /\ pc[p] \notin Unhanded /\ held' = held
          /\ "abandoning" \in EpisodePCs \ Unhanded
          /\ "abandoning" \in WarmerPCs \ Unhanded
      BY <1>9 DEF ProvisionReturns, Unhanded, EpisodePCs, WarmerPCs
    <3>2. tries' \in [Procs -> 0..(MaxProvisionRetries + 1)]
      BY <1>9, <1>c DEF ProvisionReturns, TypeOK
    <3> QED BY <1>9, <2>2, <3>1, <3>2, BeginDestroyTypes DEF ProvisionReturns, TypeOK
  <2> QED BY <1>9, <2>1, <2>2 DEF ProvisionReturns
<1>10. ASSUME NEW p \in Procs, ProvisionRaises(p) PROVE TypeInv'
  <2>1. CASE tries[p] <= MaxProvisionRetries /\ TryProvision(p, tries[p] + 1, attempts[p], slots)
    <3>1. /\ tries[p] + 1 \in 1..(MaxProvisionRetries + 1)
          /\ attempts[p] \in 0..(MaxProvisionRetries + 2)
      BY <2>1, <1>c DEF TypeOK
    <3> QED BY <1>10, <2>1, <3>1, <1>c, TryProvisionTypes DEF ProvisionRaises, TypeOK
  <2>2. CASE GiveUp(p, slots) /\ UNCHANGED sandbox
    BY <1>10, <2>2, <1>c, GiveUpTypes DEF ProvisionRaises, TypeOK
  <2> QED BY <1>10, <2>1, <2>2 DEF ProvisionRaises
<1>11. ASSUME NEW p \in Procs, AbandonReturns(p) PROVE TypeInv'
  BY <1>11, <1>c, GiveUpTypes DEF AbandonReturns, TypeOK
<1>12. CASE Prewarm
  <2>1. /\ \A w \in Warmers : pc[w] = "off"
        /\ warm' \in {"cold", "warming", "warm"}
    BY <1>12 DEF Prewarm, PhaseInv
  <2>2. CASE UNCHANGED pc
    BY <1>12, <2>1, <2>2 DEF Prewarm, TypeOK, HeldIffHanded
  <2>3. CASE pc' = [p \in Procs |-> IF p \in Warmers /\ p <= Size - Cardinality(live)
                                      THEN "spawned" ELSE pc[p]]
    <3>1. \A p \in Procs : pc'[p] = pc[p] \/ (p \in Warmers /\ pc'[p] = "spawned" /\ pc[p] = "off")
      BY <2>1, <2>3
    <3>2. /\ pc' \in [Procs -> EpisodePCs \cup WarmerPCs]
          /\ \A e \in Episodes : pc'[e] \in EpisodePCs
          /\ \A w \in Warmers : pc'[w] \in WarmerPCs
      BY <2>3, <3>1, <1>a, <1>b DEF TypeOK, EpisodePCs, WarmerPCs
    <3>3. HeldIffHanded'
      BY <1>12, <3>1 DEF Prewarm, HeldIffHanded, Unhanded
    <3> QED BY <1>12, <2>1, <3>2, <3>3 DEF Prewarm, TypeOK
  <2> QED BY <1>12, <2>2, <2>3 DEF Prewarm
<1>13. ASSUME NEW w \in Warmers, WarmerStarts(w) PROVE TypeInv'
  <2>1. 1 \in 1..(MaxProvisionRetries + 1) /\ 0 \in 0..(MaxProvisionRetries + 2)
    BY <1>c
  <2> QED BY <1>13, <2>1, <1>b, <1>c, TryProvisionTypes DEF WarmerStarts, TypeOK
<1>e. ASSUME pc' = [p \in Procs |-> IF p \in Warmers THEN "off" ELSE pc[p]],
              held' = [p \in Procs |-> IF p \in Warmers THEN None ELSE held[p]]
       PROVE  /\ pc' \in [Procs -> EpisodePCs \cup WarmerPCs]
              /\ \A e \in Episodes : pc'[e] \in EpisodePCs
              /\ \A w \in Warmers : pc'[w] \in WarmerPCs
              /\ held' \in [Procs -> Sandboxes \cup {None}]
              /\ HeldIffHanded'
  BY <1>e, <1>a, <1>b DEF TypeOK, HeldIffHanded, Unhanded, EpisodePCs, WarmerPCs
<1>14. CASE PrewarmReturns
  <2>1. PICK order \in Bijection(1..Cardinality(Warmed), Warmed) :
          idle' = idle \o [i \in 1..Cardinality(Warmed) |-> held[order[i]]]
    BY <1>14 DEF PrewarmReturns
  <2>2. idle' \in Seq(Sandboxes)
    BY <2>1, WarmedHandles, ConcatProperties DEF TypeOK
  <2> QED BY <1>14, <1>e, <2>2 DEF PrewarmReturns, TypeOK
<1>15. CASE PrewarmCancelled
  <2>1. tries' \in [Procs -> 0..(MaxProvisionRetries + 1)]
    BY <1>15, <1>c DEF PrewarmCancelled, TypeOK
  <2> QED BY <1>15, <1>e, <1>d, <2>1 DEF PrewarmCancelled, TypeOK
<1>16. CASE Aclose \/ AcloseReturns
  <2>1. sandbox' \in [Sandboxes -> SandboxStates]
    BY <1>16 DEF Aclose, AcloseReturns, Stopping, TypeOK, SandboxStates
  <2>2. <<>> \in Seq(Sandboxes)
    BY EmptySeq
  <2> QED BY <1>16, <2>1, <2>2 DEF Aclose, AcloseReturns, TypeOK, HeldIffHanded
<1>17. ASSUME NEW s \in Sandboxes, BackendStep(s) PROVE TypeInv'
  BY <1>17, <1>d DEF BackendStep, ThreadReady, ThreadRaises, ThreadRaisesLost, StopSucceeds,
     StopFails, Dies, Backend, TypeOK, HeldIffHanded, SandboxStates
<1>18. CASE UNCHANGED vars
  BY <1>18 DEF vars, TypeOK, HeldIffHanded
<1> QED
  BY <1>1, <1>2, <1>3, <1>4, <1>5, <1>6, <1>7, <1>8, <1>9, <1>10, <1>11, <1>12, <1>13, <1>14,
     <1>15, <1>16, <1>17, <1>18 DEF Next, EpisodeStep, ProvisionStep, PrewarmStep

LEMMA PhaseStep == TypeInv /\ PhaseInv /\ [Next]_vars => PhaseInv'
<1> SUFFICES ASSUME TypeInv, PhaseInv, [Next]_vars PROVE PhaseInv'
  OBVIOUS
<1> USE DEF TypeInv
<1>a. \A e \in Episodes : e \in Procs /\ e \notin Warmers
  BY WarmersAssumption DEF Procs
<1>b. \A w \in Warmers : w \in Procs /\ w \notin Episodes
  BY WarmersAssumption DEF Procs
<1>1. ASSUME NEW e \in Episodes, EpisodeStep(e) PROVE PhaseInv'
  <2>1. warm = "warm"
    <3>1. pc[e] # "idle" \/ warm = "warm"
      BY <1>1 DEF EpisodeStep, Acquire, AcquireTimeout, TakeSlot, ResetSucceeds, ResetFails,
         CancelReset, ReplaceReturns, CancelDestroy, CancelProvision, Release, ReleaseReturns
    <3> QED BY <3>1 DEF PhaseInv
  <2>2. warm' = warm
    BY <1>1 DEF EpisodeStep, Acquire, AcquireTimeout, TakeSlot, ResetSucceeds, ResetFails,
       CancelReset, ReplaceReturns, CancelDestroy, CancelProvision, Release, ReleaseReturns
  <2>3. \A w \in Warmers : pc'[w] = pc[w]
    BY <1>1, <1>a, <1>b
       DEF EpisodeStep, Acquire, AcquireTimeout, TakeSlot, ResetSucceeds, ResetFails,
       CancelReset, ReplaceReturns, CancelDestroy, CancelProvision, Release, ReleaseReturns,
       GetHandle, TryProvision, BeginProvision, GiveUp, BeginDestroy, TypeOK
  <2> QED BY <2>1, <2>2, <2>3 DEF PhaseInv
<1>2. ASSUME NEW p \in Procs, ProvisionStep(p) \/ (p \in Warmers /\ WarmerStarts(p)) PROVE PhaseInv'
  <2>1. pc[p] \in {"provisioning", "abandoning", "spawned"} /\ UNCHANGED <<warm, idle>>
    BY <1>2 DEF ProvisionStep, ProvisionReturns, ProvisionRaises, AbandonReturns, WarmerStarts
  <2>2. \A q \in Procs : q # p => pc'[q] = pc[q]
    BY <1>2 DEF ProvisionStep, ProvisionReturns, ProvisionRaises, AbandonReturns, WarmerStarts,
       TryProvision, BeginProvision, GiveUp, BeginDestroy, TypeOK
  <2>3. CASE p \in Episodes
    BY <2>1, <2>2, <2>3, <1>a, <1>b DEF PhaseInv
  <2>4. CASE p \in Warmers
    BY <2>1, <2>2, <2>4, <1>a, <1>b DEF PhaseInv
  <2> QED BY <2>3, <2>4 DEF Procs
<1>3. CASE Prewarm
  BY <1>3, <1>a DEF Prewarm, PhaseInv, TypeOK
<1>4. CASE PrewarmReturns
  <2>1. \A e \in Episodes : pc'[e] = pc[e]
    BY <1>4, <1>a DEF PrewarmReturns
  <2>2. \A w \in Warmers : pc'[w] = "off"
    BY <1>4, <1>b DEF PrewarmReturns
  <2>3. warm' # "warm" => idle' = idle
    <3> SUFFICES ASSUME warm' # "warm" PROVE idle' = idle
      OBVIOUS
    <3>1. Warmed = {}
      BY <1>4 DEF PrewarmReturns
    <3>2. Cardinality(Warmed) = 0
      BY <3>1, FS_EmptySet
    <3>3. PICK order \in Bijection(1..Cardinality(Warmed), Warmed) :
            idle' = idle \o [i \in 1..Cardinality(Warmed) |-> held[order[i]]]
      BY <1>4 DEF PrewarmReturns
    <3>4. [i \in 1..Cardinality(Warmed) |-> held[order[i]]] = <<>>
      BY <3>2
    <3> QED BY <3>3, <3>4, ConcatEmptySeq DEF TypeOK
  <2>4. warm = "warming"
    BY <1>4 DEF PrewarmReturns
  <2> QED BY <2>1, <2>2, <2>3, <2>4 DEF PhaseInv
<1>5. CASE PrewarmCancelled
  BY <1>5, <1>a, <1>b DEF PrewarmCancelled, PhaseInv
<1>6. CASE Aclose \/ AcloseReturns
  BY <1>6 DEF Aclose, AcloseReturns, PhaseInv
<1>7. ASSUME NEW s \in Sandboxes, BackendStep(s) PROVE PhaseInv'
  BY <1>7 DEF BackendStep, ThreadReady, ThreadRaises, ThreadRaisesLost, StopSucceeds,
     StopFails, Dies, Backend, PhaseInv
<1>8. CASE UNCHANGED vars
  BY <1>8 DEF vars, PhaseInv
<1> QED
  BY <1>1, <1>2, <1>3, <1>4, <1>5, <1>6, <1>7, <1>8, <1>b DEF Next, PrewarmStep

(* Every variable keeps its type: no await leaves a counter above its limit or *)
(* a coroutine at an await it does not have (acquire, release, prewarm and    *)
(* aclose of pool.py).                                                      *)
THEOREM TypeCorrect == Spec => []TypeOK
<1>1. Init => TypeInv /\ PhaseInv
  BY InitTypeInv
<1>2. TypeInv /\ PhaseInv /\ [Next]_vars => (TypeInv /\ PhaseInv)'
  BY TypeStep, PhaseStep
<1>3. TypeInv => TypeOK
  BY DEF TypeInv
<1> QED BY <1>1, <1>2, <1>3, PTL DEF Spec

-----------------------------------------------------------------------------
(* The semaphore. *)

(* How one coroutine's step changes the set of slot holders. *)
LEMMA HoldersMove ==
  ASSUME TypeInv, NEW p \in Procs, NEW x, pc' = [pc EXCEPT ![p] = x]
  PROVE  Holders' = IF p \in Episodes
                    THEN IF x \in {"idle", "waiting"} THEN Holders \ {p} ELSE Holders \cup {p}
                    ELSE Holders
BY DEF TypeInv, TypeOK, Holders, Procs

LEMMA HoldersFinite == IsFiniteSet(Holders) /\ Cardinality(Holders) \in Nat
BY EpisodesAssumption, FS_Subset, FS_CardinalityType DEF Holders

(* `free` slots and the coroutine p, if it needs one, are all that the others leave. *)
Leaves(p, free) ==
  free + Cardinality(Holders \cup (IF p \in Episodes THEN {p} ELSE {})) = Size

LEMMA GiveUpSlots ==
  ASSUME TypeInv, NEW p \in Procs, NEW free \in Nat, Leaves(p, free), GiveUp(p, free)
  PROVE  SlotsConserved'
<1>1. CASE p \in Episodes
  <2>1. Holders' = Holders \ {p} /\ slots' = free + 1
    BY <1>1, HoldersMove DEF GiveUp
  <2>2. /\ IsFiniteSet(Holders \cup {p})
        /\ (Holders \cup {p}) \ {p} = Holders \ {p}
    BY HoldersFinite, FS_AddElement
  <2>3. /\ Cardinality(Holders \ {p}) = Cardinality(Holders \cup {p}) - 1
        /\ Cardinality(Holders \cup {p}) \in Nat
    BY <2>2, FS_RemoveElement, FS_CardinalityType
  <2> QED BY <1>1, <2>1, <2>3, SizeAssumption DEF Leaves, SlotsConserved
<1>2. CASE p \notin Episodes
  <2>1. Holders' = Holders /\ slots' = free
    BY <1>2, HoldersMove DEF GiveUp
  <2>2. Holders \cup {} = Holders
    OBVIOUS
  <2> QED BY <1>2, <2>1, <2>2 DEF Leaves, SlotsConserved
<1> QED BY <1>1, <1>2

LEMMA TryProvisionSlots ==
  ASSUME TypeInv, NEW p \in Procs, NEW free \in Nat, NEW n, NEW k, Leaves(p, free),
         TryProvision(p, n, k, free)
  PROVE  SlotsConserved'
<1>1. CASE GiveUp(p, free)
  BY <1>1, GiveUpSlots
<1>2. CASE ~isClosed /\ slots' = free /\ \E s \in Sandboxes : BeginProvision(p, s)
  <2>1. Holders' = Holders \cup (IF p \in Episodes THEN {p} ELSE {})
    BY <1>2, HoldersMove DEF BeginProvision
  <2> QED BY <1>2, <2>1 DEF Leaves, SlotsConserved
<1> QED BY <1>1, <1>2 DEF TryProvision

LEMMA GetHandleSlots ==
  ASSUME TypeInv, NEW e \in Episodes, NEW free \in Nat, NEW k, Leaves(e, free),
         GetHandle(e, k, free)
  PROVE  SlotsConserved'
<1>1. e \in Procs
  BY DEF Procs
<1>2. CASE pc' = [pc EXCEPT ![e] = "resetting"] /\ slots' = free
  <2>1. Holders' = Holders \cup {e}
    <3>1. Holders' = IF e \in Episodes
                     THEN IF "resetting" \in {"idle", "waiting"} THEN Holders \ {e}
                                                                ELSE Holders \cup {e}
                     ELSE Holders
      BY <1>1, <1>2, HoldersMove
    <3> QED BY <3>1
  <2> QED BY <1>2, <2>1 DEF Leaves, SlotsConserved
<1>3. CASE TryProvision(e, 1, k, free)
  BY <1>1, <1>3, TryProvisionSlots
<1> QED BY <1>2, <1>3 DEF GetHandle

LEMMA SlotsStep == TypeInv /\ SlotsConserved /\ [Next]_vars => SlotsConserved'
<1> SUFFICES ASSUME TypeInv, SlotsConserved, [Next]_vars PROVE SlotsConserved'
  OBVIOUS
<1>a. \A e \in Episodes : e \in Procs
  BY DEF Procs
<1>b. slots \in Nat
  BY DEF TypeInv, TypeOK
<1>c. \A p \in Procs : (p \in Episodes => p \in Holders) => Leaves(p, slots)
  <2> SUFFICES ASSUME NEW p \in Procs, p \in Episodes => p \in Holders PROVE Leaves(p, slots)
    OBVIOUS
  <2>1. Holders \cup (IF p \in Episodes THEN {p} ELSE {}) = Holders
    OBVIOUS
  <2> QED BY <2>1 DEF Leaves, SlotsConserved
<1>d. \A p \in Procs : pc[p] \notin {"idle", "waiting"} => Leaves(p, slots)
  BY <1>c DEF Holders
<1>1. ASSUME NEW e \in Episodes, Acquire(e) \/ AcquireTimeout(e) PROVE SlotsConserved'
  <2>1. PICK x \in {"idle", "waiting"} : pc' = [pc EXCEPT ![e] = x]
    BY <1>1 DEF Acquire, AcquireTimeout
  <2>2. pc[e] \in {"idle", "waiting"} /\ slots' = slots
    BY <1>1 DEF Acquire, AcquireTimeout
  <2>3. Holders' = Holders
    BY <1>a, <2>1, <2>2, HoldersMove DEF Holders
  <2> QED BY <2>2, <2>3 DEF SlotsConserved
<1>2. ASSUME NEW e \in Episodes, TakeSlot(e) PROVE SlotsConserved'
  <2>1. slots - 1 \in Nat /\ e \notin Holders
    BY <1>2, <1>b DEF TakeSlot, Holders
  <2>2. Cardinality(Holders \cup {e}) = Cardinality(Holders) + 1
    BY <2>1, HoldersFinite, FS_AddElement
  <2>3. Leaves(e, slots - 1)
    BY <1>b, <2>2, HoldersFinite DEF Leaves, SlotsConserved
  <2> QED BY <1>2, <2>1, <2>3, GetHandleSlots DEF TakeSlot
<1>3. ASSUME NEW p \in Procs, NEW x, pc[p] \notin {"idle", "waiting"}, x \notin {"idle", "waiting"},
             pc' = [pc EXCEPT ![p] = x], slots' = slots
      PROVE  SlotsConserved'
  <2>1. Holders' = Holders
    BY <1>3, HoldersMove DEF Holders
  <2> QED BY <1>3, <2>1 DEF SlotsConserved
<1>4. ASSUME NEW e \in Episodes, ResetSucceeds(e) \/ ResetFails(e) \/ CancelReset(e)
      PROVE  SlotsConserved'
  BY <1>3, <1>4, <1>a DEF ResetSucceeds, ResetFails, CancelReset, BeginDestroy
<1>5. ASSUME NEW e \in Episodes, ReplaceReturns(e) PROVE SlotsConserved'
  BY <1>5, <1>a, <1>b, <1>d, GiveUpSlots, GetHandleSlots DEF ReplaceReturns
<1>6. ASSUME NEW e \in Episodes, CancelDestroy(e) \/ CancelProvision(e) \/ ReleaseReturns(e)
      PROVE  SlotsConserved'
  BY <1>6, <1>a, <1>b, <1>d, GiveUpSlots DEF CancelDestroy, CancelProvision, ReleaseReturns
<1>7. ASSUME NEW e \in Episodes, NEW healthy \in BOOLEAN, Release(e, healthy)
      PROVE  SlotsConserved'
  BY <1>3, <1>7, <1>a, <1>b, <1>d, GiveUpSlots DEF Release, BeginDestroy
<1>8. ASSUME NEW p \in Procs, ProvisionStep(p) PROVE SlotsConserved'
  <2>1. CASE ProvisionReturns(p)
    BY <1>3, <2>1 DEF ProvisionReturns, BeginDestroy
  <2>2. CASE ProvisionRaises(p)
    BY <1>b, <1>d, <2>2, GiveUpSlots, TryProvisionSlots DEF ProvisionRaises
  <2>3. CASE AbandonReturns(p)
    BY <1>b, <1>d, <2>3, GiveUpSlots DEF AbandonReturns
  <2> QED BY <1>8, <2>1, <2>2, <2>3 DEF ProvisionStep
<1>9. CASE PrewarmStep
  <2>1. CASE Prewarm \/ PrewarmReturns \/ PrewarmCancelled
    <3>1. \A e \in Episodes : pc'[e] = pc[e]
      BY <2>1, <1>a, WarmersAssumption DEF Prewarm, PrewarmReturns, PrewarmCancelled
    <3>2. Holders' = Holders /\ slots' = slots
      BY <2>1, <3>1 DEF Holders, Prewarm, PrewarmReturns, PrewarmCancelled
    <3> QED BY <3>2 DEF SlotsConserved
  <2>2. ASSUME NEW w \in Warmers, WarmerStarts(w) PROVE SlotsConserved'
    <3>1. w \in Procs /\ w \notin Episodes
      BY WarmersAssumption DEF Procs
    <3> QED BY <1>b, <1>c, <2>2, <3>1, TryProvisionSlots DEF WarmerStarts
  <2> QED BY <1>9, <2>1, <2>2 DEF PrewarmStep
<1>10. CASE UNCHANGED <<pc, slots>>
  BY <1>10 DEF SlotsConserved, Holders
<1>11. ASSUME NEW s \in Sandboxes, BackendStep(s) PROVE UNCHANGED <<pc, slots>>
  BY <1>11 DEF BackendStep, ThreadReady, ThreadRaises, ThreadRaisesLost, StopSucceeds,
     StopFails, Dies, Backend
<1>12. Aclose \/ AcloseReturns \/ UNCHANGED vars => UNCHANGED <<pc, slots>>
  BY DEF Aclose, AcloseReturns, vars
<1> QED
  BY <1>1, <1>2, <1>4, <1>5, <1>6, <1>7, <1>8, <1>9, <1>10, <1>11, <1>12
     DEF Next, EpisodeStep

LEMMA InitSlots == Init => SlotsConserved
<1> SUFFICES ASSUME Init PROVE SlotsConserved
  OBVIOUS
<1>1. Holders = {}
  BY DEF Init, Holders, Procs
<1> QED BY <1>1, FS_EmptySet, SizeAssumption DEF Init, SlotsConserved

(* Every slot that acquire takes comes back, whatever path the caller leaves  *)
(* by: timeout, failed provision or reset, cancellation, either release.     *)
THEOREM SlotsAlwaysConserved == Spec => []SlotsConserved
<1>1. Init => TypeInv /\ PhaseInv /\ SlotsConserved
  BY InitTypeInv, InitSlots
<1>2. TypeInv /\ PhaseInv /\ SlotsConserved /\ [Next]_vars
        => (TypeInv /\ PhaseInv /\ SlotsConserved)'
  BY TypeStep, PhaseStep, SlotsStep
<1> QED BY <1>1, <1>2, PTL DEF Spec

-----------------------------------------------------------------------------
(* Who has which sandbox. *)

(* No sandbox is named twice: not by two coroutines, not by a coroutine and the *)
(* idle queue, not by two places of the queue.  Stronger than LeaseExclusive  *)
(* in that it covers the handles being destroyed or provisioned as well.    *)
HandleInv ==
  /\ \A p, q \in Procs : held[p] = held[q] /\ held[p] # None => p = q
  /\ \A p \in Procs : held[p] \notin IdleSet
  /\ IsInjective(idle)

LEMMA IdleSetType == TypeInv => IdleSet \subseteq Sandboxes /\ None \notin IdleSet
<1> SUFFICES ASSUME TypeInv PROVE IdleSet \subseteq Sandboxes /\ None \notin IdleSet
  OBVIOUS
<1>1. \A i \in DOMAIN idle : idle[i] \in Sandboxes
  BY ElementOfSeq, LenProperties DEF TypeInv, TypeOK
<1> QED BY <1>1, NoneAssumption DEF IdleSet, Range

(* A coroutine drops its handle. *)
LEMMA DropHandle ==
  ASSUME TypeInv, HandleInv, NEW p \in Procs, held' = [held EXCEPT ![p] = None], idle' = idle
  PROVE  HandleInv'
<1> QED BY IdleSetType DEF TypeInv, TypeOK, HandleInv, IdleSet

LEMMA TryProvisionHandles ==
  ASSUME TypeInv, HandleInv, NEW p \in Procs, NEW n, NEW k, NEW free,
         TryProvision(p, n, k, free), idle' = idle
  PROVE  HandleInv'
<1>1. CASE GiveUp(p, free)
  BY <1>1, DropHandle DEF GiveUp
<1>2. ASSUME NEW s \in Sandboxes, BeginProvision(p, s) PROVE HandleInv'
  BY <1>2 DEF BeginProvision, Fresh, TypeInv, TypeOK, HandleInv, IdleSet
<1> QED BY <1>1, <1>2 DEF TryProvision

(* The LIFO part of acquire: the top of the queue goes to e. *)
LEMMA PopIdle ==
  ASSUME TypeInv, IsInjective(idle), idle # <<>>,
         NEW e \in Episodes, NEW k, NEW free, GetHandle(e, k, free)
  PROVE  /\ IdleSet = IdleSet' \cup {idle[Len(idle)]}
         /\ idle[Len(idle)] \notin IdleSet'
         /\ idle[Len(idle)] \in Sandboxes
         /\ IsInjective(idle')
         /\ Len(idle') = Len(idle) - 1
<1>1. idle \in Seq(Sandboxes) /\ idle' = SubSeq(idle, 1, Len(idle) - 1)
  BY DEF TypeInv, TypeOK, GetHandle
<1> DEFINE r == SubSeq(idle, 1, Len(idle) - 1)
<1>2. /\ idle[Len(idle)] \in Sandboxes /\ Len(r) = Len(idle) - 1
      /\ Range(idle) = Range(r) \cup {idle[Len(idle)]}
      /\ IsInjective(r) /\ idle[Len(idle)] \notin Range(r)
  BY <1>1, PopLast
<1> HIDE DEF r
<1>3. idle' = r
  BY <1>1 DEF r
<1> QED BY <1>2, <1>3 DEF IdleSet

LEMMA GetHandleHandles ==
  ASSUME TypeInv, HandleInv, NEW e \in Episodes, NEW k, NEW free, GetHandle(e, k, free)
  PROVE  HandleInv'
<1>1. CASE idle # <<>>
  <2> DEFINE top == idle[Len(idle)]
  <2>1. /\ IdleSet = IdleSet' \cup {top} /\ top \notin IdleSet'
        /\ IsInjective(idle')
    BY <1>1, PopIdle DEF HandleInv
  <2>2. held' = [held EXCEPT ![e] = top]
    BY <1>1 DEF GetHandle
  <2> HIDE DEF top
  <2> QED BY <2>1, <2>2 DEF HandleInv, TypeInv, TypeOK, Procs
<1>2. CASE idle = <<>>
  BY <1>2, TryProvisionHandles DEF GetHandle, Procs
<1> QED BY <1>1, <1>2

LEMMA HandleStep == TypeInv /\ PhaseInv /\ HandleInv /\ [Next]_vars => HandleInv'
<1> SUFFICES ASSUME TypeInv, PhaseInv, HandleInv, [Next]_vars PROVE HandleInv'
  OBVIOUS
<1>a. \A e \in Episodes : e \in Procs
  BY DEF Procs
<1>1. CASE UNCHANGED <<held, idle>>
  BY <1>1 DEF HandleInv, IdleSet
<1>2. ASSUME NEW p \in Procs, GiveUp(p, slots), idle' = idle PROVE HandleInv'
  BY <1>2, DropHandle DEF GiveUp
<1>3. ASSUME NEW e \in Episodes, TakeSlot(e) \/ ReplaceReturns(e) PROVE HandleInv'
  BY <1>3, <1>2, <1>a, GetHandleHandles DEF TakeSlot, ReplaceReturns
<1>4. ASSUME NEW e \in Episodes, CancelDestroy(e) \/ CancelProvision(e) \/ ReleaseReturns(e)
      PROVE HandleInv'
  BY <1>4, <1>2, <1>a DEF CancelDestroy, CancelProvision, ReleaseReturns
<1>5. ASSUME NEW e \in Episodes, NEW healthy \in BOOLEAN, Release(e, healthy) PROVE HandleInv'
  <2>1. CASE idle' = Append(idle, held[e]) /\ GiveUp(e, slots)
    <3>1. held[e] \in Sandboxes
      BY <1>5, <1>a DEF Release, TypeInv, TypeOK, HeldIffHanded, Unhanded
    <3>2. IdleSet' = IdleSet \cup {held[e]} /\ IsInjective(idle')
      BY <2>1, <3>1, <1>a, PushLast DEF HandleInv, TypeInv, TypeOK, IdleSet
    <3>3. held' = [held EXCEPT ![e] = None]
      BY <2>1 DEF GiveUp
    <3>4. None \notin IdleSet /\ held[e] # None
      BY <3>1, IdleSetType, NoneAssumption
    <3> QED BY <3>2, <3>3, <3>4, <1>a DEF HandleInv, TypeInv, TypeOK
  <2>2. CASE UNCHANGED <<held, idle>>
    BY <2>2, <1>1
  <2> QED BY <1>5, <2>1, <2>2 DEF Release
<1>6. ASSUME NEW p \in Procs, ProvisionStep(p) PROVE HandleInv'
  BY <1>6, <1>1, <1>2, TryProvisionHandles
     DEF ProvisionStep, ProvisionReturns, ProvisionRaises, AbandonReturns
<1>7. ASSUME NEW w \in Warmers, WarmerStarts(w) PROVE HandleInv'
  BY <1>7, TryProvisionHandles DEF WarmerStarts, Procs
<1>8. CASE PrewarmReturns
  <2>1. PICK order \in Bijection(1..Cardinality(Warmed), Warmed) :
          idle' = idle \o [i \in 1..Cardinality(Warmed) |-> held[order[i]]]
    BY <1>8 DEF PrewarmReturns
  <2> DEFINE new == [i \in 1..Cardinality(Warmed) |-> held[order[i]]]
  <2>2. /\ idle = <<>>
        /\ \A e \in Episodes : pc[e] = "idle"
    BY <1>8 DEF PrewarmReturns, PhaseInv
  <2>3. new \in Seq(Sandboxes)
    BY WarmedHandles
  <2>4. idle' = new
    BY <2>1, <2>2, <2>3, ConcatEmptySeq
  <2>5. \A p \in Procs : held'[p] = None
    BY <1>8, <2>2 DEF PrewarmReturns, TypeInv, HeldIffHanded, Unhanded, Procs
  <2>6. IsInjective(new)
    <3> SUFFICES ASSUME NEW i \in 1..Cardinality(Warmed), NEW j \in 1..Cardinality(Warmed),
                        held[order[i]] = held[order[j]]
                 PROVE  i = j
      BY DEF IsInjective
    <3>1. order[i] \in Procs /\ order[j] \in Procs /\ held[order[i]] # None
      BY WarmedHandles, NoneAssumption DEF Warmed, Procs
    <3>2. order[i] = order[j]
      BY <3>1 DEF HandleInv
    <3> QED BY <3>2 DEF Bijection, Injection, IsInjective
  <2>7. None \notin Range(new)
    BY WarmedHandles, NoneAssumption DEF Range
  <2> QED BY <2>4, <2>5, <2>6, <2>7 DEF HandleInv, IdleSet
<1>9. CASE PrewarmCancelled
  BY <1>9, IdleSetType DEF PrewarmCancelled, HandleInv, IdleSet, TypeInv, TypeOK
<1>10. CASE Aclose
  <2>1. held' = held /\ IdleSet' = {} /\ IsInjective(idle')
    BY <1>10 DEF Aclose, IdleSet, Range, IsInjective
  <2> QED BY <2>1 DEF HandleInv
<1>11. ASSUME NEW e \in Episodes, \/ Acquire(e) \/ AcquireTimeout(e) \/ ResetSucceeds(e)
                                 \/ ResetFails(e) \/ CancelReset(e)
       PROVE UNCHANGED <<held, idle>>
  BY <1>11 DEF Acquire, AcquireTimeout, ResetSucceeds, ResetFails, CancelReset
<1>12. ASSUME NEW s \in Sandboxes, BackendStep(s) PROVE UNCHANGED <<held, idle>>
  BY <1>12 DEF BackendStep, ThreadReady, ThreadRaises, ThreadRaisesLost, StopSucceeds,
     StopFails, Dies, Backend
<1>13. Prewarm \/ AcloseReturns \/ UNCHANGED vars => UNCHANGED <<held, idle>>
  BY DEF Prewarm, AcloseReturns, vars
<1> QED
  BY <1>1, <1>3, <1>4, <1>5, <1>6, <1>7, <1>8, <1>9, <1>10, <1>11, <1>12, <1>13
     DEF Next, EpisodeStep, PrewarmStep

LEMMA InitHandles == Init => HandleInv
<1> SUFFICES ASSUME Init PROVE HandleInv
  OBVIOUS
<1>1. IdleSet = {} /\ IsInjective(idle)
  BY DEF Init, IdleSet, Range, IsInjective
<1> QED BY <1>1 DEF Init, HandleInv

(* "A leased sandbox is never handed to a second episode concurrently"        *)
(* (pool.py:537), for every size of pool and number of episodes, with any     *)
(* number of failures and cancellations.                                    *)
THEOREM LeasesExclusive == Spec => []LeaseExclusive
<1>1. Init => TypeInv /\ PhaseInv /\ HandleInv
  BY InitTypeInv, InitHandles
<1>2. TypeInv /\ PhaseInv /\ HandleInv /\ [Next]_vars
        => (TypeInv /\ PhaseInv /\ HandleInv)'
  BY TypeStep, PhaseStep, HandleStep
<1>3. TypeInv /\ HandleInv => LeaseExclusive
  BY DEF TypeInv, HeldIffHanded, Unhanded, HandleInv, LeaseExclusive, Owners
<1> QED BY <1>1, <1>2, <1>3, PTL DEF Spec

-----------------------------------------------------------------------------
(* What the pool counts. *)

(* The sandboxes the pool keeps idle, resets, lends or has just warmed. *)
Known == IdleSet \cup {held[p] : p \in Owners}

(* An open pool counts what it knows, and nothing else unless a prewarm was    *)
(* cancelled; a closed one counts nothing and stops what it knew.             *)
LiveInv ==
  /\ isClosed => live = {}
  /\ ~isClosed => Known \subseteq live
  /\ ~isClosed /\ ~PrewarmCancellable => live \subseteq Known
  /\ \A s \in Known : sandbox[s] \in IF isClosed THEN {"stopping", "lost", "gone"}
                                              ELSE {"up", "gone"}

(* The idle sandboxes never outnumber the free slots. *)
Capacity == Len(idle) <= slots

LEMMA GiveUpCapacity ==
  ASSUME NEW p \in Procs, TypeInv, Capacity, GiveUp(p, slots), idle' = idle
  PROVE  Capacity'
<1>1. slots \in Nat /\ Len(idle) \in Nat
  BY LenProperties DEF TypeInv, TypeOK
<1> QED BY <1>1 DEF Capacity, GiveUp

LEMMA GetHandleCapacity ==
  ASSUME TypeInv, HandleInv, NEW e \in Episodes, NEW k, NEW free \in Nat,
         Len(idle) <= free + 1, GetHandle(e, k, free)
  PROVE  Capacity'
<1>1. Len(idle) \in Nat
  BY LenProperties DEF TypeInv, TypeOK
<1>2. CASE idle # <<>>
  <2>1. Len(idle') = Len(idle) - 1 /\ slots' = free
    BY <1>2, PopIdle DEF HandleInv, GetHandle
  <2> QED BY <1>1, <2>1 DEF Capacity
<1>3. CASE idle = <<>>
  <2>1. Len(idle') = 0 /\ slots' \in {free, free + 1}
    BY <1>3, EmptySeq DEF GetHandle, TryProvision, GiveUp
  <2> QED BY <2>1 DEF Capacity
<1> QED BY <1>2, <1>3

LEMMA CapacityStep ==
  TypeInv /\ PhaseInv /\ SlotsConserved /\ HandleInv /\ Capacity /\ [Next]_vars => Capacity'
<1> SUFFICES ASSUME TypeInv, PhaseInv, SlotsConserved, HandleInv, Capacity, [Next]_vars
             PROVE  Capacity'
  OBVIOUS
<1>a. \A e \in Episodes : e \in Procs
  BY DEF Procs
<1>b. slots \in Nat /\ Len(idle) \in Nat
  BY LenProperties DEF TypeInv, TypeOK
<1>1. CASE UNCHANGED <<idle, slots>>
  BY <1>1 DEF Capacity
<1>2. ASSUME NEW e \in Episodes, TakeSlot(e) PROVE Capacity'
  <2>1. slots - 1 \in Nat /\ GetHandle(e, 1, slots - 1) /\ Len(idle) <= (slots - 1) + 1
    BY <1>2, <1>b DEF TakeSlot, Capacity
  <2> QED BY <2>1, GetHandleCapacity
<1>3. ASSUME NEW e \in Episodes, ReplaceReturns(e) PROVE Capacity'
  <2>1. Len(idle) <= slots + 1
    BY <1>b DEF Capacity
  <2> QED BY <1>3, <2>1, <1>a, <1>b, GiveUpCapacity, GetHandleCapacity DEF ReplaceReturns
<1>4. ASSUME NEW e \in Episodes, CancelDestroy(e) \/ CancelProvision(e) \/ ReleaseReturns(e)
      PROVE Capacity'
  BY <1>4, <1>a, GiveUpCapacity DEF CancelDestroy, CancelProvision, ReleaseReturns
<1>5. ASSUME NEW e \in Episodes, NEW healthy \in BOOLEAN, Release(e, healthy) PROVE Capacity'
  <2>1. CASE idle' = Append(idle, held[e]) /\ GiveUp(e, slots)
    <3>1. held[e] \in Sandboxes
      BY <1>5, <1>a DEF Release, TypeInv, TypeOK, HeldIffHanded, Unhanded
    <3>2. Len(idle') = Len(idle) + 1 /\ slots' = slots + 1
      BY <2>1, <3>1, PushLast DEF GiveUp, TypeInv, TypeOK
    <3> QED BY <1>b, <3>2 DEF Capacity
  <2>2. CASE UNCHANGED <<idle, slots>>
    BY <2>2, <1>1
  <2> QED BY <1>5, <2>1, <2>2 DEF Release
<1>6. ASSUME NEW p \in Procs, NEW n, NEW k, TryProvision(p, n, k, slots), idle' = idle
      PROVE Capacity'
  BY <1>6, <1>1, GiveUpCapacity DEF TryProvision
<1>7. ASSUME NEW p \in Procs, ProvisionStep(p) PROVE Capacity'
  BY <1>7, <1>1, <1>6, GiveUpCapacity
     DEF ProvisionStep, ProvisionReturns, ProvisionRaises, AbandonReturns
<1>8. ASSUME NEW w \in Warmers, WarmerStarts(w) PROVE Capacity'
  BY <1>8, <1>6 DEF WarmerStarts, Procs
<1>9. CASE PrewarmReturns
  <2>1. PICK order \in Bijection(1..Cardinality(Warmed), Warmed) :
          idle' = idle \o [i \in 1..Cardinality(Warmed) |-> held[order[i]]]
    BY <1>9 DEF PrewarmReturns
  <2> DEFINE new == [i \in 1..Cardinality(Warmed) |-> held[order[i]]]
  <2>2. idle = <<>> /\ slots' = slots
    BY <1>9 DEF PrewarmReturns, PhaseInv
  <2>3. new \in Seq(Sandboxes) /\ Cardinality(Warmed) \in Nat
    BY WarmedHandles
  <2>4. idle' = new /\ Len(new) = Cardinality(Warmed)
    BY <2>1, <2>2, <2>3, ConcatEmptySeq, LenProperties
  <2>5. Cardinality(Warmed) <= Size
    <3>1. IsFiniteSet(Warmers) /\ Cardinality(Warmers) = Size
      BY SizeAssumption, FS_Interval DEF Warmers
    <3> QED BY <3>1, FS_Subset DEF Warmed
  <2>6. slots = Size
    <3>1. Holders = {}
      BY <1>9 DEF PrewarmReturns, PhaseInv, Holders
    <3> QED BY <3>1, <1>b, FS_EmptySet DEF SlotsConserved
  <2> QED BY <2>2, <2>4, <2>5, <2>6 DEF Capacity
<1>10. CASE Aclose
  BY <1>10, <1>b, EmptySeq DEF Aclose, Capacity
<1>11. ASSUME NEW e \in Episodes, \/ Acquire(e) \/ AcquireTimeout(e) \/ ResetSucceeds(e)
                                 \/ ResetFails(e) \/ CancelReset(e)
       PROVE UNCHANGED <<idle, slots>>
  BY <1>11 DEF Acquire, AcquireTimeout, ResetSucceeds, ResetFails, CancelReset
<1>12. ASSUME NEW s \in Sandboxes, BackendStep(s) PROVE UNCHANGED <<idle, slots>>
  BY <1>12 DEF BackendStep, ThreadReady, ThreadRaises, ThreadRaisesLost, StopSucceeds,
     StopFails, Dies, Backend
<1>13. Prewarm \/ PrewarmCancelled \/ AcloseReturns \/ UNCHANGED vars => UNCHANGED <<idle, slots>>
  BY DEF Prewarm, PrewarmCancelled, AcloseReturns, vars
<1> QED
  BY <1>1, <1>2, <1>3, <1>4, <1>5, <1>7, <1>8, <1>9, <1>10, <1>11, <1>12, <1>13
     DEF Next, EpisodeStep, PrewarmStep

(* A coroutine without a registered sandbox gives up. *)
LEMMA GiveUpLive ==
  ASSUME TypeInv, LiveInv, NEW p \in Procs, p \notin Owners, NEW free,
         GiveUp(p, free), UNCHANGED <<idle, live, closer, sandbox>>
  PROVE  LiveInv'
<1>1. \A q \in Procs : q # p => pc'[q] = pc[q] /\ held'[q] = held[q]
  BY DEF GiveUp, TypeInv, TypeOK
<1>2. Owners' = Owners
  BY <1>1 DEF Owners, GiveUp, TypeInv, TypeOK
<1>3. \A q \in Owners : held'[q] = held[q]
  BY <1>1 DEF Owners
<1>4. Known' = Known
  BY <1>2, <1>3 DEF Known, IdleSet
<1> QED BY <1>4 DEF LiveInv, isClosed

LEMMA BeginDestroyLive ==
  ASSUME TypeInv, HandleInv, LiveInv, NEW p \in Procs, held[p] # None,
         NEW then, then \notin {"resetting", "leased", "warmed"},
         BeginDestroy(p, then), UNCHANGED <<held, idle, closer>>
  PROVE  LiveInv'
<1>1. Owners' = Owners \ {p}
  BY DEF BeginDestroy, Owners, TypeInv, TypeOK
<1>2. Known' = Known \ {held[p]}
  BY <1>1 DEF Known, HandleInv, IdleSet, Owners
<1>3. live' = live \ {held[p]}
  BY DEF BeginDestroy
<1>4. Known \subseteq Sandboxes
  BY IdleSetType DEF Known, Owners, TypeInv, TypeOK, HeldIffHanded, Unhanded
<1>5. \A s \in Known' : sandbox'[s] = sandbox[s]
  BY <1>2, <1>4 DEF BeginDestroy, Stopping
<1> QED BY <1>2, <1>3, <1>5 DEF LiveInv, isClosed

LEMMA TryProvisionLive ==
  ASSUME TypeInv, LiveInv, NEW p \in Procs, p \notin Owners, NEW n, NEW k, NEW free,
         TryProvision(p, n, k, free), UNCHANGED <<idle, live, closer>>
  PROVE  LiveInv'
<1>1. CASE GiveUp(p, free) /\ UNCHANGED sandbox
  BY <1>1, GiveUpLive
<1>2. ASSUME NEW s \in Sandboxes, BeginProvision(p, s), ~isClosed PROVE LiveInv'
  <2>1. Owners' = Owners
    BY <1>2 DEF BeginProvision, Owners, TypeInv, TypeOK
  <2>2. \A q \in Owners : held'[q] = held[q]
    BY <1>2 DEF BeginProvision, Owners, TypeInv, TypeOK
  <2>3. Known' = Known
    BY <2>1, <2>2 DEF Known, IdleSet
  <2>4. s \notin Known
    BY <1>2 DEF BeginProvision, Fresh, Known, Owners
  <2>5. \A t \in Known : sandbox'[t] = sandbox[t]
    BY <1>2, <2>4 DEF BeginProvision, TypeInv, TypeOK
  <2> QED BY <2>3, <2>5 DEF LiveInv, isClosed
<1> QED BY <1>1, <1>2 DEF TryProvision

LEMMA GetHandleLive ==
  ASSUME TypeInv, HandleInv, LiveInv, NEW e \in Episodes, e \notin Owners, NEW k, NEW free,
         GetHandle(e, k, free), UNCHANGED <<live, closer>>
  PROVE  LiveInv'
<1>1. e \in Procs
  BY DEF Procs
<1>2. CASE idle # <<>>
  <2> DEFINE top == idle[Len(idle)]
  <2>1. IdleSet = IdleSet' \cup {top}
    BY <1>2, PopIdle DEF HandleInv
  <2>2. held' = [held EXCEPT ![e] = top] /\ sandbox' = sandbox
        /\ pc' = [pc EXCEPT ![e] = "resetting"]
    BY <1>2 DEF GetHandle
  <2> HIDE DEF top
  <2>3. Owners' = Owners \cup {e}
    BY <1>1, <2>2 DEF Owners, TypeInv, TypeOK
  <2>4. held'[e] = top /\ \A q \in Owners : held'[q] = held[q]
    BY <1>1, <2>2 DEF Owners, TypeInv, TypeOK
  <2>5. Known' = Known
    BY <2>1, <2>3, <2>4 DEF Known
  <2> QED BY <2>2, <2>5 DEF LiveInv, isClosed
<1>3. CASE idle = <<>>
  BY <1>1, <1>3, TryProvisionLive DEF GetHandle
<1> QED BY <1>2, <1>3

LEMMA LiveStep ==
  TypeInv /\ PhaseInv /\ HandleInv /\ LiveInv /\ [Next]_vars => LiveInv'
<1> SUFFICES ASSUME TypeInv, PhaseInv, HandleInv, LiveInv, [Next]_vars PROVE LiveInv'
  OBVIOUS
<1>a. \A e \in Episodes : e \in Procs /\ e \notin Warmers
  BY WarmersAssumption DEF Procs
<1>b. \A w \in Warmers : w \in Procs /\ w \notin Episodes
  BY WarmersAssumption DEF Procs
<1>c. \A p \in Procs : pc[p] \notin Unhanded => held[p] # None /\ held[p] \in Sandboxes
  BY DEF TypeInv, TypeOK, HeldIffHanded
<1>1. ASSUME UNCHANGED <<held, idle, live, closer, sandbox>>, Owners' = Owners PROVE LiveInv'
  BY <1>1 DEF LiveInv, Known, IdleSet, isClosed
<1>2. ASSUME NEW e \in Episodes, Acquire(e) \/ AcquireTimeout(e) PROVE LiveInv'
  <2>1. Owners' = Owners
    BY <1>2, <1>a DEF Acquire, AcquireTimeout, Owners, TypeInv, TypeOK
  <2> QED BY <1>1, <1>2, <2>1 DEF Acquire, AcquireTimeout
<1>3. ASSUME NEW e \in Episodes, ResetSucceeds(e) PROVE LiveInv'
  <2>1. Owners' = Owners
    BY <1>3, <1>a DEF ResetSucceeds, Owners, TypeInv, TypeOK
  <2> QED BY <1>1, <1>3, <2>1 DEF ResetSucceeds
<1>4. ASSUME NEW e \in Episodes, TakeSlot(e) \/ ReplaceReturns(e) PROVE LiveInv'
  <2>1. e \in Procs /\ e \notin Owners /\ UNCHANGED <<live, closer>>
    BY <1>4, <1>a DEF TakeSlot, ReplaceReturns, Owners
  <2> QED BY <1>4, <2>1, GiveUpLive, GetHandleLive DEF TakeSlot, ReplaceReturns
<1>5. ASSUME NEW e \in Episodes, ResetFails(e) \/ CancelReset(e) PROVE LiveInv'
  BY <1>5, <1>a, <1>c, BeginDestroyLive DEF ResetFails, CancelReset, Unhanded
<1>6. ASSUME NEW e \in Episodes, CancelDestroy(e) \/ CancelProvision(e) \/ ReleaseReturns(e)
      PROVE LiveInv'
  <2>1. e \in Procs /\ e \notin Owners
    BY <1>6, <1>a DEF CancelDestroy, CancelProvision, ReleaseReturns, Owners
  <2> QED BY <1>6, <2>1, GiveUpLive DEF CancelDestroy, CancelProvision, ReleaseReturns
<1>7. ASSUME NEW e \in Episodes, NEW healthy \in BOOLEAN, Release(e, healthy) PROVE LiveInv'
  <2>1. CASE idle' = Append(idle, held[e]) /\ GiveUp(e, slots) /\ UNCHANGED <<live, sandbox>>
    <3>1. held[e] \in Sandboxes
      BY <1>7, <1>a, <1>c DEF Release, Unhanded
    <3>2. IdleSet' = IdleSet \cup {held[e]}
      BY <2>1, <3>1, PushLast DEF TypeInv, TypeOK, IdleSet
    <3>3. Owners' = Owners \ {e} /\ e \in Owners
      BY <1>7, <2>1, <1>a DEF Release, GiveUp, Owners, TypeInv, TypeOK
    <3>4. \A q \in Owners \ {e} : held'[q] = held[q]
      BY <2>1 DEF GiveUp, Owners, TypeInv, TypeOK
    <3>5. Known' = Known
      BY <3>2, <3>3, <3>4 DEF Known
    <3> QED BY <1>7, <2>1, <3>5 DEF Release, LiveInv, isClosed
  <2>2. CASE BeginDestroy(e, "returning") /\ UNCHANGED <<held, idle>>
    BY <1>7, <2>2, <1>a, <1>c, BeginDestroyLive DEF Release, Unhanded
  <2> QED BY <1>7, <2>1, <2>2 DEF Release
<1>8. ASSUME NEW p \in Procs, ProvisionReturns(p) PROVE LiveInv'
  <2>1. CASE /\ ~isClosed
             /\ live' = live \cup {held[p]}
             /\ pc' = [pc EXCEPT ![p] = IF p \in Episodes THEN "resetting" ELSE "warmed"]
             /\ UNCHANGED sandbox
    <3>1. Owners' = Owners \cup {p}
      BY <2>1 DEF Owners, TypeInv, TypeOK
    <3>2. UNCHANGED <<held, idle, closer>> /\ sandbox[held[p]] = "up"
      BY <1>8 DEF ProvisionReturns
    <3>3. Known' = Known \cup {held[p]}
      BY <3>1, <3>2 DEF Known, IdleSet
    <3> QED BY <2>1, <3>2, <3>3 DEF LiveInv, isClosed
  <2>2. CASE BeginDestroy(p, "abandoning")
    BY <1>8, <2>2, <1>c, BeginDestroyLive DEF ProvisionReturns, Unhanded
  <2> QED BY <1>8, <2>1, <2>2 DEF ProvisionReturns
<1>9. ASSUME NEW p \in Procs, ProvisionRaises(p) \/ AbandonReturns(p) PROVE LiveInv'
  <2>1. p \notin Owners
    BY <1>9 DEF ProvisionRaises, AbandonReturns, Owners
  <2> QED BY <1>9, <2>1, GiveUpLive, TryProvisionLive DEF ProvisionRaises, AbandonReturns
<1>10. ASSUME NEW w \in Warmers, WarmerStarts(w) PROVE LiveInv'
  <2>1. w \in Procs /\ w \notin Owners
    BY <1>10, <1>b DEF WarmerStarts, Owners
  <2> QED BY <1>10, <2>1, TryProvisionLive DEF WarmerStarts
<1>11. CASE Prewarm
  <2>1. \A p \in Procs : pc'[p] = pc[p] \/ (pc'[p] = "spawned" /\ pc[p] = "off")
    BY <1>11, <1>b DEF Prewarm, PhaseInv
  <2>2. Owners' = Owners
    BY <2>1 DEF Owners
  <2> QED BY <1>1, <1>11, <2>2 DEF Prewarm
<1>12. CASE PrewarmReturns
  <2>1. PICK order \in Bijection(1..Cardinality(Warmed), Warmed) :
          idle' = idle \o [i \in 1..Cardinality(Warmed) |-> held[order[i]]]
    BY <1>12 DEF PrewarmReturns
  <2> DEFINE new == [i \in 1..Cardinality(Warmed) |-> held[order[i]]]
  <2>2. idle = <<>> /\ \A e \in Episodes : pc[e] = "idle"
    BY <1>12 DEF PrewarmReturns, PhaseInv
  <2>3. new \in Seq(Sandboxes)
    BY WarmedHandles
  <2>4. idle' = new
    BY <2>1, <2>2, <2>3, ConcatEmptySeq
  <2>5. Range(new) = {held[w] : w \in Warmed}
    <3>1. order \in [1..Cardinality(Warmed) -> Warmed]
      BY WarmedHandles
    <3>2. \A w \in Warmed : \E i \in 1..Cardinality(Warmed) : order[i] = w
      BY DEF Bijection, Surjection
    <3> QED BY <3>1, <3>2 DEF Range
  <2>6. Owners = Warmed /\ Owners' = {}
    <3>1. \A e \in Episodes : pc'[e] = pc[e]
      BY <1>12, <1>a DEF PrewarmReturns
    <3>2. \A w \in Warmers : pc'[w] = "off" /\ pc[w] \in {"off", "warmed", "failed"}
      BY <1>12, <1>b DEF PrewarmReturns
    <3> QED BY <2>2, <3>1, <3>2 DEF Owners, Warmed, Procs
  <2>7. Known' = Known
    <3>1. IdleSet = {}
      BY <2>2 DEF IdleSet, Range
    <3>2. IdleSet' = {held[w] : w \in Warmed}
      BY <2>4, <2>5 DEF IdleSet
    <3> HIDE DEF new
    <3> QED BY <2>6, <3>1, <3>2 DEF Known
  <2> QED BY <1>12, <2>7 DEF PrewarmReturns, LiveInv, isClosed
<1>13. CASE PrewarmCancelled
  <2>1. Known' \subseteq Known
    <3>1. \A e \in Episodes : pc'[e] = pc[e] /\ held'[e] = held[e]
      BY <1>13, <1>a DEF PrewarmCancelled
    <3>2. \A w \in Warmers : pc'[w] = "off"
      BY <1>13, <1>b DEF PrewarmCancelled
    <3>3. Owners' \subseteq Owners \cap Episodes
      BY <3>1, <3>2 DEF Owners, Procs
    <3>4. \A p \in Owners' : held'[p] = held[p] /\ p \in Owners
      BY <3>1, <3>3
    <3> QED BY <1>13, <3>4 DEF PrewarmCancelled, Known, IdleSet
  <2> QED BY <1>13, <2>1 DEF PrewarmCancelled, LiveInv, isClosed
<1>14. CASE Aclose
  <2>1. IdleSet' = {}
    BY <1>14 DEF Aclose, IdleSet, Range
  <2>2. Owners' = Owners /\ held' = held
    BY <1>14 DEF Aclose, Owners
  <2>3. Known' \subseteq Known
    BY <2>1, <2>2 DEF Known
  <2>4. ~isClosed /\ isClosed' /\ live' = {} /\ sandbox' = Stopping(live)
    BY <1>14 DEF Aclose, isClosed
  <2>5. Known \subseteq live /\ live \subseteq Sandboxes
    BY <2>4 DEF LiveInv, TypeInv, TypeOK
  <2>6. \A s \in Known : sandbox[s] \in {"up", "gone"}
    BY <2>4 DEF LiveInv
  <2>7. \A s \in Known : sandbox'[s] \in {"stopping", "gone"}
    BY <2>4, <2>5, <2>6 DEF Stopping
  <2> QED BY <2>3, <2>4, <2>7 DEF LiveInv
<1>15. CASE AcloseReturns
  <2>1. isClosed' = isClosed /\ Owners' = Owners
    BY <1>15 DEF AcloseReturns, isClosed, Owners
  <2> QED BY <1>15, <2>1 DEF AcloseReturns, LiveInv, Known, IdleSet
<1>16. ASSUME NEW s \in Sandboxes, BackendStep(s) PROVE LiveInv'
  <2>1. UNCHANGED <<pc, held, idle, live, closer>>
    BY <1>16 DEF BackendStep, ThreadReady, ThreadRaises, ThreadRaisesLost, StopSucceeds,
       StopFails, Dies, Backend
  <2>2. Known' = Known
    BY <2>1 DEF Known, Owners, IdleSet
  <2>3. PICK state \in SandboxStates :
          /\ sandbox' = [sandbox EXCEPT ![s] = state]
          /\ \/ sandbox[s] = "starting"
             \/ sandbox[s] = "stopping" /\ state \in {"gone", "lost"}
             \/ sandbox[s] \in {"up", "lost"} /\ state = "gone"
    BY <1>16 DEF BackendStep, ThreadReady, ThreadRaises, ThreadRaisesLost, StopSucceeds,
       StopFails, Dies, Backend, SandboxStates
  <2>4. \A t \in Known : t # s => sandbox'[t] = sandbox[t]
    BY <2>3 DEF TypeInv, TypeOK
  <2>5. sandbox'[s] = state
    BY <2>3 DEF TypeInv, TypeOK
  <2> QED BY <2>1, <2>2, <2>3, <2>4, <2>5 DEF LiveInv, isClosed
<1>17. CASE UNCHANGED vars
  <2>1. Owners' = Owners
    BY <1>17 DEF vars, Owners
  <2> QED BY <1>1, <1>17, <2>1 DEF vars
<1> QED
  BY <1>2, <1>3, <1>4, <1>5, <1>6, <1>7, <1>8, <1>9, <1>10, <1>11, <1>12, <1>13, <1>14, <1>15,
     <1>16, <1>17 DEF Next, EpisodeStep, ProvisionStep, PrewarmStep

LEMMA InitLive == Init => LiveInv /\ Capacity
<1> SUFFICES ASSUME Init PROVE LiveInv /\ Capacity
  OBVIOUS
<1>1. IdleSet = {} /\ Owners = {}
  BY WarmersAssumption DEF Init, IdleSet, Range, Owners, Procs
<1>2. Known = {}
  BY <1>1 DEF Known
<1>3. Len(idle) = 0
  BY EmptySeq DEF Init
<1> QED BY <1>2, <1>3, SizeAssumption DEF Init, LiveInv, isClosed, Capacity

-----------------------------------------------------------------------------
(* The inductive invariant and what follows from it. *)

IInv == TypeInv /\ PhaseInv /\ SlotsConserved /\ HandleInv /\ Capacity /\ LiveInv

LEMMA Inductive == Spec => []IInv
<1>1. Init => IInv
  BY InitTypeInv, InitSlots, InitHandles, InitLive DEF IInv
<1>2. IInv /\ [Next]_vars => IInv'
  BY TypeStep, PhaseStep, SlotsStep, HandleStep, CapacityStep, LiveStep DEF IInv
<1> QED BY <1>1, <1>2, PTL DEF Spec

(* A function has no more values than arguments. *)
LEMMA RangeBound ==
  ASSUME NEW S, IsFiniteSet(S), NEW T, NEW f \in [S -> T]
  PROVE  /\ IsFiniteSet(Range(f)) /\ Cardinality(Range(f)) \in Nat
         /\ Cardinality(Range(f)) <= Cardinality(S)
<1>1. f \in Surjection(S, Range(f))
  BY DEF Surjection, Range
<1> QED BY <1>1, FS_Surjection, FS_CardinalityType

(* Two finite sets together. *)
LEMMA UnionBound ==
  ASSUME NEW S, IsFiniteSet(S), NEW T, IsFiniteSet(T)
  PROVE  /\ IsFiniteSet(S \cup T)
         /\ Cardinality(S \cup T) <= Cardinality(S) + Cardinality(T)
<1>1. S \cap T \in SUBSET S
  OBVIOUS
<1>2. IsFiniteSet(S \cap T)
  BY <1>1, FS_Subset
<1>3. Cardinality(S) \in Nat /\ Cardinality(T) \in Nat /\ Cardinality(S \cap T) \in Nat
  BY <1>2, FS_CardinalityType
<1>4. /\ IsFiniteSet(S \cup T)
      /\ Cardinality(S \cup T) = Cardinality(S) + Cardinality(T) - Cardinality(S \cap T)
  BY FS_Union
<1> QED BY <1>3, <1>4

LEMMA KnownBound == IInv => IsFiniteSet(Known) /\ Cardinality(Known) <= Size
<1> SUFFICES ASSUME IInv PROVE IsFiniteSet(Known) /\ Cardinality(Known) <= Size
  OBVIOUS
<1> DEFINE handle == [p \in Owners |-> held[p]]
<1>1. Range(handle) = {held[p] : p \in Owners}
  BY DEF Range
<1>2. Known = IdleSet \cup Range(handle)
  BY <1>1 DEF Known
<1>3. handle \in [Owners -> Sandboxes \cup {None}]
  BY DEF IInv, TypeInv, TypeOK, Owners
<1> HIDE DEF handle
<1>4. CASE warm = "warm"
  <2>1. Owners \subseteq Holders
    BY <1>4 DEF IInv, PhaseInv, Owners, Holders, Procs
  <2>2. /\ IsFiniteSet(Owners) /\ Cardinality(Owners) <= Cardinality(Holders)
        /\ Cardinality(Owners) \in Nat
    BY <2>1, HoldersFinite, FS_Subset, FS_CardinalityType
  <2>3. /\ IsFiniteSet(Range(handle)) /\ Cardinality(Range(handle)) \in Nat
        /\ Cardinality(Range(handle)) <= Cardinality(Owners)
    BY <1>3, <2>2, RangeBound
  <2>4. /\ IsFiniteSet(IdleSet) /\ Cardinality(IdleSet) \in Nat
        /\ Cardinality(IdleSet) <= Len(idle) /\ Len(idle) \in Nat
    <3>1. Len(idle) \in Nat /\ idle \in [1..Len(idle) -> Sandboxes]
      BY LenProperties DEF IInv, TypeInv, TypeOK
    <3>2. IsFiniteSet(1..Len(idle)) /\ Cardinality(1..Len(idle)) = Len(idle)
      BY <3>1, FS_Interval
    <3> QED BY <3>1, <3>2, RangeBound DEF IdleSet
  <2>5. IsFiniteSet(Known) /\ Cardinality(Known) <= Cardinality(IdleSet) + Cardinality(Range(handle))
    BY <1>2, <2>3, <2>4, UnionBound
  <2>6. slots \in Nat /\ Len(idle) <= slots /\ slots + Cardinality(Holders) = Size
    BY DEF IInv, TypeInv, TypeOK, Capacity, SlotsConserved
  <2>7. Cardinality(Known) \in Nat
    BY <2>5, FS_CardinalityType
  <2> QED BY <2>2, <2>3, <2>4, <2>5, <2>6, <2>7, HoldersFinite, SizeAssumption
<1>5. CASE warm # "warm"
  <2>1. IdleSet = {}
    BY <1>5 DEF IInv, PhaseInv, IdleSet, Range
  <2>2. Owners \subseteq Warmers
    BY <1>5 DEF IInv, PhaseInv, Owners, Procs
  <2>3. IsFiniteSet(Warmers) /\ Cardinality(Warmers) = Size
    BY SizeAssumption, FS_Interval DEF Warmers
  <2>4. IsFiniteSet(Owners) /\ Cardinality(Owners) <= Size /\ Cardinality(Owners) \in Nat
    BY <2>2, <2>3, FS_Subset, FS_CardinalityType
  <2>5. /\ IsFiniteSet(Range(handle)) /\ Cardinality(Range(handle)) \in Nat
        /\ Cardinality(Range(handle)) <= Cardinality(Owners)
    BY <1>3, <2>4, RangeBound
  <2>6. Known = Range(handle)
    BY <1>2, <2>1
  <2> QED BY <2>4, <2>5, <2>6, SizeAssumption
<1> QED BY <1>4, <1>5

(* "size is a hard ceiling on live sandboxes" (pool.py:540) is true of a pool   *)
(* whose prewarm() is never cancelled, whatever else fails or is cancelled.   *)
(* Without that assumption it is false.                                      *)
THEOREM CeilingHolds == ASSUME ~PrewarmCancellable PROVE Spec => []LiveCeiling
<1>1. IInv => LiveCeiling
  <2> SUFFICES ASSUME IInv PROVE LiveCeiling
    OBVIOUS
  <2>1. CASE isClosed
    BY <2>1, FS_EmptySet, SizeAssumption DEF IInv, LiveInv, LiveCeiling
  <2>2. CASE ~isClosed
    <3>1. live = Known
      BY <2>2 DEF IInv, LiveInv
    <3> QED BY <3>1, KnownBound DEF LiveCeiling
  <2> QED BY <2>1, <2>2
<1> QED BY <1>1, Inductive, PTL

(* An open pool never keeps, resets or lends a sandbox that it would not find  *)
(* in aclose(), that is still being built or that is being stopped.           *)
THEOREM HandlesAlwaysRegistered == Spec => []HandlesRegistered
<1>1. IInv => HandlesRegistered
  BY DEF IInv, LiveInv, Known, HandlesRegistered
<1> QED BY <1>1, Inductive, PTL

(* Once aclose() has gathered its stops nothing enters the pool again, whatever *)
(* provision, reset or release was under way when it began (pool.py:729-730). *)
THEOREM ClosedPoolStaysEmpty == Spec => []ClosedPoolEmpty
<1>1. IInv => ClosedPoolEmpty
  BY DEF IInv, LiveInv, Known, ClosedPoolEmpty
<1> QED BY <1>1, Inductive, PTL

-----------------------------------------------------------------------------
(* What runs unknown to the pool. *)

Awaited(s) == \E p \in Procs : pc[p] = "provisioning" /\ held[p] = s

\* Leaked, and those whose thread has failed to stop them while the coroutine does
\* not know yet: the failure has been counted.
Unaccounted ==
  {s \in Sandboxes : /\ s \notin live
                     /\ \/ sandbox[s] = "lost"
                        \/ sandbox[s] \in {"starting", "up"} /\ ~Awaited(s)}

LeakInv == IsFiniteSet(Unaccounted) /\ Cardinality(Unaccounted) <= faults

LEMMA NoNewLeak ==
  ASSUME TypeInv, LeakInv, Unaccounted' \subseteq Unaccounted, faults' = faults
  PROVE  LeakInv'
BY FS_Subset, FS_CardinalityType DEF LeakInv, TypeInv, TypeOK

LEMMA OneNewLeak ==
  ASSUME TypeInv, LeakInv, NEW x, Unaccounted' \subseteq Unaccounted \cup {x}, Fault
  PROVE  LeakInv'
<1>1. /\ IsFiniteSet(Unaccounted \cup {x})
      /\ Cardinality(Unaccounted \cup {x}) <= Cardinality(Unaccounted) + 1
      /\ Cardinality(Unaccounted) \in Nat
  BY FS_AddElement, FS_CardinalityType DEF LeakInv
<1>2. /\ IsFiniteSet(Unaccounted') /\ Cardinality(Unaccounted') \in Nat
      /\ Cardinality(Unaccounted') <= Cardinality(Unaccounted \cup {x})
      /\ Cardinality(Unaccounted \cup {x}) \in Nat
  BY <1>1, FS_Subset, FS_CardinalityType
<1> HIDE DEF Unaccounted
<1>3. faults \in Nat /\ faults' = faults + 1
  BY FaultsAssumption DEF Fault, TypeInv, TypeOK
<1> QED BY <1>1, <1>2, <1>3 DEF LeakInv

(* A coroutine that awaits no provision gives up its handle, or another's. *)
LEMMA GiveUpLeak ==
  ASSUME TypeInv, NEW p \in Procs, NEW free, GiveUp(p, free), UNCHANGED <<live, sandbox>>,
         NEW S, pc[p] = "provisioning" => held[p] \in S
  PROVE  Unaccounted' \subseteq Unaccounted \cup S
<1>1. \A s : Awaited(s) => Awaited(s)' \/ s \in S
  BY DEF Awaited, GiveUp, TypeInv, TypeOK
<1> QED BY <1>1 DEF Unaccounted

LEMMA BeginDestroyLeak ==
  ASSUME TypeInv, NEW p \in Procs, NEW then, BeginDestroy(p, then), held' = held,
         sandbox[held[p]] # "starting", pc[p] # "provisioning" \/ sandbox[held[p]] = "up"
  PROVE  Unaccounted' \subseteq Unaccounted
<1>1. \A s \in Sandboxes : s # held[p] => sandbox'[s] = sandbox[s] /\ (s \in live' <=> s \in live)
  BY DEF BeginDestroy, Stopping
<1>2. held[p] \in Sandboxes => sandbox'[held[p]] \in {"stopping", "gone"}
  BY DEF BeginDestroy, Stopping, TypeInv, TypeOK, SandboxStates
<1>3. \A s : s # held[p] /\ Awaited(s) => Awaited(s)'
  BY DEF Awaited, BeginDestroy, TypeInv, TypeOK
<1> QED BY <1>1, <1>2, <1>3 DEF Unaccounted

\* A provision that raised left its sandbox gone, or lost.
LEMMA TryProvisionLeak ==
  ASSUME TypeInv, NEW p \in Procs, NEW n, NEW k, NEW free, TryProvision(p, n, k, free), live' = live,
         pc[p] = "provisioning" => sandbox[held[p]] \in {"gone", "lost"}
  PROVE  Unaccounted' \subseteq Unaccounted
<1>1. CASE GiveUp(p, free) /\ UNCHANGED sandbox
  <2>1. \A s : Awaited(s) => Awaited(s)' \/ sandbox[s] \in {"gone", "lost"}
    BY <1>1 DEF Awaited, GiveUp, TypeInv, TypeOK
  <2> QED BY <1>1, <2>1 DEF Unaccounted
<1>2. ASSUME NEW s \in Sandboxes, BeginProvision(p, s) PROVE Unaccounted' \subseteq Unaccounted
  <2>1. Awaited(s)' /\ sandbox'[s] = "starting"
    BY <1>2 DEF BeginProvision, Awaited, TypeInv, TypeOK
  <2>2. \A t \in Sandboxes : t # s => sandbox'[t] = sandbox[t]
    BY <1>2 DEF BeginProvision, TypeInv, TypeOK
  <2>3. \A t : Awaited(t) => Awaited(t)' \/ sandbox[t] \in {"gone", "lost"}
    BY <1>2 DEF Awaited, BeginProvision, TypeInv, TypeOK
  <2> QED BY <2>1, <2>2, <2>3 DEF Unaccounted
<1> QED BY <1>1, <1>2 DEF TryProvision

LEMMA GetHandleLeak ==
  ASSUME TypeInv, NEW e \in Episodes, NEW k, NEW free, GetHandle(e, k, free), live' = live,
         pc[e] # "provisioning"
  PROVE  Unaccounted' \subseteq Unaccounted
<1>1. e \in Procs
  BY DEF Procs
<1>2. CASE idle # <<>>
  <2>1. \A s : Awaited(s) => Awaited(s)'
    BY <1>1, <1>2 DEF GetHandle, Awaited, TypeInv, TypeOK
  <2> QED BY <1>2, <2>1 DEF GetHandle, Unaccounted
<1>3. CASE idle = <<>>
  BY <1>1, <1>3, TryProvisionLeak DEF GetHandle
<1> QED BY <1>2, <1>3

LEMMA LeakStep ==
  ASSUME ~PrewarmCancellable PROVE IInv /\ LeakInv /\ [Next]_vars => LeakInv'
<1> SUFFICES ASSUME IInv, LeakInv, [Next]_vars PROVE LeakInv'
  OBVIOUS
<1>t. TypeInv
  BY DEF IInv
<1>a. \A e \in Episodes : e \in Procs /\ e \notin Warmers
  BY WarmersAssumption DEF Procs
<1>b. \A w \in Warmers : w \in Procs /\ w \notin Episodes
  BY WarmersAssumption DEF Procs
<1>c. \A p \in Owners : sandbox[held[p]] # "starting"
  BY DEF IInv, LiveInv, Known
<1>1. ASSUME UNCHANGED <<live, sandbox, faults>>, \A s : Awaited(s) => Awaited(s)' PROVE LeakInv'
  BY <1>1, <1>t, NoNewLeak DEF Unaccounted
<1>2. ASSUME NEW e \in Episodes, Acquire(e) \/ AcquireTimeout(e) \/ ResetSucceeds(e) PROVE LeakInv'
  <2>1. \A s : Awaited(s) => Awaited(s)'
    BY <1>2, <1>a, <1>t DEF Acquire, AcquireTimeout, ResetSucceeds, Awaited, TypeInv, TypeOK
  <2> QED BY <1>1, <1>2, <2>1 DEF Acquire, AcquireTimeout, ResetSucceeds
<1>3. ASSUME NEW e \in Episodes, TakeSlot(e) \/ ReplaceReturns(e) PROVE LeakInv'
  <2>1. Unaccounted' \subseteq Unaccounted
    BY <1>3, <1>a, <1>t, GetHandleLeak, GiveUpLeak, SetExtensionality DEF TakeSlot, ReplaceReturns
  <2> QED BY <1>3, <1>t, <2>1, NoNewLeak DEF TakeSlot, ReplaceReturns
<1>4. ASSUME NEW e \in Episodes, ResetFails(e) \/ CancelReset(e) PROVE LeakInv'
  <2>1. Unaccounted' \subseteq Unaccounted
    BY <1>4, <1>a, <1>c, <1>t, BeginDestroyLeak DEF ResetFails, CancelReset, Owners
  <2> QED BY <1>4, <1>t, <2>1, NoNewLeak, OneNewLeak DEF ResetFails, CancelReset
<1>5. ASSUME NEW e \in Episodes, CancelDestroy(e) \/ CancelProvision(e) PROVE LeakInv'
  <2>1. Unaccounted' \subseteq Unaccounted \cup {held[e]}
    BY <1>5, <1>a, <1>t, GiveUpLeak DEF CancelDestroy, CancelProvision
  <2> QED BY <1>5, <1>t, <2>1, OneNewLeak DEF CancelDestroy, CancelProvision
<1>6. ASSUME NEW p \in Procs, AbandonReturns(p) \/ ReleaseReturns(p) PROVE LeakInv'
  <2>1. Unaccounted' \subseteq Unaccounted
    BY <1>6, <1>t, GiveUpLeak DEF AbandonReturns, ReleaseReturns
  <2> QED BY <1>6, <1>t, <2>1, NoNewLeak DEF AbandonReturns, ReleaseReturns
<1>7. ASSUME NEW e \in Episodes, NEW healthy \in BOOLEAN, Release(e, healthy) PROVE LeakInv'
  <2>1. CASE GiveUp(e, slots) /\ UNCHANGED <<live, sandbox>>
    <3>1. Unaccounted' \subseteq Unaccounted
      BY <1>7, <1>a, <1>t, <2>1, GiveUpLeak DEF Release
    <3> QED BY <1>7, <1>t, <3>1, NoNewLeak DEF Release
  <2>2. CASE BeginDestroy(e, "returning") /\ UNCHANGED held
    <3>1. Unaccounted' \subseteq Unaccounted
      BY <1>7, <1>a, <1>c, <1>t, <2>2, BeginDestroyLeak DEF Release, Owners
    <3> QED BY <1>7, <1>t, <3>1, NoNewLeak DEF Release
  <2> QED BY <1>7, <2>1, <2>2 DEF Release
<1>8. ASSUME NEW p \in Procs, ProvisionReturns(p) PROVE LeakInv'
  <2>1. CASE BeginDestroy(p, "abandoning")
    BY <1>8, <1>t, <2>1, BeginDestroyLeak, NoNewLeak DEF ProvisionReturns
  <2>2. CASE /\ live' = live \cup {held[p]}
             /\ pc' = [pc EXCEPT ![p] = IF p \in Episodes THEN "resetting" ELSE "warmed"]
             /\ UNCHANGED sandbox
    <3>1. \A s : Awaited(s) => Awaited(s)' \/ s = held[p]
      BY <1>8, <1>t, <2>2 DEF ProvisionReturns, Awaited, TypeInv, TypeOK
    <3>2. Unaccounted' \subseteq Unaccounted
      BY <2>2, <3>1 DEF Unaccounted
    <3> QED BY <1>8, <1>t, <3>2, NoNewLeak DEF ProvisionReturns
  <2> QED BY <1>8, <2>1, <2>2 DEF ProvisionReturns
<1>9. ASSUME NEW p \in Procs, ProvisionRaises(p) PROVE LeakInv'
  <2>1. CASE GiveUp(p, slots) /\ UNCHANGED sandbox
    <3>1. \A s : Awaited(s) => Awaited(s)' \/ sandbox[s] \in {"gone", "lost"}
      BY <1>9, <1>t, <2>1 DEF ProvisionRaises, GiveUp, Awaited, TypeInv, TypeOK
    <3>2. Unaccounted' \subseteq Unaccounted
      BY <1>9, <2>1, <3>1 DEF ProvisionRaises, Unaccounted
    <3> QED BY <1>9, <1>t, <3>2, NoNewLeak DEF ProvisionRaises
  <2>2. CASE TryProvision(p, tries[p] + 1, attempts[p], slots)
    BY <1>9, <1>t, <2>2, TryProvisionLeak, NoNewLeak DEF ProvisionRaises
  <2> QED BY <1>9, <2>1, <2>2 DEF ProvisionRaises
<1>10. ASSUME NEW w \in Warmers, WarmerStarts(w) PROVE LeakInv'
  BY <1>10, <1>b, <1>t, TryProvisionLeak, NoNewLeak DEF WarmerStarts
<1>11. CASE Prewarm
  <2>1. \A p \in Procs : pc'[p] = pc[p] \/ (pc'[p] = "spawned" /\ pc[p] = "off")
    BY <1>11, <1>b DEF Prewarm, IInv, PhaseInv
  <2>2. \A s : Awaited(s) => Awaited(s)'
    BY <1>11, <2>1 DEF Prewarm, Awaited
  <2> QED BY <1>1, <1>11, <2>2 DEF Prewarm
<1>12. CASE PrewarmReturns
  <2>1. \A e \in Episodes : pc[e] = "idle"
    BY <1>12 DEF PrewarmReturns, IInv, PhaseInv
  <2>2. \A s : ~Awaited(s)
    BY <1>12, <2>1 DEF PrewarmReturns, Awaited, Procs
  <2> QED BY <1>1, <1>12, <2>2 DEF PrewarmReturns
<1>13. CASE Aclose
  <2>1. live \subseteq Known /\ \A s \in Known : sandbox[s] \in {"up", "gone"}
    BY <1>13 DEF Aclose, isClosed, IInv, LiveInv
  <2>2. \A s \in Sandboxes : IF s \in live THEN sandbox'[s] \in {"stopping", "gone"} ELSE sandbox'[s] = sandbox[s]
    BY <1>13, <2>1 DEF Aclose, Stopping
  <2>3. \A s : Awaited(s)' = Awaited(s)
    BY <1>13 DEF Aclose, Awaited
  <2>4. Unaccounted' \subseteq Unaccounted
    BY <2>2, <2>3 DEF Unaccounted
  <2> QED BY <1>13, <1>t, <2>4, NoNewLeak DEF Aclose
<1>14. ASSUME NEW s \in Sandboxes, BackendStep(s) PROVE LeakInv'
  <2>1. UNCHANGED <<pc, held, live>> /\ \A t \in Sandboxes : t # s => sandbox'[t] = sandbox[t]
    BY <1>14, <1>t DEF BackendStep, ThreadReady, ThreadRaises, ThreadRaisesLost, StopSucceeds,
       StopFails, Dies, Backend, TypeInv, TypeOK
  <2>2. \A t : Awaited(t)' = Awaited(t)
    BY <2>1 DEF Awaited
  <2>3. Unaccounted' \subseteq Unaccounted \cup {s}
    BY <2>1, <2>2 DEF Unaccounted
  <2>4. CASE ThreadRaisesLost(s) \/ StopFails(s)
    BY <1>t, <2>3, <2>4, OneNewLeak DEF ThreadRaisesLost, StopFails
  <2>5. CASE ThreadReady(s) \/ ThreadRaises(s) \/ StopSucceeds(s) \/ Dies(s)
    <3>1. sandbox'[s] = "gone" \/ (sandbox[s] = "starting" /\ sandbox'[s] = "up")
      BY <2>5, <1>t DEF ThreadReady, ThreadRaises, StopSucceeds, Dies, Backend, TypeInv, TypeOK
    <3>2. Unaccounted' \subseteq Unaccounted
      BY <2>1, <2>2, <3>1 DEF Unaccounted
    <3> QED BY <1>t, <2>5, <3>2, NoNewLeak DEF ThreadReady, ThreadRaises, StopSucceeds, Dies
  <2> QED BY <1>14, <2>4, <2>5 DEF BackendStep
<1>15. CASE AcloseReturns \/ UNCHANGED vars
  BY <1>1, <1>15 DEF AcloseReturns, vars, Awaited
<1>16. ~PrewarmCancelled
  BY DEF PrewarmCancelled
<1> QED
  BY <1>2, <1>3, <1>4, <1>5, <1>6, <1>7, <1>8, <1>9, <1>10, <1>11, <1>12, <1>13, <1>14, <1>15, <1>16
     DEF Next, EpisodeStep, ProvisionStep, PrewarmStep, Procs

(* Unless a prewarm is cancelled half-way, a sandbox runs without the pool's    *)
(* knowledge only for a cancelled await of provision() or a stop that failed,  *)
(* one each (pool.py:488-491): retries,                                       *)
(* failed resets, release and an aclose() that races them leak nothing.       *)
THEOREM LeaksAreFaults == Spec => []LeaksNeedFaults
<1>1. CASE PrewarmCancellable
  <2>1. LeaksNeedFaults
    BY <1>1 DEF LeaksNeedFaults
  <2> QED BY <2>1, PTL
<1>2. CASE ~PrewarmCancellable
  <2>1. Init => LeakInv
    <3> SUFFICES ASSUME Init PROVE LeakInv
      OBVIOUS
    <3>1. Unaccounted = {}
      BY DEF Init, Unaccounted
    <3> QED BY <3>1, FS_EmptySet DEF Init, LeakInv
  <2>2. IInv /\ LeakInv => LeaksNeedFaults
    <3> SUFFICES ASSUME IInv, LeakInv PROVE Cardinality(Leaked) <= faults
      BY DEF LeaksNeedFaults
    <3>1. Leaked \subseteq Unaccounted
      BY DEF Leaked, Unaccounted, Awaited
    <3>2. faults \in Nat
      BY FaultsAssumption DEF IInv, TypeInv, TypeOK
    <3> QED BY <3>1, <3>2, FS_Subset, FS_CardinalityType DEF LeakInv
  <2>3. IInv /\ LeakInv /\ [Next]_vars => LeakInv'
    BY <1>2, LeakStep
  <2> QED BY <2>1, <2>2, <2>3, Inductive, PTL DEF Spec
<1> QED BY <1>1, <1>2

-----------------------------------------------------------------------------
(***************************************************************************)
(* SandboxPool implements the safety part of LeasePool: every step of the   *)
(* pool is a step of LeasePool or changes nothing that a caller sees.       *)
(***************************************************************************)

LEMMA InitMaps == Init => Lease!Init
<1> SUFFICES ASSUME Init PROVE Lease!Init
  OBVIOUS
<1>1. \A e \in Episodes : pc[e] = "idle"
  BY DEF Init, Procs
<1> QED BY <1>1 DEF Lease!Init, Callers, Lent, Role

(* One episode's move, as its caller sees it. *)
LEMMA CallerMoves ==
  ASSUME TypeInv, NEW e \in Episodes, NEW at, pc' = [pc EXCEPT ![e] = at],
         NEW h, held' = [held EXCEPT ![e] = h]
  PROVE  /\ Callers' = [Callers EXCEPT ![e] = Role(at)]
         /\ Lent' = [Lent EXCEPT ![e] = IF at = "leased" THEN h ELSE None]
<1>1. /\ pc'[e] = at /\ held'[e] = h
      /\ \A d \in Episodes : d # e => pc'[d] = pc[d] /\ held'[d] = held[d]
  BY DEF TypeInv, TypeOK, Procs
<1>2. Callers' = [Callers EXCEPT ![e] = Role(at)]
  <2>1. Callers' = [d \in Episodes |-> Role(pc'[d])]
    BY DEF Callers, Role
  <2>2. \A d \in Episodes : Role(pc'[d]) = IF d = e THEN Role(at) ELSE Role(pc[d])
    BY <1>1
  <2> QED BY <2>1, <2>2 DEF Callers
<1>3. Lent' = [Lent EXCEPT ![e] = IF at = "leased" THEN h ELSE None]
  BY <1>1 DEF Lent
<1> QED BY <1>2, <1>3

(* Inside acquire, and after release has begun, nothing shows; leaving acquire  *)
(* without a lease is a refusal.                                            *)
LEMMA QuietMove ==
  ASSUME TypeInv, NEW e \in Episodes, NEW at, pc' = [pc EXCEPT ![e] = at],
         NEW h, held' = [held EXCEPT ![e] = h],
         pc[e] # "leased", at # "leased",
         Role(pc[e]) = Role(at) \/ (Role(pc[e]) = "asking" /\ Role(at) = "out")
  PROVE  Lease!Next \/ UNCHANGED <<Callers, Lent>>
<1>1. /\ Callers' = [Callers EXCEPT ![e] = Role(at)]
      /\ Lent' = [Lent EXCEPT ![e] = None]
  BY CallerMoves
<1>2. Lent[e] = None /\ Callers[e] = Role(pc[e])
  BY DEF Lent, Callers
<1>3. Lent' = Lent
  BY <1>1, <1>2 DEF Lent
<1>4. CASE Role(pc[e]) = Role(at)
  <2>1. Callers' = Callers
    BY <1>1, <1>2, <1>4 DEF Callers
  <2> QED BY <1>3, <2>1
<1>5. CASE Role(pc[e]) = "asking" /\ Role(at) = "out"
  BY <1>1, <1>2, <1>3, <1>5 DEF Lease!Next, Lease!Answer, Lease!Refuse
<1> QED BY <1>4, <1>5

(* release() starts: the caller has given the sandbox back. *)
LEMMA LeaseEnds ==
  ASSUME TypeInv, NEW e \in Episodes, pc[e] = "leased",
         NEW at \in {"idle", "returning"}, pc' = [pc EXCEPT ![e] = at],
         NEW h, held' = [held EXCEPT ![e] = h]
  PROVE  Lease!Next
<1>1. Role(at) = "out" /\ at # "leased"
  BY DEF Role
<1>2. /\ Callers' = [Callers EXCEPT ![e] = "out"]
      /\ Lent' = [Lent EXCEPT ![e] = None]
  <2>1. /\ Callers' = [Callers EXCEPT ![e] = Role(at)]
        /\ Lent' = [Lent EXCEPT ![e] = IF at = "leased" THEN h ELSE None]
    BY CallerMoves
  <2> QED BY <1>1, <2>1
<1>3. Callers[e] = "served"
  BY DEF Callers, Role
<1> QED BY <1>2, <1>3 DEF Lease!Next, Lease!GiveBack

(* What no episode does, callers do not see. *)
LEMMA Unseen ==
  ASSUME \A e \in Episodes : pc'[e] = pc[e] /\ held'[e] = held[e]
  PROVE  UNCHANGED <<Callers, Lent>>
BY DEF Callers, Lent

LEMMA GrantMaps ==
  ASSUME IInv, NEW e \in Episodes, ResetSucceeds(e)
  PROVE  Lease!Next
<1>1. e \in Procs
  BY DEF Procs
<1>2. held[e] \in Sandboxes
  BY <1>1 DEF IInv, TypeInv, TypeOK, HeldIffHanded, Unhanded, ResetSucceeds
<1>3. pc' = [pc EXCEPT ![e] = "leased"] /\ held' = [held EXCEPT ![e] = held[e]]
  BY DEF ResetSucceeds, IInv, TypeInv, TypeOK
<1>4. /\ Callers' = [Callers EXCEPT ![e] = "served"]
      /\ Lent' = [Lent EXCEPT ![e] = held[e]]
  <2>1. Role("leased") = "served"
    BY DEF Role
  <2> QED BY <1>3, <2>1, CallerMoves DEF IInv
<1>5. Callers[e] = "asking"
  BY DEF ResetSucceeds, Callers, Role
<1>6. \A d \in Episodes : Lent[d] # held[e]
  <2> SUFFICES ASSUME NEW d \in Episodes, Lent[d] = held[e] PROVE FALSE
    OBVIOUS
  <2>1. pc[d] = "leased" /\ held[d] = held[e] /\ held[e] # None
    BY <1>2, NoneAssumption DEF Lent
  <2>2. d = e
    BY <1>1, <2>1 DEF IInv, HandleInv, Procs
  <2> QED BY <2>1, <2>2 DEF ResetSucceeds
<1>7. Cardinality(Lease!Served) < Size
  <2>1. e \in Holders /\ Lease!Served \subseteq Holders \ {e}
    BY <1>5 DEF ResetSucceeds, Holders, Lease!Served, Callers, Role
  <2>2. /\ IsFiniteSet(Holders \ {e})
        /\ Cardinality(Holders \ {e}) = Cardinality(Holders) - 1
    BY <2>1, HoldersFinite, FS_RemoveElement
  <2>3. /\ Cardinality(Lease!Served) \in Nat
        /\ Cardinality(Lease!Served) <= Cardinality(Holders \ {e})
    BY <2>1, <2>2, FS_Subset, FS_CardinalityType
  <2>4. slots \in Nat /\ slots + Cardinality(Holders) = Size
    BY DEF IInv, TypeInv, TypeOK, SlotsConserved
  <2> QED BY <2>2, <2>3, <2>4, HoldersFinite, SizeAssumption
<1>8. Lease!Grant(e, held[e])
  <2>1. Lease!Cardinality(Lease!Served) = Cardinality(Lease!Served)
    BY DEF Lease!Cardinality, Cardinality
  <2> QED BY <1>4, <1>5, <1>6, <1>7, <2>1 DEF Lease!Grant
<1> QED BY <1>2, <1>8 DEF Lease!Next, Lease!Answer

LEMMA StepMaps == IInv /\ [Next]_vars => Lease!Next \/ UNCHANGED <<Callers, Lent>>
<1> SUFFICES ASSUME IInv, [Next]_vars PROVE Lease!Next \/ UNCHANGED <<Callers, Lent>>
  OBVIOUS
<1> DEFINE maps == Lease!Next \/ UNCHANGED <<Callers, Lent>>
<1>t. TypeInv
  BY DEF IInv
<1>a. \A e \in Episodes : e \in Procs /\ e \notin Warmers
  BY WarmersAssumption DEF Procs
<1>b. \A p \in Procs : held = [held EXCEPT ![p] = held[p]]
  BY <1>t DEF TypeInv, TypeOK
<1>q. ASSUME NEW e \in Episodes, NEW at, pc' = [pc EXCEPT ![e] = at],
             NEW h, held' = [held EXCEPT ![e] = h],
             pc[e] \notin {"idle", "leased", "returning"}, at # "leased"
      PROVE  maps
  <2>1. Role(pc[e]) = "asking"
    BY <1>q DEF Role
  <2>2. Role(at) \in {"asking", "out"}
    BY <1>q DEF Role
  <2> QED BY <1>q, <1>t, <2>1, <2>2, QuietMove
<1>g. ASSUME NEW e \in Episodes, GiveUp(e, slots), pc[e] # "leased" PROVE maps
  <2>1. pc' = [pc EXCEPT ![e] = "idle"] /\ held' = [held EXCEPT ![e] = None]
    BY <1>g DEF GiveUp
  <2>2. CASE pc[e] \in {"idle", "returning"}
    <3>1. Role(pc[e]) = Role("idle")
      BY <2>2 DEF Role
    <3> QED BY <1>g, <1>t, <2>1, <3>1, QuietMove
  <2>3. CASE pc[e] \notin {"idle", "returning"}
    <3>1. "idle" # "leased"
      OBVIOUS
    <3> QED BY <1>g, <1>q, <2>1, <2>3, <3>1
  <2> QED BY <2>2, <2>3
<1>p. ASSUME NEW e \in Episodes, NEW n, NEW k, NEW free, TryProvision(e, n, k, free),
             pc[e] \notin {"idle", "leased", "returning"}
      PROVE  maps
  <2>1. PICK at \in {"idle", "provisioning"}, h \in Sandboxes \cup {None} :
          pc' = [pc EXCEPT ![e] = at] /\ held' = [held EXCEPT ![e] = h]
    BY <1>p DEF TryProvision, GiveUp, BeginProvision
  <2> QED BY <1>p, <1>q, <2>1
<1>h. ASSUME NEW e \in Episodes, NEW k, NEW free, GetHandle(e, k, free),
             pc[e] \notin {"idle", "leased", "returning"}
      PROVE  maps
  <2>1. CASE pc' = [pc EXCEPT ![e] = "resetting"] /\ held' = [held EXCEPT ![e] = idle[Len(idle)]]
    <3>1. "resetting" # "leased"
      OBVIOUS
    <3> QED BY <1>h, <1>q, <2>1, <3>1
  <2> QED BY <1>h, <1>p, <2>1 DEF GetHandle
<1>1. ASSUME NEW e \in Episodes, Acquire(e) PROVE maps
  <2>1. /\ pc' = [pc EXCEPT ![e] = "waiting"] /\ held' = [held EXCEPT ![e] = held[e]]
        /\ pc[e] = "idle"
    BY <1>1, <1>a, <1>b DEF Acquire
  <2>2. Role("waiting") = "asking" /\ Callers[e] = "out" /\ Lent[e] = None
    BY <2>1 DEF Role, Callers, Lent
  <2>3. Callers' = [Callers EXCEPT ![e] = "asking"] /\ Lent' = [Lent EXCEPT ![e] = None]
    <3>1. /\ Callers' = [Callers EXCEPT ![e] = Role("waiting")]
          /\ Lent' = [Lent EXCEPT ![e] = IF "waiting" = "leased" THEN held[e] ELSE None]
      BY <1>t, <2>1, CallerMoves
    <3> QED BY <2>2, <3>1
  <2>4. Lent' = Lent
    BY <2>2, <2>3 DEF Lent
  <2> QED BY <2>2, <2>3, <2>4 DEF Lease!Next, Lease!Ask
<1>2. ASSUME NEW e \in Episodes, AcquireTimeout(e) \/ ResetFails(e) \/ CancelReset(e) PROVE maps
  <2>1. PICK at \in {"idle", "replacing", "abandoning"} : pc' = [pc EXCEPT ![e] = at]
    BY <1>2 DEF AcquireTimeout, ResetFails, CancelReset, BeginDestroy
  <2>2. /\ held' = [held EXCEPT ![e] = held[e]]
        /\ pc[e] \in {"waiting", "resetting"}
    BY <1>2, <1>a, <1>b DEF AcquireTimeout, ResetFails, CancelReset
  <2> QED BY <1>q, <2>1, <2>2
<1>3. ASSUME NEW e \in Episodes, ResetSucceeds(e) PROVE maps
  BY <1>3, GrantMaps
<1>4. ASSUME NEW e \in Episodes, TakeSlot(e) \/ ReplaceReturns(e) PROVE maps
  <2>1. pc[e] \in {"waiting", "replacing"}
    BY <1>4 DEF TakeSlot, ReplaceReturns
  <2>2. (\E k, free : GetHandle(e, k, free)) \/ GiveUp(e, slots)
    BY <1>4 DEF TakeSlot, ReplaceReturns
  <2> QED BY <1>g, <1>h, <2>1, <2>2
<1>5. ASSUME NEW e \in Episodes, CancelDestroy(e) \/ CancelProvision(e) \/ ReleaseReturns(e)
      PROVE maps
  BY <1>5, <1>g DEF CancelDestroy, CancelProvision, ReleaseReturns
<1>6. ASSUME NEW e \in Episodes, NEW healthy \in BOOLEAN, Release(e, healthy) PROVE maps
  <2>1. PICK at \in {"idle", "returning"}, h \in Sandboxes \cup {None} :
          pc' = [pc EXCEPT ![e] = at] /\ held' = [held EXCEPT ![e] = h]
    <3>1. held[e] \in Sandboxes \cup {None}
      BY <1>a, <1>t DEF TypeInv, TypeOK
    <3> QED BY <1>6, <1>a, <1>b, <3>1 DEF Release, GiveUp, BeginDestroy
  <2>2. pc[e] = "leased"
    BY <1>6 DEF Release
  <2> QED BY <1>t, <2>1, <2>2, LeaseEnds
<1>7. ASSUME NEW e \in Episodes, ProvisionStep(e) PROVE maps
  <2>1. CASE ProvisionReturns(e)
    <3>1. PICK at \in {"resetting", "abandoning"} : pc' = [pc EXCEPT ![e] = at]
      BY <2>1 DEF ProvisionReturns, BeginDestroy
    <3>2. held' = [held EXCEPT ![e] = held[e]] /\ pc[e] = "provisioning"
      BY <2>1, <1>a, <1>b DEF ProvisionReturns
    <3> QED BY <1>q, <3>1, <3>2
  <2>2. CASE ProvisionRaises(e)
    BY <2>2, <1>g, <1>p DEF ProvisionRaises
  <2>3. CASE AbandonReturns(e)
    BY <2>3, <1>g DEF AbandonReturns
  <2> QED BY <1>7, <2>1, <2>2, <2>3 DEF ProvisionStep
<1>8. ASSUME NEW w \in Warmers, ProvisionStep(w) \/ WarmerStarts(w) PROVE maps
  <2>1. \A e \in Episodes : e # w
    BY WarmersAssumption
  <2>2. PICK at, h : pc' = [pc EXCEPT ![w] = at] /\ held' \in {held, [held EXCEPT ![w] = h]}
    BY <1>8 DEF ProvisionStep, ProvisionReturns, ProvisionRaises, AbandonReturns, WarmerStarts,
       TryProvision, BeginProvision, GiveUp, BeginDestroy
  <2>3. \A e \in Episodes : pc'[e] = pc[e] /\ held'[e] = held[e]
    BY <1>a, <1>t, <2>1, <2>2 DEF TypeInv, TypeOK
  <2> QED BY <2>3, Unseen
<1>9. CASE Prewarm \/ PrewarmReturns \/ PrewarmCancelled
  <2>1. \A e \in Episodes : pc'[e] = pc[e] /\ held'[e] = held[e]
    BY <1>9, <1>a DEF Prewarm, PrewarmReturns, PrewarmCancelled
  <2> QED BY <2>1, Unseen
<1>10. CASE UNCHANGED <<pc, held>>
  BY <1>10, Unseen
<1>11. ASSUME NEW s \in Sandboxes, BackendStep(s) PROVE UNCHANGED <<pc, held>>
  BY <1>11 DEF BackendStep, ThreadReady, ThreadRaises, ThreadRaisesLost, StopSucceeds,
     StopFails, Dies, Backend
<1>12. Aclose \/ AcloseReturns \/ UNCHANGED vars => UNCHANGED <<pc, held>>
  BY DEF Aclose, AcloseReturns, vars
<1> QED
  BY <1>1, <1>2, <1>3, <1>4, <1>5, <1>6, <1>7, <1>8, <1>9, <1>10, <1>11, <1>12
     DEF Next, EpisodeStep, PrewarmStep, Procs

(* The pool is a LeasePool: a caller is granted only what it asked for, only a  *)
(* sandbox nobody else was granted and never more than size of them at once    *)
(* (acquire and release, pool.py:646-711).                                  *)
THEOREM ImplementsLeases == Spec => Lease!Safety
<1>1. Init => Lease!Init
  BY InitMaps
<1>2. IInv /\ [Next]_vars => [Lease!Next]_(Lease!vars)
  BY StepMaps DEF Lease!vars
<1> QED BY <1>1, <1>2, Inductive, PTL DEF Spec, Lease!Safety
=============================================================================
