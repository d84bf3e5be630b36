--------------------------- MODULE WarmPoolProofs ---------------------------
(***************************************************************************)
(* Proofs about WarmPool, for any number of workers, claims and permits.    *)
(*                                                                         *)
(* An entry belongs to its worker until a claim takes it out of the deque,  *)
(* and the `claimed` flag of the idle worker says which: WorkerInv,         *)
(* ClaimInv and DequeInv.  That every sandbox somebody must still stop has  *)
(* such an owner (OwnerInv) gives the clean end, and with the permits       *)
(* (PermitInv) and the stops that failed (LostInv) the bound on the total.  *)
(*                                                                         *)
(* The many actions of a worker and of a claim do one of a few things to    *)
(* the entries; the first lemmas say which.                                *)
(***************************************************************************)
EXTENDS WarmPool, FiniteSetTheorems, SequenceTheorems, TLAPS

HasEntry == {"preparing", "unwinding", "idle", "retiring", "expiring", "discarding"}
Holding == {"probing", "using", "recycling", "leaving"}

(* TypeOK, in parts; the bound of the permits comes from PermitInv. *)
WorkerType ==
  /\ worker \in [Workers -> WorkerPCs] /\ mine \in [Workers -> Sandboxes \cup {None}]
  /\ flags \in [Workers -> SUBSET {"claimed", "woken", "old"}]

AttemptType ==
  /\ attempt \in [Workers -> 0 .. PrepareAttempts]
  /\ \A w \in Workers : worker[w] = "backoff" => attempt[w] < PrepareAttempts
  /\ error \in BOOLEAN

ClaimType ==
  /\ claim \in [Claims -> ClaimPCs] /\ got \in [Claims -> Sandboxes \cup {None}]
  /\ permits \in Nat

PoolType ==
  /\ pool \in {"out", "entering", "open", "closing", "closed"}
  /\ sandbox \in [Sandboxes -> {"gone", "creating", "up", "stopping", "lost"}]
  /\ faults \in 0 .. MaxFaults

TypeInv == WorkerType /\ ClaimType /\ PoolType /\ available \in Seq(Sandboxes)

(* A worker has an entry of its own in the awaits of HasEntry. *)
WorkerInv ==
  /\ \A w \in Workers : mine[w] # None <=> worker[w] \in HasEntry
  /\ \A v, w \in Workers : mine[v] # None /\ mine[v] = mine[w] => v = w
  /\ \A w \in Workers : "claimed" \in flags[w] => worker[w] = "idle"
  /\ pool = "out" => \A w \in Workers : worker[w] = "off"
  /\ pool = "closed" => \A w \in Workers : worker[w] = "ended"

(* A claim has an entry of its own, which its worker knows to be claimed. *)
ClaimInv ==
  /\ \A c \in Claims : got[c] # None <=> claim[c] \in Holding
  /\ \A c, d \in Claims : got[c] # None /\ got[c] = got[d] => c = d
  /\ \A w \in Workers, c \in Claims : mine[w] # None /\ mine[w] = got[c] => "claimed" \in flags[w]

(* The deque has the entries of the idle workers that are not claimed, once. *)
Unclaimed(w) == worker[w] = "idle" /\ "claimed" \notin flags[w]

DequeInv ==
  /\ IsInjective(available)
  /\ \A s \in Range(available) : \E w \in Workers : mine[w] = s /\ Unclaimed(w)
  /\ \A w \in Workers : Unclaimed(w) => mine[w] \in Range(available)

(* A sandbox that runs, or is about to, is a worker's or a claim's. *)
OwnerInv ==
  \A s \in Sandboxes : sandbox[s] \in {"creating", "up", "stopping"} =>
    \/ \E w \in Workers : mine[w] = s /\ "claimed" \notin flags[w]
    \/ \E c \in Claims : got[c] = s

Admitted == {c \in Claims : claim[c] \in Holding \cup {"waiting"}}
PermitInv == permits + Cardinality(Admitted) = Concurrency

Lost == {s \in Sandboxes : sandbox[s] = "lost"}
LostInv == IsFiniteSet(Lost) /\ Cardinality(Lost) <= faults

(* The constants, one by one. *)
LEMMA Constants ==
  /\ Concurrency \in Nat \ {0} /\ PrepareAttempts \in Nat \ {0} /\ MaxFaults \in Nat
  /\ None \notin Sandboxes /\ IsFiniteSet(Workers) /\ IsFiniteSet(Claims) /\ Workers # {}
BY PoolAssumption

-----------------------------------------------------------------------------
(* The deque: append, popleft and remove of an entry that is in it once. *)
LEMMA RangeIs ==
  ASSUME NEW S, NEW q \in Seq(S)
  PROVE /\ Range(q) = {q[i] : i \in 1 .. Len(q)} /\ Range(q) \subseteq S
        /\ IsInjective(q) <=> \A i, j \in 1 .. Len(q) : q[i] = q[j] => i = j
BY DEF Range, IsInjective

LEMMA Appended ==
  ASSUME NEW S, NEW q \in Seq(S), NEW e \in S, e \notin Range(q), IsInjective(q)
  PROVE /\ Append(q, e) \in Seq(S) /\ IsInjective(Append(q, e))
        /\ Range(Append(q, e)) = Range(q) \cup {e}
<1> DEFINE r == Append(q, e)
<1>1. /\ r \in Seq(S) /\ Len(r) = Len(q) + 1 /\ r[Len(q) + 1] = e
      /\ \A i \in 1 .. Len(q) : r[i] = q[i]
  BY AppendProperties
<1>2. Len(q) \in Nat
  OBVIOUS
<1> HIDE DEF r
<1>3. IsInjective(r)
  BY <1>1, <1>2, RangeIs
<1>4. Range(r) = Range(q) \cup {e}
  BY <1>1, <1>2, RangeIs
<1> QED
  BY <1>1, <1>3, <1>4 DEF r

LEMMA Removed ==
  ASSUME NEW S, NEW q \in Seq(S), NEW i \in 1 .. Len(q), IsInjective(q)
  PROVE /\ RemoveAt(q, i) \in Seq(S) /\ IsInjective(RemoveAt(q, i))
        /\ Range(RemoveAt(q, i)) = Range(q) \ {q[i]}
<1> DEFINE r == RemoveAt(q, i)
<1>0. Len(q) \in Nat /\ i \in Nat
  OBVIOUS
<1>1. /\ SubSeq(q, 1, i - 1) \in Seq(S) /\ Len(SubSeq(q, 1, i - 1)) = i - 1
      /\ \A k \in 1 .. i - 1 : SubSeq(q, 1, i - 1)[k] = q[k]
  BY <1>0, SubSeqProperties
<1>2. /\ SubSeq(q, i + 1, Len(q)) \in Seq(S) /\ Len(SubSeq(q, i + 1, Len(q))) = Len(q) - i
      /\ \A k \in 1 .. Len(q) - i : SubSeq(q, i + 1, Len(q))[k] = q[i + k]
  BY <1>0, SubSeqProperties
<1>3. /\ r \in Seq(S) /\ Len(r) = Len(q) - 1
      /\ \A k \in 1 .. Len(r) : r[k] = IF k < i THEN q[k] ELSE q[k + 1]
  <2> DEFINE a == SubSeq(q, 1, i - 1)
             b == SubSeq(q, i + 1, Len(q))
  <2>1. r = a \o b
    BY DEF RemoveAt
  <2>2. /\ a \in Seq(S) /\ Len(a) = i - 1 /\ b \in Seq(S) /\ Len(b) = Len(q) - i
        /\ \A k \in 1 .. i - 1 : a[k] = q[k]
        /\ \A k \in 1 .. Len(q) - i : b[k] = q[i + k]
    BY <1>1, <1>2
  <2> HIDE DEF a, b, r
  <2>3. /\ r \in Seq(S) /\ Len(r) = Len(a) + Len(b)
        /\ \A k \in 1 .. Len(a) + Len(b) : r[k] = IF k <= Len(a) THEN a[k] ELSE b[k - Len(a)]
    BY <2>1, <2>2, ConcatProperties
  <2>4. Len(r) = Len(q) - 1
    BY <1>0, <2>2, <2>3
  <2>5. ASSUME NEW k \in 1 .. Len(r) PROVE r[k] = IF k < i THEN q[k] ELSE q[k + 1]
    <3>1. CASE k < i
      BY <1>0, <2>2, <2>3, <2>4, <3>1
    <3>2. CASE ~(k < i)
      <4>1. k - (i - 1) \in 1 .. Len(q) - i /\ i + (k - (i - 1)) = k + 1
        BY <1>0, <2>4, <3>2
      <4>2. r[k] = b[k - (i - 1)]
        BY <1>0, <2>2, <2>3, <2>4, <3>2
      <4> QED
        BY <2>2, <3>2, <4>1, <4>2
    <3> QED
      BY <3>1, <3>2
  <2> QED
    BY <2>3, <2>4, <2>5
<1> HIDE DEF r
<1>4. IsInjective(r)
  <2> SUFFICES ASSUME NEW j \in 1 .. Len(r), NEW k \in 1 .. Len(r), r[j] = r[k] PROVE j = k
    BY <1>3, RangeIs
  <2>1. \A m, n \in 1 .. Len(q) : q[m] = q[n] => m = n
    BY RangeIs
  <2> QED
    BY <1>0, <1>3, <2>1
<1>5. \A x : x \in Range(r) <=> \E k \in 1 .. Len(r) : r[k] = x
  BY <1>3, RangeIs
<1>6. \A x : x \in Range(q) <=> \E k \in 1 .. Len(q) : q[k] = x
  BY RangeIs
<1>7. ASSUME NEW k \in 1 .. Len(q), k # i PROVE q[k] \in Range(r)
  <2>1. CASE k < i
    BY <1>0, <1>3, <1>5, <1>7, <2>1
  <2>2. CASE k > i
    <3>1. k - 1 \in 1 .. Len(r) /\ r[k - 1] = q[k]
      BY <1>0, <1>3, <2>2
    <3> QED
      BY <1>5, <3>1
  <2> QED
    BY <1>0, <1>7, <2>1, <2>2
<1>8. ASSUME NEW k \in 1 .. Len(r) PROVE r[k] \in Range(q) \ {q[i]}
  <2> DEFINE j == IF k < i THEN k ELSE k + 1
  <2>1. j \in 1 .. Len(q) /\ j # i
    BY <1>0, <1>3
  <2>2. r[k] = q[j]
    BY <1>3
  <2> HIDE DEF j
  <2>3. q[j] # q[i]
    BY <2>1, RangeIs
  <2> QED
    BY <2>1, <2>2, <2>3, <1>6
<1>9. Range(r) = Range(q) \ {q[i]}
  BY <1>5, <1>6, <1>7, <1>8
<1> QED
  BY <1>3, <1>4, <1>9 DEF r

LEMMA Popped ==
  ASSUME NEW S, NEW q \in Seq(S), q # <<>>, IsInjective(q)
  PROVE /\ Tail(q) \in Seq(S) /\ IsInjective(Tail(q)) /\ Head(q) \in Range(q)
        /\ Range(Tail(q)) = Range(q) \ {Head(q)}
<1> DEFINE r == Tail(q)
<1>1. /\ r \in Seq(S) /\ Len(r) = Len(q) - 1 /\ Head(q) = q[1] /\ Len(q) \in Nat \ {0}
      /\ \A k \in 1 .. Len(r) : r[k] = q[k + 1]
  BY HeadTailProperties
<1> HIDE DEF r
<1>2. IsInjective(r)
  BY <1>1, RangeIs
<1>3. \A x : x \in Range(r) <=> \E k \in 1 .. Len(r) : r[k] = x
  BY <1>1, RangeIs
<1>4. \A x : x \in Range(q) <=> \E k \in 1 .. Len(q) : q[k] = x
  BY RangeIs
<1>5. Head(q) \in Range(q)
  BY <1>1, <1>4
<1>6. ASSUME NEW k \in 1 .. Len(q), k # 1 PROVE q[k] \in Range(r)
  <2>1. k - 1 \in 1 .. Len(r) /\ r[k - 1] = q[k]
    BY <1>1, <1>6
  <2> QED
    BY <1>3, <2>1
<1>7. ASSUME NEW k \in 1 .. Len(r) PROVE r[k] \in Range(q) \ {q[1]}
  <2>1. k + 1 \in 1 .. Len(q) /\ r[k] = q[k + 1]
    BY <1>1
  <2> QED
    BY <1>1, <1>4, <2>1, RangeIs
<1>8. Range(r) = Range(q) \ {Head(q)}
  BY <1>1, <1>3, <1>4, <1>6, <1>7
<1> QED
  BY <1>1, <1>2, <1>5, <1>8 DEF r
-----------------------------------------------------------------------------
(* What a step of a worker does to the entries. *)

(* Its entry, if it has one, is claimed, or its sandbox needs no stop any more. *)
Freed(w) ==
  /\ worker[w] = "idle" => "claimed" \in flags[w]
  /\ mine[w] # None => sandbox[mine[w]] \in {"gone", "lost"} \/ "claimed" \in flags[w]

Starts(w) ==
  /\ Freed(w)
  /\ \E s \in Sandboxes :
       /\ Fresh(s) /\ mine' = [mine EXCEPT ![w] = s]
       /\ sandbox' = [sandbox EXCEPT ![s] = "creating"]
  /\ worker' = [worker EXCEPT ![w] = "preparing"] /\ flags' = [flags EXCEPT ![w] = {}]
  /\ available' = available

Drops(w) ==
  /\ Freed(w)
  /\ mine' = [mine EXCEPT ![w] = None] /\ flags' = [flags EXCEPT ![w] = {}]
  /\ \E to \in {"backoff", "ended"} : worker' = [worker EXCEPT ![w] = to]
  /\ sandbox' = sandbox /\ available' = available

Offers(w) ==
  /\ worker[w] = "preparing" /\ worker' = [worker EXCEPT ![w] = "idle"]
  /\ available' = Append(available, mine[w])
  /\ UNCHANGED <<mine, flags, sandbox>>

Keeps(w) ==
  /\ worker[w] \in HasEntry
  /\ \E to \in HasEntry \ {"idle"} : worker' = [worker EXCEPT ![w] = to]
  /\ worker[w] # "idle" => available' = available
  /\ worker[w] = "idle" =>
       /\ "claimed" \notin flags[w]
       /\ \E i \in 1 .. Len(available) :
            available[i] = mine[w] /\ available' = RemoveAt(available, i)
  /\ BeginStop(mine[w])
  /\ UNCHANGED <<mine, flags>>

LEMMA PrepareEffect ==
  ASSUME NEW w \in Workers, NEW n, Freed(w), Prepare(w, n), available' = available
  PROVE Starts(w) \/ Drops(w)
BY DEF Prepare, Ends, Moves, Starts, Drops

LEMMA WorkerEffect ==
  ASSUME TypeInv, WorkerInv, NEW w \in Workers, WorkerStep(w)
  PROVE /\ Starts(w) \/ Drops(w) \/ Offers(w) \/ Keeps(w)
        /\ UNCHANGED <<claims, pool, faults>>
<1> USE DEF TypeInv, WorkerType, Stopped, StopRaised
<1>1. CASE Begin(w) \/ BackoffOver(w)
  <2>1. Freed(w) /\ available' = available
    BY <1>1 DEF Begin, BackoffOver, Freed, WorkerInv, HasEntry
  <2> QED
    BY <1>1, <2>1, PrepareEffect DEF Begin, BackoffOver
<1>2. CASE Prepared(w)
  BY <1>2 DEF Prepared, Offers, Keeps, HasEntry, Moves
<1>3. CASE PrepareFails(w)
  BY <1>3 DEF PrepareFails, Keeps, HasEntry, Moves
<1>4. CASE Unwound(w)
  BY <1>4 DEF Unwound, Drops, Freed, EndsInError, Ends, Moves
<1>5. CASE Wakes(w)
  <2>1. CASE "claimed" \in flags[w]
    <3>1. Freed(w) /\ available' = available /\ Prepare(w, 1) /\ UNCHANGED <<claims, pool, faults>>
      BY <1>5, <2>1 DEF Wakes, Freed
    <3> QED
      BY <3>1, PrepareEffect
  <2>2. CASE "claimed" \notin flags[w]
    <3>1. DOMAIN available = 1 .. Len(available)
      OBVIOUS
    <3> QED
      BY <1>5, <2>2, <3>1 DEF Wakes, Keeps, HasEntry, Moves
  <2> QED
    BY <2>1, <2>2
<1>6. CASE Discarded(w)
  <2>1. Freed(w) /\ available' = available /\ UNCHANGED <<claims, pool, faults>>
    BY <1>6 DEF Discarded, Freed
  <2>2. Prepare(w, 1) \/ (Ends(w) /\ sandbox' = sandbox)
    BY <1>6 DEF Discarded, EndsInError
  <2>3. Ends(w) /\ sandbox' = sandbox => Drops(w)
    BY <2>1 DEF Ends, Moves, Drops
  <2> QED
    BY <2>1, <2>2, <2>3, PrepareEffect
<1> QED
  BY <1>1, <1>2, <1>3, <1>4, <1>5, <1>6 DEF WorkerStep

(* What a step of a claim does to the entries: it takes the oldest, lets its    *)
(* own go, or goes on with what it has.                                        *)
Takes(c) ==
  /\ claim[c] = "waiting" /\ available # <<>>
  /\ got' = [got EXCEPT ![c] = Head(available)] /\ available' = Tail(available)
  /\ Flag(Head(available), {"claimed", "woken"})
  /\ \E to \in Holding : claim' = [claim EXCEPT ![c] = to]
  /\ sandbox' = sandbox \/ BeginStop(Head(available))
  /\ UNCHANGED <<worker, mine, permits, faults>>

Lets(c) ==
  /\ claim[c] \in Holding /\ got' = [got EXCEPT ![c] = None]
  /\ \E to \in {"waiting", "out"} : claim' = [claim EXCEPT ![c] = to]
  /\ \/ sandbox[got[c]] \in {"gone", "lost"} /\ UNCHANGED <<sandbox, faults>>
     \/ Fault /\ sandbox' = [sandbox EXCEPT ![got[c]] = "lost"]
  /\ UNCHANGED <<worker, mine, flags, available>>

GoesOn(c) ==
  /\ got' = got
  /\ \E to \in ClaimPCs :
       claim' = [claim EXCEPT ![c] = to] /\ (to \in Holding <=> claim[c] \in Holding)
  /\ sandbox' = sandbox \/ (got[c] # None /\ BeginStop(got[c]))
  /\ UNCHANGED <<worker, mine, flags, available, faults>>

LEMMA ClaimEffect ==
  ASSUME TypeInv, ClaimInv, NEW c \in Claims, ClaimStep(c)
  PROVE (Takes(c) \/ Lets(c) \/ GoesOn(c)) /\ UNCHANGED <<pool, attempt, error>>
<1> USE DEF TypeInv, ClaimType, Goes, Leaves, Stopped, StopRaised, tasks
<1>1. CASE Ask(c) \/ Admit(c)
  BY <1>1 DEF Ask, Admit, GoesOn, Holding, ClaimPCs
<1>2. CASE Refused(c) \/ CancelWait(c)
  <2>1. got[c] = None /\ claim[c] \notin Holding
    BY <1>2 DEF Refused, CancelWait, ClaimInv, Holding
  <2>2. got' = got
    BY <1>2, <2>1 DEF Refused, CancelWait
  <2> QED
    BY <1>2, <2>1, <2>2 DEF Refused, CancelWait, GoesOn, Holding, ClaimPCs
<1>3. CASE Take(c)
  BY <1>3 DEF Take, Takes, Holding
<1>4. CASE Probed(c)
  BY <1>4 DEF Probed, GoesOn, Holding, ClaimPCs
<1>5. CASE StopsUsing(c)
  <2>1. got[c] # None
    BY <1>5 DEF StopsUsing, ClaimInv, Holding
  <2> QED
    BY <1>5, <2>1 DEF StopsUsing, GoesOn, Holding, ClaimPCs
<1>6. CASE Released(c)
  BY <1>6 DEF Released, Lets, Holding
<1>7. CASE CancelStop(c)
  BY <1>7 DEF CancelStop, Lets, Holding
<1> QED
  BY <1>1, <1>2, <1>3, <1>4, <1>5, <1>6, <1>7 DEF ClaimStep

(* What the context and the service do. *)
ContextStep == Enter \/ Entered \/ Close \/ Closed

LEMMA ServiceEffect ==
  ASSUME NEW s \in Sandboxes, ServiceStep(s)
  PROVE /\ UNCHANGED <<tasks, claims, available, pool, error>>
        /\ \/ /\ faults' = faults /\ sandbox[s] # "gone"
              /\ \/ sandbox[s] = "creating" /\ sandbox' = [sandbox EXCEPT ![s] = "up"]
                 \/ sandbox' = [sandbox EXCEPT ![s] = "gone"]
           \/ Fault /\ sandbox[s] = "stopping" /\ sandbox' = [sandbox EXCEPT ![s] = "lost"]
BY DEF ServiceStep, Created, NotCreated, Stops, StopFails, Dies, Becomes

(* A step is one of these. *)
LEMMA Cases ==
  ASSUME [Next]_vars
  PROVE \/ \E w \in Workers : WorkerStep(w)
        \/ \E w \in Workers : Ages(w)
        \/ \E c \in Claims : ClaimStep(c)
        \/ Enter \/ Entered \/ Close \/ Closed
        \/ \E s \in Sandboxes : ServiceStep(s)
        \/ UNCHANGED vars
BY DEF Next

IInv ==
  TypeInv /\ AttemptType /\ WorkerInv /\ ClaimInv /\ DequeInv /\ OwnerInv /\ PermitInv /\ LostInv

USE DEF tasks, claims, vars

-----------------------------------------------------------------------------
(* The types. *)

LEMMA NextWorkerType == IInv /\ [Next]_vars => WorkerType'
<1> SUFFICES ASSUME IInv, [Next]_vars PROVE WorkerType'
  OBVIOUS
<1> USE DEF IInv, TypeInv, WorkerType, WorkerPCs
<1>1. ASSUME NEW w \in Workers, WorkerStep(w) PROVE WorkerType'
  <2>1. CASE Starts(w)
    BY <2>1 DEF Starts
  <2>2. CASE Drops(w)
    BY <2>2 DEF Drops
  <2>3. CASE Offers(w) \/ Keeps(w)
    BY <2>3 DEF Offers, Keeps, HasEntry
  <2> QED
    BY <1>1, <2>1, <2>2, <2>3, WorkerEffect
<1>2. ASSUME NEW w \in Workers, Ages(w) PROVE WorkerType'
  BY <1>2 DEF Ages
<1>3. ASSUME NEW c \in Claims, ClaimStep(c) PROVE WorkerType'
  <2>1. CASE Takes(c)
    BY <2>1 DEF Takes, Flag
  <2>2. CASE Lets(c) \/ GoesOn(c)
    BY <2>2 DEF Lets, GoesOn
  <2> QED
    BY <1>3, <2>1, <2>2, ClaimEffect
<1>4. CASE Enter \/ Entered \/ Close \/ Closed
  BY <1>4 DEF Enter, Entered, Close, Closed
<1>5. CASE (\E s \in Sandboxes : ServiceStep(s)) \/ UNCHANGED vars
  BY <1>5, ServiceEffect
<1> QED
  BY <1>1, <1>2, <1>3, <1>4, <1>5, Cases

LEMMA NextClaimType == IInv /\ [Next]_vars => ClaimType' /\ available' \in Seq(Sandboxes)
<1> SUFFICES ASSUME IInv, [Next]_vars PROVE ClaimType' /\ available' \in Seq(Sandboxes)
  OBVIOUS
<1> USE DEF IInv, TypeInv, ClaimType
<1>1. ASSUME NEW w \in Workers, WorkerStep(w) PROVE ClaimType' /\ available' \in Seq(Sandboxes)
  <2>1. UNCHANGED claims
    BY <1>1, WorkerEffect
  <2>2. CASE Starts(w) \/ Drops(w)
    BY <2>1, <2>2 DEF Starts, Drops
  <2>3. CASE Offers(w)
    <3>1. mine[w] \in Sandboxes
      BY <2>3 DEF Offers, WorkerInv, HasEntry, WorkerType
    <3> QED
      BY <2>1, <2>3, <3>1, AppendProperties DEF Offers
  <2>4. CASE Keeps(w)
    <3>1. available' = available \/ \E i \in 1 .. Len(available) : available' = RemoveAt(available, i)
      BY <2>4 DEF Keeps
    <3> QED
      BY <2>1, <3>1, Removed DEF DequeInv
  <2> QED
    BY <1>1, <2>2, <2>3, <2>4, WorkerEffect
<1>2. ASSUME NEW c \in Claims, ClaimStep(c) PROVE ClaimType' /\ available' \in Seq(Sandboxes)
  <2>1. permits' \in Nat
    BY <1>2 DEF ClaimStep, Ask, Admit, Refused, Take, Probed, StopsUsing, Released, CancelWait,
                CancelStop, Leaves
  <2>2. CASE Takes(c)
    <3>1. Head(available) \in Sandboxes /\ Tail(available) \in Seq(Sandboxes)
      BY <2>2, HeadTailProperties DEF Takes
    <3> QED
      BY <2>1, <2>2, <3>1 DEF Takes, Holding, ClaimPCs
  <2>3. CASE Lets(c)
    BY <2>1, <2>3 DEF Lets, ClaimPCs
  <2>4. CASE GoesOn(c)
    BY <2>1, <2>4 DEF GoesOn
  <2> QED
    BY <1>2, <2>2, <2>3, <2>4, ClaimEffect
<1>3. CASE (\E w \in Workers : Ages(w)) \/ Enter \/ Entered \/ Close \/ Closed
  BY <1>3 DEF Ages, Enter, Entered, Close, Closed
<1>4. CASE (\E s \in Sandboxes : ServiceStep(s)) \/ UNCHANGED vars
  BY <1>4, ServiceEffect
<1> QED
  BY <1>1, <1>2, <1>3, <1>4, Cases

LEMMA NextPoolType == IInv /\ [Next]_vars => PoolType'
<1> SUFFICES ASSUME IInv, [Next]_vars PROVE PoolType'
  OBVIOUS
<1> USE Constants DEF IInv, TypeInv, PoolType
<1>1. ASSUME NEW w \in Workers, WorkerStep(w) PROVE PoolType'
  <2>1. UNCHANGED <<pool, faults>>
    BY <1>1, WorkerEffect
  <2>2. sandbox' \in [Sandboxes -> {"gone", "creating", "up", "stopping", "lost"}]
    BY <1>1, WorkerEffect DEF Starts, Drops, Offers, Keeps, BeginStop
  <2> QED
    BY <2>1, <2>2
<1>2. ASSUME NEW c \in Claims, ClaimStep(c) PROVE PoolType'
  <2>1. pool' = pool
    BY <1>2, ClaimEffect
  <2>2. sandbox' \in [Sandboxes -> {"gone", "creating", "up", "stopping", "lost"}]
    BY <1>2, ClaimEffect DEF Takes, Lets, GoesOn, BeginStop
  <2>3. faults' \in 0 .. MaxFaults
    BY <1>2, ClaimEffect DEF Takes, Lets, GoesOn, Fault
  <2> QED
    BY <2>1, <2>2, <2>3
<1>3. CASE (\E w \in Workers : Ages(w)) \/ Enter \/ Entered \/ Close \/ Closed
  BY <1>3 DEF Ages, Enter, Entered, Close, Closed
<1>4. ASSUME NEW s \in Sandboxes, ServiceStep(s) PROVE PoolType'
  BY <1>4, ServiceEffect DEF Fault
<1>5. CASE UNCHANGED vars
  BY <1>5
<1> QED
  BY <1>1, <1>2, <1>3, <1>4, <1>5, Cases

LEMMA NextAttempt == IInv /\ [Next]_vars => AttemptType'
<1> SUFFICES ASSUME IInv, [Next]_vars PROVE AttemptType'
  OBVIOUS
<1> USE Constants DEF IInv, TypeInv, WorkerType, AttemptType
<1>1. ASSUME NEW w \in Workers, NEW n \in 1 .. PrepareAttempts, Prepare(w, n), error' = error
      PROVE AttemptType'
  <2>1. \E m \in {0, n}, to \in {"preparing", "ended"} :
          attempt' = [attempt EXCEPT ![w] = m] /\ worker' = [worker EXCEPT ![w] = to]
    BY <1>1 DEF Prepare, Ends, Moves
  <2> QED
    BY <1>1, <2>1
<1>2. ASSUME NEW w \in Workers, EndsInError(w) PROVE AttemptType'
  BY <1>2 DEF EndsInError, Ends, Moves
<1>3. ASSUME NEW w \in Workers, WorkerStep(w) PROVE AttemptType'
  <2>1. CASE Begin(w)
    BY <1>1, <2>1 DEF Begin
  <2>2. CASE Prepared(w)
    BY <2>2 DEF Prepared, Moves
  <2>3. CASE PrepareFails(w)
    BY <2>3 DEF PrepareFails, Moves
  <2>4. CASE Unwound(w)
    BY <1>2, <2>4 DEF Unwound, Moves
  <2>5. CASE BackoffOver(w)
    <3>1. attempt[w] + 1 \in 1 .. PrepareAttempts
      BY <2>5 DEF BackoffOver
    <3> QED
      BY <1>1, <2>5, <3>1 DEF BackoffOver
  <2>6. CASE Wakes(w)
    <3>1. CASE "claimed" \in flags[w]
      <4>1. Prepare(w, 1) /\ error' = error
        BY <2>6, <3>1 DEF Wakes
      <4> QED
        BY <1>1, <4>1
    <3>2. CASE "claimed" \notin flags[w]
      BY <2>6, <3>2 DEF Wakes, Moves
    <3> QED
      BY <3>1, <3>2
  <2>7. CASE Discarded(w)
    <3>1. CASE Prepare(w, 1) /\ UNCHANGED error
      BY <1>1, <3>1
    <3>2. CASE Ends(w) /\ UNCHANGED error
      BY <3>2 DEF Ends, Moves
    <3> QED
      BY <1>2, <2>7, <3>1, <3>2 DEF Discarded
  <2> QED
    BY <1>3, <2>1, <2>2, <2>3, <2>4, <2>5, <2>6, <2>7 DEF WorkerStep
<1>4. CASE \E w \in Workers : Ages(w)
  BY <1>4 DEF Ages
<1>5. ASSUME NEW c \in Claims, ClaimStep(c) PROVE AttemptType'
  <2>1. attempt' = attempt /\ error' = error /\ worker' = worker
    BY <1>5, ClaimEffect DEF Takes, Lets, GoesOn
  <2> QED
    BY <2>1
<1>6. CASE Enter
  BY <1>6 DEF Enter
<1>7. CASE Entered \/ Close \/ Closed
  BY <1>7 DEF Entered, Close, Closed
<1>8. CASE (\E s \in Sandboxes : ServiceStep(s)) \/ UNCHANGED vars
  BY <1>8, ServiceEffect
<1> QED
  BY <1>3, <1>4, <1>5, <1>6, <1>7, <1>8, Cases

-----------------------------------------------------------------------------
(* Who owns an entry. *)

LEMMA NextWorker == IInv /\ [Next]_vars => WorkerInv'
<1> SUFFICES ASSUME IInv, [Next]_vars PROVE WorkerInv'
  OBVIOUS
<1> USE Constants DEF IInv, TypeInv, WorkerType, WorkerInv
<1>1. ASSUME NEW w \in Workers, WorkerStep(w) PROVE WorkerInv'
  <2>1. pool' = pool /\ worker[w] \notin {"off", "ended"}
    BY <1>1, WorkerEffect DEF WorkerStep, Begin, Prepared, PrepareFails, Unwound, BackoffOver, Wakes, Discarded
  <2>2. CASE Starts(w)
    <3>1. PICK s \in Sandboxes : Fresh(s) /\ mine' = [mine EXCEPT ![w] = s]
      BY <2>2 DEF Starts
    <3>2. \A v \in Workers : mine[v] # s
      BY <3>1 DEF Fresh, Referred, Range
    <3> QED
      BY <2>1, <2>2, <3>1, <3>2 DEF Starts, HasEntry
  <2>3. CASE Drops(w)
    BY <2>1, <2>3 DEF Drops, HasEntry
  <2>4. CASE Offers(w)
    BY <2>1, <2>4 DEF Offers, HasEntry
  <2>5. CASE Keeps(w)
    BY <2>1, <2>5 DEF Keeps, HasEntry
  <2> QED
    BY <1>1, <2>2, <2>3, <2>4, <2>5, WorkerEffect
<1>2. ASSUME NEW w \in Workers, Ages(w) PROVE WorkerInv'
  BY <1>2 DEF Ages
<1>3. ASSUME NEW c \in Claims, ClaimStep(c) PROVE WorkerInv'
  <2>1. UNCHANGED <<worker, mine, pool>>
    BY <1>3, ClaimEffect DEF Takes, Lets, GoesOn
  <2>2. \A w \in Workers : "claimed" \in flags'[w] => "claimed" \in flags[w] \/ worker[w] = "idle"
    BY <1>3, ClaimEffect DEF Takes, Lets, GoesOn, Flag, Owners
  <2> QED
    BY <2>1, <2>2
<1>4. CASE Enter
  BY <1>4 DEF Enter, HasEntry
<1>5. CASE Entered \/ Closed
  BY <1>5 DEF Entered, Closed
<1>6. CASE Close
  BY <1>6 DEF Close
<1>7. CASE (\E s \in Sandboxes : ServiceStep(s)) \/ UNCHANGED vars
  BY <1>7, ServiceEffect
<1> QED
  BY <1>1, <1>2, <1>3, <1>4, <1>5, <1>6, <1>7, Cases

LEMMA NextClaim == IInv /\ [Next]_vars => ClaimInv'
<1> SUFFICES ASSUME IInv, [Next]_vars PROVE ClaimInv'
  OBVIOUS
<1> USE Constants DEF IInv, TypeInv, WorkerType, ClaimType, ClaimInv
<1>1. ASSUME NEW w \in Workers, WorkerStep(w) PROVE ClaimInv'
  <2>1. UNCHANGED claims
    BY <1>1, WorkerEffect
  <2>2. CASE Starts(w)
    <3>1. PICK s \in Sandboxes : Fresh(s) /\ mine' = [mine EXCEPT ![w] = s]
      BY <2>2 DEF Starts
    <3>2. \A c \in Claims : got[c] # s
      BY <3>1 DEF Fresh, Referred, Range
    <3> QED
      BY <2>1, <2>2, <3>1, <3>2 DEF Starts
  <2>3. CASE Drops(w)
    BY <2>1, <2>3 DEF Drops
  <2>4. CASE Offers(w) \/ Keeps(w)
    BY <2>1, <2>4 DEF Offers, Keeps
  <2> QED
    BY <1>1, <2>2, <2>3, <2>4, WorkerEffect
<1>2. ASSUME NEW w \in Workers, Ages(w) PROVE ClaimInv'
  BY <1>2 DEF Ages
<1>3. ASSUME NEW c \in Claims, ClaimStep(c) PROVE ClaimInv'
  <2>1. CASE Takes(c)
    <3>1. Head(available) \in Range(available) /\ Head(available) \in Sandboxes
      BY <2>1, Popped, RangeIs DEF Takes, DequeInv
    <3>2. PICK w \in Workers : mine[w] = Head(available) /\ Unclaimed(w)
      BY <3>1 DEF DequeInv
    <3>3. \A d \in Claims : got[d] # Head(available)
      BY <3>1, <3>2 DEF Unclaimed
    <3>4. "claimed" \in flags'[w] /\ \A v \in Workers : flags[v] \subseteq flags'[v]
      BY <2>1, <3>2 DEF Takes, Flag, Owners, Unclaimed
    <3>5. \A v \in Workers : mine[v] = Head(available) => v = w
      BY <3>1, <3>2 DEF WorkerInv
    <3>6. mine' = mine /\ got' = [got EXCEPT ![c] = Head(available)]
      BY <2>1 DEF Takes
    <3>7. PICK to \in Holding : claim' = [claim EXCEPT ![c] = to]
      BY <2>1 DEF Takes
    <3> QED
      BY <3>1, <3>3, <3>4, <3>5, <3>6, <3>7
  <2>2. CASE Lets(c)
    BY <2>2 DEF Lets, Holding
  <2>3. CASE GoesOn(c)
    BY <2>3 DEF GoesOn
  <2> QED
    BY <1>3, <2>1, <2>2, <2>3, ClaimEffect
<1>4. CASE Enter \/ Entered \/ Closed \/ Close
  BY <1>4 DEF Enter, Entered, Closed, Close
<1>5. CASE (\E s \in Sandboxes : ServiceStep(s)) \/ UNCHANGED vars
  BY <1>5, ServiceEffect
<1> QED
  BY <1>1, <1>2, <1>3, <1>4, <1>5, Cases

LEMMA NextDeque == IInv /\ [Next]_vars => DequeInv'
<1> SUFFICES ASSUME IInv, [Next]_vars PROVE DequeInv'
  OBVIOUS
<1> USE Constants DEF IInv, TypeInv, WorkerType, DequeInv, Unclaimed
<1>0. Range(available) \subseteq Sandboxes
  BY RangeIs
<1>1. ASSUME NEW w \in Workers, WorkerStep(w) PROVE DequeInv'
  <2>1. CASE Starts(w)
    <3>1. \A v \in Workers : /\ Unclaimed(v) => v # w /\ Unclaimed(v)' /\ mine'[v] = mine[v]
                             /\ Unclaimed(v)' => Unclaimed(v) /\ mine'[v] = mine[v]
      BY <2>1 DEF Starts, Freed
    <3> QED
      BY <2>1, <3>1 DEF Starts
  <2>2. CASE Drops(w)
    <3>1. \A v \in Workers : /\ Unclaimed(v) => v # w /\ Unclaimed(v)' /\ mine'[v] = mine[v]
                             /\ Unclaimed(v)' => Unclaimed(v) /\ mine'[v] = mine[v]
      BY <2>2 DEF Drops, Freed
    <3> QED
      BY <2>2, <3>1 DEF Drops
  <2>3. CASE Offers(w)
    <3>1. mine[w] \in Sandboxes /\ "claimed" \notin flags[w]
      BY <2>3 DEF Offers, WorkerInv, HasEntry
    <3>2. mine[w] \notin Range(available)
      <4>1. \A v \in Workers : mine[v] = mine[w] => v = w
        BY <3>1 DEF WorkerInv
      <4> QED
        BY <2>3, <4>1 DEF Offers
    <3>3. IsInjective(available') /\ Range(available') = Range(available) \cup {mine[w]}
      BY <2>3, <3>1, <3>2, Appended DEF Offers
    <3>4. /\ mine' = mine /\ flags' = flags /\ worker' = [worker EXCEPT ![w] = "idle"]
      BY <2>3 DEF Offers
    <3>5. \A v \in Workers : Unclaimed(v)' <=> (Unclaimed(v) \/ v = w)
      BY <3>1, <3>4
    <3> QED
      BY <3>3, <3>4, <3>5
  <2>4. CASE Keeps(w) /\ worker[w] # "idle"
    <3>1. available' = available /\ mine' = mine /\ \A v \in Workers : Unclaimed(v)' <=> Unclaimed(v)
      BY <2>4 DEF Keeps
    <3> QED
      BY <3>1
  <2>5. CASE Keeps(w) /\ worker[w] = "idle"
    <3>1. PICK i \in 1 .. Len(available) :
            available[i] = mine[w] /\ available' = RemoveAt(available, i)
      BY <2>5 DEF Keeps
    <3>2. IsInjective(available') /\ Range(available') = Range(available) \ {mine[w]}
      BY <3>1, Removed
    <3>3. mine' = mine /\ \A v \in Workers : Unclaimed(v)' <=> Unclaimed(v) /\ v # w
      BY <2>5 DEF Keeps
    <3>4. \A v \in Workers : mine[v] = mine[w] => v = w
      BY <2>5 DEF WorkerInv, HasEntry
    <3> QED
      BY <3>2, <3>3, <3>4
  <2> QED
    BY <1>1, <2>1, <2>2, <2>3, <2>4, <2>5, WorkerEffect
<1>2. ASSUME NEW w \in Workers, Ages(w) PROVE DequeInv'
  BY <1>2 DEF Ages
<1>3. ASSUME NEW c \in Claims, ClaimStep(c) PROVE DequeInv'
  <2>1. CASE Takes(c)
    <3>1. /\ IsInjective(available') /\ Range(available') = Range(available) \ {Head(available)}
          /\ Head(available) \in Range(available)
      BY <2>1, Popped DEF Takes
    <3>2. worker' = worker /\ mine' = mine /\ Flag(Head(available), {"claimed", "woken"})
      BY <2>1 DEF Takes
    <3>3. \A v \in Workers : Unclaimed(v)' <=> Unclaimed(v) /\ mine[v] # Head(available)
      BY <3>2 DEF Flag, Owners
    <3> QED
      BY <3>1, <3>2, <3>3
  <2>2. CASE Lets(c) \/ GoesOn(c)
    BY <2>2 DEF Lets, GoesOn
  <2> QED
    BY <1>3, <2>1, <2>2, ClaimEffect
<1>4. CASE Enter
  <2>1. \A v \in Workers : ~Unclaimed(v) /\ ~Unclaimed(v)'
    BY <1>4 DEF Enter, WorkerInv
  <2> QED
    BY <1>4, <2>1 DEF Enter
<1>5. CASE Entered \/ Closed
  BY <1>5 DEF Entered, Closed
<1>6. CASE Close
  <2>1. available' = available /\ mine' = mine /\ \A v \in Workers : Unclaimed(v)' <=> Unclaimed(v)
    BY <1>6 DEF Close
  <2> QED
    BY <2>1
<1>7. CASE (\E s \in Sandboxes : ServiceStep(s)) \/ UNCHANGED vars
  BY <1>7, ServiceEffect
<1> QED
  BY <1>1, <1>2, <1>3, <1>4, <1>5, <1>6, <1>7, Cases

(* Whoever has to stop it. *)
LEMMA NextOwner == IInv /\ [Next]_vars => OwnerInv'
<1> DEFINE Runs(s) == sandbox[s] \in {"creating", "up", "stopping"}
           Owned(s) == \/ \E w \in Workers : mine[w] = s /\ "claimed" \notin flags[w]
                       \/ \E c \in Claims : got[c] = s
<1> SUFFICES ASSUME IInv, [Next]_vars, NEW s \in Sandboxes, Runs(s)' PROVE Owned(s)'
  BY DEF OwnerInv
<1> USE Constants DEF IInv, TypeInv, WorkerType, ClaimType, PoolType
<1>0. Runs(s) => Owned(s)
  BY DEF OwnerInv
<1>1. ASSUME NEW w \in Workers, WorkerStep(w) PROVE Owned(s)'
  <2>1. got' = got
    BY <1>1, WorkerEffect
  <2>2. CASE Starts(w)
    <3>1. PICK t \in Sandboxes : /\ mine' = [mine EXCEPT ![w] = t] /\ flags' = [flags EXCEPT ![w] = {}]
                                 /\ sandbox' = [sandbox EXCEPT ![t] = "creating"]
      BY <2>2 DEF Starts
    <3>2. CASE s = t
      BY <3>1, <3>2
    <3>3. CASE s # t
      <4>1. Runs(s)
        BY <3>1, <3>3
      <4>2. ~(mine[w] = s /\ "claimed" \notin flags[w])
        BY <2>2, <4>1 DEF Starts, Freed
      <4> QED
        BY <1>0, <2>1, <3>1, <4>1, <4>2
    <3> QED
      BY <3>2, <3>3
  <2>3. CASE Drops(w)
    <3>1. Runs(s) /\ mine' = [mine EXCEPT ![w] = None] /\ flags' = [flags EXCEPT ![w] = {}]
      BY <2>3 DEF Drops
    <3>2. ~(mine[w] = s /\ "claimed" \notin flags[w])
      BY <2>3, <3>1 DEF Drops, Freed
    <3> QED
      BY <1>0, <2>1, <3>1, <3>2
  <2>4. CASE Offers(w) \/ Keeps(w)
    <3>1. mine' = mine /\ flags' = flags /\ Runs(s)
      BY <2>4 DEF Offers, Keeps, BeginStop
    <3> QED
      BY <1>0, <2>1, <3>1
  <2> QED
    BY <1>1, <2>2, <2>3, <2>4, WorkerEffect
<1>2. ASSUME NEW w \in Workers, Ages(w) PROVE Owned(s)'
  BY <1>0, <1>2 DEF Ages
<1>3. ASSUME NEW c \in Claims, ClaimStep(c) PROVE Owned(s)'
  <2>1. CASE Takes(c)
    <3>1. mine' = mine /\ got' = [got EXCEPT ![c] = Head(available)] /\ got[c] = None
      BY <2>1 DEF Takes, ClaimInv, Holding
    <3>2. Runs(s)
      BY <2>1 DEF Takes, BeginStop
    <3>3. \A w \in Workers : mine[w] # Head(available) => flags'[w] = flags[w]
      BY <2>1 DEF Takes, Flag, Owners
    <3>4. CASE s = Head(available)
      BY <3>1, <3>4
    <3>5. CASE s # Head(available)
      BY <1>0, <3>1, <3>2, <3>3, <3>5
    <3> QED
      BY <3>4, <3>5
  <2>2. CASE Lets(c)
    <3>1. Runs(s) /\ got[c] # s
      BY <2>2 DEF Lets, ClaimInv
    <3> QED
      BY <1>0, <2>2, <3>1 DEF Lets
  <2>3. CASE GoesOn(c)
    <3>1. Runs(s)
      BY <2>3 DEF GoesOn, BeginStop
    <3> QED
      BY <1>0, <2>3, <3>1 DEF GoesOn
  <2> QED
    BY <1>3, <2>1, <2>2, <2>3, ClaimEffect
<1>4. CASE Enter \/ Entered \/ Closed
  BY <1>0, <1>4 DEF Enter, Entered, Closed
<1>5. CASE Close
  BY <1>0, <1>5 DEF Close
<1>6. ASSUME NEW t \in Sandboxes, ServiceStep(t) PROVE Owned(s)'
  <2>1. UNCHANGED <<mine, flags, got>> /\ Runs(s)
    BY <1>6, ServiceEffect
  <2> QED
    BY <1>0, <2>1
<1>7. CASE UNCHANGED vars
  BY <1>0, <1>7
<1> QED
  BY <1>1, <1>2, <1>3, <1>4, <1>5, <1>6, <1>7, Cases

-----------------------------------------------------------------------------
(* Counting. *)

(* The permits that are out are those of the claims inside. *)
LEMMA NextPermit == IInv /\ [Next]_vars => PermitInv'
<1> SUFFICES ASSUME IInv, [Next]_vars PROVE PermitInv'
  OBVIOUS
<1> USE Constants DEF IInv, TypeInv, ClaimType
<1>0. IsFiniteSet(Admitted) /\ Cardinality(Admitted) \in Nat
  BY FS_Subset, FS_CardinalityType DEF Admitted
<1>1. CASE permits' = permits /\ Admitted' = Admitted
  BY <1>1 DEF PermitInv
<1>2. ASSUME NEW c \in Claims, c \notin Admitted, Admitted' = Admitted \cup {c}, permits' = permits - 1
      PROVE PermitInv'
  <2>1. Cardinality(Admitted') = Cardinality(Admitted) + 1
    BY <1>0, <1>2, FS_AddElement
  <2> QED
    BY <1>0, <1>2, <2>1 DEF PermitInv
<1>3. ASSUME NEW c \in Admitted, Admitted' = Admitted \ {c}, permits' = permits + 1
      PROVE PermitInv'
  <2>1. Cardinality(Admitted') = Cardinality(Admitted) - 1
    BY <1>0, <1>3, FS_RemoveElement
  <2> QED
    BY <1>0, <1>3, <2>1 DEF PermitInv
<1>4. ASSUME NEW c \in Claims, ClaimStep(c) PROVE PermitInv'
  <2> USE DEF Goes, Leaves
  <2>1. CASE Ask(c) \/ Probed(c) \/ StopsUsing(c) \/ Take(c)
    <3>1. permits' = permits /\ Admitted' = Admitted
      BY <2>1 DEF Ask, Probed, StopsUsing, Take, Admitted, Holding
    <3> QED
      BY <1>1, <3>1
  <2>2. CASE Admit(c)
    <3>1. c \notin Admitted /\ permits' = permits - 1 /\ Admitted' = Admitted \cup {c}
      BY <2>2 DEF Admit, Admitted, Holding
    <3> QED
      BY <1>2, <3>1
  <2>3. ASSUME c \in Admitted, Leaves(c) PROVE PermitInv'
    <3>1. permits' = permits + 1 /\ Admitted' = Admitted \ {c}
      BY <2>3 DEF Admitted, Holding
    <3> QED
      BY <1>3, <2>3, <3>1
  <2>4. CASE Refused(c) \/ CancelStop(c)
    <3>1. c \in Admitted /\ Leaves(c)
      BY <2>4 DEF Refused, CancelStop, Admitted, Holding
    <3> QED
      BY <2>3, <3>1
  <2>5. CASE CancelWait(c)
    <3>1. CASE claim[c] = "waiting"
      <4>1. c \in Admitted /\ Leaves(c)
        BY <2>5, <3>1 DEF CancelWait, Admitted
      <4> QED
        BY <2>3, <4>1
    <3>2. CASE claim[c] # "waiting"
      <4>1. permits' = permits /\ Admitted' = Admitted
        BY <2>5, <3>2 DEF CancelWait, Admitted, Holding
      <4> QED
        BY <1>1, <4>1
    <3> QED
      BY <3>1, <3>2
  <2>6. CASE Released(c)
    <3>1. CASE Leaves(c)
      <4>1. c \in Admitted
        BY <2>6 DEF Released, Admitted, Holding
      <4> QED
        BY <2>3, <3>1, <4>1
    <3>2. CASE claim[c] = "recycling" /\ Goes(c, "waiting") /\ permits' = permits
      <4>1. Admitted' = Admitted
        BY <3>2 DEF Admitted, Holding
      <4> QED
        BY <1>1, <3>2, <4>1
    <3> QED
      BY <2>6, <3>1, <3>2 DEF Released
  <2> QED
    BY <1>4, <2>1, <2>2, <2>4, <2>5, <2>6 DEF ClaimStep
<1>5. CASE permits' = permits /\ claim' = claim
  BY <1>1, <1>5 DEF Admitted
<1>6. CASE \E w \in Workers : WorkerStep(w)
  BY <1>5, <1>6, WorkerEffect
<1>7. CASE (\E w \in Workers : Ages(w)) \/ Enter \/ Entered \/ Close \/ Closed
  BY <1>5, <1>7 DEF Ages, Enter, Entered, Close, Closed
<1>8. CASE (\E s \in Sandboxes : ServiceStep(s)) \/ UNCHANGED vars
  BY <1>5, <1>8, ServiceEffect
<1> QED
  BY <1>4, <1>6, <1>7, <1>8, Cases

(* A sandbox is lost by a fault. *)
LEMMA NextLost == IInv /\ [Next]_vars => LostInv'
<1> SUFFICES ASSUME IInv, [Next]_vars PROVE LostInv'
  OBVIOUS
<1> USE Constants DEF IInv, TypeInv, PoolType
<1>0. IsFiniteSet(Lost) /\ Cardinality(Lost) \in Nat /\ Cardinality(Lost) <= faults
  BY FS_CardinalityType DEF LostInv
<1>1. ASSUME Lost' \subseteq Lost, faults' = faults PROVE LostInv'
  BY <1>0, <1>1, FS_Subset, FS_CardinalityType DEF LostInv
<1>2. ASSUME NEW s \in Sandboxes, Lost' = Lost \cup {s}, faults' = faults + 1 PROVE LostInv'
  <2>1. IsFiniteSet(Lost') /\ Cardinality(Lost') <= Cardinality(Lost) + 1 /\ Cardinality(Lost') \in Nat
    <3>1. CASE s \in Lost
      <4>1. Lost' = Lost
        BY <1>2, <3>1
      <4> QED
        BY <1>0, <4>1
    <3>2. CASE s \notin Lost
      <4>1. IsFiniteSet(Lost \cup {s}) /\ Cardinality(Lost \cup {s}) = Cardinality(Lost) + 1
        BY <1>0, <3>2, FS_AddElement
      <4> QED
        BY <1>0, <1>2, <4>1
    <3> QED
      BY <3>1, <3>2
  <2> QED
    BY <1>0, <1>2, <2>1 DEF LostInv
<1>3. ASSUME NEW s \in Sandboxes, Fault, sandbox' = [sandbox EXCEPT ![s] = "lost"] PROVE LostInv'
  <2>1. Lost' = Lost \cup {s}
    BY <1>3 DEF Lost
  <2> QED
    BY <1>2, <1>3, <2>1 DEF Fault
<1>4. ASSUME NEW w \in Workers, WorkerStep(w) PROVE LostInv'
  <2>1. faults' = faults /\ Lost' \subseteq Lost
    BY <1>4, WorkerEffect DEF Starts, Drops, Offers, Keeps, BeginStop, Lost
  <2> QED
    BY <1>1, <2>1
<1>5. ASSUME NEW c \in Claims, ClaimStep(c) PROVE LostInv'
  <2>1. CASE Takes(c) \/ GoesOn(c)
    <3>1. faults' = faults /\ Lost' \subseteq Lost
      BY <2>1 DEF Takes, GoesOn, BeginStop, Lost
    <3> QED
      BY <1>1, <3>1
  <2>2. CASE Lets(c)
    <3>1. CASE UNCHANGED <<sandbox, faults>>
      BY <1>1, <3>1 DEF Lost
    <3>2. CASE Fault /\ sandbox' = [sandbox EXCEPT ![got[c]] = "lost"]
      <4>1. got[c] \in Sandboxes
        BY <2>2 DEF Lets, ClaimInv, ClaimType
      <4> QED
        BY <1>3, <3>2, <4>1
    <3> QED
      BY <2>2, <3>1, <3>2 DEF Lets
  <2> QED
    BY <1>5, <2>1, <2>2, ClaimEffect
<1>6. CASE UNCHANGED <<sandbox, faults>>
  BY <1>1, <1>6 DEF Lost
<1>7. CASE (\E w \in Workers : Ages(w)) \/ Enter \/ Entered \/ Close \/ Closed
  BY <1>6, <1>7 DEF Ages, Enter, Entered, Close, Closed
<1>8. ASSUME NEW s \in Sandboxes, ServiceStep(s) PROVE LostInv'
  <2>1. \/ faults' = faults /\ Lost' \subseteq Lost
        \/ Fault /\ sandbox' = [sandbox EXCEPT ![s] = "lost"]
    BY <1>8, ServiceEffect DEF Lost
  <2> QED
    BY <1>1, <1>3, <2>1
<1>9. CASE UNCHANGED vars
  BY <1>6, <1>9
<1> QED
  BY <1>4, <1>5, <1>7, <1>8, <1>9, Cases

-----------------------------------------------------------------------------
(* The invariant. *)
LEMMA InitInv == Init => IInv
<1> SUFFICES ASSUME Init PROVE IInv
  OBVIOUS
<1> USE Constants DEF Init
<1>1. TypeInv
  <2>1. available \in Seq(Sandboxes)
    BY EmptySeq
  <2> QED
    BY <2>1 DEF TypeInv, WorkerType, ClaimType, PoolType, WorkerPCs, ClaimPCs
<1>2. AttemptType
  <2>1. attempt \in [Workers -> 0 .. PrepareAttempts]
    OBVIOUS
  <2> QED
    BY <2>1 DEF AttemptType
<1>3. WorkerInv /\ ClaimInv
  BY DEF WorkerInv, ClaimInv, HasEntry, Holding
<1>4. DequeInv
  BY DEF DequeInv, Unclaimed, IsInjective, Range
<1>5. OwnerInv
  BY DEF OwnerInv
<1>6. Admitted = {} /\ Lost = {}
  BY DEF Admitted, Lost, Holding
<1>7. PermitInv /\ LostInv
  BY <1>6, FS_EmptySet DEF PermitInv, LostInv
<1> QED
  BY <1>1, <1>2, <1>3, <1>4, <1>5, <1>7 DEF IInv

LEMMA Inductive == Spec => []IInv
<1>1. IInv /\ [Next]_vars => IInv'
  BY NextWorkerType, NextClaimType, NextPoolType, NextAttempt, NextWorker, NextClaim, NextDeque,
     NextOwner, NextPermit, NextLost
  DEF IInv, TypeInv
<1> QED
  BY InitInv, <1>1, PTL DEF Spec

(* At most `Concurrency` claims are inside. *)
LEMMA AdmittedBound ==
  ASSUME IInv
  PROVE /\ IsFiniteSet(Admitted) /\ Cardinality(Admitted) <= Concurrency
        /\ permits \in 0 .. Concurrency
<1>1. IsFiniteSet(Admitted) /\ Cardinality(Admitted) \in Nat
  BY Constants, FS_Subset, FS_CardinalityType DEF Admitted
<1> QED
  BY <1>1, Constants DEF IInv, PermitInv, TypeInv, ClaimType

(* Every variable keeps its type; attempts and permits keep their bounds. *)
THEOREM TypeCorrect == Spec => []TypeOK
<1>1. IInv => TypeOK
  BY AdmittedBound DEF IInv, TypeInv, WorkerType, AttemptType, ClaimType, PoolType, TypeOK
<1> QED
  BY <1>1, Inductive, PTL

(* However workers, claims, expiry and closing race for an entry, one of them    *)
(* owns it.                                                                      *)
THEOREM EntriesOwnedOnce == Spec => []OwnedOnce
<1>1. IInv => OwnedOnce
  <2> SUFFICES ASSUME IInv PROVE OwnedOnce
    OBVIOUS
  <2> USE Constants DEF IInv, TypeInv, WorkerType, ClaimType, ClaimInv, DequeInv, Unclaimed
  <2>0. Range(available) \subseteq Sandboxes
    BY RangeIs
  <2>1. \A c, d \in Claims : c # d /\ got[c] # None => got[c] # got[d]
    OBVIOUS
  <2>2. \A c \in Claims : got[c] \notin Range(available)
    BY <2>0
  <2>3. \A w \in Workers : worker[w] = "idle" =>
          ("claimed" \in flags[w] <=> mine[w] \notin Range(available))
    <3> SUFFICES ASSUME NEW w \in Workers, worker[w] = "idle", mine[w] \in Range(available)
                 PROVE "claimed" \notin flags[w]
      OBVIOUS
    <3>1. PICK v \in Workers : mine[v] = mine[w] /\ Unclaimed(v)
      OBVIOUS
    <3>2. v = w
      BY <2>0, <3>1 DEF WorkerInv
    <3> QED
      BY <3>1, <3>2
  <2>4. \A w \in Workers, c \in Claims : worker[w] = "retiring" => got[c] # mine[w]
    BY DEF WorkerInv, HasEntry
  <2> QED
    BY <2>1, <2>2, <2>3, <2>4 DEF OwnedOnce
<1> QED
  BY <1>1, Inductive, PTL

(* A closed pool has left nothing but what a claim is still using, and failed    *)
(* stops.                                                                        *)
THEOREM ClosedIsClean == Spec => []ClosedClean
<1>1. IInv => ClosedClean
  <2> SUFFICES ASSUME IInv, pool = "closed"
               PROVE /\ available = <<>>
                     /\ \A s \in Sandboxes :
                          sandbox[s] \in {"creating", "up", "stopping"} => s \in Range(got)
    BY DEF ClosedClean
  <2> USE Constants DEF IInv, TypeInv, WorkerType, ClaimType
  <2>1. \A w \in Workers : worker[w] = "ended" /\ mine[w] = None
    BY DEF WorkerInv, HasEntry
  <2>2. Range(available) = {}
    BY <2>1 DEF DequeInv, Unclaimed
  <2>3. Len(available) = 0
    <3>1. Len(available) \in Nat
      OBVIOUS
    <3>2. 1 \in 1 .. Len(available) => available[1] \in Range(available)
      BY RangeIs
    <3> QED
      BY <2>2, <3>1, <3>2
  <2>4. available = <<>>
    BY <2>3, EmptySeq
  <2>5. \A c \in Claims : got[c] \in Range(got)
    BY DEF Range
  <2> QED
    BY <2>1, <2>4, <2>5 DEF OwnerInv
<1> QED
  BY <1>1, Inductive, PTL

(* What a function takes on a finite set, and what two finite sets hold together. *)
LEMMA ImageBound ==
  ASSUME NEW f, NEW S, IsFiniteSet(S)
  PROVE LET T == {f[x] : x \in S} IN IsFiniteSet(T) /\ Cardinality(T) <= Cardinality(S)
<1> DEFINE T == {f[x] : x \in S}
           g == [x \in S |-> f[x]]
<1>1. g \in Surjection(S, T)
  BY DEF Surjection
<1> HIDE DEF T, g
<1>2. IsFiniteSet(T) /\ Cardinality(T) <= Cardinality(S)
  BY <1>1, FS_Surjection
<1> QED
  BY <1>2 DEF T

LEMMA UnionBound ==
  ASSUME NEW S, IsFiniteSet(S), NEW T, IsFiniteSet(T)
  PROVE IsFiniteSet(S \cup T) /\ Cardinality(S \cup T) <= Cardinality(S) + Cardinality(T)
<1>1. /\ IsFiniteSet(S \cup T)
      /\ Cardinality(S \cup T) = Cardinality(S) + Cardinality(T) - Cardinality(S \cap T)
  BY FS_Union
<1>2. IsFiniteSet(S \cap T)
  BY FS_Intersection
<1>3. Cardinality(S \cap T) \in Nat /\ Cardinality(S) \in Nat /\ Cardinality(T) \in Nat
  BY <1>2, FS_CardinalityType
<1> QED
  BY <1>1, <1>3

(* POOL_SIZE + CONCURRENCY, and the stops that failed. *)
THEOREM TotalIsBounded == Spec => []TotalBound
<1>1. IInv => TotalBound
  <2> SUFFICES ASSUME IInv PROVE TotalBound
    OBVIOUS
  <2> USE Constants DEF IInv, TypeInv
  <2> DEFINE A == {mine[w] : w \in Workers}
             B == {got[c] : c \in Admitted}
             All == {s \in Sandboxes : sandbox[s] # "gone"}
  <2>1. IsFiniteSet(A) /\ Cardinality(A) <= Cardinality(Workers)
    BY ImageBound DEF WorkerType
  <2>2. IsFiniteSet(B) /\ Cardinality(B) <= Concurrency
    <3>1. IsFiniteSet(B) /\ Cardinality(B) <= Cardinality(Admitted)
      BY AdmittedBound, ImageBound DEF ClaimType, Admitted
    <3>2. Cardinality(Admitted) \in Nat /\ Cardinality(B) \in Nat
      BY <3>1, AdmittedBound, FS_CardinalityType
    <3> QED
      BY <3>1, <3>2, AdmittedBound
  <2>3. IsFiniteSet(Lost) /\ Cardinality(Lost) <= faults
    BY DEF LostInv
  <2>4. All \subseteq (A \cup B) \cup Lost
    <3> SUFFICES ASSUME NEW s \in Sandboxes, sandbox[s] # "gone", s \notin Lost PROVE s \in A \cup B
      OBVIOUS
    <3>1. sandbox[s] \in {"creating", "up", "stopping"}
      BY DEF PoolType, Lost
    <3>2. \A c \in Claims : got[c] = s => c \in Admitted
      BY DEF ClaimInv, Admitted
    <3> QED
      BY <3>1, <3>2 DEF OwnerInv
  <2> HIDE DEF A, B, All
  <2>5. /\ IsFiniteSet(A \cup B)
        /\ Cardinality(A \cup B) <= Cardinality(A) + Cardinality(B)
    BY <2>1, <2>2, UnionBound
  <2>6. /\ IsFiniteSet((A \cup B) \cup Lost)
        /\ Cardinality((A \cup B) \cup Lost) <= Cardinality(A \cup B) + Cardinality(Lost)
    BY <2>3, <2>5, UnionBound
  <2>7. IsFiniteSet(All) /\ Cardinality(All) <= Cardinality((A \cup B) \cup Lost)
    BY <2>4, <2>6, FS_Subset
  <2>8. /\ Cardinality(A) \in Nat /\ Cardinality(B) \in Nat /\ Cardinality(Lost) \in Nat
        /\ Cardinality(A \cup B) \in Nat /\ Cardinality((A \cup B) \cup Lost) \in Nat
        /\ Cardinality(All) \in Nat /\ Cardinality(Workers) \in Nat /\ faults \in Nat
    BY <2>1, <2>2, <2>3, <2>5, <2>6, <2>7, FS_CardinalityType DEF PoolType
  <2>9. Cardinality(All) <= Cardinality(Workers) + Concurrency + faults
    BY <2>1, <2>2, <2>3, <2>5, <2>6, <2>7, <2>8
  <2> QED
    BY <2>9 DEF TotalBound, All
<1> QED
  BY <1>1, Inductive, PTL
=============================================================================
