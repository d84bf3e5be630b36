-------------------------- MODULE TauEpisodeProofs --------------------------
(***************************************************************************)
(* Proofs about TauEpisode, for any number of episodes, turns and resets    *)
(* and any lengths of generations and observations.                         *)
(*                                                                         *)
(* What the server has is compared with what the tool has posted: Has(h)    *)
(* says that it has the history h of this episode, ungraded or graded on    *)
(* just h.  Between a /step and its answer h is one short (StepInv).  A     *)
(* request that its caller gave up can disturb this only if it is a /step,  *)
(* and the sandbox is given up with a failed /step, unless the task is      *)
(* cancelled in that await: HistoryInv depends on CancelAt, the other parts *)
(* do not.                                                                 *)
(***************************************************************************)
EXTENDS TauEpisode, SequenceTheorems, TLAPS

(* TypeOK, in parts. *)
Responses == {Conflict} \cup [status : {200}, terminal : Rewards]

LoopType ==
  /\ pc \in PCs /\ episode \in 0..NumEpisodes
  /\ turn \in 0..MaxTurns /\ posted \in Seq(Kinds) /\ Len(posted) <= turn
  /\ userTurns \in 0..MaxUserTurns /\ resets \in 0..MaxResets
  /\ done \in BOOLEAN /\ failed \in BOOLEAN

ServerType ==
  /\ loaded \in 0..NumEpisodes /\ log \in Seq(Entries)
  /\ terminal \in Rewards /\ reward \in Rewards

ChannelType ==
  /\ call \in Requests \cup {None} /\ answer \in Responses \cup {None}
  /\ network \subseteq Requests
  /\ \A r \in network : r.op = "step" => r.kind \in Kinds

TokenType ==
  /\ ids \in Seq({"policy", "observation"}) /\ mask \in Seq({0, 1})
  /\ logprobs = None \/ logprobs \in Seq(BOOLEAN)

TalkType == conversation = None \/ conversation \in Seq(0..MaxTurns)

TypeInv == LoopType /\ ServerType /\ ChannelType /\ TokenType /\ TalkType

(* What an await says of the request under way and of the tool's fields. *)
StageInv ==
  /\ pc # "free" => episode # 0
  /\ pc \in {"resetting", "seeding"} => posted = <<>>
  /\ pc \in {"resetting", "seeding", "stepping", "replying", "scoring"} => ~done
  /\ pc = "rewarding" => done
  /\ failed => done /\ pc \in {"free", "deciding"}
  /\ pc # "free" /\ ~done => userTurns < MaxUserTurns
  /\ reward # None => pc = "free" \/ (pc = "deciding" /\ done /\ ~failed)
  /\ output # None => pc = "free" /\ output.reward = reward

CallInv ==
  /\ call # None <=> pc \in Calling
  /\ answer # None => call # None /\ call \notin network
  /\ pc = "resetting" => call = Request("reset", episode, 0, None)
  /\ pc = "stepping" =>
       posted # <<>> /\ call = Request("step", episode, Len(posted), posted[Len(posted)])
  /\ pc \in {"rewarding", "scoring"} => call = Request("reward", episode, 0, None)

(* A reset is served only while its caller waits for it, and loads another Env. *)
LoadedInv ==
  /\ loaded <= episode
  /\ loaded = 0 => terminal = None
  /\ pc \notin {"free", "resetting"} => loaded = episode
  /\ pc = "resetting" /\ call \in network => loaded # episode
  /\ pc = "resetting" /\ answer # None => loaded = episode
  /\ pc \in {"rewarding", "scoring"} /\ answer # None => answer.status = 200
  /\ \A r \in network : r.by <= episode /\ (r.op = "reset" => pc = "resetting" /\ r = call)

(* The server's history is h, and if it was graded, it was graded on h. *)
Has(h) ==
  /\ loaded = episode
  /\ log = IF terminal = None THEN h ELSE Append(h, Solution)
  /\ terminal # None => terminal.of = episode /\ terminal.actions = h

Scores(grade) == grade # None => grade.of = episode /\ grade.actions = Mine

(* Mine before the last /step was posted. *)
Earlier == [i \in 1 .. Len(posted) - 1 |-> <<episode, i, posted[i]>>]

StepInv ==
  /\ \A r \in network : r.op = "step" =>
       r.by = episode /\ ((pc = "stepping" /\ r = call) \/ (pc = "deciding" /\ failed))
  /\ pc = "stepping" /\ call \in network => Has(Earlier)
  /\ pc = "stepping" /\ answer # None /\ answer.status = 200 => Has(Mine) /\ Scores(answer.terminal)

RecordInv ==
  /\ pc = "seeding" \/ (pc = "resetting" /\ answer # None) => Has(Mine)
  /\ pc \in {"deciding", "replying", "rewarding", "scoring"} /\ ~failed => Has(Mine)
  /\ pc \in {"rewarding", "scoring"} /\ answer # None => Scores(answer.terminal)
  /\ Scores(reward)

HistoryInv == "stepping" \notin CancelAt => StepInv /\ RecordInv /\ OwnActions

(* The dialogue against the actions posted. *)
Spoken == {i \in DOMAIN posted : posted[i] = "respond"}
Dialogue(c, said) == c \in Seq(Nat) /\ Alternates(c) /\ InOrder(c) /\ Told(c) = said
Closed(c) == c[Len(c)] = 0

TalkInv ==
  /\ pc \in {"free", "resetting", "seeding"} => conversation = None
  /\ pc \in {"deciding", "rewarding"} /\ ~failed =>
       Dialogue(conversation, Spoken) /\ Closed(conversation)
  /\ pc = "stepping" => Dialogue(conversation, Spoken \ {Len(posted)}) /\ Closed(conversation)
  /\ pc = "replying" => Dialogue(conversation, Spoken) /\ ~Closed(conversation)

(* The trajectory is aligned throughout, and so is what is cut from it. *)
Aligned(i, m, l) ==
  /\ DOMAIN m = DOMAIN i
  /\ \A k \in DOMAIN i : m[k] = 1 <=> i[k] = "policy"
  /\ l # None => DOMAIN l = DOMAIN i /\ \A k \in DOMAIN i : l[k] <=> m[k] = 1

TokenInv == Aligned(ids, mask, logprobs) /\ SampleAligned

IInv == TypeInv /\ StageInv /\ CallInv /\ LoadedInv /\ HistoryInv /\ TalkInv /\ TokenInv

-----------------------------------------------------------------------------
LEMMA Constants ==
  /\ NumEpisodes \in Nat \ {0} /\ MaxTurns \in Nat \ {0} /\ MaxUserTurns \in Nat \ {0}
  /\ MaxResets \in Nat \ {0} /\ ResponseLength \in Nat \ {0} /\ MaxGenerated \in Nat \ {0}
  /\ MaxObserved \in Nat
  /\ CancelAt \subseteq {"resetting", "seeding", "deciding", "stepping", "replying",
                        "rewarding", "scoring"}
BY BoundsAssumption

(* Next, action by action. *)
LEMMA Steps ==
  ASSUME Next
  PROVE \/ Create \/ (\E kind \in Kinds : Turn(kind)) \/ EmptyTurn \/ EndLoop
        \/ ResetReturns \/ ResetFails \/ SeedReturns \/ SeedFails \/ StepReturns \/ StepFails
        \/ (\E stop \in BOOLEAN : ReplyReturns(stop)) \/ ReplyFails
        \/ RewardReturns \/ RewardFails \/ ScoreReturns \/ ScoreFails \/ LoopRaises \/ Cancel
        \/ (\E r \in network : Serve(r)) \/ (\E r \in network : Lose(r))
BY DEF Next, Decide, Await

LEMMA Requested ==
  ASSUME NEW op \in {"reset", "step", "reward"}, NEW by \in 1..NumEpisodes, NEW n \in 0..MaxTurns,
         NEW kind \in Kinds \cup {None}
  PROVE /\ Request(op, by, n, kind) \in Requests /\ Request(op, by, n, kind) # None
        /\ Request(op, by, n, kind).op = op /\ Request(op, by, n, kind).by = by
        /\ Request(op, by, n, kind).n = n /\ Request(op, by, n, kind).kind = kind
BY NoneAssumption DEF Request, Requests

LEMMA Rewarded ==
  ASSUME NEW score
  PROVE Sample(score).reward = score
BY DEF Sample

(* Serving touches the server, the request and its answer. *)
LEMMA Served ==
  ASSUME NEW r \in network, Serve(r)
  PROVE /\ network' = network \ {r} /\ (r # call => answer' = answer)
        /\ UNCHANGED <<pc, episode, turn, userTurns, posted, done, failed, reward, resets,
                       ids, mask, logprobs, output, conversation, call>>
BY DEF Serve, ServeReset, ServeStep, ServeReward, tool, tokens

LEMMA StageStep ==
  ASSUME IInv, [Next]_vars
  PROVE StageInv'
<1> USE Constants DEF IInv, TypeInv, LoopType, StageInv, PCs, Calling, tool, Return, Fail, Resume
<1>1. CASE Create
  BY <1>1 DEF Create
<1>2. ASSUME NEW kind \in Kinds, Turn(kind) PROVE StageInv'
  BY <1>2 DEF Turn
<1>3. CASE EmptyTurn
  BY <1>3 DEF EmptyTurn
<1>4. CASE EndLoop
  BY <1>4, Rewarded DEF EndLoop
<1>5. CASE ResetReturns
  BY <1>5 DEF ResetReturns
<1>6. CASE ResetFails
  BY <1>6 DEF ResetFails
<1>7. CASE SeedReturns
  BY <1>7 DEF SeedReturns
<1>8. CASE SeedFails
  BY <1>8 DEF SeedFails
<1>9. CASE StepReturns
  <2>1. CASE Fail
    BY <1>9, <2>1 DEF StepReturns
  <2>2. CASE pc' = "replying" /\ UNCHANGED tool /\ UNCHANGED output
    BY <1>9, <2>2 DEF StepReturns
  <2>3. CASE /\ pc' = "deciding" /\ (reward' # None => done')
             /\ UNCHANGED <<episode, posted, userTurns, failed, output>>
    BY <1>9, <2>3 DEF StepReturns
  <2> QED
    BY <1>9, <2>1, <2>2, <2>3 DEF StepReturns
<1>10. CASE StepFails
  BY <1>10 DEF StepFails
<1>11. ASSUME NEW stop \in BOOLEAN, ReplyReturns(stop) PROVE StageInv'
  <2>1. /\ pc = "replying" /\ pc' \in {"rewarding", "deciding"} /\ userTurns' = userTurns + 1
        /\ pc' = "rewarding" => done'
        /\ ~done' => userTurns' < MaxUserTurns
        /\ UNCHANGED <<episode, posted, failed, reward, output>>
    <3>1. /\ pc = "replying" /\ pc' \in {"rewarding", "deciding"} /\ userTurns' = userTurns + 1
          /\ UNCHANGED <<episode, posted, failed, reward, output>>
      BY <1>11 DEF ReplyReturns
    <3>2. done' = (stop \/ userTurns + 1 >= MaxUserTurns)
      BY <1>11 DEF ReplyReturns
    <3>3. ~done' => ~(userTurns + 1 >= MaxUserTurns)
      BY <3>2
    <3>4. pc' = "rewarding" => done'
      BY <1>11 DEF ReplyReturns
    <3> QED
      BY <3>1, <3>3, <3>4
  <2> QED
    BY <2>1
<1>12. CASE ReplyFails
  BY <1>12 DEF ReplyFails
<1>13. CASE RewardReturns
  BY <1>13 DEF RewardReturns
<1>14. CASE RewardFails
  BY <1>14 DEF RewardFails
<1>15. CASE ScoreReturns
  BY <1>15, Rewarded DEF ScoreReturns
<1>16. CASE ScoreFails
  BY <1>16, Rewarded DEF ScoreFails
<1>17. CASE LoopRaises
  BY <1>17 DEF LoopRaises
<1>18. CASE Cancel
  BY <1>18 DEF Cancel
<1>19. ASSUME NEW r \in network, Serve(r) PROVE StageInv'
  BY <1>19, Served
<1>20. ASSUME NEW r \in network, Lose(r) PROVE StageInv'
  BY <1>20 DEF Lose
<1>21. CASE UNCHANGED vars
  BY <1>21 DEF vars
<1> QED
  BY <1>1, <1>2, <1>3, <1>4, <1>5, <1>6, <1>7, <1>8, <1>9, <1>10, <1>11, <1>12,
     <1>13, <1>14, <1>15, <1>16, <1>17, <1>18, <1>19, <1>20, <1>21, Steps

LEMMA CallStep ==
  ASSUME IInv, [Next]_vars
  PROVE CallInv'
<1> USE Constants DEF IInv, TypeInv, LoopType, ChannelType, StageInv, CallInv, PCs, Calling, tool, channel, Return, Fail, Resume, HangUp, Send
<1>1. CASE Create
  BY <1>1, Requested DEF Create
<1>2. ASSUME NEW kind \in Kinds, Turn(kind) PROVE CallInv'
  BY <1>2, Requested, AppendProperties DEF Turn
<1>3. CASE EmptyTurn
  BY <1>3 DEF EmptyTurn
<1>4. CASE EndLoop
  <2>1. pc = "deciding" /\ UNCHANGED tool
    BY <1>4 DEF EndLoop
  <2>2. CASE Return(~failed)
    BY <2>1, <2>2
  <2>3. CASE Send(Request("reward", episode, 0, None)) /\ pc' = "scoring"
    BY <2>1, <2>3, Requested
  <2> QED
    BY <1>4, <2>2, <2>3 DEF EndLoop
<1>5. CASE ResetReturns
  BY <1>5 DEF ResetReturns
<1>6. CASE ResetFails
  BY <1>6, Requested DEF ResetFails
<1>7. CASE SeedReturns
  BY <1>7 DEF SeedReturns
<1>8. CASE SeedFails
  BY <1>8 DEF SeedFails
<1>9. CASE StepReturns
  BY <1>9 DEF StepReturns
<1>10. CASE StepFails
  BY <1>10 DEF StepFails
<1>11. ASSUME NEW stop \in BOOLEAN, ReplyReturns(stop) PROVE CallInv'
  BY <1>11, Requested DEF ReplyReturns
<1>12. CASE ReplyFails
  BY <1>12 DEF ReplyFails
<1>13. CASE RewardReturns
  BY <1>13 DEF RewardReturns
<1>14. CASE RewardFails
  BY <1>14 DEF RewardFails
<1>15. CASE ScoreReturns
  BY <1>15 DEF ScoreReturns
<1>16. CASE ScoreFails
  BY <1>16 DEF ScoreFails
<1>17. CASE LoopRaises
  BY <1>17 DEF LoopRaises
<1>18. CASE Cancel
  BY <1>18 DEF Cancel
<1>19. ASSUME NEW r \in network, Serve(r) PROVE CallInv'
  BY <1>19, Served, NoneAssumption
<1>20. ASSUME NEW r \in network, Lose(r) PROVE CallInv'
  BY <1>20 DEF Lose
<1>21. CASE UNCHANGED vars
  BY <1>21 DEF vars
<1> QED
  BY <1>1, <1>2, <1>3, <1>4, <1>5, <1>6, <1>7, <1>8, <1>9, <1>10, <1>11, <1>12,
     <1>13, <1>14, <1>15, <1>16, <1>17, <1>18, <1>19, <1>20, <1>21, Steps

LEMMA ResponseTyped ==
  ASSUME IInv, answer # None, answer.status = 200
  PROVE answer.terminal \in Rewards
BY DEF IInv, TypeInv, ChannelType, Responses, Conflict

LEMMA Recorded ==
  ASSUME IInv, NEW r \in network
  PROVE /\ r.op = "step" => Acted(r) \in Seq(Entries)
        /\ loaded # 0 => Append(log, Solution) \in Seq(Entries)
        /\ r.op = "step" /\ loaded # 0 => Append(Acted(r), Solution) \in Seq(Entries)
        /\ \A h \in Seq(Entries) : loaded # 0 => Scored(r.by, h) \in Grades /\ Scored(r.by, h) # None
<1> USE Constants DEF IInv, TypeInv, LoopType, ServerType, ChannelType, LoadedInv
<1>1. r.by \in 1..NumEpisodes /\ r.n \in 0..MaxTurns
  BY DEF Requests
<1>2. r.op = "step" => Acted(r) \in Seq(Entries)
  BY <1>1, AppendProperties DEF Acted, Entries
<1>3. loaded # 0 => Solution \in Entries
  BY DEF Solution, Entries
<1>4. \A h \in Seq(Entries) : loaded # 0 => Scored(r.by, h) \in Grades
  BY <1>1 DEF Scored, Grades
<1>5. \A h \in Seq(Entries) : loaded # 0 => Append(h, Solution) \in Seq(Entries)
  BY <1>3, AppendProperties
<1> QED
  BY <1>2, <1>4, <1>5, NoneAssumption

(* What a request does to the types of the server's variables and its answer. *)
LEMMA GradeStep ==
  ASSUME IInv, NEW r \in network, Serve(r)
  PROVE /\ loaded' \in 0..NumEpisodes /\ log' \in Seq(Entries) /\ terminal' \in Rewards
        /\ answer' \in Responses \cup {None}
<1> USE Constants DEF IInv, TypeInv, LoopType, ServerType, ChannelType, LoadedInv, Responses, Rewards
<1>0. Conflict \in Responses /\ OK \in Responses
  BY DEF OK
<1>00. \A t \in Rewards : [status |-> 200, terminal |-> t] \in Responses
  OBVIOUS
<1>1. CASE ServeReset(r)
  <2>1. r.by \in 1..NumEpisodes
    BY DEF Requests
  <2> QED
    BY <1>0, <1>1, <2>1, EmptySeq DEF ServeReset
<1>2. CASE ServeStep(r)
  <2>1. CASE loaded = 0 \/ terminal # None
    BY <1>0, <1>2, <2>1 DEF ServeStep
  <2>2. CASE loaded # 0 /\ terminal = None
    <3>0. /\ Acted(r) \in Seq(Entries) /\ Append(Acted(r), Solution) \in Seq(Entries)
          /\ Scored(r.by, Acted(r)) \in Grades
      BY <1>2, <2>2, Recorded DEF ServeStep
    <3>1. terminal' \in Rewards /\ log' \in Seq(Entries) /\ loaded' = loaded
      BY <1>2, <2>2, <3>0 DEF ServeStep
    <3>2. answer' = answer \/ answer' = [status |-> 200, terminal |-> terminal']
      BY <1>2, <2>2 DEF ServeStep
    <3> QED
      BY <1>00, <3>1, <3>2
  <2> QED
    BY <2>1, <2>2
<1>3. CASE ServeReward(r)
  <2>1. terminal' \in Rewards /\ log' \in Seq(Entries) /\ loaded' = loaded
    <3>1. loaded # 0 => Scored(r.by, log) \in Grades /\ Append(log, Solution) \in Seq(Entries)
      BY Recorded
    <3> QED
      BY <1>3, <3>1 DEF ServeReward
  <2>2. answer' \in {answer, Conflict, [status |-> 200, terminal |-> terminal']}
    BY <1>3 DEF ServeReward
  <2> QED
    BY <1>0, <1>00, <2>1, <2>2
<1> QED
  BY <1>1, <1>2, <1>3 DEF Serve

LEMMA ServerTypeStep ==
  ASSUME IInv, [Next]_vars
  PROVE ServerType'
<1> USE Constants DEF IInv, TypeInv, LoopType, ChannelType, ServerType, StageInv, CallInv, LoadedInv, PCs, Calling, tool, channel, server, Return, Fail, Resume, HangUp, Send, NewSandbox, Rewards
<1>0. <<>> \in Seq(Entries)
  BY EmptySeq
<1>1. CASE Create
  BY <1>1 DEF Create
<1>2. ASSUME NEW kind \in Kinds, Turn(kind) PROVE ServerType'
  BY <1>2 DEF Turn
<1>3. CASE EmptyTurn
  BY <1>3 DEF EmptyTurn
<1>4. CASE EndLoop
  <2>1. UNCHANGED tool
    BY <1>4 DEF EndLoop
  <2>2. CASE Return(~failed)
    <3>1. CASE failed
      BY <1>0, <2>1, <2>2, <3>1
    <3>2. CASE ~failed
      BY <1>0, <2>1, <2>2, <3>2
    <3> QED
      BY <3>1, <3>2
  <2>3. CASE UNCHANGED server
    BY <2>1, <2>3
  <2> QED
    BY <1>4, <2>2, <2>3 DEF EndLoop
<1>5. CASE ResetReturns
  BY <1>5 DEF ResetReturns
<1>6. CASE ResetFails
  <2>1. CASE NewSandbox /\ UNCHANGED <<episode, reward>>
    BY <1>6, <1>0, <2>1
  <2>2. CASE Return(FALSE) /\ UNCHANGED tool
    BY <1>6, <1>0, <2>2
  <2> QED
    BY <1>6, <2>1, <2>2 DEF ResetFails
<1>7. CASE SeedReturns
  BY <1>7 DEF SeedReturns
<1>8. CASE SeedFails
  BY <1>8, <1>0 DEF SeedFails
<1>9. CASE StepReturns
  <2>1. CASE Fail
    BY <1>9, <2>1
  <2>2. CASE pc' = "replying" /\ UNCHANGED <<tool, server>>
    BY <1>9, <2>2
  <2>3. CASE answer.status = 200 /\ reward' = answer.terminal /\ UNCHANGED server
    BY <1>9, <2>3 DEF StepReturns, Responses, Conflict
  <2> QED
    BY <1>9, <2>1, <2>2, <2>3 DEF StepReturns
<1>10. CASE StepFails
  BY <1>10 DEF StepFails
<1>11. ASSUME NEW stop \in BOOLEAN, ReplyReturns(stop) PROVE ServerType'
  BY <1>11 DEF ReplyReturns
<1>12. CASE ReplyFails
  BY <1>12 DEF ReplyFails
<1>13. CASE RewardReturns
  BY <1>13, ResponseTyped DEF RewardReturns
<1>14. CASE RewardFails
  BY <1>14 DEF RewardFails
<1>15. CASE ScoreReturns
  BY <1>15, ResponseTyped, <1>0 DEF ScoreReturns
<1>16. CASE ScoreFails
  BY <1>16, <1>0 DEF ScoreFails
<1>17. CASE LoopRaises
  <2>1. CASE failed
    BY <1>17, <1>0, <2>1 DEF LoopRaises
  <2>2. CASE ~failed
    BY <1>17, <1>0, <2>2 DEF LoopRaises
  <2> QED
    BY <2>1, <2>2
<1>18. CASE Cancel
  <2>1. CASE Return(TRUE)
    BY <1>18, <2>1 DEF Cancel
  <2>2. CASE Return(FALSE)
    BY <1>18, <1>0, <2>2 DEF Cancel
  <2> HIDE DEF Return
  <2>3. (pc \notin {"resetting", "seeding"} /\ ~failed) \in BOOLEAN
    OBVIOUS
  <2> QED
    BY <1>18, <2>1, <2>2, <2>3, Zenon DEF Cancel
<1>19. ASSUME NEW r \in network, Serve(r) PROVE ServerType'
  BY <1>19, Served, GradeStep
<1>20. ASSUME NEW r \in network, Lose(r) PROVE ServerType'
  BY <1>20 DEF Lose
<1>21. CASE UNCHANGED vars
  BY <1>21 DEF vars
<1> QED
  BY <1>1, <1>2, <1>3, <1>4, <1>5, <1>6, <1>7, <1>8, <1>9, <1>10, <1>11, <1>12,
     <1>13, <1>14, <1>15, <1>16, <1>17, <1>18, <1>19, <1>20, <1>21, Steps

LEMMA LoadedStep ==
  ASSUME IInv, [Next]_vars
  PROVE LoadedInv'
<1> USE Constants DEF IInv, TypeInv, LoopType, ChannelType, ServerType, StageInv, CallInv, LoadedInv, PCs, Calling, tool, channel, server, Return, Fail, Resume, HangUp, Send, NewSandbox, Rewards
<1>1. CASE Create
  <2>1. /\ pc = "free" /\ pc' = "resetting" /\ episode' = episode + 1 /\ episode + 1 \in 1..NumEpisodes
        /\ call' = Request("reset", episode + 1, 0, None) /\ network' = network \cup {call'}
        /\ answer' = None /\ loaded' = loaded /\ terminal' = terminal
    BY <1>1 DEF Create
  <2>2. call'.by = episode'
    BY <2>1, Requested
  <2>3. \A q \in network : q.by <= episode' /\ q.op # "reset"
    BY <2>1 DEF Requests
  <2>4. \A q \in network' : q.by <= episode' /\ (q.op = "reset" => q = call')
    BY <2>1, <2>2, <2>3
  <2> QED
    BY <2>1, <2>4
<1>2. ASSUME NEW kind \in Kinds, Turn(kind) PROVE LoadedInv'
  <2>1. /\ pc = "deciding" /\ pc' = "stepping" /\ episode' = episode /\ episode \in 1..NumEpisodes
        /\ posted' = Append(posted, kind) /\ Len(posted') \in 0..MaxTurns
        /\ call' = Request("step", episode, Len(posted'), kind) /\ network' = network \cup {call'}
        /\ answer' = None /\ loaded' = loaded /\ terminal' = terminal
    BY <1>2, AppendProperties DEF Turn
  <2>2. call'.by = episode /\ call'.op = "step"
    BY <2>1, Requested
  <2> QED
    BY <2>1, <2>2
<1>3. CASE EmptyTurn
  BY <1>3 DEF EmptyTurn
<1>4. CASE EndLoop
  <2>1. pc = "deciding" /\ UNCHANGED tool
    BY <1>4 DEF EndLoop
  <2>2. CASE Return(~failed)
    <3>1. CASE failed
      BY <2>1, <2>2, <3>1
    <3>2. CASE ~failed
      BY <2>1, <2>2, <3>2
    <3> QED
      BY <3>1, <3>2
  <2>3. CASE Send(Request("reward", episode, 0, None)) /\ pc' = "scoring" /\ UNCHANGED server
    BY <2>1, <2>3, Requested
  <2> QED
    BY <1>4, <2>2, <2>3 DEF EndLoop
<1>5. CASE ResetReturns
  BY <1>5 DEF ResetReturns
<1>6. CASE ResetFails
  BY <1>6, Requested DEF ResetFails
<1>7. CASE SeedReturns
  BY <1>7 DEF SeedReturns
<1>8. CASE SeedFails
  BY <1>8 DEF SeedFails
<1>9. CASE StepReturns
  BY <1>9 DEF StepReturns
<1>10. CASE StepFails
  BY <1>10 DEF StepFails
<1>11. ASSUME NEW stop \in BOOLEAN, ReplyReturns(stop) PROVE LoadedInv'
  <2>1. /\ pc = "replying" /\ episode' = episode /\ episode \in 1..NumEpisodes
        /\ loaded' = loaded /\ terminal' = terminal
    BY <1>11 DEF ReplyReturns
  <2>2. CASE Send(Request("reward", episode, 0, None)) /\ pc' = "rewarding"
    BY <2>1, <2>2, Requested
  <2>3. CASE Resume /\ UNCHANGED channel
    BY <2>1, <2>3
  <2> QED
    BY <1>11, <2>2, <2>3 DEF ReplyReturns
<1>12. CASE ReplyFails
  BY <1>12 DEF ReplyFails
<1>13. CASE RewardReturns
  BY <1>13 DEF RewardReturns
<1>14. CASE RewardFails
  BY <1>14 DEF RewardFails
<1>15. CASE ScoreReturns
  BY <1>15 DEF ScoreReturns
<1>16. CASE ScoreFails
  BY <1>16 DEF ScoreFails
<1>17. CASE LoopRaises
  BY <1>17 DEF LoopRaises
<1>18. CASE Cancel
  BY <1>18 DEF Cancel
<1>19. ASSUME NEW r \in network, Serve(r) PROVE LoadedInv'
  <2>0. /\ network' = network \ {r} /\ UNCHANGED <<pc, call, episode>> /\ (r # call => answer' = answer)
        /\ \A q \in network' : q.by <= episode /\ (q.op = "reset" => pc = "resetting" /\ q = call)
    BY Served, <1>19
  <2>1. CASE ServeReset(r)
    <3>1. pc = "resetting" /\ r = call /\ loaded' = episode /\ terminal' = None /\ episode # 0
      BY <2>1, Requested DEF ServeReset
    <3> QED
      BY <2>0, <3>1
  <2>2. CASE loaded' = loaded /\ (r.op = "step" \/ r.op = "reward")
    <3>1. loaded = 0 => terminal' = None
      BY <2>2, <1>19 DEF Serve, ServeReset, ServeStep, ServeReward
    <3>2. pc = "resetting" => r # call
      BY <2>2, Requested
    <3>3. pc \in {"rewarding", "scoring"} /\ r = call => answer'.status = 200
      <4>1. episode \in 1..NumEpisodes => Request("reward", episode, 0, None).op = "reward"
        BY Requested
      <4>2. pc \in {"rewarding", "scoring"} => episode \in 1..NumEpisodes /\ loaded # 0
        OBVIOUS
      <4> QED
        BY <2>2, <4>1, <4>2, <1>19 DEF Serve, ServeReset, ServeStep, ServeReward
    <3> QED
      BY <2>0, <2>2, <3>1, <3>2, <3>3
  <2> QED
    BY <2>1, <2>2, <1>19 DEF Serve, ServeReset, ServeStep, ServeReward
<1>20. ASSUME NEW r \in network, Lose(r) PROVE LoadedInv'
  BY <1>20 DEF Lose
<1>21. CASE UNCHANGED vars
  BY <1>21 DEF vars
<1> QED
  BY <1>1, <1>2, <1>3, <1>4, <1>5, <1>6, <1>7, <1>8, <1>9, <1>10, <1>11, <1>12,
     <1>13, <1>14, <1>15, <1>16, <1>17, <1>18, <1>19, <1>20, <1>21, Steps

LEMMA LoopTypeStep ==
  ASSUME IInv, [Next]_vars
  PROVE LoopType'
<1> USE Constants DEF IInv, TypeInv, LoopType, StageInv, PCs, Calling, tool, Return, Fail, Resume
<1>1. CASE Create
  <2>1. /\ pc' = "resetting" /\ episode' = episode + 1 /\ episode < NumEpisodes
        /\ turn' = 0 /\ userTurns' = 0 /\ posted' = <<>> /\ resets' = 1 /\ done' = FALSE /\ failed' = FALSE
    BY <1>1 DEF Create
  <2>2. posted' \in Seq(Kinds) /\ Len(posted') <= turn'
    BY <2>1, EmptySeq
  <2>3. episode' \in 0..NumEpisodes /\ turn' \in 0..MaxTurns /\ userTurns' \in 0..MaxUserTurns /\ resets' \in 0..MaxResets
    BY <2>1
  <2> QED
    BY <2>1, <2>2, <2>3
<1>2. ASSUME NEW kind \in Kinds, Turn(kind) PROVE LoopType'
  BY <1>2, AppendProperties DEF Turn
<1>3. CASE EmptyTurn
  BY <1>3 DEF EmptyTurn
<1>4. CASE EndLoop
  BY <1>4 DEF EndLoop
<1>5. CASE ResetReturns
  BY <1>5 DEF ResetReturns
<1>6. CASE ResetFails
  <2>1. CASE Return(FALSE) /\ UNCHANGED tool
    BY <1>6, <2>1
  <2>2. CASE /\ resets < MaxResets /\ resets' = resets + 1
             /\ UNCHANGED <<pc, episode, turn, userTurns, posted, done, failed>>
    BY <1>6, <2>2
  <2> QED
    BY <1>6, <2>1, <2>2 DEF ResetFails
<1>7. CASE SeedReturns
  BY <1>7 DEF SeedReturns
<1>8. CASE SeedFails
  BY <1>8 DEF SeedFails
<1>9. CASE StepReturns
  <2>1. CASE Fail
    BY <1>9, <2>1
  <2>2. CASE pc' = "replying" /\ UNCHANGED tool
    BY <1>9, <2>2
  <2>3. CASE /\ pc' = "deciding" /\ done' \in BOOLEAN
             /\ UNCHANGED <<episode, turn, posted, userTurns, failed, resets>>
    BY <1>9, <2>3
  <2> QED
    BY <1>9, <2>1, <2>2, <2>3 DEF StepReturns
<1>10. CASE StepFails
  BY <1>10 DEF StepFails
<1>11. ASSUME NEW stop \in BOOLEAN, ReplyReturns(stop) PROVE LoopType'
  <2>1. /\ pc = "replying" /\ pc' \in {"rewarding", "deciding"} /\ userTurns' = userTurns + 1
        /\ done' = (stop \/ userTurns + 1 >= MaxUserTurns)
        /\ UNCHANGED <<episode, turn, posted, failed, resets>>
    BY <1>11 DEF ReplyReturns
  <2>2. done' \in BOOLEAN
    BY <2>1
  <2> QED
    BY <2>1, <2>2
<1>12. CASE ReplyFails
  BY <1>12 DEF ReplyFails
<1>13. CASE RewardReturns
  BY <1>13 DEF RewardReturns
<1>14. CASE RewardFails
  BY <1>14 DEF RewardFails
<1>15. CASE ScoreReturns
  BY <1>15 DEF ScoreReturns
<1>16. CASE ScoreFails
  BY <1>16 DEF ScoreFails
<1>17. CASE LoopRaises
  BY <1>17 DEF LoopRaises
<1>18. CASE Cancel
  BY <1>18 DEF Cancel
<1>19. ASSUME NEW r \in network, Serve(r) PROVE LoopType'
  BY <1>19, Served
<1>20. ASSUME NEW r \in network, Lose(r) PROVE LoopType'
  BY <1>20 DEF Lose
<1>21. CASE UNCHANGED vars
  BY <1>21 DEF vars
<1> QED
  BY <1>1, <1>2, <1>3, <1>4, <1>5, <1>6, <1>7, <1>8, <1>9, <1>10, <1>11, <1>12,
     <1>13, <1>14, <1>15, <1>16, <1>17, <1>18, <1>19, <1>20, <1>21, Steps

LEMMA ChannelTypeStep ==
  ASSUME IInv, [Next]_vars
  PROVE ChannelType'
<1> USE Constants DEF IInv, TypeInv, LoopType, ChannelType, StageInv, CallInv, LoadedInv, PCs, Calling, tool, channel, Return, Fail, Resume, HangUp, Send
<1>1. CASE Create
  BY <1>1, Requested DEF Create
<1>2. ASSUME NEW kind \in Kinds, Turn(kind) PROVE ChannelType'
  BY <1>2, Requested, AppendProperties DEF Turn
<1>3. CASE EmptyTurn
  BY <1>3 DEF EmptyTurn
<1>4. CASE EndLoop
  <2>1. pc = "deciding" /\ UNCHANGED tool
    BY <1>4 DEF EndLoop
  <2>2. CASE Return(~failed)
    BY <2>1, <2>2
  <2>3. CASE Send(Request("reward", episode, 0, None)) /\ pc' = "scoring"
    BY <2>1, <2>3, Requested
  <2> QED
    BY <1>4, <2>2, <2>3 DEF EndLoop
<1>5. CASE ResetReturns
  BY <1>5 DEF ResetReturns
<1>6. CASE ResetFails
  BY <1>6, Requested DEF ResetFails
<1>7. CASE SeedReturns
  BY <1>7 DEF SeedReturns
<1>8. CASE SeedFails
  BY <1>8 DEF SeedFails
<1>9. CASE StepReturns
  BY <1>9 DEF StepReturns
<1>10. CASE StepFails
  BY <1>10 DEF StepFails
<1>11. ASSUME NEW stop \in BOOLEAN, ReplyReturns(stop) PROVE ChannelType'
  BY <1>11, Requested DEF ReplyReturns
<1>12. CASE ReplyFails
  BY <1>12 DEF ReplyFails
<1>13. CASE RewardReturns
  BY <1>13 DEF RewardReturns
<1>14. CASE RewardFails
  BY <1>14 DEF RewardFails
<1>15. CASE ScoreReturns
  BY <1>15 DEF ScoreReturns
<1>16. CASE ScoreFails
  BY <1>16 DEF ScoreFails
<1>17. CASE LoopRaises
  BY <1>17 DEF LoopRaises
<1>18. CASE Cancel
  BY <1>18 DEF Cancel
<1>19. ASSUME NEW r \in network, Serve(r) PROVE ChannelType'
  BY <1>19, Served, GradeStep
<1>20. ASSUME NEW r \in network, Lose(r) PROVE ChannelType'
  BY <1>20 DEF Lose
<1>21. CASE UNCHANGED vars
  BY <1>21 DEF vars
<1> QED
  BY <1>1, <1>2, <1>3, <1>4, <1>5, <1>6, <1>7, <1>8, <1>9, <1>10, <1>11, <1>12,
     <1>13, <1>14, <1>15, <1>16, <1>17, <1>18, <1>19, <1>20, <1>21, Steps

-----------------------------------------------------------------------------
(* The trajectory. *)
LEMMA RunIs ==
  ASSUME NEW S, NEW token \in S, NEW n \in Nat
  PROVE /\ Run(token, n) \in Seq(S) /\ Len(Run(token, n)) = n
        /\ \A i \in 1 .. n : Run(token, n)[i] = token
BY DEF Run

(* A row, lengthened by generated and by observed values. *)
Grown(new, row, S, x, y, g, o) ==
  /\ new \in Seq(S) /\ Len(new) = Len(row) + g + o /\ Len(row) \in Nat
  /\ \A i \in 1 .. Len(row) : new[i] = row[i]
  /\ \A i \in Len(row) + 1 .. Len(row) + g : new[i] = x
  /\ \A i \in Len(row) + g + 1 .. Len(row) + g + o : new[i] = y

LEMMA Longer ==
  ASSUME NEW S, NEW row \in Seq(S), NEW x \in S, NEW y \in S, NEW g \in Nat, NEW o \in Nat,
         NEW new, new = row \o Run(x, g) \o Run(y, o)
  PROVE Grown(new, row, S, x, y, g, o)
<1> DEFINE b == Run(x, g)
           c == Run(y, o)
           a == row \o b
<1>9. new = a \o c
  OBVIOUS
<1>0. Len(row) \in Nat
  OBVIOUS
<1>1. /\ b \in Seq(S) /\ Len(b) = g /\ \A i \in 1 .. g : b[i] = x
      /\ c \in Seq(S) /\ Len(c) = o /\ \A i \in 1 .. o : c[i] = y
  BY RunIs
<1> HIDE DEF b, c
<1>2. /\ a \in Seq(S) /\ Len(a) = Len(row) + g
      /\ \A i \in 1 .. Len(row) + g : a[i] = IF i <= Len(row) THEN row[i] ELSE b[i - Len(row)]
  BY <1>1, ConcatProperties
<1>3. \A i \in Len(row) + 1 .. Len(row) + g : a[i] = x
  <2> SUFFICES ASSUME NEW i \in Len(row) + 1 .. Len(row) + g PROVE a[i] = x
    OBVIOUS
  <2>1. i \in 1 .. Len(row) + g /\ ~(i <= Len(row)) /\ i - Len(row) \in 1 .. g
    BY <1>0
  <2> QED
    BY <1>1, <1>2, <2>1
<1>4. \A i \in 1 .. Len(row) : a[i] = row[i]
  BY <1>0, <1>2
<1> HIDE DEF a
<1>5. /\ new \in Seq(S) /\ Len(new) = Len(a) + o
      /\ \A i \in 1 .. Len(a) + o : new[i] = IF i <= Len(a) THEN a[i] ELSE c[i - Len(a)]
  BY <1>1, <1>2, <1>9, ConcatProperties
<1>6. \A i \in Len(a) + 1 .. Len(a) + o : new[i] = y
  <2> SUFFICES ASSUME NEW i \in Len(a) + 1 .. Len(a) + o PROVE new[i] = y
    OBVIOUS
  <2>1. i \in 1 .. Len(a) + o /\ ~(i <= Len(a)) /\ i - Len(a) \in 1 .. o
    BY <1>0, <1>2
  <2> QED
    BY <1>1, <1>5, <2>1
<1>7. \A i \in 1 .. Len(a) : new[i] = a[i]
  BY <1>0, <1>2, <1>5
<1>8. \A i \in 1 .. Len(row) : new[i] = row[i]
  BY <1>0, <1>2, <1>4, <1>7
<1>10. \A i \in Len(row) + 1 .. Len(row) + g : new[i] = x
  <2> SUFFICES ASSUME NEW i \in Len(row) + 1 .. Len(row) + g PROVE new[i] = x
    OBVIOUS
  <2>1. i \in 1 .. Len(a)
    BY <1>0, <1>2
  <2> QED
    BY <1>3, <1>7, <2>1
<1> QED
  BY <1>0, <1>2, <1>5, <1>6, <1>8, <1>10 DEF Grown

LEMMA ExtendAligns ==
  ASSUME TokenType, Aligned(ids, mask, logprobs), NEW g \in Nat, NEW o \in Nat, Extend(g, o)
  PROVE TokenType' /\ Aligned(ids, mask, logprobs)'
<1> DEFINE n == Len(ids)
           P == {"policy", "observation"}
<1>1. n \in Nat /\ Len(mask) = n
  BY DEF TokenType, Aligned
<1>2. /\ ids' \in Seq(P) /\ Len(ids') = n + g + o
      /\ \A i \in 1 .. n : ids'[i] = ids[i]
      /\ \A i \in n + 1 .. n + g : ids'[i] = "policy"
      /\ \A i \in n + g + 1 .. n + g + o : ids'[i] = "observation"
  <2>1. ids' = ids \o Run("policy", g) \o Run("observation", o)
    BY DEF Extend
  <2>2. ids \in Seq(P) /\ "policy" \in P /\ "observation" \in P
    BY DEF TokenType
  <2> HIDE DEF P
  <2>3. Grown(ids', ids, P, "policy", "observation", g, o)
    BY <2>1, <2>2, Longer
  <2> QED
    BY <2>3 DEF Grown
<1>3. /\ mask' \in Seq({0, 1}) /\ Len(mask') = n + g + o
      /\ \A i \in 1 .. n : mask'[i] = mask[i]
      /\ \A i \in n + 1 .. n + g : mask'[i] = 1
      /\ \A i \in n + g + 1 .. n + g + o : mask'[i] = 0
  <2>1. mask' = mask \o Run(1, g) \o Run(0, o)
    BY DEF Extend
  <2> DEFINE M == {0, 1}
  <2>2. mask \in Seq(M) /\ 0 \in M /\ 1 \in M
    BY DEF TokenType
  <2>3. mask' \in Seq(M) => mask' \in Seq({0, 1})
    OBVIOUS
  <2> HIDE DEF M
  <2>4. Grown(mask', mask, M, 1, 0, g, o)
    BY <2>1, <2>2, Longer
  <2> QED
    BY <1>1, <2>3, <2>4 DEF Grown
<1>4. ASSUME logprobs' # None
      PROVE /\ logprobs' \in Seq(BOOLEAN) /\ Len(logprobs') = n + g + o
            /\ \A i \in 1 .. n : logprobs'[i] = logprobs[i]
            /\ \A i \in n + 1 .. n + g : logprobs'[i]
            /\ \A i \in n + g + 1 .. n + g + o : ~logprobs'[i]
            /\ n > 0 => logprobs # None
  <2> DEFINE row == IF logprobs = None THEN <<>> ELSE logprobs
  <2>1. PICK reported \in BOOLEAN :
          /\ ids # <<>> => (reported <=> logprobs # None)
          /\ logprobs' = IF ~reported THEN None ELSE row \o Run(TRUE, g) \o Run(FALSE, o)
    BY DEF Extend, Reported
  <2>2. logprobs' = row \o Run(TRUE, g) \o Run(FALSE, o) /\ (n > 0 => logprobs # None)
    <3>1. CASE reported = TRUE
      <4>1. n > 0 => ids # <<>>
        BY <1>1, EmptySeq
      <4>2. reported
        BY <3>1
      <4> QED
        BY <2>1, <4>1, <4>2
    <3>2. CASE reported = FALSE
      BY <1>4, <2>1, <3>2
    <3> QED
      BY <2>1, <3>1, <3>2
  <2>3. row \in Seq(BOOLEAN) /\ Len(row) = n /\ (n > 0 => row = logprobs)
    <3>1. CASE logprobs = None
      BY <1>1, <2>2, <3>1, EmptySeq
    <3>2. CASE logprobs # None
      BY <1>1, <3>2 DEF TokenType, Aligned
    <3> QED
      BY <3>1, <3>2
  <2> HIDE DEF row
  <2>4. /\ logprobs' \in Seq(BOOLEAN) /\ Len(logprobs') = n + g + o
        /\ \A i \in 1 .. n : logprobs'[i] = row[i]
        /\ \A i \in n + 1 .. n + g : logprobs'[i] = TRUE
        /\ \A i \in n + g + 1 .. n + g + o : logprobs'[i] = FALSE
    <3> DEFINE B == BOOLEAN
               yes == TRUE
               no == FALSE
    <3>1. yes \in B /\ no \in B /\ row \in Seq(B) /\ Len(row) = n
      BY <2>3
    <3>2. logprobs' = row \o Run(yes, g) \o Run(no, o)
      BY <2>2
    <3> HIDE DEF B, yes, no
    <3>3. /\ logprobs' \in Seq(B) /\ Len(logprobs') = n + g + o
          /\ \A i \in 1 .. n : logprobs'[i] = row[i]
          /\ \A i \in n + 1 .. n + g : logprobs'[i] = yes
          /\ \A i \in n + g + 1 .. n + g + o : logprobs'[i] = no
      <4>1. Grown(logprobs', row, B, yes, no, g, o)
        BY <3>1, <3>2, Longer
      <4> HIDE DEF n
      <4> QED
        BY <3>1, <4>1 DEF Grown
    <3> QED
      BY <3>3 DEF B, yes, no
  <2>5. /\ \A i \in n + 1 .. n + g : logprobs'[i]
        /\ \A i \in n + g + 1 .. n + g + o : ~logprobs'[i]
    BY <2>4, Zenon
  <2>6. \A i \in 1 .. n : logprobs'[i] = logprobs[i]
    <3>1. CASE n = 0
      BY <3>1
    <3>2. CASE n > 0
      BY <2>3, <2>4, <3>2
    <3> QED
      BY <1>1, <3>1, <3>2
  <2> QED
    BY <2>2, <2>4, <2>5, <2>6
<1>5. TokenType'
  BY <1>2, <1>3, <1>4 DEF TokenType
<1>6. ASSUME NEW i \in 1 .. n + g + o
      PROVE /\ mask'[i] = 1 <=> ids'[i] = "policy"
            /\ logprobs' # None => (logprobs'[i] <=> mask'[i] = 1)
  <2>1. CASE i \in 1 .. n
    <3>1. mask[i] = 1 <=> ids[i] = "policy"
      BY <1>1, <2>1 DEF Aligned, TokenType
    <3>2. logprobs' # None => (logprobs[i] <=> mask[i] = 1)
      BY <1>1, <1>4, <2>1 DEF Aligned, TokenType
    <3> QED
      BY <1>2, <1>3, <1>4, <2>1, <3>1, <3>2
  <2>2. CASE i \in n + 1 .. n + g
    BY <1>2, <1>3, <1>4, <2>2
  <2>3. CASE i \in n + g + 1 .. n + g + o
    BY <1>2, <1>3, <1>4, <2>3
  <2> QED
    BY <1>1, <1>6, <2>1, <2>2, <2>3
<1>7. DOMAIN ids' = 1 .. n + g + o /\ DOMAIN mask' = 1 .. n + g + o
  BY <1>1, <1>2, <1>3
<1>8. logprobs' # None => DOMAIN logprobs' = 1 .. n + g + o
  BY <1>1, <1>4
<1> QED
  BY <1>5, <1>6, <1>7, <1>8 DEF Aligned

LEMMA FitIs ==
  ASSUME NEW S, NEW row \in Seq(S), NEW n \in Nat, n <= Len(row), NEW filler
  PROVE /\ Fit(row, n, filler) \in Seq(S) /\ Len(Fit(row, n, filler)) = n
        /\ \A i \in 1 .. n : Fit(row, n, filler)[i] = row[i]
<1>1. Fit(row, n, filler) = SubSeq(row, 1, n)
  BY DEF Fit
<1> QED
  BY <1>1, SubSeqProperties

LEMMA SampleAligns ==
  ASSUME TokenType, Aligned(ids, mask, logprobs), NEW score, output' = Sample(score)
  PROVE SampleAligned'
<1> DEFINE n == IF Len(ids) > ResponseLength THEN ResponseLength ELSE Len(ids)
<1>1. /\ Len(ids) \in Nat /\ n \in Nat /\ n <= Len(ids) /\ n <= ResponseLength
      /\ Len(mask) = Len(ids) /\ (logprobs # None => Len(logprobs) = Len(ids))
  BY Constants DEF TokenType, Aligned
<1>2. /\ output'.ids = SubSeq(ids, 1, n) /\ output'.mask = Fit(mask, n, 0)
      /\ output'.logprobs = IF logprobs # None THEN Fit(logprobs, n, FALSE)
                            ELSE IF WantLogProbs THEN Run(FALSE, n) ELSE None
  BY DEF Sample
<1> HIDE DEF n
<1>3. /\ Len(output'.ids) = n /\ DOMAIN output'.ids = 1 .. n
      /\ \A i \in 1 .. n : output'.ids[i] = ids[i]
  BY <1>1, <1>2, SubSeqProperties DEF TokenType
<1>4. DOMAIN output'.mask = 1 .. n /\ \A i \in 1 .. n : output'.mask[i] = mask[i]
  BY <1>1, <1>2, FitIs DEF TokenType
<1>5. \A i \in 1 .. n : output'.mask[i] = 1 <=> output'.ids[i] = "policy"
  BY <1>1, <1>3, <1>4 DEF Aligned, TokenType
<1>6. ASSUME output'.logprobs # None
      PROVE /\ DOMAIN output'.logprobs = 1 .. n
            /\ \/ \A i \in 1 .. n : ~output'.logprobs[i]
               \/ \A i \in 1 .. n : output'.logprobs[i] <=> output'.mask[i] = 1
  <2>1. CASE logprobs # None
    <3>1. logprobs \in Seq(BOOLEAN)
      BY <2>1 DEF TokenType
    <3>2. /\ DOMAIN output'.logprobs = 1 .. n
          /\ \A i \in 1 .. n : output'.logprobs[i] = logprobs[i]
      <4> DEFINE cut == Fit(logprobs, n, FALSE)
      <4>1. output'.logprobs = cut
        BY <1>2, <2>1
      <4>2. Len(cut) = n /\ cut \in Seq(BOOLEAN) /\ \A i \in 1 .. n : cut[i] = logprobs[i]
        <5> DEFINE B == BOOLEAN
                   no == FALSE
        <5>1. logprobs \in Seq(B) /\ cut = Fit(logprobs, n, no) /\ n <= Len(logprobs)
          BY <1>1, <2>1, <3>1
        <5> HIDE DEF B, no, cut
        <5>2. Len(cut) = n /\ cut \in Seq(B) /\ \A i \in 1 .. n : cut[i] = logprobs[i]
          BY <1>1, <5>1, FitIs
        <5> QED
          BY <5>2 DEF B
      <4> HIDE DEF cut
      <4> QED
        BY <4>1, <4>2
    <3>3. \A i \in 1 .. n : logprobs[i] <=> mask[i] = 1
      BY <1>1, <2>1, <3>1 DEF Aligned, TokenType
    <3>4. \A i \in 1 .. n : output'.logprobs[i] <=> output'.mask[i] = 1
      BY <1>4, <3>2, <3>3
    <3> QED
      BY <3>2, <3>4
  <2>2. CASE logprobs = None
    <3>1. output'.logprobs = Run(FALSE, n)
      BY <1>2, <1>6, <2>2
    <3>2. DOMAIN output'.logprobs = 1 .. n /\ \A i \in 1 .. n : output'.logprobs[i] = FALSE
      BY <3>1 DEF Run
    <3> QED
      BY <3>2
  <2> QED
    BY <2>1, <2>2
<1> QED
  BY <1>1, <1>3, <1>4, <1>5, <1>6 DEF SampleAligned

(* What a step does to the trajectory, and what it makes of it. *)
Extended == \E g, o \in Nat : Extend(g, o)
TokensGo == Extended \/ NoTokens \/ UNCHANGED tokens
OutputGoes == output' = output \/ output' = None \/ \E score : output' = Sample(score)

LEMMA TokensMove ==
  ASSUME [Next]_vars
  PROVE TokensGo /\ OutputGoes
<1> USE Constants DEF TokensGo, OutputGoes, Extended, Resume, Fail, Return, Generations, tokens
<1>1. CASE Create
  BY <1>1 DEF Create
<1>2. ASSUME NEW kind \in Kinds, Turn(kind) PROVE TokensGo /\ OutputGoes
  BY <1>2 DEF Turn
<1>3. CASE EmptyTurn
  BY <1>3 DEF EmptyTurn
<1>4. CASE EndLoop
  <2>1. CASE Return(~failed) /\ output' = Sample(reward)
    BY <2>1
  <2>2. CASE UNCHANGED <<tokens, output>>
    BY <2>2
  <2> QED
    BY <1>4, <2>1, <2>2 DEF EndLoop
<1>5. CASE ResetReturns
  BY <1>5 DEF ResetReturns
<1>6. CASE ResetFails
  <2>1. CASE UNCHANGED <<ids, mask, logprobs>>
    BY <1>6, <2>1 DEF ResetFails
  <2>2. CASE Return(FALSE)
    BY <1>6, <2>2 DEF ResetFails
  <2> QED
    BY <1>6, <2>1, <2>2 DEF ResetFails
<1>7. CASE SeedReturns
  BY <1>7 DEF SeedReturns
<1>8. CASE SeedFails
  BY <1>8 DEF SeedFails
<1>9. CASE StepReturns
  BY <1>9 DEF StepReturns
<1>10. CASE StepFails
  BY <1>10 DEF StepFails
<1>11. ASSUME NEW stop \in BOOLEAN, ReplyReturns(stop) PROVE TokensGo /\ OutputGoes
  BY <1>11 DEF ReplyReturns
<1>12. CASE ReplyFails
  BY <1>12 DEF ReplyFails
<1>13. CASE RewardReturns
  BY <1>13 DEF RewardReturns
<1>14. CASE RewardFails
  BY <1>14 DEF RewardFails
<1>15. CASE ScoreReturns
  BY <1>15 DEF ScoreReturns
<1>16. CASE ScoreFails
  BY <1>16 DEF ScoreFails
<1>17. CASE LoopRaises
  BY <1>17 DEF LoopRaises
<1>18. CASE Cancel
  BY <1>18 DEF Cancel
<1>19. ASSUME NEW r \in network, Serve(r) PROVE TokensGo /\ OutputGoes
  BY <1>19, Served
<1>20. ASSUME NEW r \in network, Lose(r) PROVE TokensGo /\ OutputGoes
  BY <1>20 DEF Lose
<1>21. CASE UNCHANGED vars
  BY <1>21 DEF vars
<1> QED
  BY <1>1, <1>2, <1>3, <1>4, <1>5, <1>6, <1>7, <1>8, <1>9, <1>10, <1>11, <1>12,
     <1>13, <1>14, <1>15, <1>16, <1>17, <1>18, <1>19, <1>20, <1>21, Steps

LEMMA TokenStep ==
  ASSUME IInv, [Next]_vars
  PROVE TokenType' /\ TokenInv'
<1>1. TokenType /\ Aligned(ids, mask, logprobs) /\ SampleAligned
  BY DEF IInv, TypeInv, TokenInv
<1>2. TokensGo /\ OutputGoes
  BY TokensMove
<1>3. TokenType' /\ Aligned(ids, mask, logprobs)'
  <2>1. CASE Extended
    BY <1>1, <2>1, ExtendAligns DEF Extended
  <2>2. CASE NoTokens
    BY <2>2, EmptySeq DEF NoTokens, TokenType, Aligned
  <2>3. CASE UNCHANGED tokens
    BY <1>1, <2>3 DEF tokens, TokenType, Aligned
  <2> QED
    BY <1>2, <2>1, <2>2, <2>3 DEF TokensGo
<1>4. SampleAligned'
  <2>1. CASE output' = output
    BY <1>1, <2>1 DEF SampleAligned
  <2>2. CASE output' = None
    BY <2>2 DEF SampleAligned
  <2>3. ASSUME NEW score, output' = Sample(score) PROVE SampleAligned'
    BY <1>1, <2>3, SampleAligns
  <2> QED
    BY <1>2, <2>1, <2>2, <2>3 DEF OutputGoes
<1> QED
  BY <1>3, <1>4 DEF TokenInv

-----------------------------------------------------------------------------
(* The dialogue. *)
LEMMA Opened == Dialogue(<<0>>, {}) /\ Closed(<<0>>)
<1>1. <<0>> \in Seq(Nat) /\ Len(<<0>>) = 1 /\ <<0>>[1] = 0 /\ DOMAIN <<0>> = {1}
  OBVIOUS
<1>2. <<0>> # <<>>
  BY <1>1, EmptySeq
<1> DEFINE c == <<0>>
<1> HIDE DEF c
<1>3. c \in Seq(Nat) /\ Len(c) = 1 /\ c[1] = 0 /\ DOMAIN c = {1} /\ c # <<>>
  BY <1>1, <1>2 DEF c
<1>4. Dialogue(c, {}) /\ Closed(c)
  BY <1>3 DEF Dialogue, Alternates, InOrder, Told, Closed
<1> QED
  BY <1>4 DEF c

(* One more message, of the one who did not speak last. *)
LEMMA Continued ==
  ASSUME NEW c, NEW said, Dialogue(c, said), NEW n \in Nat, Closed(c) <=> n # 0,
         \A k \in said : n # 0 => k < n
  PROVE LET d == Append(c, n) IN
        Dialogue(d, said \cup ({n} \ {0})) /\ (Closed(d) <=> n = 0)
<1> DEFINE d == Append(c, n)
<1>1. /\ c \in Seq(Nat) /\ Alternates(c) /\ InOrder(c) /\ Told(c) = said
      /\ Len(c) \in Nat \ {0} /\ DOMAIN c = 1 .. Len(c)
  BY EmptySeq DEF Dialogue, Alternates
<1>2. /\ d \in Seq(Nat) /\ Len(d) = Len(c) + 1 /\ d # <<>> /\ d[Len(c) + 1] = n
      /\ \A i \in 1 .. Len(c) : d[i] = c[i]
  BY <1>1, AppendProperties
<1>3. DOMAIN d = 1 .. Len(c) + 1
  BY <1>1, <1>2
<1> HIDE DEF d
<1>4. Alternates(d)
  <2>1. d[1] = 0
    BY <1>1, <1>2 DEF Alternates
  <2>2. ASSUME NEW i \in 1 .. Len(d) - 1 PROVE d[i] = 0 <=> d[i + 1] # 0
    <3>1. CASE i = Len(c)
      BY <1>1, <1>2, <3>1 DEF Closed
    <3>2. CASE i # Len(c)
      <4> DEFINE m == Len(c)
      <4>0. m \in Nat \ {0} /\ i \in 1 .. (m + 1) - 1 /\ i # m
        BY <1>1, <1>2, <3>2
      <4> HIDE DEF m
      <4>1a. i \in 1 .. m - 1 /\ i \in 1 .. m /\ i + 1 \in 1 .. m
        BY <4>0
      <4>1. i \in 1 .. Len(c) - 1 /\ i \in 1 .. Len(c) /\ i + 1 \in 1 .. Len(c)
        BY <4>1a DEF m
      <4>2. c[i] = 0 <=> c[i + 1] # 0
        BY <1>1, <4>1 DEF Alternates
      <4> QED
        BY <1>2, <4>1, <4>2
    <3> QED
      BY <3>1, <3>2
  <2> QED
    BY <1>2, <2>1, <2>2 DEF Alternates
<1>5. \A i \in 1 .. Len(c) : c[i] # 0 => c[i] \in said
  BY <1>1 DEF Told
<1>6. InOrder(d)
  <2> SUFFICES ASSUME NEW i \in 1 .. Len(c) + 1, NEW j \in 1 .. Len(c) + 1, i < j, d[i] # 0, d[j] # 0
               PROVE d[i] < d[j]
    BY <1>3 DEF InOrder
  <2>1. CASE j = Len(c) + 1
    <3>1. i \in 1 .. Len(c)
      BY <1>1, <2>1
    <3> QED
      BY <1>2, <1>5, <2>1, <3>1
  <2>2. CASE j # Len(c) + 1
    <3>1. i \in 1 .. Len(c) /\ j \in 1 .. Len(c)
      BY <1>1, <2>2
    <3> QED
      BY <1>1, <1>2, <3>1 DEF InOrder
  <2> QED
    BY <2>1, <2>2
<1>7. Told(d) = said \cup ({n} \ {0})
  <2>1. {d[i] : i \in DOMAIN d} = {c[i] : i \in DOMAIN c} \cup {n}
    <3>1. \A i \in 1 .. Len(c) + 1 : i \in 1 .. Len(c) \/ i = Len(c) + 1
      BY <1>1
    <3>2. \A i \in 1 .. Len(c) : i \in 1 .. Len(c) + 1
      BY <1>1
    <3>3. Len(c) + 1 \in 1 .. Len(c) + 1
      BY <1>1
    <3> QED
      BY <1>1, <1>2, <1>3, <3>1, <3>2, <3>3
  <2> QED
    BY <1>1, <2>1 DEF Told
<1>8. Closed(d) <=> n = 0
  BY <1>1, <1>2 DEF Closed
<1> QED
  BY <1>2, <1>4, <1>6, <1>7, <1>8 DEF Dialogue, d

LEMMA SpokenIs ==
  ASSUME TypeInv
  PROVE /\ Len(posted) \in 0 .. MaxTurns /\ DOMAIN posted = 1 .. Len(posted)
        /\ \A k \in Spoken : k \in 1 .. Len(posted)
        /\ posted = <<>> => Spoken = {}
        /\ \A k \in Spoken \ {Len(posted)} : k < Len(posted)
        /\ posted # <<>> /\ posted[Len(posted)] = "respond" => Len(posted) \in Spoken
        /\ posted # <<>> /\ posted[Len(posted)] # "respond" => Len(posted) \notin Spoken
<1>1. posted \in Seq(Kinds) /\ Len(posted) <= turn /\ turn \in 0 .. MaxTurns
  BY DEF TypeInv, LoopType
<1>2. Len(posted) \in 0 .. MaxTurns /\ DOMAIN posted = 1 .. Len(posted)
  BY <1>1, Constants
<1>3. posted # <<>> => Len(posted) \in 1 .. Len(posted)
  BY <1>1, <1>2, EmptySeq, Constants
<1>4. posted = <<>> => DOMAIN posted = {}
  BY EmptySeq
<1> QED
  BY <1>2, <1>3, <1>4, Constants DEF Spoken

(* Posting an action. *)
LEMMA SpokenGrows ==
  ASSUME TypeInv, NEW kind \in Kinds, posted' = Append(posted, kind)
  PROVE Spoken' \ {Len(posted')} = Spoken
<1>1. posted \in Seq(Kinds) /\ Len(posted) \in Nat
  BY DEF TypeInv, LoopType
<1>2. /\ posted' \in Seq(Kinds) /\ Len(posted') = Len(posted) + 1
      /\ \A i \in 1 .. Len(posted) : posted'[i] = posted[i]
  BY <1>1, AppendProperties
<1>3. DOMAIN posted = 1 .. Len(posted) /\ DOMAIN posted' = 1 .. Len(posted) + 1
  BY <1>1, <1>2
<1> QED
  BY <1>1, <1>2, <1>3 DEF Spoken

LEMMA TalkStep ==
  ASSUME IInv, [Next]_vars
  PROVE TalkType' /\ TalkInv'
<1> USE Constants DEF IInv, TypeInv, TalkType, TalkInv
<1>1. CASE Create
  BY <1>1 DEF Create, StageInv, LoopType, tool, Return, Fail, Resume, Forgets, Spoken
<1>2. ASSUME NEW kind \in Kinds, Turn(kind) PROVE TalkType' /\ TalkInv'
  <2>1. /\ pc = "deciding" /\ ~failed /\ pc' = "stepping" /\ conversation' = conversation
        /\ posted' = Append(posted, kind)
    BY <1>2 DEF Turn, StageInv
  <2>2. Spoken' \ {Len(posted')} = Spoken
    BY <2>1, SpokenGrows
  <2> QED
    BY <2>1, <2>2 DEF TalkInv, TalkType
<1>3. CASE EmptyTurn
  BY <1>3 DEF EmptyTurn, StageInv, LoopType, tool, Return, Fail, Resume, Forgets, Spoken
<1>4. CASE EndLoop
  BY <1>4 DEF EndLoop, StageInv, LoopType, tool, Return, Fail, Resume, Forgets, Spoken
<1>5. CASE ResetReturns
  BY <1>5 DEF ResetReturns, StageInv, LoopType, tool, Return, Fail, Resume, Forgets, Spoken
<1>6. CASE ResetFails
  BY <1>6 DEF ResetFails, StageInv, LoopType, tool, Return, Fail, Resume, Forgets, Spoken
<1>7. CASE SeedReturns
  <2>1. /\ pc' = "deciding" /\ conversation' = <<0>> /\ posted = <<>> /\ posted' = posted
    BY <1>7 DEF SeedReturns, Opens, StageInv, tool
  <2>2. Spoken' = {}
    BY <2>1, SpokenIs DEF Spoken
  <2>3. <<0>> \in Seq(0..MaxTurns)
    OBVIOUS
  <2> QED
    BY <2>1, <2>2, <2>3, Opened DEF TalkInv, TalkType
<1>8. CASE SeedFails
  BY <1>8 DEF SeedFails, StageInv, LoopType, tool, Return, Fail, Resume, Forgets, Spoken
<1>9. CASE StepReturns
  <2>0. /\ pc = "stepping" /\ posted # <<>> /\ call.n = Len(posted) /\ call.kind = posted[Len(posted)]
        /\ Dialogue(conversation, Spoken \ {Len(posted)}) /\ Closed(conversation)
    <3>1. episode \in 1..NumEpisodes /\ posted[Len(posted)] \in Kinds
      BY <1>9, EmptySeq DEF StepReturns, IInv, CallInv, TypeInv, LoopType, StageInv
    <3>2. call = Request("step", episode, Len(posted), posted[Len(posted)]) /\ posted # <<>>
      BY <1>9 DEF StepReturns, IInv, CallInv
    <3> QED
      BY <1>9, <3>1, <3>2, Requested, SpokenIs DEF StepReturns, IInv, TalkInv
  <2>1. CASE Fail
    BY <1>9, <2>0, <2>1 DEF TalkInv, TalkType, Fail, Resume
  <2>2. CASE call.kind = "respond" /\ Hears(call.n) /\ pc' = "replying" /\ UNCHANGED tool
    <3>1. conversation' = Append(conversation, Len(posted)) /\ posted' = posted /\ Spoken' = Spoken
      BY <2>0, <2>2 DEF Hears, tool, Spoken
    <3>2. /\ Len(posted) \in 1 .. MaxTurns /\ Len(posted) \in Spoken
          /\ \A k \in Spoken \ {Len(posted)} : k < Len(posted)
      BY <2>0, <2>2, SpokenIs, EmptySeq DEF IInv, TypeInv, LoopType
    <3>3. Dialogue(conversation', (Spoken \ {Len(posted)}) \cup ({Len(posted)} \ {0})) /\ ~Closed(conversation')
      BY <2>0, <3>1, <3>2, Continued
    <3>4. (Spoken \ {Len(posted)}) \cup ({Len(posted)} \ {0}) = Spoken
      BY <3>2
    <3>5. conversation' \in Seq(0..MaxTurns)
      BY <2>0, <3>1, <3>2, NoneAssumption, AppendProperties DEF IInv, TypeInv, TalkType, Dialogue
    <3> QED
      BY <2>2, <3>1, <3>3, <3>4, <3>5 DEF TalkInv, TalkType
  <2>3. CASE call.kind # "respond" /\ pc' = "deciding" /\ UNCHANGED <<posted, conversation, failed>>
    <3>1. Spoken \ {Len(posted)} = Spoken /\ Spoken' = Spoken
      BY <2>0, <2>3, SpokenIs DEF Spoken
    <3> QED
      BY <2>0, <2>3, <3>1 DEF TalkInv, TalkType
  <2> QED
    BY <1>9, <2>1, <2>2, <2>3 DEF StepReturns, Resume
<1>10. CASE StepFails
  BY <1>10 DEF StepFails, StageInv, LoopType, tool, Return, Fail, Resume, Forgets, Spoken
<1>11. ASSUME NEW stop \in BOOLEAN, ReplyReturns(stop) PROVE TalkType' /\ TalkInv'
  <2>1. /\ pc = "replying" /\ Dialogue(conversation, Spoken) /\ ~Closed(conversation)
        /\ conversation' = Append(conversation, 0) /\ posted' = posted /\ Spoken' = Spoken
        /\ pc' \in {"rewarding", "deciding"}
    BY <1>11 DEF ReplyReturns, Answers, IInv, TalkInv, Spoken, Resume
  <2>2. Dialogue(conversation', Spoken \cup ({0} \ {0})) /\ Closed(conversation')
    BY <2>1, Continued
  <2>3. conversation' \in Seq(0..MaxTurns)
    BY <2>1, NoneAssumption, AppendProperties, Constants DEF TalkType, Dialogue
  <2> QED
    BY <2>1, <2>2, <2>3 DEF TalkInv, TalkType
<1>12. CASE ReplyFails
  BY <1>12 DEF ReplyFails, StageInv, LoopType, tool, Return, Fail, Resume, Forgets, Spoken
<1>13. CASE RewardReturns
  BY <1>13 DEF RewardReturns, StageInv, LoopType, tool, Return, Fail, Resume, Forgets, Spoken
<1>14. CASE RewardFails
  BY <1>14 DEF RewardFails, StageInv, LoopType, tool, Return, Fail, Resume, Forgets, Spoken
<1>15. CASE ScoreReturns
  BY <1>15 DEF ScoreReturns, StageInv, LoopType, tool, Return, Fail, Resume, Forgets, Spoken
<1>16. CASE ScoreFails
  BY <1>16 DEF ScoreFails, StageInv, LoopType, tool, Return, Fail, Resume, Forgets, Spoken
<1>17. CASE LoopRaises
  BY <1>17 DEF LoopRaises, StageInv, LoopType, tool, Return, Fail, Resume, Forgets, Spoken
<1>18. CASE Cancel
  BY <1>18 DEF Cancel, StageInv, LoopType, tool, Return, Fail, Resume, Forgets, Spoken
<1>19. ASSUME NEW r \in network, Serve(r) PROVE TalkType' /\ TalkInv'
  BY <1>19, Served DEF Spoken
<1>20. ASSUME NEW r \in network, Lose(r) PROVE TalkType' /\ TalkInv'
  BY <1>20 DEF Lose, StageInv, LoopType, tool, Return, Fail, Resume, Forgets, Spoken
<1>21. CASE UNCHANGED vars
  BY <1>21 DEF vars, StageInv, LoopType, tool, Return, Fail, Resume, Forgets, Spoken
<1> QED
  BY <1>1, <1>2, <1>3, <1>4, <1>5, <1>6, <1>7, <1>8, <1>9, <1>10, <1>11, <1>12,
     <1>13, <1>14, <1>15, <1>16, <1>17, <1>18, <1>19, <1>20, <1>21, Steps

-----------------------------------------------------------------------------
(* The histories. *)
LEMMA MineIs ==
  ASSUME TypeInv, episode # 0
  PROVE /\ Mine \in Seq(Entries) /\ Earlier \in Seq(Entries)
        /\ posted = <<>> => Mine = <<>>
        /\ posted # <<>> => Mine = Append(Earlier, <<episode, Len(posted), posted[Len(posted)]>>)
<1>1. /\ posted \in Seq(Kinds) /\ Len(posted) \in 0 .. MaxTurns /\ DOMAIN posted = 1 .. Len(posted)
      /\ episode \in 1..NumEpisodes
  BY Constants DEF TypeInv, LoopType
<1>2. \A i \in 1 .. Len(posted) : <<episode, i, posted[i]>> \in Entries
  BY <1>1, Constants DEF Entries
<1>3. Mine \in Seq(Entries) /\ Len(Mine) = Len(posted) /\ DOMAIN Mine = 1 .. Len(posted)
  BY <1>1, <1>2 DEF Mine
<1>4. Earlier \in Seq(Entries) /\ (posted # <<>> => Len(Earlier) = Len(posted) - 1)
  BY <1>1, <1>2, EmptySeq DEF Earlier
<1>5. posted = <<>> => Mine = <<>>
  BY <1>1, <1>3, EmptySeq
<1>6. ASSUME posted # <<>>
      PROVE Mine = Append(Earlier, <<episode, Len(posted), posted[Len(posted)]>>)
  <2> DEFINE e == <<episode, Len(posted), posted[Len(posted)]>>
             a == Append(Earlier, e)
  <2>1. Len(posted) \in Nat \ {0} /\ e \in Entries
    BY <1>1, <1>2, <1>6, EmptySeq
  <2>2. a \in Seq(Entries) /\ Len(a) = Len(posted) /\ a[Len(posted)] = e
        /\ \A i \in 1 .. Len(posted) - 1 : a[i] = Earlier[i]
    BY <1>4, <1>6, <2>1, AppendProperties
  <2> HIDE DEF a
  <2>3. ASSUME NEW i \in 1 .. Len(posted) PROVE a[i] = Mine[i]
    <3>1. Mine[i] = <<episode, i, posted[i]>>
      BY <1>1 DEF Mine
    <3>2. i \in 1 .. Len(posted) - 1 => Earlier[i] = <<episode, i, posted[i]>>
      BY DEF Earlier
    <3> QED
      BY <2>1, <2>2, <3>1, <3>2
  <2>4. a = Mine
    BY <1>3, <2>1, <2>2, <2>3
  <2> QED
    BY <2>4 DEF a
<1> QED
  BY <1>3, <1>4, <1>5, <1>6

LEMMA MineKept ==
  ASSUME UNCHANGED <<episode, posted>>
  PROVE Mine' = Mine /\ Earlier' = Earlier
BY DEF Mine, Earlier

LEMMA MineGrows ==
  ASSUME TypeInv, NEW kind \in Kinds, posted' = Append(posted, kind), episode' = episode
  PROVE Earlier' = Mine
<1>1. posted \in Seq(Kinds) /\ Len(posted) \in Nat /\ DOMAIN posted = 1 .. Len(posted)
  BY DEF TypeInv, LoopType
<1>2. Len(posted') = Len(posted) + 1 /\ \A i \in 1 .. Len(posted) : posted'[i] = posted[i]
  BY <1>1, AppendProperties
<1>3. Len(posted') - 1 = Len(posted)
  BY <1>1, <1>2
<1> QED
  BY <1>1, <1>2, <1>3 DEF Earlier, Mine

(* A /reward, of whichever episode, grades what the server has. *)
LEMMA RewardKeeps ==
  ASSUME IInv, NEW r \in network, Serve(r), r.op = "reward", NEW h \in Seq(Entries), Has(h)
  PROVE /\ Has(h)'
        /\ r = call => /\ answer'.status = 200
                       /\ answer'.terminal.of = episode /\ answer'.terminal.actions = h
<1>1. r.by \in 1..NumEpisodes /\ r.by <= episode /\ loaded = episode /\ episode \in Nat
  BY DEF IInv, TypeInv, LoopType, ChannelType, LoadedInv, Requests, Has
<1>2. loaded # 0 /\ loaded' = loaded /\ episode' = episode
  BY <1>1, Served, Constants DEF Serve, ServeReset, ServeStep, ServeReward
<1>3. Scored(r.by, h) # None /\ Scored(r.by, h).of = loaded /\ Scored(r.by, h).actions = h
  BY <1>2, Recorded DEF Scored
<1>4. CASE terminal # None
  <2>1. terminal' = terminal /\ log' = log
        /\ (r = call => answer' = [status |-> 200, terminal |-> terminal])
    BY <1>2, <1>4 DEF Serve, ServeReset, ServeStep, ServeReward
  <2> QED
    BY <1>2, <1>4, <2>1 DEF Has, Solution
<1>5. CASE terminal = None
  <2>1. log = h
    BY <1>5 DEF Has
  <2>2. terminal' = Scored(r.by, h) /\ log' = Append(h, Solution)
        /\ (r = call => answer' = [status |-> 200, terminal |-> terminal'])
    BY <1>2, <1>5, <2>1 DEF Serve, ServeReset, ServeStep, ServeReward
  <2> QED
    BY <1>1, <1>2, <1>3, <2>2 DEF Has, Solution
<1> QED
  BY <1>4, <1>5

(* The awaited /step is taken up, unless the Env was graded before. *)
LEMMA StepTakes ==
  ASSUME IInv, pc = "stepping", call \in network, Serve(call), Has(Earlier)
  PROVE answer'.status = 200 =>
          /\ Has(Mine)'
          /\ answer'.terminal # None => /\ answer'.terminal.of = episode
                                       /\ answer'.terminal.actions = Mine
<1>1. /\ call = Request("step", episode, Len(posted), posted[Len(posted)]) /\ posted # <<>>
      /\ episode \in 1..NumEpisodes /\ Len(posted) \in 0 .. MaxTurns
      /\ posted[Len(posted)] \in Kinds /\ loaded = episode
  BY Constants, EmptySeq DEF IInv, TypeInv, LoopType, StageInv, CallInv, Has
<1>2. /\ call.op = "step" /\ call.by = episode /\ call.n = Len(posted)
      /\ call.kind = posted[Len(posted)]
  BY <1>1, Requested
<1>3. Mine = Append(Earlier, <<episode, Len(posted), posted[Len(posted)]>>) /\ Mine \in Seq(Entries)
  BY <1>1, MineIs, Constants DEF IInv
<1>4. ServeStep(call) /\ UNCHANGED <<episode, posted, loaded>> /\ loaded # 0
  BY <1>1, <1>2, Served, Constants DEF Serve, ServeReset, ServeStep, ServeReward
<1>5. CASE terminal # None
  BY <1>4, <1>5 DEF ServeStep, Conflict
<1>6. CASE terminal = None
  <2>1. Acted(call) = Mine
    BY <1>2, <1>3, <1>6 DEF Acted, Has
  <2>2. Scored(episode, Mine) # None /\ Scored(episode, Mine).of = loaded /\ Scored(episode, Mine).actions = Mine
    BY <1>2, <1>3, <1>4, Recorded DEF Scored
  <2>3. /\ log' = IF call.kind = "terminate" THEN Append(Mine, Solution) ELSE Mine
        /\ terminal' = IF call.kind = "terminate" THEN Scored(episode, Mine) ELSE None
        /\ answer' = [status |-> 200, terminal |-> terminal']
    BY <1>2, <1>4, <1>6, <2>1 DEF ServeStep
  <2>4. Mine' = Mine /\ Solution' = Solution
    BY <1>4, MineKept DEF Solution
  <2> QED
    BY <1>1, <1>4, <2>2, <2>3, <2>4 DEF Has
<1> QED
  BY <1>5, <1>6

(* The actions in the history are of the Env it belongs to. *)
LEMMA OwnStep ==
  ASSUME IInv, OwnActions, NEW r \in network, Serve(r), r.op = "step" => r.by = loaded
  PROVE OwnActions'
<1> USE Constants DEF IInv, TypeInv, ServerType
<1>1. ASSUME NEW q \in Seq(Entries), NEW e \in Entries, e[1] = loaded,
             \A i \in DOMAIN q : q[i][1] = loaded
      PROVE \A i \in DOMAIN Append(q, e) : Append(q, e)[i][1] = loaded
  <2> DEFINE a == Append(q, e)
  <2>1. /\ Len(q) \in Nat /\ a \in Seq(Entries) /\ Len(a) = Len(q) + 1 /\ a[Len(q) + 1] = e
        /\ \A i \in 1 .. Len(q) : a[i] = q[i]
    BY AppendProperties
  <2>2. DOMAIN a = 1 .. Len(q) + 1 /\ DOMAIN q = 1 .. Len(q)
    BY <2>1
  <2> HIDE DEF a
  <2>3. ASSUME NEW i \in DOMAIN a PROVE a[i][1] = loaded
    BY <1>1, <2>1, <2>2
  <2> QED
    BY <2>3 DEF a
<1>2. loaded # 0 => Solution \in Entries /\ Solution[1] = loaded
  BY DEF Solution, Entries
<1>3. loaded # 0 /\ r.op = "step" => <<r.by, r.n, r.kind>> \in Entries /\ <<r.by, r.n, r.kind>>[1] = loaded
  BY DEF ChannelType, Requests, Entries
<1>4. CASE ServeReset(r)
  BY <1>4 DEF ServeReset, OwnActions
<1>5. CASE loaded' = loaded /\ log' = log
  BY <1>5 DEF OwnActions
<1>6. CASE ServeStep(r) /\ loaded # 0 /\ loaded' = loaded
  <2>1. Acted(r) \in Seq(Entries) /\ \A i \in DOMAIN Acted(r) : Acted(r)[i][1] = loaded
    BY <1>1, <1>3, <1>6, Recorded DEF ServeStep, Acted, OwnActions
  <2>2. \A i \in DOMAIN Append(Acted(r), Solution) : Append(Acted(r), Solution)[i][1] = loaded
    BY <1>1, <1>2, <1>6, <2>1
  <2>3. log' \in {log, Acted(r), Append(Acted(r), Solution)}
    BY <1>6 DEF ServeStep
  <2> HIDE DEF IInv, TypeInv, ServerType
  <2> QED
    BY <1>6, <2>1, <2>2, <2>3 DEF OwnActions
<1>7. CASE ServeReward(r) /\ loaded # 0 /\ loaded' = loaded /\ log' # log
  <2>1. log' = Append(log, Solution)
    BY <1>7 DEF ServeReward
  <2>2. \A i \in DOMAIN Append(log, Solution) : Append(log, Solution)[i][1] = loaded
    BY <1>1, <1>2, <1>7 DEF OwnActions
  <2> QED
    BY <1>7, <2>1, <2>2 DEF OwnActions
<1>8. (ServeStep(r) \/ ServeReward(r)) => loaded' = loaded /\ (loaded = 0 => log' = log)
  BY DEF ServeStep, ServeReward
<1> QED
  BY <1>4, <1>5, <1>6, <1>7, <1>8 DEF Serve

LEMMA HistoryStep ==
  ASSUME IInv, "stepping" \notin CancelAt, StepInv, RecordInv, OwnActions, [Next]_vars
  PROVE (StepInv /\ RecordInv /\ OwnActions)'
<1> USE Constants DEF IInv, TypeInv, LoopType, StageInv, CallInv, LoadedInv, StepInv, RecordInv, OwnActions, Has, Scores, Solution, tool, channel, server, Return, Fail, Resume, HangUp, Send, NewSandbox
<1>1. CASE Create
  <2>1. /\ pc = "free" /\ pc' = "resetting" /\ posted' = <<>> /\ reward' = None /\ answer' = None
        /\ network' = network \cup {call'} /\ UNCHANGED server
        /\ call' = Request("reset", episode + 1, 0, None) /\ episode + 1 \in 1..NumEpisodes
    BY <1>1 DEF Create
  <2>2. call'.op = "reset"
    BY <2>1, Requested
  <2> QED
    BY <2>1, <2>2
<1>2. ASSUME NEW kind \in Kinds, Turn(kind) PROVE (StepInv /\ RecordInv /\ OwnActions)'
  <2>1. /\ pc = "deciding" /\ ~failed /\ ~done /\ pc' = "stepping" /\ answer' = None
        /\ posted' = Append(posted, kind) /\ UNCHANGED <<episode, failed, reward, loaded, log, terminal>>
        /\ network' = network \cup {call'} /\ call' = Request("step", episode, Len(posted'), kind)
        /\ Len(posted') \in 0..MaxTurns /\ episode \in 1..NumEpisodes
    BY <1>2, AppendProperties DEF Turn
  <2>2. call'.by = episode /\ call'.op = "step"
    BY <2>1, Requested
  <2>3. Earlier' = Mine
    BY <2>1, MineGrows
  <2> QED
    BY <2>1, <2>2, <2>3
<1>3. CASE EmptyTurn
  BY <1>3, MineKept DEF EmptyTurn
<1>4. CASE EndLoop
  <2>1. pc = "deciding" /\ UNCHANGED tool /\ Mine' = Mine /\ Earlier' = Earlier
    BY <1>4, MineKept DEF EndLoop
  <2>2. CASE Return(~failed)
    <3>1. CASE failed
      BY <2>1, <2>2, <3>1
    <3>2. CASE ~failed
      BY <2>1, <2>2, <3>2
    <3> QED
      BY <3>1, <3>2
  <2>3. CASE /\ ~done /\ Send(Request("reward", episode, 0, None)) /\ pc' = "scoring" /\ UNCHANGED server
    <3>1. call'.op = "reward"
      BY <2>1, <2>3, Requested
    <3> QED
      BY <2>1, <2>3, <3>1
  <2> QED
    BY <1>4, <2>2, <2>3 DEF EndLoop
<1>5. CASE ResetReturns
  BY <1>5, MineKept DEF ResetReturns
<1>6. CASE ResetFails
  <2>1. CASE Return(FALSE) /\ UNCHANGED tool
    BY <1>6, <2>1, MineKept DEF ResetFails
  <2>2. CASE /\ pc = "resetting" /\ call' = Request("reset", episode, 0, None) /\ answer' = None
             /\ network' = {call'} /\ NewSandbox /\ UNCHANGED <<pc, episode, posted, reward, failed>>
    <3>1. call'.op = "reset"
      BY <2>2, Requested
    <3> QED
      BY <2>2, <3>1, MineKept
  <2> QED
    BY <1>6, <2>1, <2>2 DEF ResetFails
<1>7. CASE SeedReturns
  BY <1>7, MineKept DEF SeedReturns
<1>8. CASE SeedFails
  BY <1>8, MineKept DEF SeedFails
<1>9. CASE StepReturns
  <2>1. CASE Fail
    BY <1>9, <2>1, MineKept DEF StepReturns
  <2>2. CASE answer.status = 200 /\ pc' = "replying" /\ HangUp /\ UNCHANGED <<tool, server>>
    BY <1>9, <2>2, MineKept DEF StepReturns
  <2>3. CASE /\ answer.status = 200 /\ pc' = "deciding" /\ HangUp /\ reward' = answer.terminal
             /\ UNCHANGED <<episode, posted, failed, server>>
    BY <1>9, <2>3, MineKept DEF StepReturns
  <2> QED
    BY <1>9, <2>1, <2>2, <2>3 DEF StepReturns
<1>10. CASE StepFails
  BY <1>10, MineKept DEF StepFails
<1>11. ASSUME NEW stop \in BOOLEAN, ReplyReturns(stop) PROVE (StepInv /\ RecordInv /\ OwnActions)'
  <2>1. /\ pc = "replying" /\ Mine' = Mine /\ Earlier' = Earlier
        /\ UNCHANGED <<episode, posted, failed, reward, loaded, log, terminal>>
    BY <1>11, MineKept DEF ReplyReturns
  <2>2. CASE Send(Request("reward", episode, 0, None)) /\ pc' = "rewarding"
    <3>1. call'.op = "reward"
      BY <2>1, <2>2, Requested
    <3> QED
      BY <2>1, <2>2, <3>1
  <2>3. CASE Resume /\ UNCHANGED channel
    BY <2>1, <2>3
  <2> QED
    BY <1>11, <2>2, <2>3 DEF ReplyReturns
<1>12. CASE ReplyFails
  BY <1>12, MineKept DEF ReplyFails
<1>13. CASE RewardReturns
  BY <1>13, MineKept DEF RewardReturns
<1>14. CASE RewardFails
  BY <1>14, MineKept DEF RewardFails
<1>15. CASE ScoreReturns
  BY <1>15, MineKept DEF ScoreReturns
<1>16. CASE ScoreFails
  BY <1>16, MineKept DEF ScoreFails
<1>17. CASE LoopRaises
  <2>1. CASE failed
    BY <1>17, MineKept, <2>1 DEF LoopRaises
  <2>2. CASE ~failed
    BY <1>17, MineKept, <2>2 DEF LoopRaises
  <2> QED
    BY <2>1, <2>2
<1>18. CASE Cancel
  <2>0. pc # "stepping" /\ UNCHANGED tool /\ Mine' = Mine /\ Earlier' = Earlier
    BY <1>18, MineKept DEF Cancel
  <2>1. CASE Return(TRUE) /\ ~failed
    BY <2>0, <2>1
  <2>2. CASE Return(FALSE)
    BY <2>0, <2>2
  <2> HIDE DEF Return
  <2>3. (pc \notin {"resetting", "seeding"} /\ ~failed) \in BOOLEAN
    OBVIOUS
  <2> QED
    BY <1>18, <2>1, <2>2, <2>3, Zenon DEF Cancel
<1>19. ASSUME NEW r \in network, Serve(r) PROVE (StepInv /\ RecordInv /\ OwnActions)'
  <2> USE <1>19
  <2>0. /\ network' = network \ {r} /\ Mine' = Mine /\ Earlier' = Earlier /\ (r # call => answer' = answer)
        /\ UNCHANGED <<pc, episode, posted, failed, reward, call>>
    BY Served, MineKept
  <2>1. CASE r.op = "reset"
    <3>1. /\ pc = "resetting" /\ r = call /\ episode \in 1..NumEpisodes /\ posted = <<>>
          /\ r.by = episode /\ Mine = <<>>
      BY <2>1, Requested, MineIs
    <3>2. ServeReset(r)
      BY <2>1 DEF Serve, ServeStep, ServeReward
    <3> QED
      BY <2>0, <3>1, <3>2 DEF ServeReset
  <2>2. CASE r.op = "reward"
    <3>1. OwnActions'
      BY <2>2, OwnStep
    <3>2. episode # 0 => Mine \in Seq(Entries) /\ Earlier \in Seq(Entries)
      BY MineIs
    <3>3. \A h \in Seq(Entries) : Has(h) =>
            /\ Has(h)'
            /\ r = call => /\ answer'.status = 200
                           /\ answer'.terminal.of = episode /\ answer'.terminal.actions = h
      BY <2>2, RewardKeeps
    <3>4. episode # 0 => /\ Has(Mine) => Has(Mine)' /\ (r = call => /\ answer'.terminal.of = episode
                                                                 /\ answer'.terminal.actions = Mine)
                         /\ Has(Earlier) => Has(Earlier)'
      <4> HIDE DEF Has
      <4> QED
        BY <2>0, <3>2, <3>3 DEF Has
    <3>5. pc = "stepping" => r # call
      BY <2>2, Requested, EmptySeq
    <3>6. pc \in {"resetting", "seeding"} /\ r = call => FALSE
      <4>1. pc = "seeding" => call = None
        BY DEF Calling
      <4>2. pc = "resetting" => call.op = "reset"
        BY Requested
      <4> QED
        BY <2>2, <4>1, <4>2, NoneAssumption DEF ChannelType
    <3> HIDE DEF Has
    <3> QED
      BY <2>0, <2>2, <3>1, <3>4, <3>5, <3>6
  <2>3. CASE r.op = "step"
    <3>1. r.by = episode /\ loaded = episode
      BY <2>3
    <3>2. OwnActions'
      BY <3>1, OwnStep
    <3>3. CASE pc = "stepping" /\ r = call
      <4>1. answer'.status = 200 => Has(Mine)' /\ Scores(answer.terminal)'
        BY <2>0, <3>3, StepTakes
      <4> HIDE DEF Has, Scores
      <4> QED
        BY <2>0, <3>2, <3>3, <4>1 DEF Scores
    <3>4. CASE pc = "deciding" /\ failed
      BY <2>0, <3>2, <3>4
    <3> QED
      BY <2>3, <3>3, <3>4
  <2>4. r.op \in {"reset", "step", "reward"}
    BY DEF ChannelType, Requests
  <2> QED
    BY <2>1, <2>2, <2>3, <2>4
<1>20. ASSUME NEW r \in network, Lose(r) PROVE (StepInv /\ RecordInv /\ OwnActions)'
  BY <1>20, MineKept DEF Lose
<1>21. CASE UNCHANGED vars
  BY <1>21, MineKept DEF vars
<1> HIDE DEF IInv, TypeInv, LoopType, StageInv, CallInv, LoadedInv, StepInv, RecordInv, OwnActions
<1> QED
  BY <1>1, <1>2, <1>3, <1>4, <1>5, <1>6, <1>7, <1>8, <1>9, <1>10, <1>11, <1>12,
     <1>13, <1>14, <1>15, <1>16, <1>17, <1>18, <1>19, <1>20, <1>21, Steps

-----------------------------------------------------------------------------
LEMMA Initial == Init => IInv
<1> SUFFICES ASSUME Init PROVE IInv
  OBVIOUS
<1> USE Constants DEF Init
<1>1. /\ <<>> \in Seq(Kinds) /\ <<>> \in Seq(Entries) /\ <<>> \in Seq({"policy", "observation"})
      /\ <<>> \in Seq({0, 1}) /\ Len(posted) = 0 /\ DOMAIN ids = {} /\ DOMAIN mask = {}
      /\ DOMAIN log = {}
  BY EmptySeq
<1>2. TypeInv
  <2>1. LoopType
    <3>1. /\ episode \in 0..NumEpisodes /\ turn \in 0..MaxTurns
          /\ userTurns \in 0..MaxUserTurns /\ resets \in 0..MaxResets /\ Len(posted) <= turn
      BY <1>1
    <3>2. pc \in PCs /\ posted \in Seq(Kinds) /\ done \in BOOLEAN /\ failed \in BOOLEAN
      BY <1>1 DEF PCs
    <3> QED
      BY <3>1, <3>2 DEF LoopType
  <2>2. ServerType /\ TokenType /\ TalkType
    BY <1>1 DEF ServerType, TokenType, TalkType, Rewards
  <2>3. ChannelType
    BY DEF ChannelType
  <2> QED
    BY <2>1, <2>2, <2>3 DEF TypeInv
<1>3. StageInv /\ CallInv /\ LoadedInv
  BY <1>1 DEF StageInv, CallInv, LoadedInv, Calling
<1>4. HistoryInv
  BY <1>1 DEF HistoryInv, StepInv, RecordInv, OwnActions, Scores
<1>5. TalkInv /\ TokenInv
  BY <1>1 DEF TalkInv, TokenInv, Aligned, SampleAligned
<1> QED
  BY <1>2, <1>3, <1>4, <1>5 DEF IInv

LEMMA Inductive == Spec => []IInv
<1>1. IInv /\ [Next]_vars => IInv'
  <2> SUFFICES ASSUME IInv, [Next]_vars PROVE IInv'
    OBVIOUS
  <2>1. TypeInv'
    BY LoopTypeStep, ServerTypeStep, ChannelTypeStep, TokenStep, TalkStep DEF TypeInv
  <2>2. HistoryInv'
    <3>1. CASE "stepping" \notin CancelAt
      BY <3>1, HistoryStep DEF IInv, HistoryInv
    <3>2. CASE "stepping" \in CancelAt
      BY <3>2 DEF HistoryInv
    <3> QED
      BY <3>1, <3>2
  <2> QED
    BY <2>1, <2>2, StageStep, CallStep, LoadedStep, TalkStep, TokenStep DEF IInv
<1> QED
  BY Initial, <1>1, PTL DEF Spec

(* The variables have their types, the limits on turns, answers and resets are *)
(* kept, and an episode waits for a response just when a request is under way. *)
THEOREM TypeCorrect == Spec => []TypeOK
<1>1. IInv => TypeOK
  <2> SUFFICES ASSUME IInv PROVE TypeOK
    OBVIOUS
  <2>1. /\ LoopType /\ ServerType /\ TokenType /\ TalkType /\ CallInv
        /\ \A r \in network : r.by \in 1..NumEpisodes
    BY DEF IInv, TypeInv, ChannelType, Requests
  <2> QED
    BY <2>1 DEF TypeOK, LoopType, ServerType, TokenType, TalkType, CallInv
<1> QED
  BY <1>1, Inductive, PTL

(* An Env is graded at most once, and its history ends with that; whichever    *)
(* awaits may be cancelled, and whenever the server serves an old request.     *)
THEOREM GradesOnce == Spec => GradedOnce
<1> DEFINE Once == terminal # None /\ loaded' = loaded => terminal' = terminal /\ log' = log
<1>1. IInv /\ [Next]_vars => [Once]_vars
  <2> SUFFICES ASSUME IInv, Next, terminal # None, loaded' = loaded
               PROVE terminal' = terminal /\ log' = log
    BY DEF vars, server
  <2> USE DEF IInv, LoadedInv
  <2>1. loaded # 0
    OBVIOUS
  <2>2. ASSUME NEW r \in network, Serve(r) PROVE terminal' = terminal /\ log' = log
    <3>1. CASE ServeReset(r)
      <4>1. r.by = episode /\ loaded # episode
        <5>1. r = call /\ pc = "resetting" /\ loaded # episode
          BY <3>1 DEF ServeReset
        <5>2. episode \in 1..NumEpisodes
          BY <5>1, Constants DEF TypeInv, LoopType, StageInv
        <5> QED
          BY <5>1, <5>2, Requested, Constants DEF CallInv
      <4> QED
        BY <3>1, <4>1 DEF ServeReset
    <3>2. CASE ServeStep(r)
      BY <3>2 DEF ServeStep
    <3>3. CASE ServeReward(r)
      BY <2>1, <3>3 DEF ServeReward
    <3> QED
      BY <2>2, <3>1, <3>2, <3>3 DEF Serve
  <2>3. CASE UNCHANGED server
    BY <2>3 DEF server
  <2>4. CASE NewSandbox
    BY <2>1, <2>4 DEF NewSandbox
  <2>5. ASSUME NEW healthy, Return(healthy) PROVE NewSandbox \/ UNCHANGED server
    BY <2>5 DEF Return
  <2>6. CASE Create
    BY <2>3, <2>6 DEF Create
  <2>7. CASE \E kind \in Kinds : Turn(kind)
    BY <2>3, <2>7 DEF Turn
  <2>8. CASE EmptyTurn
    BY <2>3, <2>8 DEF EmptyTurn
  <2>9. CASE EndLoop
    BY <2>3, <2>4, <2>5, <2>9 DEF EndLoop
  <2>10. CASE ResetReturns \/ SeedReturns \/ StepReturns \/ StepFails \/ ReplyFails
    BY <2>3, <2>10 DEF ResetReturns, SeedReturns, StepReturns, StepFails, ReplyFails, Fail
  <2>11. CASE ResetFails
    BY <2>3, <2>4, <2>5, <2>11 DEF ResetFails
  <2>12. CASE SeedFails \/ LoopRaises \/ Cancel
    BY <2>3, <2>4, <2>5, <2>12 DEF SeedFails, LoopRaises, Cancel
  <2>13. CASE RewardReturns \/ RewardFails \/ \E stop \in BOOLEAN : ReplyReturns(stop)
    BY <2>3, <2>13 DEF RewardReturns, RewardFails, ReplyReturns, Fail
  <2>14. CASE ScoreReturns \/ ScoreFails
    BY <2>3, <2>4, <2>5, <2>14 DEF ScoreReturns, ScoreFails
  <2>15. CASE \E r \in network : Lose(r)
    BY <2>3, <2>15 DEF Lose
  <2> QED
    BY <2>2, <2>6, <2>7, <2>8, <2>9, <2>10, <2>11, <2>12, <2>13, <2>14, <2>15, Steps
<1> QED
  BY <1>1, Inductive, PTL DEF Spec, GradedOnce

(* Whatever is cancelled, the sample that training sees is aligned and within  *)
(* the response length.                                                      *)
THEOREM SamplesAligned == Spec => []SampleAligned
<1>1. IInv => SampleAligned
  BY DEF IInv, TokenInv
<1> QED
  BY <1>1, Inductive, PTL

(* If no /step is cancelled in its await, the reward of a sample is that of    *)
(* just the actions the episode took, in its own database.                    *)
THEOREM SamplesSound ==
  ASSUME "stepping" \notin CancelAt
  PROVE Spec => []SampleIsSound
<1>1. IInv => SampleIsSound
  <2> SUFFICES ASSUME IInv PROVE SampleIsSound
    OBVIOUS
  <2>1. RewardScoresEpisode
    BY DEF IInv, HistoryInv, RecordInv, Scores, RewardScoresEpisode
  <2>2. SampleAligned
    BY DEF IInv, TokenInv
  <2>3. output # None => output.reward = reward
    BY DEF IInv, StageInv
  <2> QED
    BY <2>1, <2>2, <2>3 DEF SampleIsSound
<1> QED
  BY <1>1, Inductive, PTL

(* The respond actions in the server's history are those that were posted.     *)
LEMMA RespondsAre ==
  ASSUME TypeInv, episode # 0, Has(Mine)
  PROVE Responds = Spoken
<1>1. /\ posted \in Seq(Kinds) /\ DOMAIN posted = 1 .. Len(posted) /\ Len(posted) \in Nat
      /\ Mine \in Seq(Entries) /\ DOMAIN Mine = 1 .. Len(posted) /\ Len(Mine) = Len(posted)
  BY MineIs, LenProperties DEF TypeInv, LoopType, Mine
<1>2. \A i \in DOMAIN posted : Mine[i][2] = i /\ Mine[i][3] = posted[i]
  BY DEF Mine
<1>3. CASE terminal = None
  BY <1>1, <1>2, <1>3 DEF Has, Responds, Spoken
<1>4. CASE terminal # None
  <2>1. log = Append(Mine, Solution)
    BY <1>4 DEF Has
  <2>2. /\ DOMAIN log = 1 .. Len(posted) + 1
        /\ \A i \in DOMAIN posted : log[i] = Mine[i]
        /\ log[Len(posted) + 1] = Solution
    BY <1>1, <2>1
  <2>3. Solution[3] # "respond"
    BY DEF Solution
  <2>4. {j \in DOMAIN log : log[j][3] = "respond"} = Spoken
    BY <1>1, <1>2, <2>2, <2>3 DEF Spoken
  <2>5. \A j \in Spoken : log[j][2] = j
    BY <1>1, <1>2, <2>2 DEF Spoken
  <2> QED
    BY <2>4, <2>5 DEF Responds
<1> QED
  BY <1>3, <1>4

(* If no /step is cancelled in its await, the server never keeps another       *)
(* episode's action, and server and simulator have all that the tool was told *)
(* they have.                                                                *)
THEOREM HistoriesKept ==
  ASSUME "stepping" \notin CancelAt
  PROVE Spec => []HistoriesAgree
<1>1. IInv => HistoriesAgree
  <2> SUFFICES ASSUME IInv PROVE HistoriesAgree
    OBVIOUS
  <2>1. TypeInv /\ RecordInv /\ OwnActions /\ TalkInv
    BY DEF IInv, HistoryInv
  <2>2. ServerInStep
    BY <2>1 DEF RecordInv, Has, ServerInStep
  <2>3. pc = "deciding" /\ ~failed => Responds = Spoken
    <3>1. pc = "deciding" => episode # 0
      BY DEF IInv, StageInv
    <3> QED
      BY <2>1, <3>1, RespondsAre DEF RecordInv
  <2>4. SimulatorInStep
    BY <2>1, <2>3 DEF TalkInv, SimulatorInStep, Dialogue, Closed
  <2> QED
    BY <2>1, <2>2, <2>4 DEF HistoriesAgree
<1> QED
  BY <1>1, Inductive, PTL
=============================================================================
