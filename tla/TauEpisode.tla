----------------------------- MODULE TauEpisode -----------------------------
(***************************************************************************)
(* Successive episodes on one sandbox of taubench-verl: the agent loop      *)
(* (agent/taubench_loop.py) with the token trajectory it hands to training, *)
(* the tool's calls (tools/sandbox_taubench_tool.py, sandbox/client.py), the *)
(* customer's side of the dialogue (sandbox/simulator.py) and the server in *)
(* the sandbox (sandbox/env_server.py).                                     *)
(*                                                                         *)
(* The pool lends the sandbox to one episode at a time (SandboxPool), and   *)
(* an episode has one request outstanding at a time.  But a caller that     *)
(* gave up waiting does not take its request back: the server has a thread  *)
(* per connection and may serve it whenever it gets to it.  Every request   *)
(* runs under the server's lock, so serving one is one step.                *)
(*                                                                         *)
(* Definitions whose comment starts with "Bug:" are not part of the         *)
(* specification.                                                          *)
(***************************************************************************)
EXTENDS Naturals, Sequences

CONSTANTS
  NumEpisodes,    \* bound: episodes that follow each other
  MaxTurns,       \* max_assistant_turns of the loop
  MaxUserTurns,   \* max_user_turns of the tool
  MaxResets,      \* resets the pool tries for one acquire
  ResponseLength, \* response_length of the rollout, in tokens
  WantLogProbs,   \* sampling_params["logprobs"]
  MaxGenerated,   \* bound: tokens of one generation
  MaxObserved,    \* bound: tokens of one observation
  CancelAt,       \* the awaits in which an episode's task may be cancelled
  None

ASSUME BoundsAssumption ==
  /\ {NumEpisodes, MaxTurns, MaxUserTurns, MaxResets, ResponseLength, MaxGenerated} \subseteq Nat \ {0}
  /\ MaxObserved \in Nat /\ WantLogProbs \in BOOLEAN
  /\ CancelAt \subseteq {"resetting", "seeding", "deciding", "stepping", "replying",
                       "rewarding", "scoring"}

Kinds == {"respond", "tool", "terminate"}
Requests == [op : {"reset", "step", "reward"}, by : 1..NumEpisodes, n : 0..MaxTurns,
             kind : Kinds \cup {None}]

(* An action in the history: the episode it is of, its number there, its kind. *)
Entries == (1..NumEpisodes) \X (0..MaxTurns) \X (Kinds \cup {"solution"})

(* A result: who asked for it, the Env it is of, and the history it came from. *)
Grades == [by : 1..NumEpisodes, of : 1..NumEpisodes, actions : Seq(Entries)]

ASSUME NoneAssumption == None \notin Requests /\ None \notin Grades /\ None \notin Seq(Nat)

VARIABLES
  \* the loop and the tool's instance_registry entry
  episode,    \* the episode that has, or had last, the sandbox
  pc,         \* the await its coroutine is in
  turn,       \* turns of the loop
  userTurns,  \* state["user_turns"]
  posted,     \* the actions posted to /step, by their kinds
  done, failed, \* state["done"], state["failed"]
  reward,     \* state["reward"]: None, or what the server computed it from
  resets,     \* resets of this acquire
  \* the loop's trajectory, token by token
  ids,        \* runtime_token_ids after the prompt: whose token each is
  mask,       \* response_mask
  logprobs,   \* response_logprobs: None, or for each whether the policy's server reported it
  output,     \* the AgentLoopOutput that training sees, None if there is none
  \* the simulator
  conversation, \* _conversations[instance_id]: the numbers of the agent's messages, 0 the customer's
  \* the connection
  call,       \* the request awaited, or None
  answer,     \* its response, once there
  network,    \* requests the server has not served
  \* EpisodeState
  loaded,     \* episode_id: whose Env it has, 0 before the first reset
  log,        \* env.actions
  terminal    \* _terminal_reward, with the history it was computed from; None unless done

tool == <<episode, turn, userTurns, posted, done, failed, reward, resets>>
tokens == <<ids, mask, logprobs>>
channel == <<call, answer, network>>
server == <<loaded, log, terminal>>
vars == <<pc, tool, tokens, output, conversation, channel, server>>

Calling == {"resetting", "stepping", "rewarding", "scoring"}
PCs == Calling \cup {"free", "seeding", "deciding", "replying"}

Init ==
  /\ pc = "free" /\ episode = 0
  /\ turn = 0 /\ userTurns = 0 /\ posted = <<>> /\ resets = 0
  /\ done = FALSE /\ failed = FALSE /\ reward = None
  /\ ids = <<>> /\ mask = <<>> /\ logprobs = None /\ output = None
  /\ conversation = None
  /\ call = None /\ answer = None /\ network = {}
  /\ loaded = 0 /\ log = <<>> /\ terminal = None

-----------------------------------------------------------------------------
(* EpisodeState, one request of it. *)

Conflict == [status |-> 409]
OK == [status |-> 200, terminal |-> None]
Scored(by, actions) == [by |-> by, of |-> loaded, actions |-> actions]

ServeReset(r) ==
  /\ r.op = "reset"
  /\ loaded' = r.by /\ log' = <<>> /\ terminal' = None
  /\ answer' = IF r = call THEN OK ELSE answer

(* calculate_reward replays the solution in the database, and thereby appends   *)
(* it to env.actions.                                                        *)
Solution == <<loaded, 0, "solution">>
Acted(r) == Append(log, <<r.by, r.n, r.kind>>)

(* Bug: an episode that is over takes further actions. *)
ServeStepUnchecked(r) ==
  /\ r.op = "step" /\ loaded # 0
  /\ log' = IF r.kind = "terminate" THEN Append(Acted(r), Solution) ELSE Acted(r)
  /\ terminal' = IF r.kind = "terminate" THEN Scored(r.by, Acted(r)) ELSE terminal
  /\ answer' = IF r = call THEN [status |-> 200, terminal |-> terminal'] ELSE answer
  /\ UNCHANGED loaded

ServeStep(r) ==
  /\ r.op = "step"
  /\ \/ /\ loaded = 0 \/ terminal # None
        /\ answer' = IF r = call THEN Conflict ELSE answer
        /\ UNCHANGED <<log, terminal>>
     \/ /\ loaded # 0 /\ terminal = None
        /\ log' = IF r.kind = "terminate" THEN Append(Acted(r), Solution) ELSE Acted(r)
        /\ terminal' = IF r.kind = "terminate" THEN Scored(r.by, Acted(r)) ELSE None
        /\ answer' = IF r = call THEN [status |-> 200, terminal |-> terminal'] ELSE answer
  /\ UNCHANGED loaded

(* Bug: the history is read after the grading has replayed the solution. *)
ServeRewardReplayed(r) ==
  /\ r.op = "reward" /\ loaded # 0
  /\ terminal' = IF terminal # None THEN terminal ELSE Scored(r.by, Append(log, Solution))
  /\ log' = IF terminal # None THEN log ELSE Append(log, Solution)
  /\ answer' = IF r = call THEN [status |-> 200, terminal |-> terminal'] ELSE answer
  /\ UNCHANGED loaded

(* The result is cached: grading twice would grade the solution. *)
ServeReward(r) ==
  /\ r.op = "reward"
  /\ \/ /\ loaded = 0
        /\ answer' = IF r = call THEN Conflict ELSE answer
        /\ UNCHANGED <<log, terminal>>
     \/ /\ loaded # 0 /\ terminal # None
        /\ answer' = IF r = call THEN [status |-> 200, terminal |-> terminal] ELSE answer
        /\ UNCHANGED <<log, terminal>>
     \/ /\ loaded # 0 /\ terminal = None
        /\ terminal' = Scored(r.by, log)
        /\ log' = Append(log, Solution)
        /\ answer' = IF r = call THEN [status |-> 200, terminal |-> terminal'] ELSE answer
  /\ UNCHANGED loaded

(* A thread of the server gets the lock.  A response nobody waits for is lost. *)
Serve(r) ==
  /\ r \in network
  /\ network' = network \ {r}
  /\ ServeReset(r) \/ ServeStep(r) \/ ServeReward(r)
  /\ UNCHANGED <<pc, tool, tokens, output, conversation, call>>

(* The connection breaks before the server reads the request. *)
Lose(r) ==
  /\ r \in network
  /\ network' = network \ {r}
  /\ UNCHANGED <<pc, tool, tokens, output, conversation, call, answer, server>>

-----------------------------------------------------------------------------
(* SandboxEnvClient, and what the pool does around an episode. *)

Request(op, by, n, kind) == [op |-> op, by |-> by, n |-> n, kind |-> kind]

Send(r) ==
  /\ call' = r /\ answer' = None
  /\ network' = network \cup {r}

HangUp == call' = None /\ answer' = None /\ UNCHANGED network

(* Another sandbox, just provisioned: nothing is loaded, nothing on its way. *)
NewSandbox == loaded' = 0 /\ log' = <<>> /\ terminal' = None

(* The simulator's side of the dialogue; its model is asked after each message. *)
Opens == conversation' = <<0>>
Hears(n) == conversation' = Append(conversation, n)
Answers == conversation' = Append(conversation, 0)
Forgets == conversation' = None

(* The loop's locals. *)
NoTokens == ids' = <<>> /\ mask' = <<>> /\ logprobs' = None

(* The tool's release: the simulator forgets the conversation, and the pool    *)
(* lends a healthy sandbox to the next episode as it is.                      *)
Return(healthy) ==
  /\ pc' = "free"
  /\ Forgets /\ NoTokens
  /\ IF healthy THEN HangUp /\ UNCHANGED server
                ELSE call' = None /\ answer' = None /\ network' = {} /\ NewSandbox

-----------------------------------------------------------------------------
(* The trajectory: what the policy generated is trained on, what it was told   *)
(* is not.                                                                   *)

Run(token, n) == [i \in 1..n |-> token]

(* max_tokens of the next generation: one token at least, however full it is. *)
Budget == IF Len(ids) + 1 < ResponseLength THEN ResponseLength - Len(ids) - 1 ELSE 1

(* The policy's server reports log-probabilities with every generation of an   *)
(* episode, or with none.                                                    *)
Reported(generated, observed) ==
  \E reported \in BOOLEAN :
    /\ reported => WantLogProbs
    /\ ids # <<>> => (reported <=> logprobs # None)
    /\ logprobs' = IF ~reported THEN None
                   ELSE (IF logprobs = None THEN <<>> ELSE logprobs)
                          \o Run(TRUE, generated) \o Run(FALSE, observed)

(* Bug: what the policy was told is trained on as well. *)
ExtendUnmasked(generated, observed) ==
  /\ ids' = ids \o Run("policy", generated) \o Run("observation", observed)
  /\ mask' = mask \o Run(1, generated + observed)
  /\ Reported(generated, observed)

Extend(generated, observed) ==
  /\ ids' = ids \o Run("policy", generated) \o Run("observation", observed)
  /\ mask' = mask \o Run(1, generated) \o Run(0, observed)
  /\ Reported(generated, observed)

Generations == {n \in 1..MaxGenerated : n <= Budget}

(* execute() has returned its observation to the loop. *)
Resume == pc' = "deciding" /\ \E n \in 0..MaxObserved : Extend(0, n)

(* The tail of the episode is cut off; mask and log-probabilities are fitted.   *)
Fit(row, n, filler) ==
  IF Len(row) < n THEN row \o Run(filler, n - Len(row)) ELSE SubSeq(row, 1, n)

Sample(score) ==
  LET length == IF Len(ids) > ResponseLength THEN ResponseLength ELSE Len(ids) IN
  [ids |-> SubSeq(ids, 1, length),
   mask |-> Fit(mask, length, 0),
   logprobs |-> IF logprobs # None THEN Fit(logprobs, length, FALSE)
                ELSE IF WantLogProbs THEN Run(FALSE, length) ELSE None,
   reward |-> score]

-----------------------------------------------------------------------------
(* create(): acquire with its reset, /spec, the simulator's opening. *)

Create ==
  /\ pc = "free" /\ episode < NumEpisodes
  /\ episode' = episode + 1
  /\ turn' = 0 /\ userTurns' = 0 /\ posted' = <<>> /\ resets' = 1
  /\ done' = FALSE /\ failed' = FALSE /\ reward' = None
  /\ output' = None
  /\ Send(Request("reset", episode + 1, 0, None))
  /\ pc' = "resetting"
  /\ UNCHANGED <<tokens, conversation, server>>

ResetReturns ==
  /\ pc = "resetting" /\ answer # None
  /\ pc' = "seeding"
  /\ HangUp
  /\ UNCHANGED <<tool, tokens, output, conversation, server>>

(* Bug: no limit on the resets. *)
ResetFailsForever ==
  /\ pc = "resetting"
  /\ call' = Request("reset", episode, 0, None) /\ answer' = None
  /\ network' = {call'}
  /\ NewSandbox
  /\ UNCHANGED <<pc, tool, tokens, output, conversation>>

(* acquire destroys the sandbox and resets another one, or raises. *)
ResetFails ==
  /\ pc = "resetting"
  /\ \/ /\ resets < MaxResets
        /\ resets' = resets + 1
        /\ call' = Request("reset", episode, 0, None) /\ answer' = None
        /\ network' = {call'}
        /\ NewSandbox
        /\ UNCHANGED <<pc, episode, turn, userTurns, posted, done, failed, reward, tokens,
                       conversation>>
     \/ /\ resets = MaxResets
        /\ Return(FALSE)
        /\ UNCHANGED tool
  /\ UNCHANGED output

(* The conversation is kept only once the customer has opened it. *)
SeedReturns ==
  /\ pc = "seeding"
  /\ Opens
  /\ pc' = "deciding"
  /\ UNCHANGED <<tool, tokens, output, channel, server>>

SeedFails ==
  /\ pc = "seeding"
  /\ Return(FALSE)
  /\ UNCHANGED <<tool, output>>

-----------------------------------------------------------------------------
(* The loop: one turn is a generated action and its execute(). *)

(* execute()'s `except Exception`: the episode is over and the sandbox suspect. *)
Fail ==
  /\ done' = TRUE /\ failed' = TRUE
  /\ Resume
  /\ HangUp
  /\ UNCHANGED <<episode, turn, userTurns, posted, reward, resets, output, conversation, server>>

(* Bug: the turn limit is not looked at. *)
TurnUnbounded(kind) ==
  /\ pc = "deciding" /\ ~done
  /\ turn' = turn + 1
  /\ \E n \in Generations : Extend(n, 0)
  /\ posted' = Append(posted, kind)
  /\ Send(Request("step", episode, Len(posted'), kind))
  /\ pc' = "stepping"
  /\ UNCHANGED <<episode, userTurns, done, failed, reward, resets, output, conversation, server>>

Turn(kind) ==
  /\ pc = "deciding" /\ ~done /\ turn < MaxTurns
  /\ turn' = turn + 1
  /\ \E n \in Generations : Extend(n, 0)
  /\ posted' = Append(posted, kind)
  /\ Send(Request("step", episode, Len(posted'), kind))
  /\ pc' = "stepping"
  /\ UNCHANGED <<episode, userTurns, done, failed, reward, resets, output, conversation, server>>

(* A respond action without content never reaches the sandbox. *)
EmptyTurn ==
  /\ pc = "deciding" /\ ~done /\ turn < MaxTurns
  /\ turn' = turn + 1
  /\ \E n \in Generations, m \in 1..MaxObserved : Extend(n, m)
  /\ UNCHANGED <<pc, episode, userTurns, posted, done, failed, reward, resets, output,
                 conversation, channel, server>>

StepReturns ==
  /\ pc = "stepping" /\ answer # None
  /\ \/ answer.status = 409 /\ Fail
     \/ /\ answer.status = 200 /\ call.kind = "respond"
        /\ Hears(call.n)
        /\ pc' = "replying"
        /\ HangUp
        /\ UNCHANGED <<tool, tokens, output, server>>
     \/ /\ answer.status = 200 /\ call.kind # "respond"
        /\ done' = (answer.terminal # None)
        /\ reward' = answer.terminal
        /\ Resume
        /\ HangUp
        /\ UNCHANGED <<episode, turn, userTurns, posted, failed, resets, output, conversation,
                       server>>

(* The request timed out after 30 s, or the connection broke. *)
StepFails ==
  /\ pc = "stepping"
  /\ Fail

(* The simulator's answer; with it the episode may be over. *)
ReplyReturns(stop) ==
  /\ pc = "replying"
  /\ Answers
  /\ userTurns' = userTurns + 1
  /\ done' = (stop \/ userTurns + 1 >= MaxUserTurns)
  /\ IF done'
     THEN /\ Send(Request("reward", episode, 0, None))
          /\ pc' = "rewarding"
          /\ UNCHANGED tokens
     ELSE Resume /\ UNCHANGED channel
  /\ UNCHANGED <<episode, turn, posted, failed, reward, resets, output, server>>

(* Bug: the customer who does not answer is taken to have said nothing. *)
ReplyFailsSilently ==
  /\ pc = "replying"
  /\ Resume
  /\ UNCHANGED <<tool, output, conversation, channel, server>>

(* The agent's message stays in the conversation without an answer. *)
ReplyFails ==
  /\ pc = "replying"
  /\ Fail

RewardReturns ==
  /\ pc = "rewarding" /\ answer # None
  /\ reward' = answer.terminal
  /\ Resume
  /\ HangUp
  /\ UNCHANGED <<episode, turn, userTurns, posted, done, failed, resets, output, conversation,
                 server>>

RewardFails ==
  /\ pc = "rewarding"
  /\ Fail

(* The loop is over, by `done`, by its limit or by an empty generation:        *)
(* calc_reward() asks for a reward unless there is one.                       *)
EndLoop ==
  /\ pc = "deciding"
  /\ \/ /\ done \/ reward # None
        /\ output' = Sample(reward)
        /\ Return(~failed)
     \/ /\ ~done /\ reward = None
        /\ Send(Request("reward", episode, 0, None))
        /\ pc' = "scoring"
        /\ UNCHANGED <<tokens, output, conversation, server>>
  /\ UNCHANGED tool

ScoreReturns ==
  /\ pc = "scoring" /\ answer # None
  /\ reward' = answer.terminal
  /\ output' = Sample(reward')
  /\ Return(TRUE)
  /\ UNCHANGED <<episode, turn, userTurns, posted, done, failed, resets>>

(* calc_reward swallows the error, and release() finds no `failed`. *)
ScoreFails ==
  /\ pc = "scoring"
  /\ output' = Sample(reward)
  /\ Return(TRUE)
  /\ UNCHANGED tool

(* The policy's generation or the token bookkeeping raises: the `finally` alone. *)
LoopRaises ==
  /\ pc = "deciding"
  /\ Return(~failed)
  /\ UNCHANGED <<tool, output>>

(* CancelledError: no `except Exception` sees it; create() gives the lease back *)
(* unhealthy, the loop's `finally` as the tool has it.                        *)
Cancel ==
  /\ pc \in CancelAt
  /\ Return(pc \notin {"resetting", "seeding"} /\ ~failed)
  /\ UNCHANGED <<tool, output>>

-----------------------------------------------------------------------------

Await == \/ ResetReturns \/ ResetFails \/ SeedReturns \/ SeedFails
         \/ StepReturns \/ StepFails
         \/ \E stop \in BOOLEAN : ReplyReturns(stop)
         \/ ReplyFails \/ RewardReturns \/ RewardFails \/ ScoreReturns \/ ScoreFails

Decide == (\E kind \in Kinds : Turn(kind)) \/ EmptyTurn \/ EndLoop

Next == \/ Create \/ Decide \/ Await \/ LoopRaises \/ Cancel
        \/ \E r \in network : Serve(r) \/ Lose(r)

Spec == Init /\ [][Next]_vars

(* Every await of an episode ends, at the latest in its timeout. *)
FairSpec == Spec /\ WF_vars(Await) /\ WF_vars(Decide)

-----------------------------------------------------------------------------
(* Properties. *)

Rewards == {None} \cup Grades

(* Type correctness. *)
TypeOK ==
  /\ pc \in PCs /\ episode \in 0..NumEpisodes
  /\ turn \in 0..MaxTurns /\ posted \in Seq(Kinds) /\ Len(posted) <= turn
  /\ userTurns \in 0..MaxUserTurns /\ resets \in 0..MaxResets
  /\ done \in BOOLEAN /\ failed \in BOOLEAN /\ reward \in Rewards
  /\ ids \in Seq({"policy", "observation"}) /\ mask \in Seq({0, 1})
  /\ logprobs = None \/ logprobs \in Seq(BOOLEAN)
  /\ conversation = None \/ conversation \in Seq(0..MaxTurns)
  /\ call # None <=> pc \in Calling
  /\ \A r \in network : r.by \in 1..NumEpisodes
  /\ loaded \in 0..NumEpisodes /\ log \in Seq(Entries) /\ terminal \in Rewards

(* The actions the episode's own tool posted, in order. *)
Mine == [i \in DOMAIN posted |-> <<episode, i, posted[i]>>]

(* The reward was computed in this episode's own database from exactly the     *)
(* actions it took, none missing, none doubled, none of another episode:      *)
(* calculate_reward over env.actions (env_server.py:286-322).                *)
RewardScoresEpisode == reward # None => reward.of = episode /\ reward.actions = Mine

(* What training sees is within the response length and aligned: the mask marks *)
(* exactly the tokens the policy generated, and reported log-probabilities are *)
(* at exactly those ("masked (observation/padding) positions carry 0.0 and    *)
(* are excluded by the mask", taubench_loop.py:654-655).                      *)
SampleAligned ==
  output # None =>
    /\ Len(output.ids) <= ResponseLength
    /\ DOMAIN output.mask = DOMAIN output.ids
    /\ \A i \in DOMAIN output.ids : output.mask[i] = 1 <=> output.ids[i] = "policy"
    /\ output.logprobs # None =>
         /\ DOMAIN output.logprobs = DOMAIN output.ids
         /\ \/ \A i \in DOMAIN output.ids : ~output.logprobs[i]
            \/ \A i \in DOMAIN output.ids : output.logprobs[i] <=> output.mask[i] = 1

(* The two together: the sample is the policy's own tokens, and the reward it   *)
(* carries is that of the actions they caused.                               *)
SampleIsSound ==
  RewardScoresEpisode /\ SampleAligned /\ (output # None => output.reward = reward)

(* "A stray concurrent request cannot interleave two episodes' actions"         *)
(* (env_server.py:85-86): the history an Env is graded on is of its episode.   *)
OwnActions == \A i \in DOMAIN log : log[i][1] = loaded

(* Nor does one episode's request grade, and thereby end, another episode:     *)
(* returning the sandbox "healthy is correct as long as the episode did not    *)
(* error" (sandbox_taubench_tool.py:481-483).                                 *)
OwnReward == terminal # None => terminal.by = terminal.of

(* While the loop waits for the policy or the simulator, the server has just   *)
(* what the tool was told it has, before and after the grading.               *)
ServerInStep ==
  pc \in {"deciding", "replying"} /\ ~failed =>
    loaded = episode /\ log = IF terminal = None THEN Mine ELSE Append(Mine, Solution)

(* The customer has been told just the messages that the sandbox has on record, *)
(* where the grading looks for them ("Record in the sandbox first",            *)
(* sandbox_taubench_tool.py:407-409), has answered each before the next, and   *)
(* is forgotten with the episode.                                            *)
Alternates(c) ==
  /\ c # <<>> /\ c[1] = 0
  /\ \A i \in 1 .. Len(c) - 1 : c[i] = 0 <=> c[i + 1] # 0
InOrder(c) ==
  \A i, j \in DOMAIN c : i < j /\ c[i] # 0 /\ c[j] # 0 => c[i] < c[j]
Told(c) == {c[i] : i \in DOMAIN c} \ {0}
Responds == {log[i][2] : i \in {j \in DOMAIN log : log[j][3] = "respond"}}

SimulatorInStep ==
  /\ pc \in {"free", "resetting", "seeding"} => conversation = None
  /\ pc = "deciding" /\ ~failed =>
       /\ Alternates(conversation) /\ conversation[Len(conversation)] = 0
       /\ InOrder(conversation) /\ Told(conversation) = Responds

(* The three together: the history the server keeps is never another episode's, *)
(* and whenever the tool has an answer for each request, server and simulator  *)
(* both have all of its own.                                                 *)
HistoriesAgree == OwnActions /\ ServerInStep /\ SimulatorInStep

(* Grading is destructive (it replays the solution in the database), hence once *)
(* per Env and last: after it neither the history nor the result changes      *)
(* until another Env is made (env_server.py:160-163, 268-287).               *)
GradedOnce ==
  [][terminal # None /\ loaded' = loaded => terminal' = terminal /\ log' = log]_vars

(* Every episode comes to its end and returns the sandbox. *)
EpisodeEnds == pc # "free" ~> pc = "free"
=============================================================================
