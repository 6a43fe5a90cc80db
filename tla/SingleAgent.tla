---------------------------- MODULE SingleAgent ----------------------------
(***************************************************************************)
(* SingleAgentProtocol.run: one agent, one environment, at most MaxSteps   *)
(* rounds.  A round is one act() of the agent, as many more as it needs    *)
(* for external tools, and then a step of the environment or, if its       *)
(* answer did not parse, a synthetic observation.                          *)
(*                                                                         *)
(* Everything runs in one coroutine and nothing else touches its state, so *)
(* an action is a piece of the loop's body; the await is ModelCall.        *)
(***************************************************************************)
EXTENDS AgentLoop

CONSTANTS
    Me,           \* the one agent
    MaxSteps,     \* max_steps of run
    MaxExternal   \* bound on the external calls of an episode (the code has none)

ASSUME SingleAgentAssumption ==
    /\ Agents = {Me}
    /\ MaxSteps \in Nat
    /\ MaxExternal \in Nat

VARIABLES
    conf,       \* what the protocol was built with; it never changes
    pc,         \* "loop", "act", "return", "done", or "raised"
    t,          \* rounds begun
    obs,        \* the observation of this round
    turn,       \* turn_id: a fresh one is the next number
    steps,      \* the rollout
    exhausted,  \* ended_by_max_steps
    envTime,    \* steps the environment has taken: names its observations
    external,   \* external calls so far
    earned      \* what the environment and the parser gave for the answers (history)

protocolVars == <<pc, t, obs, turn, steps, exhausted>>
vars == <<agentVars, conf, protocolVars, envTime, external, earned>>

Conf == [stopOnParseError : BOOLEAN, hasHandler : BOOLEAN]

Init ==
    /\ AgentInit
    /\ conf \in Conf
    /\ pc = "loop" /\ t = 0 /\ obs = FirstObs /\ turn = 0 /\ steps = <<>>
    /\ exhausted = TRUE /\ envTime = 0 /\ external = 0 /\ earned = 0

-----------------------------------------------------------------------------

(* The head of the loop: another round if there is one left and the        *)
(* environment expects this agent to act.                                  *)
BeginRound ==
    /\ pc = "loop" /\ t < MaxSteps
    /\ pc' = "act" /\ t' = t + 1
    /\ UNCHANGED <<conf, agentVars, obs, turn, steps, exhausted, envTime, external, earned>>

LeaveLoop ==
    /\ pc = "loop"
    /\ pc' = "return"
    /\ UNCHANGED <<conf, agentVars, t, obs, turn, steps, exhausted, envTime, external, earned>>

Exhausted == t = MaxSteps /\ LeaveLoop
NotActive == t < MaxSteps /\ LeaveLoop

CallModel(target, parse) ==
    /\ pc = "act"
    /\ ModelCall(Me, target, parse)
    /\ target = "external" => external < MaxExternal
    /\ external' = IF target = "external" THEN external + 1 ELSE external
    /\ UNCHANGED <<conf, protocolVars, envTime, earned>>

(* The call times out, fails, or brings no token ids: run raises.          *)
CallFails ==
    /\ pc = "act" /\ ~Returned(Me)
    /\ pc' = "raised"
    /\ UNCHANGED <<conf, agentVars, t, obs, turn, steps, exhausted, envTime, external, earned>>

-----------------------------------------------------------------------------
(* After act() *)

Answered(target, parse) ==
    /\ pc = "act" /\ Returned(Me)
    /\ FinalCall(Me).target = target
    /\ FinalCall(Me).parse = parse

WithAct == steps \o Recorded(calls[Me], turn, conf.stopOnParseError)

(* External tools: the handler's results go to the context and the agent   *)
(* goes on in the same turn, with a new loop.                              *)
HandleExternal ==
    /\ Answered("external", "none")
    /\ steps' = WithAct
    /\ IF conf.hasHandler
       THEN Hear([a \in {Me} |-> ToolResult], {Me}) /\ UNCHANGED pc
       ELSE pc' = "raised" /\ UNCHANGED agentVars
    /\ UNCHANGED <<conf, t, obs, turn, exhausted, envTime, external, earned>>

ObserveButKeepObs(o) ==  \* mutant: the local obs is not replaced
    /\ UNCHANGED obs
    /\ Hear([a \in {Me} |-> User(o)], {Me})

(* The next observation, for the environment's log and for the agent.      *)
Observe(o) ==
    /\ obs' = o
    /\ Hear([a \in {Me} |-> User(o)], {Me})

KeptTurn == UNCHANGED turn  \* mutant: turn_id is not renewed

FreshTurn == turn' = turn + 1

(* An answer that does not parse closes the turn without the environment.  *)
RejectAnswer ==
    /\ Answered("env", "error")
    /\ steps' = WithAct
    /\ Observe(Feedback)
    /\ FreshTurn
    /\ IF conf.stopOnParseError
       THEN pc' = "return" /\ exhausted' = FALSE
       ELSE pc' = "loop" /\ UNCHANGED exhausted
    /\ earned' = earned + ParserReward("error")
    /\ UNCHANGED <<conf, t, envTime, external>>

(* env.step: its step closes the turn, and the episode if the environment  *)
(* says so; the last observation is then not shown to the agent.           *)
StepEnv(out) ==
    /\ Answered("env", "action")
    /\ envTime' = envTime + 1
    /\ steps' = Append(WithAct,
         EnvironmentStep(FinalCall(Me), turn, obs, Len(WithAct), out))
    /\ earned' = earned + EnvReward + ParserReward("action")
    /\ IF Ends(out)
       THEN /\ pc' = "return" /\ exhausted' = FALSE
            /\ obs' = envTime' /\ UNCHANGED <<agentVars, turn>>
       ELSE /\ pc' = "loop" /\ FreshTurn
            /\ Observe(envTime')
            /\ UNCHANGED exhausted
    /\ UNCHANGED <<conf, t, external>>

AlwaysMarked == Marked(steps)  \* mutant: a parse stop is marked as well

MarkedIfExhausted == IF exhausted THEN Marked(steps) ELSE steps

(* The time limit leaves its mark, and the rollout is returned.            *)
ReturnRollout ==
    /\ pc = "return"
    /\ pc' = "done"
    /\ steps' = MarkedIfExhausted
    /\ UNCHANGED <<conf, agentVars, t, obs, turn, exhausted, envTime, external, earned>>

Stopped == pc \in {"done", "raised"} /\ UNCHANGED vars

Next ==
    \/ BeginRound \/ Exhausted \/ NotActive
    \/ \E target \in Targets, parse \in Parses : CallModel(target, parse)
    \/ CallFails
    \/ HandleExternal \/ RejectAnswer
    \/ \E out \in Outcome : StepEnv(out)
    \/ ReturnRollout
    \/ Stopped

Spec == Init /\ [][Next]_vars

-----------------------------------------------------------------------------

(* Every variable has its type. *)
TypeOK ==
    /\ AgentTypeOK
    /\ conf \in Conf
    /\ pc \in {"loop", "act", "return", "done", "raised"}
    /\ t \in 0..MaxSteps
    /\ obs \in Int /\ turn \in Nat /\ envTime \in Nat /\ external \in Nat
    /\ steps \in Seq(StepRecord)
    /\ exhausted \in BOOLEAN
    /\ earned \in Int

(* Whatever the model replies, the rollout of a finished episode becomes   *)
(* training samples: _collect_turns and _build_turn_saw_item raise on no   *)
(* turn of it, so one odd episode never costs the whole batch.             *)
RolloutCollectable == pc = "done" => Collectable(steps)

(* A reward counts once: the samples of a rollout, one per turn, carry     *)
(* together what the environment and the parser gave for the agent's       *)
(* answers, and Rollout.total_reward is the same sum.                      *)
RewardCountedOnce ==
    pc = "done" =>
        /\ SampleReward(steps) = earned
        /\ TotalReward(steps) = earned

(* A rollout ends once: exactly one of its steps is terminated or          *)
(* truncated, nothing follows one the protocol or the environment ended,   *)
(* and episode_truncated and truncation_reason of the rollout say the same *)
(* as that step.                                                           *)
EndsOnce == pc = "done" /\ steps # <<>> => EndedOnce(steps)

(* Credit goes to what the agent saw: an environment step names as source  *)
(* the last call of its own turn, and its prev_obs is the latest user      *)
(* message of the prompt that call answered.                               *)
SawWhatItActedOn == SourceSaw(steps)
=============================================================================
