----------------------------- MODULE MultiAgent -----------------------------
(***************************************************************************)
(* MultiAgentProtocol.run: the managed agents the environment expects to   *)
(* act do so concurrently (asyncio.gather); when all have answered, the    *)
(* answers that parse go to the environment in one step, and each agent    *)
(* keeps a rollout of its own.  The environment may also wait for agents   *)
(* that are not managed here.                                              *)
(*                                                                         *)
(* The environment is any that keeps LudicEnv's contract: step returns an  *)
(* outcome for every agent.                                                *)
(***************************************************************************)
EXTENDS AgentLoop

CONSTANTS
    Others,    \* roles of the environment that are not managed
    MaxSteps   \* max_steps of run

ASSUME MultiAgentAssumption ==
    /\ Agents # {} /\ IsFiniteSet(Agents)
    /\ MaxSteps \in Nat

VARIABLES
    pc,        \* "loop", "act", "return", "done", or "raised"
    t,         \* rounds begun
    acting,    \* the agents polled in this round
    finished,  \* finished_agents
    obs,       \* current_obs of each agent
    turn,      \* turn_ids: a fresh one is the next number
    steps,     \* the collector's trace of each agent
    envTime,   \* steps the environment has taken: names its observations
    ended,     \* agents an outcome of the environment has ended (history)
    earned     \* what each agent's answers were given (history)

envVars == <<envTime, ended>>
traceVars == <<obs, turn, steps, earned>>
vars == <<agentVars, pc, t, acting, finished, envVars, traceVars>>

Init ==
    /\ AgentInit
    /\ pc = "loop" /\ t = 0 /\ acting = {} /\ finished = {}
    /\ envTime = 0 /\ ended = {}
    /\ obs = [a \in Agents |-> FirstObs]
    /\ turn = [a \in Agents |-> 0]
    /\ steps = [a \in Agents |-> <<>>]
    /\ earned = [a \in Agents |-> 0]

Outcomes == [Agents -> Outcome]
EndedBy(out) == {a \in Agents : Ends(out[a])}

-----------------------------------------------------------------------------
(* The head of the loop, active being env.active_agents *)

Pollable(active) == active \cap Agents  \* mutant: finished ones as well
ToPoll(active) == (active \cap Agents) \ finished

BeginRound(active) ==
    /\ pc = "loop" /\ t < MaxSteps /\ ToPoll(active) # {}
    /\ pc' = "act" /\ t' = t + 1
    /\ acting' = ToPoll(active)
    /\ UNCHANGED <<agentVars, finished, envVars, traceVars>>

ObsKept(o) == obs  \* mutant: current_obs is not updated
ObsOfAll(o) == [a \in Agents |-> o]

(* Only others act: the environment moves on without an action, and the    *)
(* agents that go on see what happened.                                    *)
StepOthers(active, out) ==
    /\ pc = "loop" /\ t < MaxSteps /\ ToPoll(active) = {} /\ active # {}
    /\ t' = t + 1
    /\ envTime' = envTime + 1
    /\ ended' = ended \cup EndedBy(out)
    /\ obs' = ObsOfAll(envTime')
    /\ Hear([a \in Agents \ finished |-> User(envTime')], {})
    /\ UNCHANGED <<pc, acting, finished, turn, steps, earned>>

LeaveLoop ==
    /\ pc = "loop"
    /\ pc' = "return"
    /\ UNCHANGED <<agentVars, t, acting, finished, envVars, traceVars>>

Exhausted == t = MaxSteps /\ LeaveLoop
NobodyActive == t < MaxSteps /\ LeaveLoop   \* active = {}

-----------------------------------------------------------------------------
(* The agents act *)

CallModel(a, target, parse) ==
    /\ pc = "act" /\ a \in acting
    /\ ModelCall(a, target, parse)
    /\ UNCHANGED <<pc, t, acting, finished, envVars, traceVars>>

(* gather passes on the first exception: run raises.                       *)
CallFails ==
    /\ pc = "act" /\ \E a \in acting : ~Returned(a)
    /\ pc' = "raised"
    /\ UNCHANGED <<agentVars, t, acting, finished, envVars, traceVars>>

-----------------------------------------------------------------------------
(* After the gather: no await until the next round *)

Answering(parse) ==
    {a \in acting : FinalCall(a).target = "env" /\ FinalCall(a).parse = parse}

WithAct(a) == steps[a] \o Recorded(calls[a], turn[a], FALSE)

WithOutcome(a, out) ==
    Append(WithAct(a),
      EnvironmentStep(FinalCall(a), turn[a], obs[a], Len(WithAct(a)), out[a]))

(* Agents with an external call are left in their turn: no one handles it. *)
LeftOpen == Answering("error")  \* mutant: the environment's step closes none
ClosedTurns == Answering("action") \cup Answering("error")

(* The answers that parse go to the environment, if there are any.  An     *)
(* agent that sent one gets its outcome; one whose answer did not parse    *)
(* gets the feedback; any other outcome is not looked at.                  *)
TakeRound(out) ==
    LET valid == Answering("action")
        rejected == Answering("error")
        over == valid \cap EndedBy(out)
        news == [a \in (valid \ over) \cup rejected |->
                   IF a \in rejected THEN Feedback ELSE envTime']
    IN  /\ pc = "act" /\ \A a \in acting : Returned(a)
        /\ steps' = [a \in Agents |->
             IF a \in valid THEN WithOutcome(a, out)
             ELSE IF a \in acting THEN WithAct(a) ELSE steps[a]]
        /\ earned' = [a \in Agents |-> earned[a] +
             (IF a \in valid THEN EnvReward + ParserReward("action")
              ELSE IF a \in rejected THEN ParserReward("error") ELSE 0)]
        /\ turn' = [a \in Agents |->
             IF a \in ClosedTurns THEN turn[a] + 1 ELSE turn[a]]
        /\ IF valid # {}
           THEN envTime' = envTime + 1 /\ ended' = ended \cup EndedBy(out)
           ELSE UNCHANGED envVars
        /\ obs' = [a \in Agents |-> IF a \in DOMAIN news THEN news[a] ELSE obs[a]]
        /\ Hear([a \in DOMAIN news |-> User(news[a])], acting)
        /\ finished' = finished \cup over
        /\ pc' = IF finished' = Agents THEN "return" ELSE "loop"
        /\ UNCHANGED <<t, acting>>

(* Every rollout without an end is marked, whatever ended the loop, and    *)
(* the rollouts are returned.                                              *)
ReturnRollouts ==
    /\ pc = "return"
    /\ pc' = "done"
    /\ steps' = [a \in Agents |-> Marked(steps[a])]
    /\ UNCHANGED <<agentVars, t, acting, finished, envVars, obs, turn, earned>>

Stopped == pc \in {"done", "raised"} /\ UNCHANGED vars

Next ==
    \/ \E active \in SUBSET (Agents \cup Others) :
          \/ BeginRound(active)
          \/ \E out \in Outcomes : StepOthers(active, out)
    \/ Exhausted \/ NobodyActive
    \/ \E a \in Agents, target \in Targets, parse \in Parses :
          CallModel(a, target, parse)
    \/ CallFails
    \/ \E out \in Outcomes : TakeRound(out)
    \/ ReturnRollouts
    \/ Stopped

Spec == Init /\ [][Next]_vars

-----------------------------------------------------------------------------

(* Every variable has its type. *)
TypeOK ==
    /\ AgentTypeOK
    /\ pc \in {"loop", "act", "return", "done", "raised"}
    /\ t \in 0..MaxSteps
    /\ acting \subseteq Agents /\ finished \subseteq Agents /\ ended \subseteq Agents
    /\ envTime \in Nat
    /\ obs \in [Agents -> Int] /\ turn \in [Agents -> Nat]
    /\ steps \in [Agents -> Seq(StepRecord)]
    /\ earned \in [Agents -> Int]

(* No agent's rollout costs the batch: whatever the agents reply, whoever  *)
(* acts in a round, _collect_turns and _build_turn_saw_item raise on none. *)
(* A turn may stay open over rounds, an external call nobody handles.      *)
RolloutsCollectable == pc = "done" => \A a \in Agents : Collectable(steps[a])

(* What the environment and the parser gave for an agent's answers is in   *)
(* its own rollout, once: in the samples' rewards and in total_reward.     *)
RewardsCountedOnce ==
    pc = "done" => \A a \in Agents :
        /\ SampleReward(steps[a]) = earned[a]
        /\ TotalReward(steps[a]) = earned[a]

(* Each rollout ends once: one step carries an end, nothing follows it     *)
(* unless the protocol's time limit put it there, and the rollout's        *)
(* truncation_reason is that step's.  An agent the environment ended on    *)
(* its own move is not polled again, even if it is listed as active.       *)
EachEndsOnce ==
    pc = "done" => \A a \in Agents : steps[a] # <<>> => EndedOnce(steps[a])

(* prev_obs is what the agent saw when it answered, also when others moved *)
(* in between: the latest observation in the prompt of the last call of    *)
(* the turn.                                                               *)
EachSawWhatItActedOn == \A a \in Agents : SourceSaw(steps[a])

(* multi_agent.py:284-285: the mark of the time limit is for the agents    *)
(* that "didn't terminate or get truncated by env".                        *)
OnlyUnfinishedMarked ==
    pc = "done" => \A a \in ended : Reason(steps[a]) # "max_steps"
=============================================================================
