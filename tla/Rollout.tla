------------------------------ MODULE Rollout ------------------------------
(***************************************************************************)
(* What an episode leaves behind for training: the steps of one agent's    *)
(* rollout, the mark of the time limit, the metadata derived from it, and  *)
(* what RolloutEngine demands before it turns a rollout into one sample    *)
(* per turn.  Both protocols, SingleAgent and MultiAgent, build on it.     *)
(*                                                                         *)
(* A message of a prompt is its role and what tells it apart: a user       *)
(* message the observation, an assistant message whether its text parses.  *)
(* Rewards are small integers, chosen so that one counted twice, or on the *)
(* wrong side, changes every sum.                                          *)
(***************************************************************************)
EXTENDS Integers, SequencesExt

Feedback == -1  \* the synthetic observation after a parse error
NoObs == -2     \* of a step that has no prev_obs

User(obs) == <<"user", obs>>
Assistant(parse) == <<"assistant", parse>>
ToolResult == <<"tool", "result">>
FinalInstruction == <<"final", "final_answer_prompt">>

Targets == {"internal", "external", "env"}
Parses == {"action", "error"}   \* ParseResult with an action, or without

(* The parser rewards a well-formed answer and penalises any other; the    *)
(* environment pays EnvReward for every step.                              *)
ParserReward(parse) ==
    CASE parse = "action" -> 1 [] parse = "error" -> -2 [] OTHER -> 0
EnvReward == 10

(* split_parser_reward: the reward of an answer that goes to the           *)
(* environment moves to the environment's step.                            *)
EverythingMoves(target, parse) == target = "env"  \* mutant: penalties move too

MovesToEnv(target, parse) == target = "env" /\ parse = "action"

AgentReward(target, parse) ==
    IF MovesToEnv(target, parse) THEN 0 ELSE ParserReward(parse)
EnvParserReward(target, parse) ==
    IF MovesToEnv(target, parse) THEN ParserReward(parse) ELSE 0

-----------------------------------------------------------------------------
(* Steps.  source is the position of the agent step an environment step    *)
(* names as its source; why is info["truncation_reason"].                  *)

AgentStep(call, turn, term) ==
    [kind |-> "agent", turn |-> turn, target |-> call.target,
     parse |-> call.parse, prompt |-> call.prompt,
     seen |-> NoObs, source |-> 0,
     reward |-> AgentReward(call.target, call.parse),
     term |-> term, trunc |-> FALSE, why |-> "none"]

EnvironmentStep(call, turn, seen, source, out) ==
    [kind |-> "env", turn |-> turn, target |-> call.target,
     parse |-> call.parse, prompt |-> <<>>,
     seen |-> seen, source |-> source,
     reward |-> EnvReward + EnvParserReward(call.target, call.parse),
     term |-> out.term, trunc |-> out.trunc, why |-> "none"]

(* The steps recorded for the calls of one act(). *)
Recorded(calls, turn, stopOnParseError) ==
    [k \in DOMAIN calls |->
        AgentStep(calls[k], turn,
            /\ calls[k].target = "env" /\ calls[k].parse = "error"
            /\ stopOnParseError)]

(* What the environment can answer to an action. *)
Outcome == [term : BOOLEAN, trunc : BOOLEAN]
Ends(out) == out.term \/ out.trunc

-----------------------------------------------------------------------------
(* The end of an episode *)

(* The step that carries the end: the last one of the environment, or the  *)
(* last one if the environment was never reached.                          *)
EndStep(steps) ==
    LET env == SelectLastInSeq(steps, LAMBDA s : s.kind = "env")
    IN  IF env # 0 THEN env ELSE Len(steps)

Marked(steps) ==
    LET e == EndStep(steps)
    IN  IF steps = <<>> \/ Ends(steps[e]) THEN steps
        ELSE [steps EXCEPT ![e] = [@ EXCEPT !.trunc = TRUE, !.why = "max_steps"]]

(* episode_truncated is reason # "none". *)
Reason(steps) ==
    IF steps = <<>> THEN "none"
    ELSE LET s == steps[EndStep(steps)]
         IN  CASE s.term \/ ~s.trunc -> "none"
               [] ~s.term /\ s.trunc /\ s.why = "max_steps" -> "max_steps"
               [] OTHER -> "env"

-----------------------------------------------------------------------------
(* From a rollout to training samples *)

SameTurn(steps, i, j) == \A k \in i..j : steps[k].turn = steps[i].turn

(* What _collect_turns and _build_turn_saw_item demand of the turns of a   *)
(* rollout: each has an agent step and at most one environment step, and   *)
(* its prompts extend the previous one and the completion that followed    *)
(* it. What they demand of traces, log-probs and rewards is left to the    *)
(* collation in RolloutEngine.                                             *)
Collectable(steps) ==
    LET N == DOMAIN steps
        agents == {k \in N : steps[k].kind = "agent"}
        envs == N \ agents
        Later(i, j) == i < j /\ SameTurn(steps, i, j)
    IN  /\ \A i, j \in envs : ~Later(i, j)
        /\ \A i \in envs : \E j \in agents : Later(i, j) \/ Later(j, i)
        /\ \A i, j \in agents :
              Later(i, j) =>
                IsPrefix(Append(steps[i].prompt, Assistant(steps[i].parse)),
                         steps[j].prompt)

(* The step that gives a turn's sample its reward and weight. *)
FinalSteps(steps) ==
    {k \in DOMAIN steps :
        IF steps[k].kind = "env" THEN TRUE
        ELSE \A j \in DOMAIN steps :
                /\ j > k => ~SameTurn(steps, k, j)
                /\ j < k /\ steps[j].kind = "env" => ~SameTurn(steps, j, k)}

RewardOf(steps, ks) == SumFunctionOnSet([k \in DOMAIN steps |-> steps[k].reward], ks)
SampleReward(steps) == RewardOf(steps, FinalSteps(steps))
TotalReward(steps) ==
    RewardOf(steps, {k \in DOMAIN steps :
        \/ steps[k].kind = "env"
        \/ steps[k].target = "env" /\ steps[k].parse = "error"})

(* One step carries an end; nothing follows it unless the time limit put   *)
(* it there; the rollout's metadata says the same.                         *)
EndedOnce(steps) ==
    \E e \in DOMAIN steps :
        /\ {k \in DOMAIN steps : Ends(steps[k])} = {e}
        /\ e = Len(steps) \/ steps[e].why = "max_steps"
        /\ Reason(steps) =
             IF steps[e].term THEN "none"
             ELSE IF steps[e].why = "max_steps" THEN "max_steps" ELSE "env"

(* An environment step names as source the last call of its turn, and its  *)
(* prev_obs is the latest user message of the prompt that call answered.   *)
SourceSaw(steps) ==
    \A e \in DOMAIN steps : steps[e].kind = "env" =>
        LET s == steps[steps[e].source]
            said == SelectLastInSeq(s.prompt, LAMBDA m : m[1] = "user")
        IN  /\ s.kind = "agent" /\ s.turn = steps[e].turn
            /\ s.prompt[said] = User(steps[e].seen)
=============================================================================
