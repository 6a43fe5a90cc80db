--------------------------- MODULE MCTrainerRanks ---------------------------
(* Three steps of every preset: one rank with batches of three items, which  *)
(* make one micro-batch or two; two or three ranks with one each.            *)
EXTENDS TrainerRanks

Prompt == [action |-> 0, sampled |-> 0, drift |-> 0]
Chosen(s, d) == [action |-> 1, sampled |-> s, drift |-> d]

(* One token, the model's; two; three, of which two are the model's; four, the last one of   *)
(* which is cut off.                                                         *)
Single == <<Chosen(-1, 1)>>
Short == <<Prompt, Chosen(-1, 1)>>
Middle == <<Prompt, Chosen(-2, 1), Chosen(-1, -1)>>
Long == <<Prompt, Prompt, Chosen(-2, -1), Chosen(-1, 1)>>

(* A step of the model, which ends the turn when it does not parse; with the *)
(* environment's answer, it makes a turn.                                    *)
AgentStep(tokens, target, fails) ==
    [reward |-> IF fails THEN -1 ELSE 0, kind |-> "agent", target |-> target,
     parseError |-> fails, final |-> fails, tokens |-> tokens, traced |-> TRUE]
EnvStep(tokens, reward) ==
    [AgentStep(tokens, "env", FALSE) EXCEPT !.kind = "env", !.reward = reward, !.final = TRUE]
Turn(tokens, reward) == <<AgentStep(tokens, "env", FALSE), EnvStep(tokens, reward)>>
ToolTurn(tokens, reward) == <<AgentStep(Single, "internal", FALSE)>> \o Turn(tokens, reward)
FailedTurn(tokens) == <<AgentStep(tokens, "env", TRUE)>>
Untraced(steps) == [k \in DOMAIN steps |-> [steps[k] EXCEPT !.traced = FALSE]]

Rolled(group, steps) == [group |-> group, steps |-> steps]

(* Groups of two rollouts with any three items, with three of which two are  *)
(* as wide, with three short ones, with two; and with equal rewards.         *)
AnyThree(g, a, b, c) == <<Rolled(g, Turn(a, 0) \o Turn(b, 1)), Rolled(g, Turn(c, 0))>>
Mixed(g) == <<Rolled(g, ToolTurn(Short, 0) \o Turn(Middle, 1)), Rolled(g, FailedTurn(Long))>>
Shorts(g) == <<Rolled(g, Turn(Short, 1) \o Turn(Short, 1)), Rolled(g, Turn(Short, 0))>>
Pair(g) == <<Rolled(g, Turn(Middle, 0)), Rolled(g, Turn(Short, 1))>>
Even(g) == <<Rolled(g, Turn(Middle, 1)), Rolled(g, Turn(Long, 1))>>
Gap(g) == <<Rolled(g, Untraced(Turn(Short, 1))), Rolled(g, Turn(Middle, 0))>>

Queue(algo, data, size, world, peft) ==
    [algo |-> algo, source |-> "queue", data |-> data, size |-> size, world |-> world,
     shuffle |-> FALSE, dropLast |-> FALSE, peft |-> peft]
Offline(algo, data, size, world, shuffle, dropLast, peft) ==
    [Queue(algo, data, size, world, peft) EXCEPT
        !.source = "offline", !.shuffle = shuffle, !.dropLast = dropLast]

Algos == {Reinforce(FALSE), Grpo(FALSE, 3 * Unit), DrGrpo(FALSE), Gspo(FALSE),
          Cispo(FALSE), Sapo(FALSE), Gmpo(FALSE), ScaleRL(FALSE), ScaleRL(TRUE)}
Shapes == {Single, Short, Middle, Long}

OneRank ==
    {Queue(algo, AnyThree(0, a, b, c) \o Mixed(1) \o AnyThree(2, c, a, b), 1, 1, FALSE) :
        algo \in Algos, a, b, c \in Shapes}
      \union {Queue(ReinforceBaseline(TRUE), Pair(0) \o Pair(1), 1, 1, TRUE),
              Queue(Grpo(TRUE, NoClip), Even(0) \o Mixed(1) \o Even(2), 1, 1, FALSE),
              Queue(Gmpo(FALSE), Mixed(0) \o Gap(1), 2, 1, FALSE),
              Queue(Reinforce(FALSE), Mixed(0) \o Gap(1), 2, 1, FALSE),
              Offline(Sft, Mixed(0), 3, 1, TRUE, FALSE, FALSE),
              Offline(Sft, Mixed(0) \o Pair(1), 3, 1, FALSE, TRUE, TRUE),
              Offline(Reinforce(FALSE), Mixed(0), 3, 1, FALSE, FALSE, FALSE),
              Offline(Sft, Pair(0), 3, 1, FALSE, TRUE, FALSE)}

MoreRanks ==
    {Queue(Grpo(TRUE, NoClip), Shorts(0) \o Pair(1) \o Pair(2) \o Shorts(3) \o Pair(4) \o Pair(5),
           1, 2, FALSE),
     Queue(ScaleRL(FALSE), Pair(0) \o Pair(1) \o Shorts(2) \o Pair(3), 1, 2, TRUE),
     Queue(Cispo(FALSE), Pair(0) \o Shorts(1) \o Pair(2) \o Shorts(3) \o Pair(4) \o Pair(5),
           1, 3, TRUE),
     Offline(Sft, Mixed(0), 2, 2, FALSE, FALSE, TRUE)}

MCConfs == OneRank \union MoreRanks

(* Two ranks, one of which needs one micro-batch more. *)
UnevenConfs == {Offline(Sft, Pair(0) \o Pair(1) \o Pair(2), 3, 2, FALSE, FALSE, FALSE)}

(* REINFORCE with a baseline, with two micro-batches. *)
BaselineConfs == {Queue(ReinforceBaseline(FALSE), Mixed(0), 1, 1, FALSE)}
=============================================================================
