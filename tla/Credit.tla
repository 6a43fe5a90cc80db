------------------------------- MODULE Credit -------------------------------
(***************************************************************************)
(* training/credit_assignment.py: from a list of rollouts to the weight of *)
(* every step of every rollout.                                            *)
(*                                                                         *)
(* A rollout is its group_id (NoGroup when its request has none), the      *)
(* rewards of its steps and the steps that total_reward counts, which are  *)
(* those of the environment and those for it that did not parse.           *)
(*                                                                         *)
(* Rewards are integers and a weight is given up to a positive factor:     *)
(* group advantages are GroupSize times those of the code, so that no mean *)
(* has to be divided, and the divisions by a standard deviation (of the    *)
(* group or of the batch) are left out, for they keep sign, order and sum  *)
(* of what they divide.                                                    *)
(***************************************************************************)
EXTENDS Integers, FiniteSets, Sequences, Functions

CONSTANTS
    GroupSize,   \* group_size, of the assigner and of the request strategy
    NoGroup      \* the group_id of a request that was not expanded

ASSUME CreditAssumption == GroupSize \in Nat \ {0}

(* Rollout.total_reward. *)
TotalReturn(rollout) == SumFunctionOnSet(rollout.rewards, rollout.counted)

(* The total rewards of a list of rollouts. *)
Returns(rollouts) == [j \in DOMAIN rollouts |-> TotalReturn(rollouts[j])]

(* The rollouts that share the i-th one's group, by position. *)
GroupOf(rollouts, i) ==
    {j \in DOMAIN rollouts : rollouts[j].group = rollouts[i].group}

(* Without a group_id, or in a group of another size, compute raises. *)
Refused(rollouts) ==
    \E i \in DOMAIN rollouts :
        \/ rollouts[i].group = NoGroup
        \/ Cardinality(GroupOf(rollouts, i)) # GroupSize

(* Bug: the mean is taken over the whole batch. *)
CentredOnBatch(rollouts, i) ==
    GroupSize * TotalReturn(rollouts[i]) - SumFunction(Returns(rollouts))

(* The return of the i-th rollout minus the mean of its group. *)
Centred(rollouts, i) ==
    GroupSize * TotalReturn(rollouts[i])
      - SumFunctionOnSet(Returns(rollouts), GroupOf(rollouts, i))

Positive(n) == IF n > 0 THEN n ELSE 0

(* MonteCarloReturn with gamma = 1: the rewards from a step on. *)
ToGo(rewards, t) == SumFunctionOnSet(rewards, t .. Len(rewards))

(* The assigners with a group contract. *)
GroupAssigners == {"group", "group_positive", "hybrid", "hybrid_positive"}
Assigners == GroupAssigners \union {"montecarlo", "perstep", "episodic", "constant"}

(* What compute gives the t-th step of the i-th rollout. *)
Weight(assigner, rollouts, i, t) ==
    CASE assigner \in {"group", "hybrid"} -> Centred(rollouts, i)
      [] assigner \in {"group_positive", "hybrid_positive"} ->
           Positive(Centred(rollouts, i))
      [] assigner = "montecarlo" -> ToGo(rollouts[i].rewards, t)
      [] assigner = "perstep"    -> rollouts[i].rewards[t]
      [] assigner = "episodic"   -> TotalReturn(rollouts[i])
      [] assigner = "constant"   -> 1

(* Whether the weight of the t-th step comes out infinite or not a number,  *)
(* by which rewards of its rollout are finite and counted. A mean it spoils  *)
(* spoils the weights of other rollouts too, never without those of its own. *)
Diverges(assigner, finite, counted, t) ==
    \E u \in DOMAIN finite :
        /\ ~finite[u]
        /\ \/ assigner \in GroupAssigners \union {"episodic"} /\ u \in counted
           \/ assigner = "montecarlo" /\ u >= t
           \/ assigner = "perstep" /\ u = t

(* compute raises instead of giving a weight. *)
CreditRaises(assigner, rollouts) ==
    assigner \in GroupAssigners /\ Refused(rollouts)
=============================================================================
