------------------------------ MODULE Samples ------------------------------
(***************************************************************************)
(* From rollouts to the items a trainer is given.  OfflineBatchSource       *)
(* (training/batching/offline.py) makes one of every step it selects, once, *)
(* and deals them out to the ranks, epoch after epoch, with torch's          *)
(* samplers and DataLoader.  The rollout engine                              *)
(* (training/batching/rollout_engine.py) makes one of every turn.            *)
(*                                                                         *)
(* A rollout is [group, steps]; a step its reward, kind, target and parse   *)
(* error, whether it is the last one of its turn, the tokens it adds, and    *)
(* whether their log-probs were recorded (traced), which holds for all the   *)
(* steps of a turn or for none.                                              *)
(***************************************************************************)
EXTENDS Credit, MicroBatching

StepData ==
    [reward : Int, kind : {"agent", "env"}, target : {"env", "internal", "external"},
     parseError : BOOLEAN, final : BOOLEAN, tokens : Seq(Token), traced : BOOLEAN]
RolloutData == [group : Nat, steps : Seq(StepData)]

(* default_step_selector: environment steps, and agent steps for the        *)
(* environment that did not parse.  total_reward counts the same ones.      *)
Selected(step) == step.kind = "env" \/ (step.target = "env" /\ step.parseError)

(* What the credit assigner sees. *)
CreditView(data) ==
    [i \in DOMAIN data |->
        [group |-> data[i].group,
         rewards |-> [t \in DOMAIN data[i].steps |-> data[i].steps[t].reward],
         counted |-> {t \in DOMAIN data[i].steps : Selected(data[i].steps[t])}]]

(* step_to_item of make_chat_template_step_to_item: prompt and completion,   *)
(* without the log-probs of who wrote it.                                    *)
StepItem(data, i, t, weight) ==
    [rollout |-> i, tokens |-> data[i].steps[t].tokens, weight |-> weight, logps |-> NoLogps]

OfflineItems(data, assigner) ==
    LET itemsOf(i) ==
          LET chosen == {t \in DOMAIN data[i].steps : Selected(data[i].steps[t])}
          IN  Select([t \in DOMAIN data[i].steps |->
                        StepItem(data, i, t, Weight(assigner, CreditView(data), i, t))], chosen)
    IN  FlattenSeq([i \in DOMAIN data |-> itemsOf(i)])

(* The log-probs of each agent step follow those of the one before. *)
Traces(steps) ==
    LET logps(s) == Select([t \in DOMAIN s.tokens |-> s.tokens[t].sampled], ActionPositions(s))
    IN  FlattenSeq([k \in DOMAIN steps |-> logps(steps[k])])

(* _build_turn_saw_item: the tokens and log-probs of the agent steps of the  *)
(* turn, one after the other.                                                *)
TurnItem(data, i, turn, weight) ==
    LET agents == Select(turn, {t \in DOMAIN turn : turn[t].kind = "agent"})
    IN  [rollout |-> i, weight |-> weight,
         tokens |-> FlattenSeq([k \in DOMAIN agents |-> agents[k].tokens]),
         logps |-> IF agents[1].traced THEN Traces(agents) ELSE NoLogps]

(* One item per turn, with the credit of its last step. *)
OnlineItems(data, assigner) ==
    LET itemsOf(i) ==
          LET steps == data[i].steps
              ends == {t \in DOMAIN steps : steps[t].final}
              from(n) == IF n = 1 THEN 1 ELSE Nth(ends, n - 1) + 1
          IN  [n \in 1 .. Cardinality(ends) |->
                 TurnItem(data, i, SubSeq(steps, from(n), Nth(ends, n)),
                          Weight(assigner, CreditView(data), i, Nth(ends, n)))]
    IN  FlattenSeq([i \in DOMAIN data |-> itemsOf(i)])

-----------------------------------------------------------------------------
(* DistributedSampler: every world-th position, from rank + 1 on, of an      *)
(* order that all ranks share; its length is made a multiple of world, by     *)
(* leaving some out (drop_last) or by starting over.                         *)
Shard(order, rank, world, dropLast) ==
    LET share == IF dropLast THEN Len(order) \div world
                 ELSE (Len(order) + world - 1) \div world
    IN  [k \in 1 .. share |-> order[((rank + (k - 1) * world) % Len(order)) + 1]]

(* DataLoader with drop_last hands out whole batches only. *)
Whole(shard, size, dropLast) ==
    IF dropLast THEN SubSeq(shard, 1, size * (Len(shard) \div size)) ELSE shard

Positions(items) == [k \in DOMAIN items |-> k]

(* The orders an epoch may have. *)
EpochOrders(items, shuffle) ==
    IF shuffle THEN {p \in [DOMAIN items -> DOMAIN items] : IsInjective(p)}
    ELSE {Positions(items)}
=============================================================================
