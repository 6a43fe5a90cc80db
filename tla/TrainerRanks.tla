---------------------------- MODULE TrainerRanks ----------------------------
(***************************************************************************)
(* Trainer.train on one rank or on several: fetch and preprocess a batch,  *)
(* cut it into micro-batches, accumulate their gradients, take one         *)
(* optimizer step, publish, save, reduce the statistics, evaluate.         *)
(*                                                                         *)
(* With several ranks the model is an FSDPModule.  A collective operation  *)
(* is over when every rank has come to the same one; ranks that have come  *)
(* to different ones wait for each other for ever.  What lies between two  *)
(* collectives each rank does on its own.                                  *)
(***************************************************************************)
EXTENDS Samples, Losses

CONSTANTS
    Confs,       \* what is trained on, by which algorithm, on how many ranks
    NumSteps,    \* num_steps
    SyncEvery,   \* sync_every_steps; 0: never
    SaveEvery,   \* every_n_steps of the checkpoints; 0: the final one only
    LogEvery,    \* cfg.log_every
    EvalEvery,   \* eval_every_n_steps; 0: never
    EvalAtStart  \* eval_at_start

ASSUME TrainerAssumption ==
    /\ NumSteps \in Nat
    /\ SyncEvery \in Nat /\ SaveEvery \in Nat /\ EvalEvery \in Nat
    /\ LogEvery \in Nat \ {0} /\ EvalAtStart \in BOOLEAN
    /\ \A c \in Confs :
         /\ c.world \in Nat \ {0} /\ c.size \in Nat \ {0}
         /\ c.shuffle \in BOOLEAN /\ c.dropLast \in BOOLEAN /\ c.peft \in BOOLEAN
         /\ c.data \in Seq(RolloutData)
         /\ c.algo.assigner \in Assigners /\ c.algo.terms \in Seq(LossTerm)

VARIABLES
    conf,      \* algorithm, source and set-up of the run
    items,     \* the source's items
    served,    \* the version the runtime serves
    pc,        \* what each rank does next
    step,      \* its _train_step_idx
    epoch,     \* epochs its source has begun
    left,      \* items its source has still to give out: of the epoch, or at all
    orders,    \* the order of each epoch so far; the ranks share the seed
    sampled,   \* the version that was served when it fetched its batch
    batch,     \* its batch: positions in items
    todo,      \* what of it has not been put in a micro-batch
    split,     \* the micro-batches made so far
    at,        \* the micro-batch it is at
    grad,      \* the gradient it has accumulated
    merged,    \* whether its LoRA adapters are merged into the weights
    reported   \* the mean weight in the latest statistics

sourceVars == <<epoch, left, orders, sampled>>
splitVars == <<batch, todo, split, at>>
vars == <<conf, items, served, pc, step, sourceVars, splitVars, grad, merged, reported>>

Ranks == 0 .. conf.world - 1

(* A token of an item, and the gradient: a push for each. *)
Tokens == UNION {{<<i, t>> : t \in DOMAIN items[i].tokens} : i \in DOMAIN items}
NoGrad == [token \in Tokens |-> 0]

(* A common multiple of the numbers of items a batch may have, to keep means *)
(* of pushes integers.                                                       *)
Fine == 12

(* What is due after n steps. *)
Due(what, n) ==
    CASE what = "state" -> SyncEvery > 0 /\ n % SyncEvery = 0
      [] what = "save"  -> SaveEvery > 0 /\ n % SaveEvery = 0
      [] what = "stats" -> n % LogEvery = 0
      [] what = "eval"  -> EvalEvery > 0 /\ n % EvalEvery = 0

(* Bug: one step too many. *)
OnwardOnceMore(k, n) ==
    IF k < 1 /\ Due("state", n) THEN "state"
    ELSE IF k < 2 /\ Due("save", n) THEN "save"
    ELSE IF k < 3 /\ Due("stats", n) THEN "stats"
    ELSE IF k < 4 /\ Due("eval", n) THEN "eval"
    ELSE IF n <= NumSteps THEN "fetch" ELSE "final"

(* Where a rank goes after n steps, when it is done with the first k of what *)
(* train_step and train may have to do then: the next one that is due, the   *)
(* next step, or the final save.                                             *)
Onward(k, n) ==
    IF k < 1 /\ Due("state", n) THEN "state"
    ELSE IF k < 2 /\ Due("save", n) THEN "save"
    ELSE IF k < 3 /\ Due("stats", n) THEN "stats"
    ELSE IF k < 4 /\ Due("eval", n) THEN "eval"
    ELSE IF n < NumSteps THEN "fetch" ELSE "final"

(* The group of an item: the number of the sample that was asked for.  The   *)
(* program deals the samples out to the ranks in turn.                       *)
Group(i) == conf.data[items[i].rollout].group

Init ==
    /\ conf \in Confs
    /\ items = IF conf.source = "offline"
               THEN OfflineItems(conf.data, conf.algo.assigner)
               ELSE OnlineItems(conf.data, conf.algo.assigner)
    /\ served = 0
    /\ pc = [r \in Ranks |-> IF EvalAtStart THEN "eval" ELSE Onward(4, 0)]
    /\ step = [r \in Ranks |-> 0]
    /\ epoch = [r \in Ranks |-> 0]
    /\ left = [r \in Ranks |->
                 IF conf.source = "offline" THEN <<>>
                 ELSE Select(Positions(items), {i \in DOMAIN items : Group(i) % conf.world = r})]
    /\ orders = <<>>
    /\ sampled = [r \in Ranks |-> 0]
    /\ batch = [r \in Ranks |-> <<>>]
    /\ todo = [r \in Ranks |-> <<>>]
    /\ split = [r \in Ranks |-> EmptySplit]
    /\ at = [r \in Ranks |-> 0]
    /\ grad = [r \in Ranks |-> NoGrad]
    /\ merged = [r \in Ranks |-> FALSE]
    /\ reported = 0

(* Rank r goes on to place. *)
Goto(r, place) == pc' = [pc EXCEPT ![r] = place]

(* All ranks have come to this collective operation. *)
AllAt(kind) == \A r \in Ranks : pc[r] = kind

-----------------------------------------------------------------------------
(* The batch: next_batch and preprocess *)

(* OfflineBatchSource at the end of an epoch, or before the first one. *)
OpenEpoch(r) ==
    /\ pc[r] = "fetch" /\ conf.source = "offline" /\ left[r] = <<>>
    /\ \E order \in EpochOrders(items, conf.shuffle) :
         LET drawn == Append(orders, order)
             known == IF epoch[r] < Len(orders) THEN orders ELSE drawn
             shard == Whole(Shard(known[epoch[r] + 1], r, conf.world, conf.dropLast),
                            conf.size, conf.dropLast)
         IN  /\ orders' = known
             /\ left' = [left EXCEPT ![r] = shard]
             /\ Goto(r, IF shard = <<>> THEN "raised" ELSE "fetch")
    /\ epoch' = [epoch EXCEPT ![r] = @ + 1]
    /\ UNCHANGED <<conf, items, served, step, sampled, splitVars, grad, merged, reported>>

(* RequestsExhausted: the program goes on to its final save. *)
RunOut(r) ==
    /\ pc[r] = "fetch" /\ conf.source = "queue" /\ left[r] = <<>>
    /\ Goto(r, "final")
    /\ UNCHANGED <<conf, items, served, step, sourceVars, splitVars, grad, merged, reported>>

(* preprocess: drop_zero_weight_samples, then validate_actor_logps. *)
Preprocessed(drawn) ==
    IF conf.algo.drops THEN Select(drawn, {k \in DOMAIN drawn : items[drawn[k]].weight # 0})
    ELSE drawn

(* How much of what is left makes a batch: the items of size requests, or    *)
(* size items of an epoch.                                                   *)
BatchLen(r) ==
    IF conf.source = "offline" THEN Smaller(conf.size, Len(left[r]))
    ELSE Cardinality({k \in DOMAIN left[r] :
                        Cardinality({Group(left[r][j]) : j \in 1 .. k}) <= conf.size})

Invalid(i) ==
    \/ items[i].logps = NoLogps
    \/ Len(items[i].logps) # Cardinality(ActionPositions(items[i]))

(* One turn of train_step's fetch loop.  Items of an offline source have no  *)
(* policy_version, so none is too old; an empty batch is dropped.            *)
Fetch(r) ==
    /\ pc[r] = "fetch" /\ left[r] # <<>>
    /\ LET n == BatchLen(r)
           kept == Preprocessed(SubSeq(left[r], 1, n))
       IN  /\ left' = [left EXCEPT ![r] = SubSeq(@, n + 1, Len(@))]
           /\ batch' = [batch EXCEPT ![r] = kept]
           /\ Goto(r, IF conf.algo.validates /\ \E k \in DOMAIN kept : Invalid(kept[k])
                      THEN "raised"
                      ELSE IF kept = <<>> THEN "fetch" ELSE "split")
    /\ sampled' = [sampled EXCEPT ![r] = served]
    /\ UNCHANGED <<conf, items, served, step, epoch, orders, todo, split, at, grad, merged, reported>>

-----------------------------------------------------------------------------
(* split_items_by_token_budget *)

SortBatch(r) ==
    /\ pc[r] = "split"
    /\ \E p \in Orders([k \in DOMAIN batch[r] |-> Width(items[batch[r][k]])]) :
         todo' = [todo EXCEPT ![r] = [k \in DOMAIN batch[r] |-> batch[r][p[k]]]]
    /\ split' = [split EXCEPT ![r] = EmptySplit]
    /\ at' = [at EXCEPT ![r] = 0]
    /\ Goto(r, "place")
    /\ UNCHANGED <<conf, items, served, step, sourceVars, batch, grad, merged, reported>>

PlaceItem(r) ==
    /\ pc[r] = "place" /\ todo[r] # <<>>
    /\ split' = [split EXCEPT ![r] = Place(@, Head(todo[r]), Width(items[Head(todo[r])]))]
    /\ todo' = [todo EXCEPT ![r] = Tail(@)]
    /\ UNCHANGED <<conf, items, served, pc, step, sourceVars, batch, at, grad, merged, reported>>

CloseSplit(r) ==
    /\ pc[r] = "place" /\ todo[r] = <<>>
    /\ split' = [split EXCEPT ![r] = [EmptySplit EXCEPT !.chunks = Close(split[r])]]
    /\ at' = [at EXCEPT ![r] = 1]
    /\ Goto(r, "collate")
    /\ UNCHANGED <<conf, items, served, step, sourceVars, batch, todo, grad, merged, reported>>

-----------------------------------------------------------------------------
(* The accumulation loop *)

Chunks(r) == split[r].chunks
Chunk(r) == Chunks(r)[at[r]]
Truncated(chunk) == [b \in DOMAIN chunk |-> Truncate(items[chunk[b]])]

CollateChunk(r) ==
    /\ pc[r] = "collate"
    /\ Goto(r, IF CollateRaises(Truncated(Chunk(r))) THEN "raised" ELSE "forward")
    /\ UNCHANGED <<conf, items, served, step, sourceVars, splitVars, grad, merged, reported>>

(* The forward pass gathers the weights, micro-batch for micro-batch. *)
Forward ==
    /\ AllAt("forward")
    /\ pc' = [r \in Ranks |-> "backward"]
    /\ UNCHANGED <<conf, items, served, step, sourceVars, splitVars, grad, merged, reported>>

Rows(chunk, steps) ==
    [b \in DOMAIN chunk |-> Collate(Truncate(items[chunk[b]]), steps)]

(* compute_loss: the push of a mean over rows on the t-th token of the b-th, *)
(* summed over the terms of the loss, times Fine * share / total.            *)
MeanPush(rows, b, t, share, total) ==
    SumFunction([k \in DOMAIN conf.algo.terms |->
        LET loss == conf.algo.terms[k]
        IN  (Fine * share * Push(loss, rows[b], Advantage(loss, rows, b), t))
              \div (Divisor(loss, rows) * total)])

(* Adds the gradient of a chunk; share and total scale its loss. *)
Accumulated(sum, chunk, rows, share, total) ==
    [token \in Tokens |->
        sum[token] + SumFunction([b \in DOMAIN chunk |->
            IF token[1] = chunk[b] /\ token[2] \in ActionTokens(rows[b])
            THEN MeanPush(rows, b, token[2], share, total) ELSE 0])]

(* Bug: the loss of a micro-batch is not scaled by its size. *)
Unscaled(sum, chunk, rows, total) == Accumulated(sum, chunk, rows, 1, 1)

(* "Scale loss by micro-batch size to preserve macro-batch mean." *)
Scaled(sum, chunk, rows, total) == Accumulated(sum, chunk, rows, Len(chunk), total)

(* Loss and backward of a micro-batch; after the last one the gradients of   *)
(* the ranks are combined.                                                   *)
Backward(r) ==
    /\ pc[r] = "backward"
    /\ LET rows == Rows(Chunk(r), step[r])
           last == at[r] = Len(Chunks(r))
       IN  IF \E k \in DOMAIN conf.algo.terms :
                LossRaises(conf.algo.terms[k], items[Chunk(r)[1]].logps # NoLogps, rows)
           THEN Goto(r, "raised") /\ UNCHANGED <<grad, at>>
           ELSE /\ grad' = [grad EXCEPT ![r] =
                              Scaled(@, Chunk(r), rows, Len(batch[r]))]
                /\ at' = [at EXCEPT ![r] = IF last THEN @ ELSE @ + 1]
                /\ Goto(r, IF last THEN "reduce" ELSE "collate")
    /\ UNCHANGED <<conf, items, served, step, sourceVars, batch, todo, split, merged, reported>>

-----------------------------------------------------------------------------
(* The end of the step *)

(* The reduction of the last micro-batch's backward: the mean over the ranks *)
(* of what each has accumulated (their sum here).                            *)
ReduceGradients ==
    /\ AllAt("reduce")
    /\ grad' = [r \in Ranks |->
                  [token \in Tokens |-> SumFunction([s \in Ranks |-> grad[s][token]])]]
    /\ pc' = [r \in Ranks |-> "norm"]
    /\ UNCHANGED <<conf, items, served, step, sourceVars, splitVars, merged, reported>>

(* clip_grad_norm_ needs the norm over all shards; it scales the gradient by *)
(* a positive factor, which is left out.                                     *)
ReduceNorm ==
    /\ AllAt("norm")
    /\ pc' = [r \in Ranks |-> "update"]
    /\ UNCHANGED <<conf, items, served, step, sourceVars, splitVars, grad, merged, reported>>

(* optimizer.step, zero_grad, the step counter, and, if a publish is due,    *)
(* its merge_adapter.                                                        *)
Update(r) ==
    /\ pc[r] = "update"
    /\ grad' = [grad EXCEPT ![r] = NoGrad]
    /\ step' = [step EXCEPT ![r] = @ + 1]
    /\ merged' = [merged EXCEPT ![r] = conf.peft /\ Due("state", step[r] + 1)]
    /\ Goto(r, Onward(0, step[r] + 1))
    /\ UNCHANGED <<conf, items, served, sourceVars, splitVars, reported>>

(* Bug: ranks other than 0 return before the try. *)
GatherAndLeave ==
    /\ AllAt("state")
    /\ pc' = [r \in Ranks |-> IF r = 0 THEN "publish" ELSE Onward(1, step[r])]
    /\ UNCHANGED <<conf, items, served, step, sourceVars, splitVars, grad, merged, reported>>

(* _push_weights_to_runtime: all ranks gather the weights; all but rank 0    *)
(* return, and on their way out unmerge.                                     *)
GatherState ==
    /\ AllAt("state")
    /\ pc' = [r \in Ranks |-> IF r = 0 THEN "publish" ELSE Onward(1, step[r])]
    /\ merged' = [r \in Ranks |-> r = 0 /\ merged[r]]
    /\ UNCHANGED <<conf, items, served, step, sourceVars, splitVars, grad, reported>>

(* Bug: the version is that of the step before. *)
PublishLate ==
    /\ pc[0] = "publish"
    /\ served' = step[0] - 1
    /\ merged' = [merged EXCEPT ![0] = FALSE]
    /\ Goto(0, Onward(1, step[0]))
    /\ UNCHANGED <<conf, items, step, sourceVars, splitVars, grad, reported>>

(* The publisher returns on rank 0 when the runtime serves the new weights. *)
Publish ==
    /\ pc[0] = "publish"
    /\ served' = step[0]
    /\ merged' = [merged EXCEPT ![0] = FALSE]
    /\ Goto(0, Onward(1, step[0]))
    /\ UNCHANGED <<conf, items, step, sourceVars, splitVars, grad, reported>>

-----------------------------------------------------------------------------
(* CheckpointManager.save, from maybe_save or from the program at its end *)

(* The places of a periodic save, and those of the final one. *)
Saving == [start |-> "save", optimizer |-> "optimizer", model |-> "model", rest |-> "rest"]
SavingLast ==
    [start |-> "final", optimizer |-> "last_optimizer", model |-> "last_model", rest |-> "last_rest"]

(* Rank 0 makes the directory; a barrier; the weights are gathered, and      *)
(* rank 0 writes them before it comes to the next collective.                *)
GatherModel(save) ==
    /\ AllAt(save.start)
    /\ pc' = [r \in Ranks |-> IF r = 0 THEN save.model ELSE save.optimizer]
    /\ UNCHANGED <<conf, items, served, step, sourceVars, splitVars, grad, merged, reported>>

WriteModel(save) ==
    /\ pc[0] = save.model
    /\ Goto(0, save.optimizer)
    /\ UNCHANGED <<conf, items, served, step, sourceVars, splitVars, grad, merged, reported>>

(* Where a rank goes when the save is over. *)
Saved(save, r) == IF save = Saving THEN Onward(2, step[r]) ELSE "returned"

(* The state of the optimizer is gathered; the other ranks are done. *)
GatherOptimizer(save) ==
    /\ AllAt(save.optimizer)
    /\ pc' = [r \in Ranks |-> IF r = 0 THEN save.rest ELSE Saved(save, r)]
    /\ UNCHANGED <<conf, items, served, step, sourceVars, splitVars, grad, merged, reported>>

(* Rank 0 writes it, the metadata and the pointer, and prunes. *)
WriteRest(save) ==
    /\ pc[0] = save.rest
    /\ Goto(0, Saved(save, 0))
    /\ UNCHANGED <<conf, items, served, step, sourceVars, splitVars, grad, merged, reported>>

-----------------------------------------------------------------------------
(* Statistics and evaluation *)

WeightSum(seq) == SumFunction([k \in DOMAIN seq |-> items[seq[k]].weight])

(* aggregate_stats on a rank: the means of its micro-batches, each weighted  *)
(* by its size (in units of 1 / Fine).                                       *)
LocalMean(r) ==
    SumFunction([k \in DOMAIN Chunks(r) |->
        ((Fine * WeightSum(Chunks(r)[k])) \div Len(Chunks(r)[k])) * Len(Chunks(r)[k])])
      \div SumFunction([k \in DOMAIN Chunks(r) |-> Len(Chunks(r)[k])])

(* Bug: every rank counts as much. *)
MeanOfMeans == SumFunction([r \in Ranks |-> LocalMean(r)]) \div conf.world

(* _maybe_reduce_stats_across_ranks: weighted by the items of each rank. *)
ReducedMean ==
    SumFunction([r \in Ranks |-> LocalMean(r) * Len(batch[r])])
      \div SumFunction([r \in Ranks |-> Len(batch[r])])

ReduceStats ==
    /\ AllAt("stats")
    /\ reported' = ReducedMean
    /\ pc' = [r \in Ranks |-> Onward(3, step[r])]
    /\ UNCHANGED <<conf, items, served, step, sourceVars, splitVars, grad, merged>>

(* Bug: only rank 0 waits at the second barrier. *)
EnterAndGoOn ==
    /\ AllAt("eval")
    /\ pc' = [r \in Ranks |-> IF r = 0 THEN "evaluate" ELSE Onward(4, step[r])]
    /\ UNCHANGED <<conf, items, served, step, sourceVars, splitVars, grad, merged, reported>>

(* eval: after a barrier rank 0 evaluates, and the others wait at a second. *)
EnterEval ==
    /\ AllAt("eval")
    /\ pc' = [r \in Ranks |-> IF r = 0 THEN "evaluate" ELSE "leave"]
    /\ UNCHANGED <<conf, items, served, step, sourceVars, splitVars, grad, merged, reported>>

Evaluate ==
    /\ pc[0] = "evaluate"
    /\ Goto(0, "leave")
    /\ UNCHANGED <<conf, items, served, step, sourceVars, splitVars, grad, merged, reported>>

LeaveEval ==
    /\ AllAt("leave")
    /\ pc' = [r \in Ranks |-> Onward(4, step[r])]
    /\ UNCHANGED <<conf, items, served, step, sourceVars, splitVars, grad, merged, reported>>

-----------------------------------------------------------------------------
(* What one rank does on its own. *)
Alone(r) ==
    \/ OpenEpoch(r) \/ RunOut(r) \/ Fetch(r)
    \/ SortBatch(r) \/ PlaceItem(r) \/ CloseSplit(r)
    \/ CollateChunk(r) \/ Backward(r) \/ Update(r)

(* What only rank 0 does. *)
Primary ==
    \/ Publish
    \/ \E save \in {Saving, SavingLast} : WriteModel(save) \/ WriteRest(save)
    \/ Evaluate

Collective ==
    \/ Forward \/ ReduceGradients \/ ReduceNorm \/ GatherState
    \/ \E save \in {Saving, SavingLast} : GatherModel(save) \/ GatherOptimizer(save)
    \/ ReduceStats \/ EnterEval \/ LeaveEval

Next == Primary \/ Collective \/ \E r \in Ranks : Alone(r)

Spec == Init /\ [][Next]_vars

(* Some rank that can go on does; it need not be any particular one. *)
FairSpec == Spec /\ WF_vars(Next)

-----------------------------------------------------------------------------
(* Type invariant. *)
Places ==
    {"fetch", "split", "place", "collate", "forward", "backward", "reduce", "norm",
     "update", "state", "publish", "stats", "eval", "evaluate", "leave",
     "save", "model", "optimizer", "rest",
     "final", "last_model", "last_optimizer", "last_rest", "returned", "raised"}

TypeOK ==
    /\ conf \in Confs /\ items \in Seq(Item)
    /\ served \in 0 .. NumSteps
    /\ pc \in [Ranks -> Places]
    /\ step \in [Ranks -> 0 .. NumSteps]
    /\ epoch \in [Ranks -> Nat]
    /\ \A r \in Ranks :
         /\ \A q \in {left[r], batch[r], todo[r], split[r].current} :
              \A k \in DOMAIN q : q[k] \in DOMAIN items
         /\ at[r] \in 0 .. Len(Chunks(r))
    /\ merged \in [Ranks -> BOOLEAN]
    /\ grad \in [Ranks -> [Tokens -> Int]]
    /\ reported \in Int

(* split_items_by_token_budget: no micro-batch is empty, and none, padded to *)
(* its widest item, has more tokens than the budget.                         *)
Fits(chunk) ==
    /\ chunk # <<>>
    /\ \A k \in DOMAIN chunk : Width(items[chunk[k]]) * Len(chunk) <= TokenBudget

ChunksFit == \A r \in Ranks : \A k \in DOMAIN Chunks(r) : Fits(Chunks(r)[k])

(* The row of an item that was cut to MaxSeqLen, each action token of which  *)
(* has the log-probability it was itself sampled with.                       *)
IdealRow(item, steps) ==
    LET shown == [t \in 1 .. Width(item) |-> item.tokens[t]]
    IN  [mask |-> [t \in DOMAIN shown |-> shown[t].action],
         new  |-> [t \in DOMAIN shown |-> shown[t].sampled + steps * shown[t].drift],
         old  |-> [t \in DOMAIN shown |->
                     IF item.logps # NoLogps /\ shown[t].action = 1 THEN shown[t].sampled ELSE 0],
         weight |-> item.weight]

WholeBatch(r) ==
    Accumulated(NoGrad, batch[r],
                [b \in DOMAIN batch[r] |-> IdealRow(items[batch[r][b]], step[r])], 1, 1)

(* "Scale loss by micro-batch size to preserve macro-batch mean": what the   *)
(* optimizer is given is the gradient of the loss over the batch of each     *)
(* rank as a whole, however it was cut into micro-batches and its items cut  *)
(* to max_seq_len.                                                           *)
MacroMean ==
    AllAt("norm") =>
        LET whole == [r \in Ranks |-> WholeBatch(r)]
        IN  \A r \in Ranks, token \in Tokens :
              grad[r][token] = SumFunction([s \in Ranks |-> whole[s][token]])

(* The log-ratio of a token has left the clip range on the side to which the *)
(* advantage would push it on.                                               *)
Beyond(loss, row, adv, t) ==
    LET outside(ratio) == \/ adv > 0 /\ ratio > loss.high
                          \/ adv < 0 /\ ratio < loss.low
    IN  CASE loss.kind = "token_clipped" -> outside(Ratio(row, t))
          [] loss.kind = "clipped"       -> outside(SeqRatio(loss, row))
          [] loss.kind = "gmpo"          -> Signed(row, adv, t) > loss.high

(* The clipped losses never push a token against its advantage, nor further  *)
(* in its direction once its ratio is out of the trust region, whatever      *)
(* other items its micro-batch had.                                          *)
TrustRegion ==
    \A r \in Ranks : \A loss \in ToSet(conf.algo.terms) :
        pc[r] = "reduce" /\ loss.kind \in {"clipped", "token_clipped", "gmpo"} =>
            \A i \in ToSet(batch[r]) :
                LET row == IdealRow(items[i], step[r])
                IN  \A t \in ActionTokens(row) :
                      /\ Sign(grad[r][<<i, t>>]) \in {0, Sign(row.weight)}
                      /\ Beyond(loss, row, row.weight, t) => grad[r][<<i, t>>] = 0

(* Ranks that meet in a collective operation have taken the same steps and   *)
(* are at the same micro-batch; the weights gathered for the runtime are the *)
(* merged ones, and no forward pass uses merged weights.  Only rank 0 is     *)
(* ever busy while the others wait for it.                                   *)
Lockstep ==
    /\ \A kind \in Places :
         AllAt(kind) => \A r, s \in Ranks : step[r] = step[s] /\ merged[r] = merged[s]
    /\ AllAt("state") => (merged[0] <=> conf.peft)
    /\ AllAt("forward") => \A r \in Ranks : at[r] = at[0] /\ ~merged[r]
    /\ pc[0] = "evaluate" => \A r \in Ranks \ {0} : pc[r] = "leave"

(* The version of the latest publish that is due by a step. *)
LatestSync(n) == IF SyncEvery = 0 THEN 0 ELSE SyncEvery * (n \div SyncEvery)

(* The batch that rank 0 trains on was sampled from the latest policy it has *)
(* published; the other ranks do not wait for the publish, and train on      *)
(* samples of that policy or of the one before.                              *)
AtMostOneSyncBehind ==
    \A r \in Ranks : pc[r] = "forward" =>
        \/ sampled[r] = LatestSync(step[r])
        \/ r # 0 /\ sampled[r] = LatestSync(step[r]) - SyncEvery

(* What is logged for a step is the mean over the items of all ranks,        *)
(* however many each has and however they were cut into micro-batches.       *)
ReportedIsMean ==
    [][ReduceStats =>
         reported' = (Fine * SumFunction([r \in Ranks |-> WeightSum(batch[r])]))
                       \div SumFunction([r \in Ranks |-> Len(batch[r])])]_vars

(* Every rank comes to the end of train and of the final save, or raises. *)
TrainReturns == <>(\A r \in Ranks : pc[r] \in {"returned", "raised"})
=============================================================================
