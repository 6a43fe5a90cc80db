# Ludic in TLA+

Ludic trains language-model agents: episodes are played against a vLLM server,
collated into training items, and a trainer takes optimizer steps on them and
publishes its weights back into the running server. This directory holds
TLA+ modules of that machinery, the TLC runs that check them and the TLAPS
proofs of their main properties. `src/...` paths are relative to the directory
above the repository checkout (`src/src/ludic` is the package).

## The system and its hard parts

| Component | State | Operations | What is hard |
|---|---|---|---|
| Trainer (`training/trainer.py`) | step counter, popped batch, accumulated gradients | `train_step`, `_push_weights_to_runtime`, `eval`, `save_checkpoint`, resume | the publish inside the step; the lag filter; collectives of several ranks |
| Publisher and control plane (`distributed/`) | none of its own | announce, broadcast, barrier, finalize | four participants that wait for each other; errors half way |
| vLLM server (`inference/vllm_server.py`) | `background_tasks`, semaphore, `RUNTIME_VERSION`, per-request thinking state | `update_param_batch`, `runtime_version`, `reset_prefix_cache`, logits processor | the HTTP call returns before its work is done; requests keep running |
| Workers | weights, prefix cache | `update_param_batch` receive loop, model steps | they advance independently while weights arrive tensor by tensor |
| vLLM client (`inference/vllm_client.py`) | communicator | completion, version poll, `sync_weights` | failures that answer 0 |
| Pipeline actor, Redis source (`training/batching/pipeline.py`) | current version, tagged requests; the Redis list | poll, tag, generate, push; pop | everything is stale by the time it is used; any call may fail |
| Rollout engine (`training/batching/rollout_engine.py`) | a semaphore for each call, running episodes, the log | `generate_rollouts`, `generate_batch` | many concurrent episodes; the first error ends the call and leaves the others running |
| Episode protocols (`interaction/`) | open turn, observations, rollout of each agent | `run` of single and multi agent | early ends, parse errors, tools, turns that stay open, truncation marks |
| Agents (`agents/`), contexts (`context/`) | the transcript | `act`, tool loops | the steps of a turn must form one token trace |
| Checkpoints (`training/checkpoint.py`) | files | save, prune, pointer, load | crashes between the files |
| Requests, groups, credit (`training/batching`, `training/credit_assignment.py`) | the samples left | `requests_fn`, `expand`, `compute` | group sizes, what makes rewards comparable |
| Micro-batching (`training/batching/micro_batching.py`) | none | `split_items_by_token_budget`, `collate_saw_items` | the budget, truncation that must cut log-probs with tokens |
| Offline source (`training/batching/offline.py`) | epoch, index | `next_batch`, `iter_epoch` | exhaustion, remainders, shards of ranks |
| Algorithms and losses (`training/algorithm.py`, `training/loss.py`) | none | the presets, `compute` | signs, clip sides, means over tokens, rows and micro-batches |
| Statistics (`training/stats.py`) | none | `aggregate_stats`, the reduction over ranks | means of means |
| Evaluation, loggers, parsers | | | I/O and text |

Components call one another directly inside a process; between processes there
are HTTP calls (trainer, actors and server), the NCCL group (publisher and
workers), the Redis list (actors and trainer) and the file system (a trainer and
its successor).

## Modules

* `PolicyStore`: the abstract specification of publishing. One publisher hands
  versions to one server; `loaded` is what requests are answered with,
  `reported` what clients are told, and a publish goes through Begin, Apply,
  Report, Return.
* `WeightSync`: the protocol that carries it out. `TrainStep`, `Announce`,
  `Broadcast`, `ArriveBarrier`, `FinalizePoll` are the trainer
  thread in `train_step` and `BroadcastPolicyPublisher.publish`; `StartUpdate`,
  `RpcReturns`, `ResetPrefixCache`, `BumpVersion` the stages of the
  asyncio task `do_update_batch`; `EnterRpc`, `Receive` the workers' receive
  loop, `Serve` the inference they do at any other time and `Finish` its end, `GroupBarrier` the
  common step of the NCCL barrier. Every call of it may raise: `AnnounceFails`, `PublisherFails` (a
  broadcast or the barrier), `PollFails` in the trainer, `CallFails`, `RpcFails`, `ResetFails` in the task,
  `LoadFails` in a worker (a broadcast, `load_weights`, the barrier); the constant `Faults` says which of these an instance has.
  A publish that raised ends the trainer (`pub` is "dead", or "blind" when it was the poll), a task that
  raised is gone, a worker that raised is out of the rpc with what it had loaded ("raised").
  A tensor's value is the optimizer step it was
  copied at; a prefix cache is the set of steps whose weights filled it. The engine clears a cache only
  while no running request holds blocks of it: `busy` are the workers with such requests, and `refused` those on which
  the last reset returned `False` and cleared nothing, an answer `vllm_server.py:464` does not look at.
* `Pipeline`: actors, queue and trainer, built on the actions of `PolicyStore`.
  `PollVersion`, `SampleToken`, `GenerateBatch`, `Push` are the stages of
  `run_pipeline_actor`; `PopItem` is `next_batch`; `DropBatch` and `TrainBatch`
  are the two ends of `train_step`'s fetch loop; `Resume` is a trainer started
  again with `resume_from`, at any step it has been at. An item is reduced to its tag and to the oldest
  weights that sampled a token of it, which only the model knows.
* `Checkpoint`: the files of a checkpoint directory and the processes that save
  into it one after another. `MakeDir`, `WriteFile`, `WriteLatestPointer`,
  `PruneOldCheckpoints` are `CheckpointManager.save` in its order; `GoDown` is a
  kill or an exception anywhere, which can leave the file being written torn or
  the pruning half done; `StartOver`, `ResumeStep`, `ResumeLatest` are the ways a
  trainer starts. Its pruning follows Python's slices, negative bounds included.
* `Rollout`: what an episode leaves behind, as operators on sequences of steps: the
  step records, the split of the parser's reward, the mark of the time limit
  (`Marked`), the metadata (`Reason`), and what the rollout engine demands of the turns of a
  rollout (`Collectable`: an agent step in each, one outcome of the environment at most, prompts that extend one another)
  and takes from it (`SampleReward`). What the collation demands beyond that, token traces, log-probs and
  finite numbers, is in `RolloutEngine`.
* `AgentLoop`: `ReActAgent.act` on a `FullDialog`. `ModelCall` is one turn of its
  loop: the prompt, the reply, what goes into the context. A reply is where it goes
  (to the agent's own tools, to external ones, to the environment) and whether it parses.
* `SingleAgent`: `SingleAgentProtocol.run`. `BeginRound`, `Exhausted`, `NotActive` are the
  head of the loop; `CallModel` and `CallFails` the awaited call; `HandleExternal`,
  `RejectAnswer`, `StepEnv` the three ways to go on after an act; `ReturnRollout` the mark
  and the metadata. `conf` is what the protocol was constructed with.
* `MultiAgent`: `MultiAgentProtocol.run` for several managed agents, some roles nobody
  manages, and an environment that lets any of them act. Calls of the agents that act in a
  round interleave (`asyncio.gather`); `TakeRound` is all that follows the gather, up
  to the next head of the loop; `StepOthers` is a round in which only unmanaged roles act.
* `BatchService`: the abstract specification of a batch source: `next_batch` asks for
  requests and is answered with the rollouts of exactly these, in order, or raises.
* `RolloutEngine`: what is behind it. `NextBatch` is `requests_fn` with the expansion into
  groups and the start of `generate_rollouts`; `StartEpisode`, `EndEpisode`,
  `FailEpisode` the tasks under the semaphore of their call (a failure may come when some agents' lines are
  in the log); `GatherRaises`, `GatherReturns` the
  end of the `gather`, with credit, collation and filters; `RunOut` is `RequestsExhausted`. The collation
  raises (`CollationRaises`) at a turn that cannot be an item: no agent step or two outcomes in it, a step without a usable token trace,
  log-probs in some steps only or missing where they are asked for (`TurnIsUsable`), a reward or a weight that is
  not finite (`IsNumeric`). An episode belongs to its call and may outlive it. What it leaves is drawn from the set of
  shapes that `conf` has, the set-up of the source.
* `Credit`: the assigners of `credit_assignment.py`, as operators on rewards and groups. A
  rollout's total is that of its `counted` steps, those of `Rollout.total_reward`; `Diverges` says which weights a reward that is
  not finite spoils.
* `MicroBatching`: truncation, the order by length, one turn of the split (`Place`), collation.
* `Samples`: from rollouts to items, online (one per turn) and offline (one per step), and
  the shards, batches and epoch orders of an offline source.
* `Losses`: every policy loss as its *push*, minus its derivative by the log-prob of one token;
  and the presets of `algorithm.py` as who gives credit, which losses, which preprocessing.
* `TrainerRanks`: `Trainer.train` on one rank or several. `OpenEpoch`, `RunOut`, `Fetch` make the
  batch, `SortBatch`, `PlaceItem`, `CloseSplit` the micro-batches, `CollateChunk`, `Forward`,
  `Backward` the accumulation loop, `ReduceGradients`, `ReduceNorm`, `Update` the step;
  `GatherState`, `Publish` are `_push_weights_to_runtime`, `GatherModel` to `WriteRest` a save as the
  ranks see it, `ReduceStats` the statistics, `EnterEval`, `Evaluate`, `LeaveEval` the evaluation.
  An action for all ranks together (`AllAt`) is a collective operation.
* `MCWeightSync`, `MCPipeline`, `MCCheckpoint`, `MCSingleAgent`, `MCMultiAgent`, `MCRolloutEngine`,
  `MCTrainerRanks` give the constants their values for TLC. `WeightSyncProofs`, `PipelineProofs`,
  `CheckpointProofs`, `SingleAgentProofs`, `MultiAgentProofs`, `RolloutEngineProofs` and
  `TrainerRanksProofs` hold the theorems, `RolloutProofs` the lemmas on steps, prompts
  and sums that the proofs of the episodes, of the engine and of the trainer share.

Operators introduced by a comment "Bug:" are wrong variants of a definition.
They are not part of the specifications; each shows that a property notices when
the code goes wrong in that way.

How the modules compose: `WeightSync` implements `PolicyStore` (refinement mapping at
the end of `WeightSync`, checked by TLC and proved), and `Pipeline` extends `PolicyStore`
and uses its actions for everything that happens on the server. So what `Pipeline`
shows about tags and lags rests on the abstract publish, and the broadcast protocol
is entitled to stand in for it. `Checkpoint` shows where the step that `Pipeline`'s
`Resume` starts from comes from (`CounterNeverAhead`). `SingleAgent` and `MultiAgent` both
extend `AgentLoop`, which extends `Rollout`; an episode that is done is one of the items
that `Pipeline`'s `GenerateBatch` has sampled, and a rollout that is not `Collectable` is
what makes its call fail. `RolloutEngine` runs the episodes and implements `BatchService`
(checked, and its safety proved); the items it hands out are what `TrainerRanks` fetches, built by the same
operators of `Credit`. `TrainerRanks` extends `Samples` and `Losses`. Its `Publish` is one `WeightSync`
publish, its save one `Checkpoint` save, each seen from all ranks and without their failures;
`Pipeline` is the same loop seen from its actors, with the lag filter and a single rank.

## What the runs check

| Run | Instance | Shows |
|---|---|---|
| `weight_sync` | 2 workers, 2 tensors, publishes at steps 2, 4, 6, every call may raise, resets are refused on busy workers | `ServingWorkersAgree`, `ReportedPolicyIsLoaded`, `CacheIsCurrent`, `PublishSettled`, `PublishReturns` (liveness), `RefinesPolicyStore` |
| `weight_sync_finalize` | the same; the reset may raise and nothing else | refutes `FinalizeMeansApplied` |
| `pipeline` | 2 actors, batches of 2, 4 steps, sync every 2, lag 1, trainer starts at step 1 against a server at 0, one resume, one failing call | `TagIsConservative`, `TrainedWithinLag`, `ServerWithinOneSync`, `TrainingProgresses` (liveness) |
| `checkpoint` | 4 processes, 4 steps, saves every 2 and on demand at 3 and 4, 2 kept | `NextLoadIsWhole`, `LatestNeverFallsBack`, `CounterNeverAhead` |
| `checkpoint_prune` | 1 process, 4 steps, 3 kept | refutes `PruneKeepsN` |
| `single_agent` | 3 rounds, 2 calls an act, 2 external calls, with and without handler and stop on parse errors | `RolloutCollectable`, `RewardCountedOnce`, `EndsOnce`, `SawWhatItActedOn` |
| `multi_agent` | 2 agents and an unmanaged role, 2 rounds, 2 calls an act | the same of every agent's rollout |
| `multi_agent_ended` | the same | refutes `OnlyUnfinishedMarked` |
| `rollout_engine` | 5 set-ups of the source, some with rollouts that cannot be collated; 2 calls of 2 groups of 2 episodes, 2 at a time, one failing | `CallWithinLimit`, `NothingRefused` (action), `GroupsComparable`, `EpisodesEnd` (liveness), `RefinesBatchService` |
| `trainer_ranks` | every preset on one rank over every batch of three items of four shapes; two and three ranks; offline sources; 3 steps | `ChunksFit`, `MacroMean`, `TrustRegion`, `Lockstep`, `AtMostOneSyncBehind`, `ReportedIsMean` (action), `TrainReturns` (liveness) |
| `trainer_uneven` | 2 ranks, equally many items, one micro-batch and two | refutes `TrainReturns` |
| `trainer_baseline` | REINFORCE with a baseline, two micro-batches | refutes `MacroMean` |

The comment above each property in its module says what it means and why it could
fail. Each property of a passing run has a mutant in `PROJECT.json`: a plausible
bug in a mapped definition under which the run reports that property.

### Bounds, and why they are enough

* Two workers are needed for one to be ahead of the other, and a third would only
  repeat the second: they interact through the barrier alone. Two tensors make a
  worker torn between them. `MaxStep = 6` gives three publishes, so that a publish
  meets the leftovers of the one before and the one before that, and
  `MaxConcurrent = 2` stands for the ten permits: more updates than permits would
  need more than one at a time, and `TaskInv` shows there is one.
* `MaxQueue = 2` lets items wait in the queue across a publish; an actor can hold
  another batch and the trainer a third. `MaxVersion = 4` with `SyncEvery = 2` gives
  two publishes, `MaxLag = 1` the smallest lag for which training is possible at all.
  A behaviour has one failing call, at any stage of any process, or one resume, at any earlier step, with
  items of the abandoned branch in the queue. The two share a bound (`MaxFaults = 1`, `MaxRestarts = 1`): one after the other is
  not run.
  The proofs remove all of these bounds but `MaxVersion`'s existence.
* Four processes and numbers up to 4 let a process abandon higher checkpoints, a
  second one prune its own saves below them, a third rewrite a directory in place
  and a fourth find the result. `AskedSteps = {3, 4}` has one save off the period and
  one that rewrites the checkpoint just saved. The state carries which process made
  it, so a model of one process beside an optimizer of another is visible.
* Three rounds let a rollout hold a finished turn, one with external tools and one that
  ends it, two calls an act a turn of several steps and a last call that must answer.
  `MaxExternal` is a bound of the model: the code has none, and a model that
  always asks for external tools keeps its episode in one turn for ever. Two agents are
  enough for one to act while another waits, ends or was never asked; they
  are interchangeable, hence the symmetry. Both instances were also run once with a
  bound raised by one (`MaxReact = 3`; `MaxSteps = 3` with two agents).

* Two calls let a failed one leave episodes running beside the next; with two permits and four
  episodes a call some wait, some run and some are done when it raises (`MaxFaults = 1`). Groups of two
  are the smallest that have an advantage, three samples make a short last call of the queue
  and a second round of the sequence, whose order may change when it is shuffled.
* Items of one to four tokens at `MaxSeqLen = 3` include one without a prediction target, one that
  is cut in the middle of its action tokens and one that fills the limit; `TokenBudget = 6` makes
  them one micro-batch or two. The tokens differ in log-prob and in the direction
  in which training moves it, so that ratios leave every clip range on both sides within three
  steps. `SyncEvery = 2`, `SaveEvery = 3`, `EvalEvery = 2` coincide and do not, and leave a step after a publish.
  `Unit = 48` and `Fine = 12` are common multiples that keep ratios and means integers: no division
  of the run is rounded where a property compares sums.
* The multi-rank set-ups of `trainer_ranks` are those in which each rank makes the same number of micro-batches:
  that the others hang is `trainer_uneven`.

In all but the episode runs steps or calls are bounded, so the last state is one in which
nothing remains to be done: deadlock is not checked there. Being stuck is covered by
the liveness properties instead. In the episode runs a protocol that has returned or raised
stutters (`Stopped`), and deadlock is checked.

### Fairness

`WeightSync` assumes weak fairness of the trainer thread while it is inside `publish`,
of every update task, which the event loop runs, and of every worker. `Serve` and `Finish` are not fair: requests need
not come, nor end. `TrainStep` is not: nothing obliges the trainer to train on. None of the actions in
which a call raises is forced, so an rpc that never returns is among the behaviours. `Pipeline` assumes it of the
server, of the trainer's loop and of each actor's; a call that fails is a step like any other,
and `MaxFaults` says that calls do not fail for ever, without which `blpop` could
time out for ever and nothing would progress. `RolloutEngine` assumes it of the caller that awaits a
gather and of the tasks, those of a raised call too: the event loop runs every task that can go on. That
an episode ends is an assumption about the episode (its rounds and requests are bounded, but see the
external-tool loop among the hazards); that a call is made is not assumed. `TrainerRanks` needs no more than that
some rank which can go on does (`WF_vars(Next)`): every step leads on. `Checkpoint` and the episodes claim no
liveness: nothing is served that must return, and an episode whose model always
asks for external tools does not end.

### What the refuted properties show

* `FinalizeMeansApplied`: `finalize_update` promises that application and cache reset
  are complete. A task that raises in `reset_prefix_cache` leaves `background_tasks` by
  the same callback as one that succeeded; `publish` returns, the weights are new,
  the version is old and the cache was not reset. (`CacheIsCurrent` still holds, since
  it is relative to the reported version, which stayed behind.)
* `PruneKeepsN`: `max_to_keep = 3` never keeps three. While fewer than `max_to_keep`
  checkpoints exist `len - max_to_keep` is negative and the slice counts from the
  end: with two on disk the older is removed. 1 and 2, the default, are not affected.
* `OnlyUnfinishedMarked`: only agents that have not finished are to be marked as
  truncated, and the environment answers for every agent, but `MultiAgentProtocol`
  looks at the outcomes of those whose action it has just sent. An agent that another's move
  ends keeps an open rollout: it is marked `max_steps`, and its outcome, with whatever it
  paid, is in no step. The properties of `multi_agent` hold of the rollout as recorded.

* `TrainReturns` in `trainer_uneven`: a rank splits its own batch by tokens, so ranks with equally many
  items may need different numbers of micro-batches. Forward passes of an FSDP model gather
  weights, and nothing evens the numbers out: one rank waits in the reduction of its last backward pass, the other
  in its next forward pass. A rank that raises before a collective leaves the others waiting in the same way; no rank of the
  model raises.
* `MacroMean` in `trainer_baseline`: the factor `item_count / total_items` makes the sum over micro-batches
  the mean of the batch for a loss that is a mean over its rows. `ReinforceBaselineLoss` subtracts the mean
  weight of the rows it is given, the micro-batch's, so the gradient depends on the cut.

Not refuted by a run of its own, but visible in the models.

Of publishing: the promise that caches are reset (`adapters/vllm.py:48`) fails without any exception. On a worker with
running requests `reset_prefix_cache` returns `False`, the task goes on to the new version, and blocks of the old
weights answer later prompts; `CacheIsCurrent` says that they are left there and nowhere else. When the rpc raises, on one worker or in the
server, the others and the publisher may wait for ever, since neither broadcasts nor the barrier have a timeout; `PublishReturns` says that
this is the only way a publish can hang. The server goes on serving then, with a worker that
has loaded some of the tensors, which is why `ServingWorkersAgree` exempts a worker that raised. A poll that raises ends the trainer while the update goes on.

Of the trainer: with the version of the server following the step counter, a resumed trainer publishes
lower versions than before, and a `max_lag` below `sync_every_steps - 1` rejects every batch for ever; nothing
validates the pair. Over ranks the gradient is the mean of the means of the ranks, not that of all
items, while the statistics do weight the ranks by their items. A rank's queue of samples may run out before
another's; `train_math_fsdp2.py:524` goes on to a final save, which is collective, and meets ranks that still
train. `offline.py:378` says that each rank receives different samples: without `drop_last` the sampler pads
by repeating some. With `drop_last` and too few items `next_batch` raises `StopIteration`. Preprocessing that
drops every sample of every batch makes `train_step` fetch for ever. Gradients accumulated before
a micro-batch raises are not zeroed. `GMPOLoss` takes the minimum with the raw ratio, which makes its lower clip
bound without effect. `ReinforceLoss` compares a sequence log-prob without the first token with the actor's
sum over all tokens; they differ only for an item that begins with an action token. Two docstrings of
`algorithm.py` (as at line 282) give `drop_zero_weight` the default `True`; it is `False`.

Of the episodes: `CONSIDERATIONS.md` describes the
mark as on the last step and its reason as the time limit, while the code marks the last step of
the environment, which parse errors can follow, and does so too when the loop ends because the agent is
not active; `MultiAgentProtocol` does not resolve external calls, it leaves the turn
open to the next act, and an agent that does not act hears nothing of another's move.

Of the checkpoints: after a resume at a lower step, or a fresh start in a used directory, the new checkpoint is the lowest-numbered
and pruned by its own save; and after a crash has torn `latest.json` the next save has
no pointer to fall back to until it is complete, so that a second crash leaves only
the unfinished directory, whose load raises. `NextLoadIsWhole` therefore speaks of a
process that has completed a save or resumed from an intact pointer.

## What is proved

All theorems are checked by TLAPS for every value of the constants.

| Theorem | Rests on |
|---|---|
| `WeightSyncProofs!Inductive` | `IInv` of `WeightSync` is inductive |
| `...!TypeCorrect`, `ServingWorkersAgreeAlways`, `ReportedPolicyIsLoadedAlways`, `CacheIsCurrentAlways`, `PublishSettledAlways` | `IInv` |
| `...!Refinement` | `IInv`; each action is a step of `PolicyStore` or a stutter |
| `PipelineProofs!TypeCorrect` | `TypeOK` with: an actor that pushes has sampled |
| `...!TagIsConservativeAlways`, `TrainedWithinLagAlways` | `TagInv` |
| `...!ServerWithinOneSyncAlways` | `SyncInv`, assuming `~ReportMayFail` and `FirstStep < SyncEvery` |
| `CheckpointProofs!TypeCorrect` | `TypeOK /\ FilesInv` |
| `...!NextLoadIsWholeAlways`, `LatestNeverFallsBackAlways`, `CounterNeverAheadAlways` | `AnchorInv`, `PointerInv`, `CounterInv` |
| `SingleAgentProofs!TypeCorrect` | `TypeOK /\ LoopInv` |
| `...!RolloutCollectableAlways` | `TurnInv` |
| `...!EndsOnceAlways` | `TurnInv /\ EndInv` |
| `...!SawWhatItActedOnAlways` | `TurnInv /\ SawInv` |
| `...!RewardCountedOnceAlways` | `TurnInv /\ PayInv` |
| `MultiAgentProofs!TypeCorrect` | `BaseInv` |
| `...!RolloutsCollectableAlways` | `BaseInv`, and `TurnInv` for each agent |
| `...!EachEndsOnceAlways`, `EachSawWhatItActedOnAlways`, `RewardsCountedOnceAlways` | the same with `EndInv`, `SawInv`, `PayInv` |
| `RolloutEngineProofs!CallWithinLimitAlways` | `PermitInv` |
| `...!GroupsWhole` | the arithmetic of `Expand`; counts a group through a bijection |
| `...!ServiceRefined` | `CallInv`; each step is one of `BatchService` or a stutter |
| `...!EngineTypeCorrect` | `PermitInv /\ CallInv /\ TaskInv` |
| `...!NothingRefusedAlways` | `EngineInv`, which adds `WorkInv`; `GroupsWhole`, `RefusedUnsound` |
| `...!GroupsComparableAlways` | `EngineInv`, and that a sum of differences from the mean is zero |
| `TrainerRanksProofs!BudgetKept` | `BudgetInv`, `TokenBudget >= MaxSeqLen` |
| `...!SurrogateInRegion` | the definition of `SurrogatePush`, for all integers |
| `...!LockstepKept` | `LockInv` |
| `...!SyncKept` | `LockInv /\ ServedInv /\ SampledInv` |
| `...!TrainerTypeCorrect` | `TrainerInv`, which is `SoundInv /\ BudgetInv /\ LockInv /\ GradInv /\ DealtInv /\ MeanInv` |
| `...!MacroMeanKept` | `TrainerInv`; speaks of losses without a baseline (`NoBaseline`) |
| `...!TrustRegionKept` | `TrainerInv`; speaks of a clipped loss that stands alone and whose range is not empty (`Clipping`) |

* `IInv`. None of the four properties is inductive: a worker's weights say nothing
  without knowing where the publisher and the task are. `TaskInv` says that there
  is at most one task, that of the publish in progress; `PubInv` how far it can be;
  `WorkerInv` which weights each worker holds at each stage (all old, old or midway with exactly
  the first `got` tensors new, where a worker that raised remains, all new); `VersionInv` and `CacheInv` follow the
  version and the caches through the last stage. The invariant holds with every call that may raise: a task that dies before
  the barrier leaves workers that can load but not leave, and one that dies after it leaves the version behind. The refinement maps the arrival of the
  last tensor at the last worker to `Apply`, so a publish of no tensors or to no
  workers, which could never apply, is excluded by the assumption on the constants.
* `TagInv`. Versions are ordered as they travel: reported, loaded, pending, step.
  An actor's tag was reported before its tokens were sampled, hence at most the oldest
  weights that sampled one; the item keeps that on its way, and the filter compares the
  tag. With a resume the order is lost, the published version goes back, and an actor can poll the high
  version of the abandoned branch and sample from the lower one published next: both properties
  speak of a trainer that has not been resumed, and `TagInv` keeps its ordering parts for `restarts = 0`
  only. `NotResumed` is the step of the argument that says that such a state was reached without a resume.
* `SyncInv`. Published versions are multiples of `SyncEvery`, and the trainer is less than
  `SyncEvery` past the one loaded; a resume only goes back, so it keeps this.
* `AnchorInv` says at each point of a save what the anchored checkpoint and the new one
  look like: before the pointer is moved the old one is whole and named; from then on
  the new one is whole, named or the highest. That pruning never removes the
  highest directory (`HighestIsNoVictim`) is a counting argument on the slice.
* `TurnInv` says of the steps recorded so far (`Shaped`) that an environment step follows an agent step of
  its turn and nothing of the turn follows it, and that each agent step of a turn starts from the
  prompt and the answer of the one before; and of the turn in progress (`Open`) that all that was
  said in it is at the head of the context, so that the next prompt extends it. The last call's
  final instruction is in its prompt and not in the context, so the invariant needs that no call
  of the act follows it, which is what a call to anything but the agent's own tools means.
* `EndInv` follows the end: no step carries one until the loop is left; then either the last
  one does, or none, and the mark falls on one step. `SawInv` follows the latest user
  message from the context into the prompts and from there into the step that names it.
* `PayInv`: the rollout is worth what was earned so far, and the turn in progress has not been paid (`Owing`). A sample takes the
  reward of its turn's last step and the total that of every environment step and failed parse; the two agree
  because a step the total counts closes its turn and another one that has a reward does not (`Settled`). This rests on
  `Replies`, part of `LoopInv`: the reply of an external tool's call is never parsed, so it has no reward.
* The same four for every agent of `MultiAgentProofs`, whose `TurnInv` and `SawInv` also cover an agent that is not asked in a
  round, and one whose turn an external call left open while others moved. `BaseInv` says when no call
  of an act is pending (`ActingInv`): without it an agent's next turn could begin with calls of the one before.
  Both proofs apply the lemmas of `RolloutProofs`, which speak of one rollout, one context and the calls of one act.

* `PermitInv`: the permits left of a call and its running episodes add up to the limit, before and after
  the call has raised. `CallInv`: while a call is awaited no earlier answer is left, which is
  what the refinement needs of `NextBatch` and `GatherReturns`. `WorkInv`: the requests of the call are whole groups
  (`GroupsWhole`), its tasks are one for each, and those that are done returned a rollout for each agent. What the
  assigner is shown when the gather returns is then those groups, whichever episode ended first. With several
  agents every rollout carries the group of the one request, so groups are too large and an assigner with a group contract
  always refuses (`SeveralRefused`), which `NothingRefused` exempts. A call that is refused nevertheless has a rollout
  with a turn that is not usable or a reward that is not finite: the weights of finite rewards are finite (`RefusedUnsound`).
* Sums (`TotalReward`, `SampleReward`, the weights of a group) are folds over finite sets, and a fact about all of them asks for
  induction. `SmallestException` takes its place: the strict-subset relation on the subsets of a finite set is well
  founded, so if some subset had a wrong sum, one would have none below it. `SumRemove`, `SumImage`, `SumScaled`
  follow; that a group's differences from its mean add up to zero is `SumScaled` (`CentredCancel`).
* The proofs about `RolloutEngine` assume of its constants that `NoGroup` is not the identifier of a group, and that
  the shapes of a set-up are sequences of step records; in the code a group is a string and the absence of one `None`.
* `BudgetInv` says of a split under way that its closed micro-batches fit and that the widest item
  of the current one times their number does. An item never exceeds the budget by itself because it is cut
  to `MaxSeqLen`, at most the budget, which the check of the configuration demands (`trainer.py:708`).
* `LockInv` names the collective all ranks were last in, with the step and the micro-batch of that
  time, and for each rank the places it can have come to since (`Since`). Ranks that wait in the same
  collective have come from the same one, so they agree on the step, on the micro-batch
  and on whether adapters are merged. It holds also where ranks hang: they have then come to different ones.
  `ServedInv` says which version is served by where rank 0 is, `SampledInv` what a batch was sampled
  from by where its rank is; rank 0 fetches only after its publish, the others at most one period before it ends.
* `SoundInv` says what each rank has at each place of the loop (a batch that is not empty, a split of its positions, a
  micro-batch it is at), and that every item is good: its log-probs are those of its action tokens, in their order (`Aligned`).
  That is proved from the construction of the items, through the concatenation of the steps of a turn (`AlignedConcat`)
  and the cut of a long one (`AlignedCut`), and is why a collated row is the one the losses reckon with (`RowIsIdeal`).
* `DealtInv` is the macro-batch mean while it is under way. For every integer function of the positions, its total over the batch of a
  rank is its total over the closed micro-batches, the current one and what is to be placed; and the gradient is the total over
  the micro-batches done of what their items push in a mean over the whole batch (`Gain`). A mean over a micro-batch times the
  micro-batch's share is such a part because the factor cancels exactly, rounding included (`Cancel`): the model divides once.
  At the norm all ranks have come from the reduction (`ToNorm`), which summed their gradients (`MeanInv`). A baseline is the mean of
  a micro-batch, so its push is no function of the item, and the run `trainer_baseline` shows that the claim is then false.
* The trust region holds one token at a time (`PushObeys`), and a token's gradient is a sum of pushes of the same item,
  all of which go where they may. Two hypotheses are needed. The clip range must not be empty; the constructors
  of the three losses refuse negative margins (`loss.py:610`, `:837`, `:1137`). And the loss must stand alone:
  another term of a `CompositeLoss` may push where this one must not. Every preset of `algorithm.py` with a clipped loss uses it alone.

Only model-checked:

* liveness (`PublishReturns`, `TrainingProgresses`, `EpisodesEnd`, `TrainReturns`, and the fair part of
  `RefinesBatchService`), which needs fairness and ENABLED, and which this version of the prover does not handle;
* `ReportedIsMean`: the mean of a micro-batch is rounded before it is weighted, so in integers the two sides are equal only
  where `Fine` is a multiple of every size, as it is in the run.

The inductive invariants of `WeightSync`, `Pipeline`, `Checkpoint` and `SingleAgent` were also run in TLC
before they were proved; those of `MultiAgent` are theirs for each agent. `DealtInv` speaks of all integer functions and
was proved without that.

## What is not modelled

Loggers, parsers, chat templates and the HTTP surface are text and I/O; so are the calibration
scripts and the examples, but for the end of the FSDP example. Losses are modelled by
the sign, the order and the size of their pushes, in integers: ratios are powers of two, interpolated between
them, advantages are not divided by standard deviations and `gamma` is 1. What floating point does to
them (bf16, chunked log-softmax, memory) is out, and so are the optimizer, the factor of gradient clipping,
`KLLoss` and `EntropyBonus`, which no preset uses, and the statistics of losses other than a weighted mean.
The trainer's `initialize` and models wrapped by other means than FSDP, whose gradients it does not
reduce itself, are not modelled. A turn whose steps are traced in part is refused by the engine: the items of
`Samples` are traced as a whole or not at all. The network (NCCL,
HTTP, Redis) is external and modelled by how the code uses it: broadcasts arrive in
order and complete or raise, a list pops atomically, a call may fail. What a process of the engine that dies does to an rpc (an
answer that is neither a return nor an exception) is not modelled. Older endpoints of the server
(`sync_weights`, `update_named_param`) have no caller in the package's trainer.
A checkpoint's model is one file; a sharded save that overwrites an older
one in place and dies half way can leave a mixture that loads, which is not modelled.

In the episodes a message is its role and an observation number or whether it parses:
prompts extend one another message by message, and whether the rendered tokens do too (the
chat template) is outside the model, as are `TruncatedThinkingContext`, which rewrites history,
and the content of the info dictionaries. The environment is external: it answers every agent
of a step, at any outcome. No agent ends an act with a call to its own tools, so the branch of
the protocols for that is left out.

Abstractions to be aware of: in `Pipeline` the ranks of a distributed trainer act as one, and in `TrainerRanks`
no item is too old and no publish or save fails; a rollout
is the set of weights that sampled it, reduced to the oldest; `publish` is
atomic with respect to the trainer's own steps because it blocks its thread. `Pipeline` takes for granted that it returns or raises,
which `PublishReturns` grants unless the rpc raises, and compares the server with the step counter only when it has; that it does not
return early is `PublishSettled` of `WeightSync`.

## Hazards

`PROJECT.json` lists what is hard to test in this code, each at its line, with the
properties that would catch it. Those without a property say why.

## Plan

Done: publishing, the pipeline, checkpoints, the episodes, the rollout engine with requests and
credit, micro-batching, losses and presets, the trainer on several ranks. Next:

1. `TrainerRanks` with ranks that raise: which collective each of the others is left in, by place,
   and with `Checkpoint`'s files behind its save.
2. The logits processor of the thinking budget, per request and speculative batch.
3. `WeightSync` with the older publisher (`sync_weights` with its timeout) as a second
   caller, and `Checkpoint`'s resume composed with `Pipeline`'s.
4. `RolloutEngine` below `Pipeline`: its call as `SampleToken` and `GenerateBatch`.
