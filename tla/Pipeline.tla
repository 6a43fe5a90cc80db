------------------------------ MODULE Pipeline ------------------------------
(***************************************************************************)
(* The asynchronous pipeline: actors generate rollouts against the         *)
(* inference server and push training items to a Redis list; the trainer   *)
(* pops them, drops what is too old, takes optimizer steps and publishes   *)
(* its weights on every SyncEvery-th.                                      *)
(*                                                                         *)
(* Publishing is the PolicyStore, which WeightSync implements.  A version  *)
(* is the trainer's step counter.  An item is abstracted to two of them:   *)
(* tag, its meta["policy_version"], and oldest, the oldest weights that    *)
(* sampled one of its tokens, which no process knows.                      *)
(***************************************************************************)
EXTENDS PolicyStore, Integers, SequencesExt

CONSTANTS
    Actors,        \* processes in run_pipeline_actor
    ItemsPerPush,  \* items of one generated batch
    BatchSize,     \* PipelineBatchSource.batch_size
    SyncEvery,     \* TrainerConfig.sync_every_steps
    MaxLag,        \* TrainerConfig.max_lag
    FirstStep,     \* step the trainer starts at: 0, or that of a checkpoint
    MaxQueue,      \* bound on the Redis list (the code has none)
    MaxFaults,     \* bound on failed calls (poll, generation, push, ...) and resumes
    MaxRestarts    \* bound on how often the trainer is resumed

ASSUME PipelineAssumption ==
    /\ ItemsPerPush \in Nat \ {0}
    /\ BatchSize \in Nat \ {0}
    /\ SyncEvery \in Nat \ {0}
    /\ MaxLag \in Nat
    /\ FirstStep \in Versions
    /\ MaxQueue \in Nat
    /\ MaxFaults \in Nat
    /\ MaxRestarts \in Nat

VARIABLES
    step,       \* Trainer._train_step_idx
    queue,      \* the Redis list
    batch,      \* items popped by the next_batch call in progress
    trainedOn,  \* items of the latest optimizer step (history)
    apc,        \* what each actor is doing
    tag,        \* current_ver of the actor's loop iteration
    oldest,     \* oldest weights that sampled a token of its batch
    faults,     \* failed calls so far
    restarts    \* resumes so far

actorVars == <<apc, tag, oldest>>
vars == <<storeVars, step, queue, batch, trainedOn, actorVars, faults, restarts>>

Item == [tag : Versions, oldest : Versions]
NoToken == MaxVersion + 1

Init ==
    /\ StoreInit
    /\ step = FirstStep /\ queue = <<>> /\ batch = <<>> /\ trainedOn = {}
    /\ apc = [a \in Actors |-> "poll"]
    /\ tag = [a \in Actors |-> 0]
    /\ oldest = [a \in Actors |-> NoToken]
    /\ faults = 0 /\ restarts = 0

-----------------------------------------------------------------------------
(* The actor loop *)

(* A call that can fail does so: at most MaxFaults of them and of resumes   *)
(* together in a behaviour.                                                 *)
Fault == faults + restarts < MaxFaults /\ faults' = faults + 1

(* Tag the requests with the polled version, then start generate_batch. *)
TagRequests(a, v) ==
    /\ apc[a] = "poll"
    /\ apc' = [apc EXCEPT ![a] = "generate"]
    /\ tag' = [tag EXCEPT ![a] = v]
    /\ oldest' = [oldest EXCEPT ![a] = NoToken]
    /\ UNCHANGED <<storeVars, step, queue, batch, trainedOn, restarts>>

(* Bug: the actor tags with the version being published. *)
PollPending(a) == TagRequests(a, pending) /\ UNCHANGED faults

(* get_policy_version answers 0 on any failure. *)
PollVersion(a) ==
    \/ TagRequests(a, reported) /\ UNCHANGED faults
    \/ TagRequests(a, 0) /\ Fault

(* A token is sampled for one of the running episodes, by weights older     *)
(* than any before: a publish may load others between two tokens.           *)
SampleToken(a) ==
    /\ apc[a] = "generate"
    /\ loaded < oldest[a]
    /\ oldest' = [oldest EXCEPT ![a] = loaded]
    /\ UNCHANGED <<storeVars, step, queue, batch, trainedOn, apc, tag, faults, restarts>>

(* generate_batch returns items; or it raises or returns none, the requests *)
(* are used up and the loop starts over.                                    *)
GenerateBatch(a) ==
    /\ apc[a] = "generate"
    /\ \/ oldest[a] # NoToken /\ apc' = [apc EXCEPT ![a] = "push"] /\ UNCHANGED faults
       \/ apc' = [apc EXCEPT ![a] = "poll"] /\ Fault
    /\ UNCHANGED <<storeVars, step, queue, batch, trainedOn, tag, oldest, restarts>>

(* rpush of every item in one MULTI/EXEC; on a RedisError they are gone. *)
Push(a) ==
    /\ apc[a] = "push"
    /\ apc' = [apc EXCEPT ![a] = "poll"]
    /\ \/ /\ Len(queue) + ItemsPerPush <= MaxQueue
          /\ queue' = queue \o [i \in 1 .. ItemsPerPush |->
                                  [tag |-> tag[a], oldest |-> oldest[a]]]
          /\ UNCHANGED faults
       \/ UNCHANGED queue /\ Fault
    /\ UNCHANGED <<storeVars, step, batch, trainedOn, tag, oldest, restarts>>

-----------------------------------------------------------------------------
(* The trainer: publish() blocks it, so it fetches only between publishes *)

(* blpop of one item by next_batch; a payload pickle cannot load is logged *)
(* and dropped.                                                            *)
PopItem ==
    /\ phase = "idle"
    /\ queue # <<>> /\ Len(batch) < BatchSize
    /\ queue' = Tail(queue)
    /\ \/ batch' = Append(batch, Head(queue)) /\ UNCHANGED faults
       \/ UNCHANGED batch /\ Fault
    /\ UNCHANGED <<storeVars, step, trainedOn, actorVars, restarts>>

(* Bug: version 0 is taken for a missing tag, which counts as current. *)
IsFreshIfTagged(item) == item.tag = 0 \/ step - item.tag <= MaxLag

(* Bug: the bound is exclusive. *)
IsFreshStrictly(item) == step - item.tag < MaxLag

IsFresh(item) == step - item.tag <= MaxLag

Fresh == {item \in ToSet(batch) : IsFresh(item)}

(* Every item is stale, or algo.preprocess drops those that are not: *)
(* train_step fetches another batch.                                 *)
DropBatch ==
    /\ phase = "idle"
    /\ Len(batch) = BatchSize
    /\ IF Fresh = {} THEN UNCHANGED faults ELSE Fault
    /\ batch' = <<>>
    /\ UNCHANGED <<storeVars, step, queue, trainedOn, actorVars, restarts>>

(* Bug: the counter is read after it has moved on. *)
SyncNextVersion(s) ==
    IF s % SyncEvery = 0 THEN Begin(s + 1) ELSE UNCHANGED storeVars

(* _push_weights_to_runtime after the s-th optimizer step. *)
SyncAfter(s) ==
    IF s % SyncEvery = 0 THEN Begin(s) ELSE UNCHANGED storeVars

(* Bug: the sync condition is tested before the step is counted. *)
SyncThenCount ==
    /\ phase = "idle"
    /\ Len(batch) = BatchSize
    /\ Fresh # {}
    /\ step < MaxVersion
    /\ step' = step + 1
    /\ trainedOn' = Fresh
    /\ batch' = <<>>
    /\ SyncAfter(step)
    /\ UNCHANGED <<queue, actorVars, faults, restarts>>

(* The micro-batches of the fresh items, optimizer.step(), publish. *)
TrainBatch ==
    /\ phase = "idle"
    /\ Len(batch) = BatchSize
    /\ Fresh # {}
    /\ step < MaxVersion
    /\ step' = step + 1
    /\ trainedOn' = Fresh
    /\ batch' = <<>>
    /\ SyncAfter(step + 1)
    /\ UNCHANGED <<queue, actorVars, faults, restarts>>

(* The trainer process ends between two publishes and is started again with *)
(* resume_from: the step of some checkpoint, nothing published, its popped  *)
(* items gone; the server, the queue and the actors go on as they were.     *)
Resume ==
    /\ phase = "idle"
    /\ restarts < MaxRestarts /\ faults + restarts < MaxFaults
    /\ restarts' = restarts + 1
    /\ step' \in 0 .. step
    /\ batch' = <<>>
    /\ trainedOn' = {}
    /\ UNCHANGED <<storeVars, queue, actorVars, faults>>

-----------------------------------------------------------------------------
Server == (Apply \/ Report \/ Return)
          /\ UNCHANGED <<step, queue, batch, trainedOn, actorVars, faults, restarts>>

Actor(a) == PollVersion(a) \/ SampleToken(a) \/ GenerateBatch(a) \/ Push(a)

Trainer == PopItem \/ DropBatch \/ TrainBatch

Next ==
    \/ Server
    \/ Trainer
    \/ Resume
    \/ \E a \in Actors : Actor(a)

Spec == Init /\ [][Next]_vars

(* The server, the trainer and every actor are scheduled again and again. *)
Fairness ==
    /\ WF_vars(Server)
    /\ WF_vars(Trainer)
    /\ \A a \in Actors : WF_vars(Actor(a))

FairSpec == Spec /\ Fairness

-----------------------------------------------------------------------------
(* Properties *)

(* Every variable keeps its type. *)
TypeOK ==
    /\ loaded \in Versions /\ reported \in Versions /\ pending \in Versions
    /\ phase \in Phases
    /\ step \in Versions
    /\ queue \in Seq(Item) /\ batch \in Seq(Item)
    /\ trainedOn \in SUBSET Item
    /\ apc \in [Actors -> {"poll", "generate", "push"}]
    /\ tag \in [Actors -> Versions]
    /\ oldest \in [Actors -> Versions \union {NoToken}]
    /\ faults \in 0 .. MaxFaults
    /\ restarts \in 0 .. MaxRestarts

(* While the trainer has not been resumed, the tag on an item is no newer   *)
(* than any weights that sampled it, wherever the item is: polled before     *)
(* generation from a server that reports a version only after it is loaded,  *)
(* 0 when the poll fails.  A resume publishes lower versions again, and an   *)
(* actor can poll the high one of the abandoned branch and sample the lower. *)
TagIsConservative ==
    restarts = 0 =>
      /\ \A i \in 1 .. Len(queue) : queue[i].tag <= queue[i].oldest
      /\ \A i \in 1 .. Len(batch) : batch[i].tag <= batch[i].oldest
      /\ \A item \in trainedOn : item.tag <= item.oldest

(* What max_lag is for: an optimizer step of a trainer not resumed never     *)
(* uses a token sampled by weights more than MaxLag steps behind the weights *)
(* it updates, however long the item waited in the queue and whatever was    *)
(* published meanwhile.                                                      *)
TrainedWithinLag ==
    restarts = 0 => \A item \in trainedOn : (step - 1) - item.oldest <= MaxLag

(* Between publishes the server is less than SyncEvery steps behind the     *)
(* trainer and reports what it has loaded: training does not go on while an  *)
(* update is under way, and a resume at an earlier step loses no publish.    *)
ServerWithinOneSync ==
    phase = "idle" => reported = loaded /\ step - loaded < SyncEvery

(* Training goes on to the last step explored: the trainer does not reject   *)
(* every batch for ever, whatever is lost on the way.  Needs a MaxLag of at  *)
(* least SyncEvery - 1 and a server no further behind at the start, which    *)
(* nothing validates.                                                        *)
TrainingProgresses == <>(step = MaxVersion)

-----------------------------------------------------------------------------
(* The inductive invariants behind the properties *)

Conservative == {item \in Item : item.tag <= item.oldest}

(* The version being published is loaded, then reported. *)
StoreInv == phase \in {"loaded", "reported"} => loaded = pending

(* Without a resume the versions are ordered as they travel. *)
OrderInv == reported <= loaded /\ loaded <= pending /\ pending <= step

(* What an actor holds was polled before it was sampled. *)
ActorInv == \A a \in Actors :
    /\ tag[a] <= loaded /\ tag[a] <= oldest[a]
    /\ apc[a] = "push" => oldest[a] # NoToken

(* And stays so on its way to the optimizer step. *)
ItemInv ==
    /\ queue \in Seq(Conservative) /\ batch \in Seq(Conservative)
    /\ trainedOn \subseteq Conservative
    /\ \A item \in trainedOn : (step - 1) - item.tag <= MaxLag

TagInv == TypeOK /\ StoreInv /\ (restarts = 0 => OrderInv /\ ActorInv /\ ItemInv)

(* What is published is a multiple of SyncEvery; the trainer is less than   *)
(* SyncEvery past it, whether it was resumed or not.                        *)
SyncInv ==
    /\ loaded % SyncEvery = 0 /\ pending % SyncEvery = 0
    /\ phase = "idle" => step < loaded + SyncEvery
    /\ phase # "idle" => step = pending
    /\ phase # "loaded" => reported = loaded
=============================================================================
