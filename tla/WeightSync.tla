----------------------------- MODULE WeightSync -----------------------------
(***************************************************************************)
(* One trainer pushes its weights into a running vLLM server.              *)
(*                                                                         *)
(*   trainer   train_step -> _push_weights_to_runtime -> publisher.publish *)
(*   server    POST /update_param_batch schedules do_update_batch, an      *)
(*             asyncio task: collective_rpc, reset_prefix_cache, version   *)
(*   workers   update_param_batch: receive and load tensor by tensor, then *)
(*             wait on the group barrier together with the publisher       *)
(*                                                                         *)
(* The parameters are 1..NParams, in the sorted order of their names, and  *)
(* the value of a parameter is the optimizer step it was copied at.        *)
(***************************************************************************)
EXTENDS Naturals, FiniteSets

CONSTANTS
    Workers,        \* the workers of the server (tensor x data parallel)
    NParams,        \* number of tensors in the manifest
    SyncEvery,      \* TrainerConfig.sync_every_steps
    MaxConcurrent,  \* MAX_CONCURRENT_WEIGHT_UPDATES
    MaxStep,        \* bound: number of optimizer steps explored
    Faults          \* the calls that may raise, out of FaultKinds

(* announce: the POST; stream: a broadcast or the barrier in the publisher;  *)
(* load: either of them, or load_weights, in a worker; call: the rpc before  *)
(* it reaches a worker; rpc: the rpc later; reset and poll: those calls.     *)
FaultKinds == {"announce", "stream", "load", "call", "rpc", "reset", "poll"}

ASSUME WorkersAssumption == Workers # {} /\ IsFiniteSet(Workers)
ASSUME NumbersAssumption ==
    /\ NParams \in Nat \ {0}
    /\ SyncEvery \in Nat \ {0}
    /\ MaxConcurrent \in Nat \ {0}
    /\ MaxStep \in Nat
    /\ Faults \subseteq FaultKinds

VARIABLES
    step,       \* Trainer._train_step_idx
    pub,        \* where the trainer is in train_step / publish
    sent,       \* tensors broadcast so far in this publish
    published,  \* version of the last publish that returned
    task,       \* background_tasks, by the version each one carries
    version,    \* RUNTIME_VERSION
    failed,     \* versions whose task died in the rpc or the cache reset
    wpc,        \* each worker: serve, called, recv (in the rpc), left, raised
    got,        \* tensors each worker has received in the current rpc
    weights,    \* weights[w][p]: the step parameter p of worker w comes from
    cache,      \* steps of the weights that filled each worker's prefix cache
    busy,       \* workers with running requests, which hold blocks
    refused     \* workers on which the last reset that returned cleared nothing

trainerVars == <<step, pub, sent, published>>
serverVars == <<task, version, failed>>
workerVars == <<wpc, got, weights>>
cacheVars == <<cache, busy, refused>>
vars == <<trainerVars, serverVars, workerVars, cacheVars>>

Params == 1 .. NParams
Steps == 0 .. MaxStep

-----------------------------------------------------------------------------
Init ==
    /\ step = 0 /\ pub = "train" /\ sent = 0 /\ published = 0
    /\ task = [v \in Steps |-> "none"]
    /\ version = 0 /\ failed = {}
    /\ wpc = [w \in Workers |-> "serve"]
    /\ got = [w \in Workers |-> 0]
    /\ weights = [w \in Workers |-> [p \in Params |-> 0]]
    /\ cache = [w \in Workers |-> {}]
    /\ busy = {} /\ refused = {}

-----------------------------------------------------------------------------
(* The trainer *)

(* The end of train_step: count the step, publish on every SyncEvery-th. *)
TrainStep ==
    /\ pub = "train"
    /\ step < MaxStep
    /\ step' = step + 1
    /\ pub' = IF (step + 1) % SyncEvery = 0 THEN "announce" ELSE "train"
    /\ UNCHANGED <<sent, published, serverVars, workerVars, cacheVars>>

(* POST /update_param_batch returns as soon as the task is scheduled. *)
Announce ==
    /\ pub = "announce"
    /\ task' = [task EXCEPT ![step] = "queued"]
    /\ pub' = "stream"
    /\ sent' = 0
    /\ UNCHANGED <<step, published, version, failed, workerVars, cacheVars>>

(* The POST fails (status, timeout): the exception leaves train_step.  The  *)
(* server may have scheduled the task before the answer was lost.           *)
AnnounceFails ==
    /\ "announce" \in Faults
    /\ pub = "announce"
    /\ task' \in {task, [task EXCEPT ![step] = "queued"]}
    /\ pub' = "dead"
    /\ sent' = 0
    /\ UNCHANGED <<step, published, version, failed, workerVars, cacheVars>>

(* Bug: the loop over the manifest runs on past its last name. *)
BroadcastPastEnd ==
    /\ pub = "stream"
    /\ sent' = sent + 1
    /\ UNCHANGED <<step, pub, published, serverVars, workerVars, cacheVars>>

(* comm.broadcast enqueues the next tensor; it does not wait for receivers. *)
Broadcast ==
    /\ pub = "stream"
    /\ sent < NParams
    /\ sent' = sent + 1
    /\ UNCHANGED <<step, pub, published, serverVars, workerVars, cacheVars>>

(* Bug: the publisher broadcasts one tensor fewer than it announced. *)
ArriveEarly ==
    /\ pub = "stream"
    /\ sent = NParams - 1
    /\ pub' = "barrier"
    /\ UNCHANGED <<step, sent, published, serverVars, workerVars, cacheVars>>

ArriveBarrier ==
    /\ pub = "stream"
    /\ sent = NParams
    /\ pub' = "barrier"
    /\ UNCHANGED <<step, sent, published, serverVars, workerVars, cacheVars>>

(* Bug: a worker does not wait for the others at the end of the rpc. *)
NoGroupBarrier ==
    /\ \E w \in Workers :
        /\ wpc[w] = "recv" /\ got[w] = NParams
        /\ wpc' = [wpc EXCEPT ![w] = "left"]
    /\ pub' = IF \A w \in Workers : wpc'[w] = "left" THEN "drain" ELSE pub
    /\ UNCHANGED <<step, sent, published, serverVars, got, weights, cacheVars>>

(* A broadcast or the barrier raises in the publisher: publish is over, the  *)
(* workers keep waiting for its tensors.                                     *)
PublisherFails ==
    /\ "stream" \in Faults
    /\ pub \in {"stream", "barrier"}
    /\ pub' = "dead"
    /\ UNCHANGED <<step, sent, published, serverVars, workerVars, cacheVars>>

(* group.barrier() spans the publisher and the workers: all arrive, then all *)
(* go on, the publisher to finalize_update and the workers out of the rpc,   *)
(* where their answers are gathered unless the task has died before them.    *)
GroupBarrier ==
    /\ pub = "barrier"
    /\ \A w \in Workers : wpc[w] = "recv" /\ got[w] = NParams
    /\ pub' = "drain"
    /\ wpc' = [w \in Workers |-> IF task[step] = "rpc" THEN "left" ELSE "serve"]
    /\ UNCHANGED <<step, sent, published, serverVars, got, weights, cacheVars>>

(* Bug: publish returns without polling for background tasks. *)
FinalizeAtOnce ==
    /\ pub = "drain"
    /\ pub' = "train"
    /\ published' = step
    /\ UNCHANGED <<step, sent, serverVars, workerVars, cacheVars>>

(* finalize_update: the poll of get_num_background_tasks that answers 0. *)
FinalizePoll ==
    /\ pub = "drain"
    /\ \A v \in Steps : task[v] = "none"
    /\ pub' = "train"
    /\ published' = step
    /\ UNCHANGED <<step, sent, serverVars, workerVars, cacheVars>>

(* The poll raises (status, timeout): publish is over and did not see what   *)
(* becomes of the task.                                                      *)
PollFails ==
    /\ "poll" \in Faults
    /\ pub = "drain"
    /\ pub' = "blind"
    /\ UNCHANGED <<step, sent, published, serverVars, workerVars, cacheVars>>

-----------------------------------------------------------------------------
(* The server: do_update_batch for the manifest of version v *)

Holding == {v \in Steps : task[v] \in {"rpc", "reset", "bump"}}

(* Bug: the version is set when the update starts, before the rpc. *)
BumpFirst(v) ==
    /\ task[v] = "queued"
    /\ Cardinality(Holding) < MaxConcurrent
    /\ task' = [task EXCEPT ![v] = "rpc"]
    /\ wpc' = [w \in Workers |-> "called"]
    /\ version' = v
    /\ UNCHANGED <<trainerVars, failed, got, weights, cacheVars>>

(* async with weight_update_semaphore, then the collective_rpc is issued. *)
StartUpdate(v) ==
    /\ task[v] = "queued"
    /\ Cardinality(Holding) < MaxConcurrent
    /\ task' = [task EXCEPT ![v] = "rpc"]
    /\ wpc' = [w \in Workers |-> "called"]
    /\ UNCHANGED <<trainerVars, version, failed, got, weights, cacheVars>>

(* The collective_rpc raises before it has reached a worker. *)
CallFails(v) ==
    /\ "call" \in Faults
    /\ task[v] = "queued"
    /\ Cardinality(Holding) < MaxConcurrent
    /\ task' = [task EXCEPT ![v] = "none"]
    /\ failed' = failed \union {v}
    /\ UNCHANGED <<trainerVars, version, workerVars, cacheVars>>

RpcReturns(v) ==
    /\ task[v] = "rpc"
    /\ \A w \in Workers : wpc[w] = "left"
    /\ task' = [task EXCEPT ![v] = "reset"]
    /\ wpc' = [w \in Workers |-> "serve"]
    /\ UNCHANGED <<trainerVars, version, failed, got, weights, cacheVars>>

(* The collective_rpc raises, for a worker that raised or for the transport: *)
(* the task is over. A worker that has answered serves again, the others are *)
(* still in update_param_batch, or about to enter it.                        *)
RpcFails(v) ==
    /\ "rpc" \in Faults
    /\ task[v] = "rpc"
    /\ task' = [task EXCEPT ![v] = "none"]
    /\ failed' = failed \union {v}
    /\ wpc' = [w \in Workers |-> IF wpc[w] = "left" THEN "serve" ELSE wpc[w]]
    /\ UNCHANGED <<trainerVars, version, got, weights, cacheVars>>

(* Bug: the version follows the rpc without a reset, as in /sync_weights. *)
NoReset(v) ==
    /\ task[v] = "reset"
    /\ task' = [task EXCEPT ![v] = "bump"]
    /\ UNCHANGED <<trainerVars, version, failed, workerVars, cacheVars>>

(* The engine clears a cache none of whose blocks is held by a running       *)
(* request; on a busy worker the reset clears nothing and answers False. The *)
(* task does not look at the answer.                                         *)
ResetPrefixCache(v) ==
    /\ task[v] = "reset"
    /\ task' = [task EXCEPT ![v] = "bump"]
    /\ cache' = [w \in Workers |-> IF w \in busy THEN cache[w] ELSE {}]
    /\ refused' = busy
    /\ UNCHANGED <<trainerVars, version, failed, workerVars, busy>>

(* The exception ends the task; the done callback discards it all the same. *)
ResetFails(v) ==
    /\ "reset" \in Faults
    /\ task[v] = "reset"
    /\ task' = [task EXCEPT ![v] = "none"]
    /\ failed' = failed \union {v}
    /\ UNCHANGED <<trainerVars, version, workerVars, cacheVars>>

(* Bug: the server counts updates itself and ignores the forced version. *)
BumpByOne(v) ==
    /\ task[v] = "bump"
    /\ task' = [task EXCEPT ![v] = "none"]
    /\ version' = version + 1
    /\ UNCHANGED <<trainerVars, failed, workerVars, cacheVars>>

(* RUNTIME_VERSION = int(forced_version); the task is done and discarded. *)
BumpVersion(v) ==
    /\ task[v] = "bump"
    /\ task' = [task EXCEPT ![v] = "none"]
    /\ version' = v
    /\ UNCHANGED <<trainerVars, failed, workerVars, cacheVars>>

-----------------------------------------------------------------------------
(* The workers *)

(* update_param_batch starts: the worker runs no model step until it is over. *)
EnterRpc(w) ==
    /\ wpc[w] = "called"
    /\ wpc' = [wpc EXCEPT ![w] = "recv"]
    /\ got' = [got EXCEPT ![w] = 0]
    /\ UNCHANGED <<trainerVars, serverVars, weights, cacheVars>>

(* Receive the next broadcast and load_weights of that one parameter. *)
Receive(w) ==
    /\ wpc[w] = "recv"
    /\ got[w] < sent
    /\ got' = [got EXCEPT ![w] = @ + 1]
    /\ weights' = [weights EXCEPT ![w][got[w] + 1] = step]
    /\ UNCHANGED <<trainerVars, serverVars, wpc, cacheVars>>

(* A broadcast, load_weights or the barrier raises: the worker is out of the *)
(* rpc with the tensors it has loaded so far.                                *)
LoadFails(w) ==
    /\ "load" \in Faults
    /\ wpc[w] = "recv"
    /\ wpc' = [wpc EXCEPT ![w] = "raised"]
    /\ UNCHANGED <<trainerVars, serverVars, got, weights, cacheVars>>

(* Outside the rpc the worker runs model steps for inference requests: the  *)
(* blocks of the prompt it computes go to its prefix cache, and the running *)
(* request holds them.                                                      *)
Serve(w) ==
    /\ wpc[w] # "recv"
    /\ cache' = [cache EXCEPT ![w] = @ \union {weights[w][p] : p \in Params}]
    /\ busy' = busy \union {w}
    /\ UNCHANGED <<trainerVars, serverVars, workerVars, refused>>

(* The last request running on the worker ends: its blocks are free, and     *)
(* stay in the cache.                                                        *)
Finish(w) ==
    /\ wpc[w] # "recv"
    /\ w \in busy
    /\ busy' = busy \ {w}
    /\ UNCHANGED <<trainerVars, serverVars, workerVars, cache, refused>>

-----------------------------------------------------------------------------
Trainer ==
    \/ TrainStep
    \/ Announce
    \/ AnnounceFails
    \/ Broadcast
    \/ ArriveBarrier
    \/ PublisherFails
    \/ GroupBarrier
    \/ FinalizePoll
    \/ PollFails

Update(v) ==
    \/ StartUpdate(v)
    \/ CallFails(v)
    \/ RpcReturns(v)
    \/ RpcFails(v)
    \/ ResetPrefixCache(v)
    \/ ResetFails(v)
    \/ BumpVersion(v)

Worker(w) == EnterRpc(w) \/ Receive(w) \/ LoadFails(w)

Requests(w) == Serve(w) \/ Finish(w)

Next ==
    \/ Trainer
    \/ \E v \in Steps : Update(v)
    \/ \E w \in Workers : Worker(w) \/ Requests(w)

Spec == Init /\ [][Next]_vars

(* The trainer thread, the event loop and the workers are scheduled again   *)
(* and again. Nothing has to fail, requests need not arrive or end, and      *)
(* nothing obliges the trainer to take another optimizer step.               *)
Fairness ==
    /\ WF_vars(Announce \/ Broadcast \/ ArriveBarrier \/ GroupBarrier
               \/ FinalizePoll)
    /\ \A v \in Steps :
        WF_vars(StartUpdate(v) \/ RpcReturns(v) \/ ResetPrefixCache(v)
                \/ BumpVersion(v))
    /\ \A w \in Workers : WF_vars(EnterRpc(w) \/ Receive(w))

FairSpec == Spec /\ Fairness

-----------------------------------------------------------------------------
(* Properties *)

(* Every variable keeps its type. *)
TypeOK ==
    /\ step \in Steps /\ published \in Steps
    /\ pub \in {"train", "announce", "stream", "barrier", "drain", "dead", "blind"}
    /\ sent \in 0 .. NParams
    /\ task \in [Steps -> {"none", "queued", "rpc", "reset", "bump"}]
    /\ version \in Steps /\ failed \in SUBSET Steps
    /\ wpc \in [Workers -> {"serve", "called", "recv", "left", "raised"}]
    /\ got \in [Workers -> 0 .. NParams]
    /\ weights \in [Workers -> [Params -> Steps]]
    /\ cache \in [Workers -> SUBSET Steps]
    /\ busy \in SUBSET Workers /\ refused \in SUBSET Workers

(* Two workers that can run a model step at the same time hold the same     *)
(* complete weights: the tensors arrive one by one and the workers advance  *)
(* independently, so it is the barrier at the end of update_param_batch     *)
(* that keeps a worker with new weights from serving beside an old or torn  *)
(* one. Only a worker that raised out of the rpc may hold torn weights.      *)
ServingWorkersAgree ==
    \A w, x \in Workers :
        wpc[w] \notin {"recv", "raised"} /\ wpc[x] \notin {"recv", "raised"} =>
            \A p, q \in Params : weights[w][p] = weights[x][q]

(* The version the server reports is never ahead of any weights it holds,   *)
(* even parameter by parameter in the middle of a broadcast: an actor that   *)
(* tags a request with it never overstates how fresh the policy is.          *)
ReportedPolicyIsLoaded ==
    \A w \in Workers, p \in Params : weights[w][p] >= version

(* A prefix block computed under weights older than the reported version is  *)
(* only left where the engine refused the last reset, for the requests that  *)
(* were running: the reset comes after the last tensor is loaded and before  *)
(* the version is bumped, while requests keep filling the cache.             *)
CacheIsCurrent ==
    \A w \in Workers : \A c \in cache[w] : c < version => w \in refused

(* When publish has returned, the update is over on every process: no task  *)
(* is left to change the server later, all parameters of all workers come   *)
(* from the published step and, unless its task died, so does the version.  *)
PublishSettled ==
    pub = "train" =>
        /\ \A v \in Steps : task[v] = "none"
        /\ \A w \in Workers, p \in Params : weights[w][p] = published
        /\ published \notin failed => version = published

(* A publish returns or raises, unless its rpc raised on a worker or in the  *)
(* server: it is only then that publisher and workers may wait for one       *)
(* another for ever, and only in a broadcast or at the barrier, never in the *)
(* poll for the task.                                                        *)
PublishReturns ==
    pub = "announce" ~>
        \/ pub \in {"train", "dead", "blind"}
        \/ /\ pub \in {"stream", "barrier"}
           /\ step \in failed \/ \E w \in Workers : wpc[w] = "raised"

(* finalize_update's docstring: background weight application and cache     *)
(* resets are complete before training proceeds, so the server then reports *)
(* the published version.  Refuted when a task dies in the cache reset.     *)
FinalizeMeansApplied == pub = "train" => version = published

-----------------------------------------------------------------------------
(* The inductive invariant behind the properties *)

Before(w) == \A p \in Params : weights[w][p] = published
After(w) == \A p \in Params : weights[w][p] = step
Midway(w) == \A p \in Params :
    weights[w][p] = IF p <= got[w] THEN step ELSE published

(* There is at most one update task, that of the publish in progress. *)
TaskInv ==
    \A v \in Steps : task[v] # "none" =>
        v = step /\ pub \in {"stream", "barrier", "drain", "dead", "blind"}

(* How far the task can be when the trainer is where it is. *)
PubInv ==
    /\ published <= step
    /\ pub # "train" => published < step
    /\ pub \in {"stream", "barrier"} =>
        \/ task[step] \in {"queued", "rpc"}
        \/ task[step] = "none" /\ step \in failed
    /\ pub = "dead" => task[step] \in {"none", "queued", "rpc"}
    /\ pub \in {"drain", "blind"} => task[step] # "queued"

(* Which weights a worker holds. *)
WorkerInv ==
    /\ pub \in {"train", "announce"} =>
        \A w \in Workers : wpc[w] = "serve" /\ Before(w)
    /\ pub \in {"stream", "barrier", "dead"} =>
        \A w \in Workers :
            /\ wpc[w] # "left"
            /\ wpc[w] \in {"serve", "called"} => Before(w)
            /\ wpc[w] \in {"recv", "raised"} => got[w] <= sent /\ Midway(w)
            /\ task[step] = "queued" => wpc[w] = "serve"
    /\ pub \in {"drain", "blind"} =>
        \A w \in Workers :
            After(w) /\ wpc[w] = IF task[step] = "rpc" THEN "left" ELSE "serve"

(* The task of this publish is over after every worker has its tensors. *)
TaskOver == pub \in {"drain", "blind"} /\ task[step] = "none"

(* Whether an update task can end without setting the version. *)
TaskMayDie == Faults \cap {"call", "rpc", "reset"} # {}

VersionInv ==
    /\ version <= published \/ (TaskOver /\ version = step)
    /\ published \notin failed => version = published \/ TaskOver
    /\ TaskOver /\ step \notin failed => version = step
    /\ \A v \in failed :
        \/ v <= published
        \/ pub \notin {"train", "announce"} /\ v = step /\ task[step] = "none"
    /\ step \in failed /\ pub # "train" => version <= published
    /\ failed # {} => TaskMayDie

CacheInv ==
    \A w \in Workers : \A c \in cache[w] :
        /\ c < version => w \in refused
        /\ task[step] = "bump" /\ c < step => w \in refused

IInv == TypeOK /\ TaskInv /\ PubInv /\ WorkerInv /\ VersionInv /\ CacheInv

-----------------------------------------------------------------------------
(* The protocol implements PolicyStore: the tensors' arrival at the last     *)
(* worker is the one Apply step.                                             *)
AllLoaded == \A w \in Workers, p \in Params : weights[w][p] = step

StorePhase ==
    IF pub = "train" THEN "idle"
    ELSE IF ~AllLoaded THEN "loading"
    ELSE IF version = step THEN "reported"
    ELSE "loaded"

Publishing == pub # "train"

Store == INSTANCE PolicyStore WITH
    MaxVersion <- MaxStep,
    ReportMayFail <- TaskMayDie,
    loaded <- IF Publishing /\ AllLoaded THEN step ELSE published,
    reported <- version,
    phase <- StorePhase,
    pending <- IF Publishing THEN step ELSE published

(* Every behaviour of the protocol is one of the abstract store. *)
RefinesPolicyStore == Store!StoreSpec
=============================================================================
