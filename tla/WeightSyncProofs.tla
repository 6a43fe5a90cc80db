-------------------------- MODULE WeightSyncProofs --------------------------
(***************************************************************************)
(* WeightSync's properties, for every number of workers, of tensors and of *)
(* optimizer steps, every sync interval and every semaphore size, whichever *)
(* of the calls may raise.  They follow from the inductive invariant IInv. *)
(***************************************************************************)
EXTENDS WeightSync, TLAPS

(* What the assumptions say of the numbers, in the form the steps use. *)
LEMMA Constants ==
    /\ NParams \in Nat /\ NParams >= 1
    /\ SyncEvery \in Nat /\ SyncEvery >= 1
    /\ MaxStep \in Nat
    /\ Faults \subseteq FaultKinds
BY NumbersAssumption

(* The initial states satisfy the inductive invariant. *)
LEMMA InitIInv == Init => IInv
<1> SUFFICES ASSUME Init PROVE IInv
    OBVIOUS
<1>1. TypeOK
    BY Constants DEF Init, TypeOK, Steps
<1>2. TaskInv /\ PubInv /\ VersionInv
    BY DEF Init, TaskInv, PubInv, VersionInv
<1>3. WorkerInv /\ CacheInv
    BY DEF Init, WorkerInv, CacheInv, Before
<1> QED
    BY <1>1, <1>2, <1>3 DEF IInv

(* Each step keeps every variable in its type. *)
LEMMA TypeStep == TypeOK /\ [Next]_vars => TypeOK'
<1> SUFFICES ASSUME TypeOK, [Next]_vars PROVE TypeOK'
    OBVIOUS
<1> USE Constants DEF cacheVars
<1>1. CASE TrainStep
    BY <1>1 DEF TrainStep, TypeOK, serverVars, workerVars, Steps
<1>2. CASE Announce
    BY <1>2 DEF Announce, TypeOK, workerVars
<1>3. CASE AnnounceFails
    BY <1>3 DEF AnnounceFails, TypeOK, workerVars
<1>4. CASE Broadcast
    BY <1>4 DEF Broadcast, TypeOK, serverVars, workerVars
<1>5. CASE ArriveBarrier
    BY <1>5 DEF ArriveBarrier, TypeOK, serverVars, workerVars
<1>6. CASE GroupBarrier
    BY <1>6 DEF GroupBarrier, TypeOK, serverVars
<1>7. CASE FinalizePoll
    BY <1>7 DEF FinalizePoll, TypeOK, serverVars, workerVars
<1>11. CASE PublisherFails
    BY <1>11 DEF PublisherFails, TypeOK, serverVars, workerVars
<1>12. CASE PollFails
    BY <1>12 DEF PollFails, TypeOK, serverVars, workerVars
<1>8. ASSUME NEW v \in Steps, Update(v) PROVE TypeOK'
    <2>1. CASE StartUpdate(v)
        BY <2>1 DEF StartUpdate, TypeOK, trainerVars
    <2>6. CASE CallFails(v)
        BY <2>6 DEF CallFails, TypeOK, trainerVars, workerVars
    <2>7. CASE RpcFails(v)
        BY <2>7 DEF RpcFails, TypeOK, trainerVars
    <2>2. CASE RpcReturns(v)
        BY <2>2 DEF RpcReturns, TypeOK, trainerVars
    <2>3. CASE ResetPrefixCache(v)
        BY <2>3 DEF ResetPrefixCache, TypeOK, trainerVars, workerVars
    <2>4. CASE ResetFails(v)
        BY <2>4 DEF ResetFails, TypeOK, trainerVars, workerVars
    <2>5. CASE BumpVersion(v)
        BY <2>5 DEF BumpVersion, TypeOK, trainerVars, workerVars
    <2> QED
        BY <1>8, <2>1, <2>2, <2>3, <2>4, <2>5, <2>6, <2>7 DEF Update
<1>9. ASSUME NEW w \in Workers, Worker(w) \/ Requests(w) PROVE TypeOK'
    <2>1. CASE EnterRpc(w)
        BY <2>1 DEF EnterRpc, TypeOK, trainerVars, serverVars
    <2>2. CASE Receive(w)
        <3>1. weights' \in [Workers -> [Params -> Steps]]
            BY <2>2 DEF Receive, TypeOK
        <3> QED
            BY <2>2, <3>1 DEF Receive, TypeOK, trainerVars, serverVars
    <2>3. CASE Serve(w)
        BY <2>3 DEF Serve, TypeOK, trainerVars, serverVars, workerVars
    <2>4. CASE LoadFails(w)
        BY <2>4 DEF LoadFails, TypeOK, trainerVars, serverVars
    <2>5. CASE Finish(w)
        BY <2>5 DEF Finish, TypeOK, trainerVars, serverVars, workerVars
    <2> QED
        BY <1>9, <2>1, <2>2, <2>3, <2>4, <2>5 DEF Worker, Requests
<1>10. CASE UNCHANGED vars
    BY <1>10 DEF vars, trainerVars, serverVars, workerVars, TypeOK
<1> QED
    BY <1>1, <1>2, <1>3, <1>4, <1>5, <1>6, <1>7, <1>8, <1>9, <1>10,
       <1>11, <1>12
    DEF Next, Trainer

(* Every variable keeps its type. *)
THEOREM TypeCorrect == Spec => []TypeOK
<1>1. Init => TypeOK
    BY InitIInv DEF IInv
<1> QED
    BY <1>1, TypeStep, PTL DEF Spec

(* Whatever a worker holds, of the last publish or of this one, is not older *)
(* than the reported version.                                                *)
LEMMA OlderThanNone ==
    ASSUME IInv, NEW w \in Workers, NEW p \in Params
    PROVE  weights[w][p] >= version
<1>1. /\ published \in Nat /\ step \in Nat /\ version \in Nat /\ published <= step
      /\ pub # "train" => published < step
      /\ pub \in {"train", "announce", "stream", "barrier", "drain", "dead", "blind"}
    BY DEF IInv, TypeOK, PubInv, Steps
<1>2. CASE pub \in {"drain", "blind"}
    <2>1. weights[w][p] = step
        BY <1>2 DEF IInv, WorkerInv, After
    <2> QED
        BY <1>1, <2>1 DEF IInv, VersionInv, TaskOver
<1>3. CASE pub \notin {"drain", "blind"}
    <2>1. weights[w][p] \in {published, step}
        <3>1. CASE pub \in {"train", "announce"}
            BY <3>1 DEF IInv, WorkerInv, Before
        <3>2. CASE pub \in {"stream", "barrier", "dead"}
            BY <3>2 DEF IInv, TypeOK, WorkerInv, Before, Midway
        <3> QED
            BY <1>1, <1>3, <3>1, <3>2
    <2>2. version <= published
        BY <1>1, <1>3 DEF IInv, VersionInv, TaskOver
    <2> QED
        BY <1>1, <2>1, <2>2
<1> QED
    BY <1>2, <1>3

(* A step without a publish touches neither the server nor the workers. *)
LEMMA TrainStepStep ==
    ASSUME IInv, TypeOK', TrainStep
    PROVE  IInv'
<1>1. TaskInv'
    BY DEF TrainStep, serverVars, IInv, TaskInv
<1>2. PubInv'
    BY DEF TrainStep, IInv, TypeOK, PubInv
<1>3. WorkerInv'
    BY DEF TrainStep, workerVars, IInv, WorkerInv, Before
<1>4. VersionInv'
    BY DEF TrainStep, serverVars, IInv, VersionInv, TaskOver
<1>5. CacheInv'
    BY DEF cacheVars, TrainStep, serverVars, IInv, TypeOK, TaskInv, CacheInv
<1> QED
    BY <1>1, <1>2, <1>3, <1>4, <1>5 DEF IInv

(* The announced task is the only one: the last publish left none behind. *)
LEMMA AnnounceStep ==
    ASSUME IInv, TypeOK', Announce
    PROVE  IInv'
<1>1. TaskInv'
    BY DEF Announce, IInv, TaskInv
<1>2. PubInv'
    BY DEF Announce, IInv, TypeOK, PubInv
<1>3. WorkerInv'
    BY DEF Announce, workerVars, IInv, WorkerInv, Before
<1>4. VersionInv'
    BY DEF Announce, IInv, TypeOK, Steps, PubInv, VersionInv, TaskOver
<1>5. CacheInv'
    BY DEF cacheVars, Announce, IInv, CacheInv
<1> QED
    BY <1>1, <1>2, <1>3, <1>4, <1>5 DEF IInv

(* Whether or not the task was scheduled, no tensor will follow. *)
LEMMA AnnounceFailsStep ==
    ASSUME IInv, TypeOK', AnnounceFails
    PROVE  IInv'
<1>1. TaskInv'
    BY DEF AnnounceFails, IInv, TypeOK, TaskInv
<1>2. PubInv'
    BY DEF AnnounceFails, IInv, TypeOK, TaskInv, PubInv
<1>3. WorkerInv'
    BY DEF AnnounceFails, workerVars, IInv, WorkerInv, Before
<1>4. VersionInv'
    BY DEF AnnounceFails, IInv, TypeOK, Steps, PubInv, VersionInv, TaskOver
<1>5. CacheInv'
    BY DEF cacheVars, AnnounceFails, IInv, TypeOK, CacheInv
<1> QED
    BY <1>1, <1>2, <1>3, <1>4, <1>5 DEF IInv

(* A tensor under way disturbs nothing. *)
LEMMA BroadcastStep ==
    ASSUME IInv, TypeOK', Broadcast
    PROVE  IInv'
<1>1. TaskInv'
    BY DEF Broadcast, serverVars, IInv, TaskInv
<1>2. PubInv'
    BY DEF Broadcast, serverVars, IInv, PubInv
<1>3. WorkerInv'
    BY DEF Broadcast, serverVars, workerVars, IInv, TypeOK, WorkerInv, Before,
           Midway
<1>4. VersionInv'
    BY DEF Broadcast, serverVars, IInv, VersionInv, TaskOver
<1>5. CacheInv'
    BY DEF cacheVars, Broadcast, serverVars, IInv, CacheInv
<1> QED
    BY <1>1, <1>2, <1>3, <1>4, <1>5 DEF IInv

(* The publisher waits at the barrier. *)
LEMMA ArriveBarrierStep ==
    ASSUME IInv, TypeOK', ArriveBarrier
    PROVE  IInv'
<1>1. TaskInv'
    BY DEF ArriveBarrier, serverVars, IInv, TaskInv
<1>2. PubInv'
    BY DEF ArriveBarrier, serverVars, IInv, PubInv
<1>3. WorkerInv'
    BY DEF ArriveBarrier, serverVars, workerVars, IInv, WorkerInv, Before,
           Midway
<1>4. VersionInv'
    BY DEF ArriveBarrier, serverVars, IInv, VersionInv, TaskOver
<1>5. CacheInv'
    BY DEF cacheVars, ArriveBarrier, serverVars, IInv, CacheInv
<1> QED
    BY <1>1, <1>2, <1>3, <1>4, <1>5 DEF IInv

(* The publisher is gone: what the workers hold and where the task is stays. *)
LEMMA PublisherFailsStep ==
    ASSUME IInv, TypeOK', PublisherFails
    PROVE  IInv'
<1>1. TaskInv'
    BY DEF PublisherFails, serverVars, IInv, TaskInv
<1>2. PubInv'
    BY DEF PublisherFails, serverVars, IInv, PubInv
<1>3. WorkerInv'
    BY DEF PublisherFails, serverVars, workerVars, IInv, WorkerInv, Before, After, Midway
<1>4. VersionInv'
    BY DEF PublisherFails, serverVars, IInv, VersionInv, TaskOver
<1>5. CacheInv'
    BY DEF PublisherFails, serverVars, cacheVars, IInv, TypeOK, TaskInv, CacheInv
<1> QED
    BY <1>1, <1>2, <1>3, <1>4, <1>5 DEF IInv

(* All workers hold all tensors of the step when they leave together. *)
LEMMA GroupBarrierStep ==
    ASSUME IInv, TypeOK', GroupBarrier
    PROVE  IInv'
<1>1. TaskInv'
    BY DEF GroupBarrier, serverVars, IInv, TaskInv
<1>2. PubInv'
    <2>1. PICK w \in Workers : TRUE
        BY WorkersAssumption
    <2> QED
        BY DEF GroupBarrier, serverVars, IInv, PubInv, WorkerInv
<1>3. WorkerInv'
    BY DEF GroupBarrier, serverVars, IInv, Params, WorkerInv, After, Midway
<1>4. VersionInv'
    BY DEF GroupBarrier, serverVars, IInv, PubInv, VersionInv, TaskOver
<1>5. CacheInv'
    BY DEF cacheVars, GroupBarrier, serverVars, IInv, CacheInv
<1> QED
    BY <1>1, <1>2, <1>3, <1>4, <1>5 DEF IInv

(* No task is left, so what the workers hold becomes the published policy. *)
LEMMA FinalizePollStep ==
    ASSUME IInv, TypeOK', FinalizePoll
    PROVE  IInv'
<1>1. TaskInv'
    BY DEF FinalizePoll, serverVars, TaskInv
<1>2. PubInv'
    BY DEF FinalizePoll, TypeOK, Steps, PubInv
<1>3. WorkerInv'
    BY DEF FinalizePoll, workerVars, IInv, TypeOK, WorkerInv, Before, After
<1>4. VersionInv'
    BY DEF FinalizePoll, serverVars, IInv, TypeOK, Steps, PubInv, VersionInv,
           TaskOver
<1>5. CacheInv'
    BY DEF cacheVars, FinalizePoll, serverVars, IInv, CacheInv
<1> QED
    BY <1>1, <1>2, <1>3, <1>4, <1>5 DEF IInv

(* The publisher is gone, the task goes on as if it were still polled for. *)
LEMMA PollFailsStep ==
    ASSUME IInv, TypeOK', PollFails
    PROVE  IInv'
<1>1. TaskInv'
    BY DEF PollFails, serverVars, IInv, TaskInv
<1>2. PubInv'
    BY DEF PollFails, serverVars, IInv, PubInv
<1>3. WorkerInv'
    BY DEF PollFails, serverVars, workerVars, IInv, WorkerInv, Before, After, Midway
<1>4. VersionInv'
    BY DEF PollFails, serverVars, IInv, VersionInv, TaskOver
<1>5. CacheInv'
    BY DEF PollFails, serverVars, cacheVars, IInv, TypeOK, TaskInv, CacheInv
<1> QED
    BY <1>1, <1>2, <1>3, <1>4, <1>5 DEF IInv

(* The task takes the semaphore. *)
LEMMA StartUpdateStep ==
    ASSUME NEW v \in Steps, IInv, TypeOK', StartUpdate(v)
    PROVE  IInv'
<1>1. TaskInv'
    BY DEF StartUpdate, trainerVars, IInv, TaskInv
<1>2. PubInv'
    BY DEF StartUpdate, trainerVars, IInv, PubInv
<1>3. WorkerInv'
    BY DEF StartUpdate, trainerVars, IInv, TypeOK, TaskInv, PubInv, WorkerInv,
           Before, After, Midway
<1>4. VersionInv'
    BY DEF StartUpdate, trainerVars, IInv, VersionInv, TaskOver
<1>5. CacheInv'
    BY DEF cacheVars, StartUpdate, IInv, TypeOK, TaskInv, PubInv, CacheInv
<1> QED
    BY <1>1, <1>2, <1>3, <1>4, <1>5 DEF IInv

(* The task dies with every worker in service. *)
LEMMA CallFailsStep ==
    ASSUME NEW v \in Steps, IInv, TypeOK', CallFails(v)
    PROVE  IInv'
<1>1. TaskInv'
    BY DEF CallFails, trainerVars, IInv, TypeOK, TaskInv
<1>2. PubInv'
    BY DEF CallFails, trainerVars, IInv, TypeOK, TaskInv, PubInv
<1>3. WorkerInv'
    BY DEF CallFails, trainerVars, workerVars, IInv, WorkerInv, Before, After, Midway
<1>4. VersionInv'
    BY DEF CallFails, trainerVars, IInv, TypeOK, TaskInv, PubInv, VersionInv, TaskOver, TaskMayDie
<1>5. CacheInv'
    BY DEF CallFails, trainerVars, cacheVars, IInv, TypeOK, Steps, TaskInv, CacheInv
<1> QED
    BY <1>1, <1>2, <1>3, <1>4, <1>5 DEF IInv

(* The task dies and leaves the workers as far as they have come. *)
LEMMA RpcFailsStep ==
    ASSUME NEW v \in Steps, IInv, TypeOK', RpcFails(v)
    PROVE  IInv'
<1>1. TaskInv'
    BY DEF RpcFails, trainerVars, IInv, TypeOK, TaskInv
<1>2. PubInv'
    BY DEF RpcFails, trainerVars, IInv, TypeOK, TaskInv, PubInv
<1>3. WorkerInv'
    BY DEF RpcFails, trainerVars, IInv, TypeOK, TaskInv, WorkerInv, Before, After, Midway
<1>4. VersionInv'
    BY DEF RpcFails, trainerVars, IInv, TypeOK, TaskInv, PubInv, VersionInv, TaskOver, TaskMayDie
<1>5. CacheInv'
    BY DEF RpcFails, trainerVars, cacheVars, IInv, TypeOK, Steps, TaskInv, CacheInv
<1> QED
    BY <1>1, <1>2, <1>3, <1>4, <1>5 DEF IInv

(* The rpc returns when all workers have left: the publisher has too. *)
LEMMA RpcReturnsStep ==
    ASSUME NEW v \in Steps, IInv, TypeOK', RpcReturns(v)
    PROVE  IInv'
<1>1. TaskInv'
    BY DEF RpcReturns, trainerVars, IInv, TaskInv
<1>2. PubInv'
    <2>1. PICK w \in Workers : TRUE
        BY WorkersAssumption
    <2> QED
        BY DEF RpcReturns, trainerVars, IInv, PubInv, WorkerInv
<1>3. WorkerInv'
    BY DEF RpcReturns, trainerVars, IInv, TypeOK, TaskInv, WorkerInv, After
<1>4. VersionInv'
    BY DEF RpcReturns, trainerVars, IInv, VersionInv, TaskOver
<1>5. CacheInv'
    BY DEF cacheVars, RpcReturns, IInv, TypeOK, TaskInv, CacheInv
<1> QED
    BY <1>1, <1>2, <1>3, <1>4, <1>5 DEF IInv

(* Where the reset is not refused it leaves no block of earlier weights. *)
LEMMA ResetPrefixCacheStep ==
    ASSUME NEW v \in Steps, IInv, TypeOK', ResetPrefixCache(v)
    PROVE  IInv'
<1>1. TaskInv'
    BY DEF ResetPrefixCache, trainerVars, IInv, TaskInv
<1>2. PubInv'
    BY DEF ResetPrefixCache, trainerVars, IInv, PubInv
<1>3. WorkerInv'
    BY DEF ResetPrefixCache, trainerVars, workerVars, IInv, WorkerInv, Before,
           After, Midway
<1>4. VersionInv'
    BY DEF ResetPrefixCache, trainerVars, IInv, VersionInv, TaskOver
<1>5. CacheInv'
    BY DEF cacheVars, ResetPrefixCache, CacheInv
<1> QED
    BY <1>1, <1>2, <1>3, <1>4, <1>5 DEF IInv

(* The task dies: its version is in failed, the old one stays reported. *)
LEMMA ResetFailsStep ==
    ASSUME NEW v \in Steps, IInv, TypeOK', ResetFails(v)
    PROVE  IInv'
<1>1. TaskInv'
    BY DEF ResetFails, IInv, TypeOK, TaskInv
<1>2. PubInv'
    BY DEF ResetFails, trainerVars, IInv, PubInv
<1>3. WorkerInv'
    BY DEF ResetFails, trainerVars, workerVars, IInv, WorkerInv, Before, After,
           Midway
<1>4. VersionInv'
    BY DEF ResetFails, trainerVars, IInv, TypeOK, TaskInv, PubInv, VersionInv,
           TaskOver, TaskMayDie
<1>5. CacheInv'
    BY DEF cacheVars, ResetFails, IInv, TypeOK, Steps, TaskInv, CacheInv
<1> QED
    BY <1>1, <1>2, <1>3, <1>4, <1>5 DEF IInv

(* The version follows the weights and the reset. *)
LEMMA BumpVersionStep ==
    ASSUME NEW v \in Steps, IInv, TypeOK', BumpVersion(v)
    PROVE  IInv'
<1>1. TaskInv'
    BY DEF BumpVersion, IInv, TypeOK, TaskInv
<1>2. PubInv'
    BY DEF BumpVersion, trainerVars, IInv, PubInv
<1>3. WorkerInv'
    BY DEF BumpVersion, trainerVars, workerVars, IInv, WorkerInv, Before,
           After, Midway
<1>4. VersionInv'
    BY DEF BumpVersion, trainerVars, IInv, TypeOK, TaskInv, PubInv, VersionInv,
           TaskOver
<1>5. CacheInv'
    BY DEF cacheVars, BumpVersion, IInv, TypeOK, Steps, TaskInv, CacheInv
<1> QED
    BY <1>1, <1>2, <1>3, <1>4, <1>5 DEF IInv

(* A worker enters the rpc with the weights of the last publish. *)
LEMMA EnterRpcStep ==
    ASSUME NEW w \in Workers, IInv, TypeOK', EnterRpc(w)
    PROVE  IInv'
<1>1. TaskInv'
    BY DEF EnterRpc, trainerVars, serverVars, IInv, TaskInv
<1>2. PubInv'
    BY DEF EnterRpc, trainerVars, serverVars, IInv, PubInv
<1>3. WorkerInv'
    BY DEF EnterRpc, trainerVars, serverVars, IInv, TypeOK, Params, TaskInv,
           WorkerInv, Before, After, Midway
<1>4. VersionInv'
    BY DEF EnterRpc, trainerVars, serverVars, IInv, VersionInv, TaskOver
<1>5. CacheInv'
    BY DEF cacheVars, EnterRpc, serverVars, IInv, TypeOK, TaskInv, CacheInv
<1> QED
    BY <1>1, <1>2, <1>3, <1>4, <1>5 DEF IInv

(* A worker loads one more tensor and stays a prefix ahead of the old weights. *)
LEMMA ReceiveStep ==
    ASSUME NEW w \in Workers, IInv, TypeOK', Receive(w)
    PROVE  IInv'
<1>1. TaskInv'
    BY DEF Receive, trainerVars, serverVars, IInv, TaskInv
<1>2. PubInv'
    BY DEF Receive, trainerVars, serverVars, IInv, PubInv
<1>3. WorkerInv'
    <2>1. pub \in {"stream", "barrier", "dead"} /\ Midway(w)
        BY DEF Receive, IInv, TypeOK, PubInv, WorkerInv
    <2>2. got'[w] <= sent /\ Midway(w)'
        BY <2>1 DEF Receive, IInv, TypeOK, Params, Midway, trainerVars
    <2> QED
        BY <2>2
        DEF Receive, IInv, WorkerInv, Before, Midway, trainerVars, serverVars
<1>4. VersionInv'
    BY DEF Receive, trainerVars, serverVars, IInv, VersionInv, TaskOver
<1>5. CacheInv'
    BY DEF cacheVars, Receive, serverVars, IInv, TypeOK, TaskInv, CacheInv
<1> QED
    BY <1>1, <1>2, <1>3, <1>4, <1>5 DEF IInv

(* A worker that raises keeps the tensors it has. *)
LEMMA LoadFailsStep ==
    ASSUME NEW w \in Workers, IInv, TypeOK', LoadFails(w)
    PROVE  IInv'
<1>1. TaskInv'
    BY DEF LoadFails, trainerVars, serverVars, IInv, TaskInv
<1>2. PubInv'
    BY DEF LoadFails, trainerVars, serverVars, IInv, PubInv
<1>3. WorkerInv'
    BY DEF LoadFails, trainerVars, serverVars, IInv, TypeOK, WorkerInv, Before, After, Midway
<1>4. VersionInv'
    BY DEF LoadFails, trainerVars, serverVars, IInv, VersionInv, TaskOver
<1>5. CacheInv'
    BY DEF LoadFails, trainerVars, serverVars, cacheVars, IInv, TypeOK, TaskInv, CacheInv
<1> QED
    BY <1>1, <1>2, <1>3, <1>4, <1>5 DEF IInv

(* A worker in service adds the blocks of the weights it holds. *)
LEMMA ServeStep ==
    ASSUME NEW w \in Workers, IInv, TypeOK', Serve(w)
    PROVE  IInv'
<1>1. TaskInv'
    BY DEF Serve, trainerVars, serverVars, IInv, TaskInv
<1>2. PubInv'
    BY DEF Serve, trainerVars, serverVars, IInv, PubInv
<1>3. WorkerInv'
    BY DEF Serve, trainerVars, serverVars, workerVars, IInv, WorkerInv, Before,
           After, Midway
<1>4. VersionInv'
    BY DEF Serve, trainerVars, serverVars, IInv, VersionInv, TaskOver
<1>5. CacheInv'
    <2>1. \A p \in Params : weights[w][p] >= version
        BY OlderThanNone
    <2>2. task[step] = "bump" => \A p \in Params : weights[w][p] >= step
        BY DEF IInv, TypeOK, TaskInv, PubInv, WorkerInv, After, Steps
    <2>3. /\ version \in Nat /\ step \in Nat /\ cache \in [Workers -> SUBSET Nat]
          /\ weights \in [Workers -> [Params -> Nat]]
        BY DEF IInv, TypeOK, Steps
    <2>4. /\ UNCHANGED <<task, step, version, refused>>
          /\ cache' = [cache EXCEPT ![w] = @ \union {weights[w][p] : p \in Params}]
        BY DEF Serve, trainerVars, serverVars
    <2>5. \A x \in Workers : \A c \in cache'[x] :
            \/ c \in cache[x]
            \/ c \in Nat /\ c >= version /\ (task[step] = "bump" => c >= step)
        BY <2>1, <2>2, <2>3, <2>4
    <2> QED
        BY <2>3, <2>4, <2>5 DEF IInv, CacheInv
<1> QED
    BY <1>1, <1>2, <1>3, <1>4, <1>5 DEF IInv

(* The end of a request frees blocks and removes none. *)
LEMMA FinishStep ==
    ASSUME NEW w \in Workers, IInv, TypeOK', Finish(w)
    PROVE  IInv'
<1>1. TaskInv'
    BY DEF Finish, trainerVars, serverVars, workerVars, IInv, TaskInv
<1>2. PubInv'
    BY DEF Finish, trainerVars, serverVars, workerVars, IInv, PubInv
<1>3. WorkerInv'
    BY DEF Finish, trainerVars, serverVars, workerVars, workerVars, IInv, WorkerInv, Before, After, Midway
<1>4. VersionInv'
    BY DEF Finish, trainerVars, serverVars, workerVars, IInv, VersionInv, TaskOver
<1>5. CacheInv'
    BY DEF Finish, trainerVars, serverVars, workerVars, cacheVars, IInv, TypeOK, TaskInv, CacheInv
<1> QED
    BY <1>1, <1>2, <1>3, <1>4, <1>5 DEF IInv

(* Nothing changes. *)
LEMMA StutterStep == IInv /\ UNCHANGED vars => IInv'
<1> SUFFICES ASSUME IInv, UNCHANGED vars PROVE IInv'
    OBVIOUS
<1> USE DEF vars, trainerVars, serverVars, workerVars, cacheVars
<1>1. TypeOK'
    BY DEF IInv, TypeOK
<1>2. TaskInv' /\ PubInv' /\ VersionInv'
    BY DEF IInv, TaskInv, PubInv, VersionInv, TaskOver
<1>3. WorkerInv' /\ CacheInv'
    BY DEF IInv, WorkerInv, CacheInv, Before, After, Midway
<1> QED
    BY <1>1, <1>2, <1>3 DEF IInv

(* IInv is inductive. *)
LEMMA NextIInv == IInv /\ [Next]_vars => IInv'
<1> SUFFICES ASSUME IInv, [Next]_vars PROVE IInv'
    OBVIOUS
<1>1. TypeOK'
    BY TypeStep DEF IInv
<1>2. CASE Trainer
    BY <1>1, <1>2, TrainStepStep, AnnounceStep, AnnounceFailsStep,
       BroadcastStep, ArriveBarrierStep, PublisherFailsStep, GroupBarrierStep,
       FinalizePollStep, PollFailsStep
    DEF Trainer
<1>3. ASSUME NEW v \in Steps, Update(v) PROVE IInv'
    BY <1>1, <1>3, StartUpdateStep, CallFailsStep, RpcReturnsStep, RpcFailsStep,
       ResetPrefixCacheStep, ResetFailsStep, BumpVersionStep
    DEF Update
<1>4. ASSUME NEW w \in Workers, Worker(w) \/ Requests(w) PROVE IInv'
    BY <1>1, <1>4, EnterRpcStep, ReceiveStep, LoadFailsStep, ServeStep, FinishStep
    DEF Worker, Requests
<1> QED
    BY <1>2, <1>3, <1>4, StutterStep DEF Next

(* The inductive invariant holds in every reachable state. *)
THEOREM Inductive == Spec => []IInv
BY InitIInv, NextIInv, PTL DEF Spec

-----------------------------------------------------------------------------
(* Workers that may run a model step together hold the same weights: the    *)
(* barrier of update_param_batch releases them all at once.                 *)
THEOREM ServingWorkersAgreeAlways == Spec => []ServingWorkersAgree
<1>1. IInv => ServingWorkersAgree
    BY DEF IInv, TypeOK, WorkerInv, ServingWorkersAgree, Before, After
<1> QED
    BY <1>1, Inductive, PTL

(* RUNTIME_VERSION is never ahead of any tensor of any worker. *)
THEOREM ReportedPolicyIsLoadedAlways == Spec => []ReportedPolicyIsLoaded
<1>1. IInv => ReportedPolicyIsLoaded
    BY OlderThanNone DEF ReportedPolicyIsLoaded
<1> QED
    BY <1>1, Inductive, PTL

(* A block older than the reported version is only left where the engine     *)
(* refused the last reset because running requests held blocks.              *)
THEOREM CacheIsCurrentAlways == Spec => []CacheIsCurrent
<1>1. IInv => CacheIsCurrent
    BY DEF IInv, CacheInv, CacheIsCurrent
<1> QED
    BY <1>1, Inductive, PTL

(* When publish returns, the update is over everywhere. *)
THEOREM PublishSettledAlways == Spec => []PublishSettled
<1>1. IInv => PublishSettled
    BY DEF IInv, TaskInv, WorkerInv, VersionInv, TaskOver, PublishSettled,
           Before
<1> QED
    BY <1>1, Inductive, PTL

-----------------------------------------------------------------------------
(* The refinement of PolicyStore *)

(* Right after a publish starts, and until the last worker has the last      *)
(* tensor, not everything is loaded.                                         *)
LEMMA OldWeights ==
    ASSUME IInv, pub # "train",
           \E w \in Workers, p \in Params : weights[w][p] = published
    PROVE  ~AllLoaded
BY DEF IInv, TypeOK, PubInv, Steps, AllLoaded

(* A step that leaves the weights and the version alone, within a publish or *)
(* outside, is a stuttering step of the store.                               *)
LEMMA SameStore ==
    ASSUME UNCHANGED <<step, published, version, weights>>,
           (pub = "train") <=> (pub' = "train")
    PROVE  UNCHANGED Store!storeVars
BY DEF Store!storeVars, StorePhase, Publishing, AllLoaded

(* A publish starts with the weights of the last one. *)
LEMMA TrainStepRefines ==
    ASSUME IInv, IInv', TrainStep
    PROVE  [Store!StoreNext]_Store!storeVars
<1>1. /\ pub = "train" /\ step' = step + 1 /\ step \in Nat /\ step' \in Steps
      /\ UNCHANGED <<published, version, weights>>
      /\ published \in Nat /\ published <= step
    BY DEF TrainStep, serverVars, workerVars, IInv, TypeOK, PubInv, Steps
<1>2. CASE pub' = "train"
    BY <1>1, <1>2 DEF Store!storeVars, StorePhase, Publishing
<1>3. CASE pub' = "announce"
    <2>1. PICK w \in Workers : TRUE
        BY WorkersAssumption
    <2>2. 1 \in Params /\ weights[w][1] = published
        BY <1>1, Constants DEF IInv, WorkerInv, Before, Params
    <2>3. ~AllLoaded'
        BY <1>1, <2>2 DEF AllLoaded
    <2>4. StorePhase = "idle" /\ StorePhase' = "loading"
        BY <1>1, <1>3, <2>3 DEF StorePhase
    <2>5. Store!Begin(step')
        BY <1>1, <1>3, <2>3, <2>4 DEF Store!Begin, Publishing
    <2>6. step' \in Store!Versions /\ step' > published
        BY <1>1 DEF Store!Versions, Steps
    <2> QED
        BY <1>1, <2>5, <2>6 DEF Store!StoreNext
<1> QED
    BY <1>2, <1>3 DEF TrainStep

(* publish returns from a loaded policy: one that is also reported, unless  *)
(* its task died.                                                           *)
LEMMA FinalizePollRefines ==
    ASSUME IInv, FinalizePoll
    PROVE  Store!Return
<1>1. /\ pub = "drain" /\ pub' = "train" /\ published' = step
      /\ UNCHANGED <<step, version, weights>>
    BY DEF FinalizePoll, serverVars, workerVars
<1>2. AllLoaded
    BY <1>1 DEF IInv, WorkerInv, After, AllLoaded
<1>3. version = step \/ TaskMayDie
    BY DEF FinalizePoll, IInv, TypeOK, VersionInv, TaskOver
<1>4. StorePhase = "reported" \/ (StorePhase = "loaded" /\ TaskMayDie)
    BY <1>1, <1>2, <1>3 DEF StorePhase
<1>5. StorePhase' = "idle"
    BY <1>1 DEF StorePhase
<1> QED
    BY <1>1, <1>2, <1>4, <1>5 DEF Store!Return, Publishing

(* The task sets the version of the publish in progress. *)
LEMMA BumpVersionRefines ==
    ASSUME NEW v \in Steps, IInv, BumpVersion(v)
    PROVE  Store!Report
<1>1. v = step /\ pub \in {"drain", "blind"} /\ version < step
    BY DEF BumpVersion, IInv, TypeOK, TaskInv, PubInv, VersionInv, TaskOver,
           Steps
<1>2. AllLoaded
    BY <1>1 DEF IInv, WorkerInv, After, AllLoaded
<1>3. /\ version' = step
      /\ UNCHANGED <<step, pub, published, weights>>
    BY <1>1 DEF BumpVersion, trainerVars, workerVars
<1>4. StorePhase = "loaded" /\ StorePhase' = "reported"
    <2>1. AllLoaded' /\ version # step
        BY <1>1, <1>2, <1>3 DEF AllLoaded, Steps
    <2> QED
        BY <1>1, <1>2, <1>3, <2>1 DEF StorePhase
<1> QED
    BY <1>1, <1>3, <1>4 DEF Store!Report, Publishing, AllLoaded

(* The last tensor at the last worker loads the policy; no other does. *)
LEMMA ReceiveRefines ==
    ASSUME NEW w \in Workers, IInv, IInv', Receive(w)
    PROVE  [Store!StoreNext]_Store!storeVars
<1>1. /\ pub # "train" /\ pub' = pub
      /\ UNCHANGED <<step, published, version>>
    BY DEF Receive, trainerVars, serverVars, IInv, WorkerInv
<1>2. /\ pub \in {"stream", "barrier", "dead"} /\ Midway(w)
      /\ got[w] + 1 \in Params /\ got[w] \in Nat
    BY DEF Receive, IInv, TypeOK, PubInv, WorkerInv
<1>3. ~AllLoaded
    <2>1. weights[w][got[w] + 1] = published
        BY <1>2 DEF Midway
    <2> QED
        BY <1>2, <2>1, OldWeights
<1>4. version < step /\ version \in Nat /\ step \in Nat
    BY <1>2 DEF IInv, TypeOK, PubInv, VersionInv, TaskOver, Steps
<1>5. CASE AllLoaded'
    <2>1. StorePhase = "loading" /\ StorePhase' = "loaded"
        BY <1>1, <1>3, <1>4, <1>5 DEF StorePhase
    <2>2. Store!Apply
        BY <1>1, <1>5, <2>1 DEF Store!Apply, Publishing
    <2> QED
        BY <2>2 DEF Store!StoreNext
<1>6. CASE ~AllLoaded'
    BY <1>1, <1>3, <1>6 DEF Store!storeVars, StorePhase, Publishing
<1> QED
    BY <1>5, <1>6

(* Every step is a step of the store, or none. *)
LEMMA StepRefines == IInv /\ IInv' /\ [Next]_vars => [Store!StoreNext]_Store!storeVars
<1> SUFFICES ASSUME IInv, IInv', [Next]_vars
             PROVE  [Store!StoreNext]_Store!storeVars
    OBVIOUS
<1>1. CASE TrainStep
    BY <1>1, TrainStepRefines
<1>2. CASE \/ Announce \/ AnnounceFails \/ Broadcast \/ ArriveBarrier
           \/ PublisherFails \/ GroupBarrier \/ PollFails
    BY <1>2, SameStore
    DEF Announce, AnnounceFails, Broadcast, ArriveBarrier, PublisherFails,
        GroupBarrier, PollFails, serverVars, workerVars
<1>3. CASE FinalizePoll
    BY <1>3, FinalizePollRefines DEF Store!StoreNext
<1>4. ASSUME NEW v \in Steps,
             \/ StartUpdate(v) \/ CallFails(v) \/ RpcReturns(v) \/ RpcFails(v)
             \/ ResetPrefixCache(v) \/ ResetFails(v)
      PROVE  UNCHANGED Store!storeVars
    BY <1>4, SameStore
    DEF StartUpdate, CallFails, RpcReturns, RpcFails, ResetPrefixCache,
        ResetFails, trainerVars, workerVars
<1>5. ASSUME NEW v \in Steps, BumpVersion(v) PROVE Store!StoreNext
    BY <1>5, BumpVersionRefines DEF Store!StoreNext
<1>6. ASSUME NEW w \in Workers, EnterRpc(w) \/ LoadFails(w) \/ Requests(w)
      PROVE  UNCHANGED Store!storeVars
    BY <1>6, SameStore
    DEF EnterRpc, LoadFails, Requests, Serve, Finish, trainerVars, serverVars,
        workerVars
<1>7. ASSUME NEW w \in Workers, Receive(w)
      PROVE  [Store!StoreNext]_Store!storeVars
    BY <1>7, ReceiveRefines
<1>8. CASE UNCHANGED vars
    BY <1>8, SameStore DEF vars, trainerVars, serverVars, workerVars
<1> QED
    BY <1>1, <1>2, <1>3, <1>4, <1>5, <1>6, <1>7, <1>8
    DEF Next, Trainer, Update, Worker

(* The broadcast protocol implements the abstract policy store. *)
THEOREM Refinement == Spec => RefinesPolicyStore
<1>1. Init => Store!StoreInit
    BY DEF Init, Store!StoreInit, StorePhase
<1> QED
    BY <1>1, StepRefines, Inductive, PTL DEF Spec, RefinesPolicyStore, Store!StoreSpec
=============================================================================
