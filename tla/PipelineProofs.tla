--------------------------- MODULE PipelineProofs ---------------------------
(***************************************************************************)
(* Pipeline's safety properties, for every number of actors, every batch   *)
(* and queue size, sync interval, lag and number of failed calls.          *)
(* The tag theorems speak of a trainer not resumed yet: they are false     *)
(* afterwards.  The sync theorem holds with any number of resumes, if no   *)
(* server task dies and the trainer starts less than one sync ahead.       *)
(***************************************************************************)
EXTENDS Pipeline, TLAPS

(* What the assumptions say of the numbers, in the form the steps use. *)
LEMMA Constants ==
    /\ MaxVersion \in Nat /\ Versions = 0 .. MaxVersion
    /\ NoToken = MaxVersion + 1
    /\ ItemsPerPush \in Nat /\ ItemsPerPush >= 1
    /\ BatchSize \in Nat
    /\ SyncEvery \in Nat \ {0}
    /\ MaxLag \in Nat
    /\ FirstStep \in Versions
    /\ MaxFaults \in Nat /\ MaxRestarts \in Nat
BY PipelineAssumption, VersionAssumption DEF Versions, NoToken

-----------------------------------------------------------------------------
(* Types *)

(* The items of one push are well typed. *)
LEMMA PushedItems ==
    ASSUME NEW a \in Actors, TypeOK, oldest[a] # NoToken
    PROVE  [i \in 1 .. ItemsPerPush |-> [tag |-> tag[a], oldest |-> oldest[a]]]
             \in Seq(Item)
BY Constants DEF TypeOK, Item

(* An actor pushes only what it has sampled. *)
PushSampled == \A a \in Actors : apc[a] = "push" => oldest[a] # NoToken

(* Each step keeps every variable in its type. *)
LEMMA TypeStep ==
    ASSUME TypeOK, PushSampled, [Next]_vars
    PROVE  TypeOK' /\ PushSampled'
<1> USE Constants
<1>1. CASE Server
    BY <1>1
    DEF Server, Apply, Report, Return, TypeOK, PushSampled, actorVars, Phases
<1>2. CASE PopItem
    <2>1. Head(queue) \in Item /\ Tail(queue) \in Seq(Item)
        BY <1>2 DEF PopItem, TypeOK
    <2>2. Append(batch, Head(queue)) \in Seq(Item)
        BY <2>1 DEF TypeOK
    <2>3. batch' \in Seq(Item)
        BY <1>2, <2>2 DEF PopItem, TypeOK
    <2>4. faults' \in 0 .. MaxFaults
        BY <1>2 DEF PopItem, Fault, TypeOK
    <2> QED
        BY <1>2, <2>3, <2>4
        DEF PopItem, TypeOK, PushSampled, storeVars, actorVars
<1>3. CASE DropBatch
    BY <1>3 DEF DropBatch, Fault, TypeOK, PushSampled, storeVars, actorVars
<1>4. CASE TrainBatch
    <2>1. Fresh \in SUBSET Item
        BY DEF Fresh, ToSet, TypeOK
    <2> QED
        BY <1>4, <2>1
        DEF TrainBatch, SyncAfter, Begin, TypeOK, PushSampled, storeVars,
            actorVars, Phases
<1>5. CASE Resume
    BY <1>5 DEF Resume, TypeOK, PushSampled, storeVars, actorVars
<1>6. ASSUME NEW a \in Actors, Actor(a) PROVE TypeOK' /\ PushSampled'
    <2>1. CASE PollVersion(a)
        <3>1. PICK v \in Versions : TagRequests(a, v)
            BY <2>1 DEF PollVersion, TypeOK
        <3>2. faults' \in 0 .. MaxFaults
            BY <2>1 DEF PollVersion, Fault, TypeOK
        <3> QED
            BY <3>1, <3>2 DEF TagRequests, TypeOK, PushSampled, storeVars
    <2>2. CASE SampleToken(a)
        BY <2>2 DEF SampleToken, TypeOK, PushSampled, storeVars
    <2>3. CASE GenerateBatch(a)
        <3>1. faults' \in 0 .. MaxFaults
            BY <2>3 DEF GenerateBatch, Fault, TypeOK
        <3>2. PushSampled'
            BY <2>3 DEF GenerateBatch, TypeOK, PushSampled
        <3> QED
            BY <2>3, <3>1, <3>2 DEF GenerateBatch, TypeOK, storeVars
    <2>4. CASE Push(a)
        <3> DEFINE pushed == [i \in 1 .. ItemsPerPush |->
                                [tag |-> tag[a], oldest |-> oldest[a]]]
        <3>1. pushed \in Seq(Item)
            BY <2>4, PushedItems DEF Push, PushSampled
        <3> HIDE DEF pushed
        <3>2. queue \o pushed \in Seq(Item)
            BY <3>1 DEF TypeOK
        <3>3. queue' \in Seq(Item)
            BY <2>4, <3>2 DEF Push, TypeOK, pushed
        <3>4. faults' \in 0 .. MaxFaults
            BY <2>4 DEF Push, Fault, TypeOK
        <3> QED
            BY <2>4, <3>3, <3>4 DEF Push, TypeOK, PushSampled, storeVars
    <2> QED
        BY <1>6, <2>1, <2>2, <2>3, <2>4 DEF Actor
<1>7. CASE UNCHANGED vars
    BY <1>7 DEF vars, storeVars, actorVars, TypeOK, PushSampled
<1> QED
    BY <1>1, <1>2, <1>3, <1>4, <1>5, <1>6, <1>7 DEF Next, Trainer

(* Types, with what an actor pushes, are an inductive invariant. *)
LEMMA PushSampledAlways == Spec => [](TypeOK /\ PushSampled)
<1>1. Init => TypeOK /\ PushSampled
    BY Constants DEF Init, StoreInit, TypeOK, PushSampled, Phases
<1>2. TypeOK /\ PushSampled /\ [Next]_vars => TypeOK' /\ PushSampled'
    BY TypeStep
<1> QED
    BY <1>1, <1>2, PTL DEF Spec

(* Every variable keeps its type, with any number of resumes. *)
THEOREM TypeCorrect == Spec => []TypeOK
BY PushSampledAlways, PTL

-----------------------------------------------------------------------------
(* Tags *)

(* The initial states satisfy the invariant. *)
LEMMA InitTagInv == Init => StoreInv /\ OrderInv /\ ActorInv /\ ItemInv
BY Constants DEF Init, StoreInit, StoreInv, OrderInv, ActorInv, ItemInv

(* The steps of everybody but a trainer that is being resumed. *)
Steps == Server \/ Trainer \/ (\E a \in Actors : Actor(a)) \/ UNCHANGED vars

(* As long as the trainer has not been resumed, all steps were of this kind. *)
LEMMA NotResumed ==
    ASSUME TypeOK, [Next]_vars, restarts' = 0
    PROVE  restarts = 0 /\ Steps
<1> USE Constants
<1>1. CASE Resume
    BY <1>1 DEF Resume, TypeOK
<1>2. CASE Steps
    BY <1>2
    DEF Steps, Server, Trainer, PopItem, DropBatch, TrainBatch, Actor,
        PollVersion, TagRequests, SampleToken, GenerateBatch, Push, vars
<1> QED
    BY <1>1, <1>2 DEF Next, Steps

(* What is loaded is what is being published, whoever moves. *)
LEMMA StoreStep ==
    ASSUME TypeOK, StoreInv, [Next]_vars
    PROVE  StoreInv'
<1>1. CASE Server
    BY <1>1 DEF Server, Apply, Report, Return, TypeOK, StoreInv
<1>2. CASE TrainBatch
    BY <1>2 DEF TrainBatch, SyncAfter, Begin, StoreInv, storeVars
<1>3. CASE UNCHANGED storeVars
    BY <1>3 DEF StoreInv, storeVars
<1> QED
    BY <1>1, <1>2, <1>3
    DEF Next, Trainer, PopItem, DropBatch, Resume, Actor, PollVersion,
        TagRequests, SampleToken, GenerateBatch, Push, vars

(* The server's versions stay in order. *)
LEMMA OrderStep ==
    ASSUME TypeOK, StoreInv, OrderInv, Steps
    PROVE  OrderInv'
<1> USE Constants
<1>1. CASE Server
    BY <1>1 DEF Server, Apply, Report, Return, TypeOK, StoreInv, OrderInv
<1>2. CASE TrainBatch
    BY <1>2 DEF TrainBatch, SyncAfter, Begin, TypeOK, OrderInv, storeVars
<1>3. CASE UNCHANGED <<storeVars, step>>
    BY <1>3 DEF OrderInv, storeVars
<1> QED
    BY <1>1, <1>2, <1>3
    DEF Steps, Trainer, PopItem, DropBatch, Actor, PollVersion, TagRequests,
        SampleToken, GenerateBatch, Push, vars

(* A tag stays below the weights that answer, before and after it samples. *)
LEMMA ActorStep ==
    ASSUME TypeOK, OrderInv, ActorInv, Steps
    PROVE  ActorInv'
<1> USE Constants
<1>1. ASSUME NEW a \in Actors, Actor(a) PROVE ActorInv'
    <2>1. CASE PollVersion(a)
        <3>1. PICK v \in Versions : TagRequests(a, v) /\ v <= loaded
            BY <2>1 DEF PollVersion, TypeOK, OrderInv
        <3> QED
            BY <3>1 DEF TagRequests, storeVars, TypeOK, ActorInv
    <2>2. CASE SampleToken(a)
        BY <2>2 DEF SampleToken, storeVars, ActorInv
    <2>3. CASE GenerateBatch(a) \/ Push(a)
        BY <2>3 DEF GenerateBatch, Push, storeVars, TypeOK, ActorInv
    <2> QED
        BY <1>1, <2>1, <2>2, <2>3 DEF Actor
<1>2. CASE Server \/ Trainer \/ UNCHANGED vars
    <2>1. loaded' >= loaded
        BY <1>2
        DEF Server, Apply, Report, Return, Trainer, PopItem, DropBatch,
            TrainBatch, SyncAfter, Begin, vars, storeVars,
            TypeOK, OrderInv
    <2>2. loaded' \in Versions
        BY <1>2
        DEF Server, Apply, Report, Return, Trainer, PopItem, DropBatch,
            TrainBatch, SyncAfter, Begin, vars, storeVars,
            TypeOK
    <2>3. UNCHANGED actorVars
        BY <1>2
        DEF Server, Trainer, PopItem, DropBatch, TrainBatch, vars
    <2> QED
        BY <2>1, <2>2, <2>3 DEF TypeOK, ActorInv, actorVars
<1> QED
    BY <1>1, <1>2 DEF Steps

(* The queue, the batch and the optimizer step pass tags on unchanged; an   *)
(* item that is too old does not reach the step.                            *)
LEMMA ItemStep ==
    ASSUME TypeOK, ActorInv, ItemInv, Steps
    PROVE  ItemInv'
<1> USE Constants
<1>1. CASE PopItem
    <2>1. Head(queue) \in Conservative /\ Tail(queue) \in Seq(Conservative)
        BY <1>1 DEF PopItem, ItemInv
    <2> QED
        BY <1>1, <2>1 DEF PopItem, ItemInv
<1>2. CASE DropBatch
    BY <1>2 DEF DropBatch, ItemInv
<1>3. CASE TrainBatch
    <2>1. Fresh \subseteq Conservative
        BY DEF Fresh, ToSet, ItemInv
    <2>2. \A item \in Fresh : (step' - 1) - item.tag <= MaxLag
        BY <1>3 DEF TrainBatch, Fresh, IsFresh, TypeOK
    <2> QED
        BY <1>3, <2>1, <2>2 DEF TrainBatch, ItemInv
<1>4. ASSUME NEW a \in Actors, Push(a) PROVE ItemInv'
    <2> DEFINE pushed == [i \in 1 .. ItemsPerPush |->
                            [tag |-> tag[a], oldest |-> oldest[a]]]
    <2>1. [tag |-> tag[a], oldest |-> oldest[a]] \in Conservative
        BY <1>4 DEF Push, TypeOK, ActorInv, Conservative, Item
    <2>2. pushed \in Seq(Conservative)
        BY <2>1
    <2> HIDE DEF pushed
    <2>3. queue \o pushed \in Seq(Conservative)
        BY <2>2 DEF ItemInv
    <2>4. queue' \in Seq(Conservative)
        BY <1>4, <2>3 DEF Push, ItemInv, pushed
    <2> QED
        BY <1>4, <2>4 DEF Push, ItemInv
<1>5. CASE UNCHANGED <<step, queue, batch, trainedOn>>
    BY <1>5 DEF ItemInv
<1> QED
    BY <1>1, <1>2, <1>3, <1>4, <1>5
    DEF Steps, Server, Trainer, Actor, PollVersion, TagRequests, SampleToken,
        GenerateBatch, vars

(* TagInv is inductive. *)
LEMMA TagInvAlways == Spec => []TagInv
<1>1. Init => TagInv
    BY InitTagInv, Constants DEF Init, StoreInit, TagInv, TypeOK, Phases
<1>2. TagInv /\ PushSampled /\ [Next]_vars => TagInv'
    <2> SUFFICES ASSUME TagInv, PushSampled, [Next]_vars PROVE TagInv'
        OBVIOUS
    <2>1. TypeOK' /\ StoreInv'
        BY TypeStep, StoreStep DEF TagInv
    <2>2. ASSUME restarts' = 0 PROVE OrderInv' /\ ActorInv' /\ ItemInv'
        <3>1. Steps /\ OrderInv /\ ActorInv /\ ItemInv
            BY <2>2, NotResumed DEF TagInv
        <3> QED
            BY <3>1, OrderStep, ActorStep, ItemStep DEF TagInv
    <2> QED
        BY <2>1, <2>2 DEF TagInv
<1> QED
    BY <1>1, <1>2, PushSampledAlways, PTL DEF Spec

(* An item's policy_version is never newer than a token in it, unless the *)
(* trainer has been resumed.                                              *)
THEOREM TagIsConservativeAlways == Spec => []TagIsConservative
<1>1. TagInv => TagIsConservative
    BY DEF TagInv, ItemInv, TagIsConservative, Conservative
<1> QED
    BY <1>1, TagInvAlways, PTL

(* No optimizer step of a trainer that has not been resumed uses a token *)
(* sampled more than MaxLag steps ago.                                   *)
THEOREM TrainedWithinLagAlways == Spec => []TrainedWithinLag
<1>1. TagInv => TrainedWithinLag
    BY Constants
    DEF TagInv, TypeOK, ItemInv, TrainedWithinLag, Conservative, Item
<1> QED
    BY <1>1, TagInvAlways, PTL

-----------------------------------------------------------------------------
(* The distance between the trainer and the server *)

(* Multiples are SyncEvery apart. *)
LEMMA NextMultiple ==
    ASSUME NEW s \in Nat \ {0}, NEW n \in Int, n % s = 0
    PROVE  (n + s) % s = 0
<1>1. PICK q \in Int : n = q * s
    OBVIOUS
<1> QED
    BY <1>1

(* The SyncEvery-th step after a publish is a multiple of SyncEvery again,  *)
(* so the trainer cannot get past it without publishing.                    *)
LEMMA SyncStep ==
    ASSUME TypeOK, StoreInv, SyncInv, [Next]_vars, ~ReportMayFail
    PROVE  StoreInv' /\ SyncInv'
<1> USE Constants
<1>1. CASE Server
    BY <1>1 DEF Server, Apply, Report, Return, TypeOK, StoreInv, SyncInv
<1>2. CASE TrainBatch
    <2>1. CASE (step + 1) % SyncEvery = 0
        BY <1>2, <2>1 DEF TrainBatch, SyncAfter, Begin, StoreInv, SyncInv
    <2>2. CASE (step + 1) % SyncEvery # 0
        <3>1. UNCHANGED storeVars /\ step' = step + 1 /\ phase = "idle"
            BY <1>2, <2>2 DEF TrainBatch, SyncAfter
        <3>2. (loaded + SyncEvery) % SyncEvery = 0
            <4>1. loaded \in Int /\ loaded % SyncEvery = 0
                BY DEF TypeOK, SyncInv
            <4> QED
                BY <4>1, NextMultiple
        <3>3. step + 1 # loaded + SyncEvery
            BY <2>2, <3>2
        <3>4. step' < loaded + SyncEvery
            BY <3>1, <3>3 DEF TypeOK, SyncInv
        <3> QED
            BY <3>1, <3>4 DEF StoreInv, SyncInv, storeVars
    <2> QED
        BY <2>1, <2>2
<1>3. CASE Resume
    <2>1. UNCHANGED storeVars /\ phase = "idle"
        BY <1>3 DEF Resume
    <2>2. step' < loaded + SyncEvery
        BY <1>3 DEF Resume, TypeOK, SyncInv
    <2> QED
        BY <2>1, <2>2 DEF StoreInv, SyncInv, storeVars
<1>4. CASE UNCHANGED <<storeVars, step>>
    BY <1>4 DEF StoreInv, SyncInv, storeVars
<1> QED
    BY <1>1, <1>2, <1>3, <1>4
    DEF Next, Trainer, PopItem, DropBatch, Actor, PollVersion, TagRequests,
        SampleToken, GenerateBatch, Push, vars

(* Between publishes the server is less than one sync behind the trainer    *)
(* and reports what it has loaded.                                          *)
THEOREM ServerWithinOneSyncAlways ==
    ASSUME ~ReportMayFail, FirstStep < SyncEvery
    PROVE  Spec => []ServerWithinOneSync
<1>1. Init => StoreInv /\ SyncInv
    BY Constants DEF Init, StoreInit, StoreInv, SyncInv
<1>2. TypeOK /\ StoreInv /\ SyncInv /\ [Next]_vars => StoreInv' /\ SyncInv'
    BY SyncStep
<1>3. TypeOK /\ SyncInv => ServerWithinOneSync
    BY Constants DEF TypeOK, SyncInv, ServerWithinOneSync
<1> QED
    BY <1>1, <1>2, <1>3, TypeCorrect, PTL DEF Spec
=============================================================================
