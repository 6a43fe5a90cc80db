--------------------------- MODULE RolloutEngine ---------------------------
(***************************************************************************)
(* The rollout engine behind a batch source: requests_fn takes samples     *)
(* from a dataset and expands them into groups, generate_rollouts runs one *)
(* asyncio task per episode under a semaphore and gathers them, and        *)
(* generate_batch gives credit, collates and filters.                      *)
(*                                                                         *)
(* gather raises at the first episode that fails and leaves the others     *)
(* running: their tasks, semaphore and log lines outlive the call, and     *)
(* the caller may start the next one beside them.  An episode is the call  *)
(* that created it and its index in that call.                             *)
(***************************************************************************)
EXTENDS Credit

CONSTANTS
    NumSamples,    \* samples of the dataset, 1 .. NumSamples
    PerCall,       \* batch_size of the requests_fn
    Concurrency,   \* the concurrency argument; less than one counts as one
    Confs,         \* how a source may be set up
    MaxCalls,      \* bound on the calls of next_batch
    MaxFaults      \* bound on the episodes that fail

ASSUME EngineAssumption ==
    /\ NumSamples \in Nat \ {0}
    /\ PerCall \in 1 .. NumSamples
    /\ Concurrency \in Int
    /\ MaxCalls \in Nat /\ MaxFaults \in Nat
    /\ \A c \in Confs : c.agents \in Nat \ {0}
    /\ NoGroup \notin (1 .. MaxCalls) \X (1 .. PerCall)

VARIABLES
    conf,      \* source, on_empty, assigner, agents per episode, filters,
               \* whether log-probs are asked for, and shapes: the step records
               \* an episode of this set-up may leave of an agent
    upcoming,  \* samples the source hands out next
    phase,     \* "idle", "awaiting" the gather, "stopped": RequestsExhausted
    call,      \* number of calls so far
    requests,  \* requests of each call
    episode,   \* state of each task
    rollouts,  \* what the finished episodes of the call in progress have
               \* returned: one rollout per agent
    permits,   \* the value of each call's semaphore
    logged,    \* lines of the jsonl file that are of each episode
    batch,     \* what the latest call has returned; NoBatch if it raised
    faults     \* failed episodes so far

taskVars == <<episode, rollouts, permits, logged, faults>>
vars == <<conf, upcoming, phase, call, requests, batch, taskVars>>

Calls == 1 .. MaxCalls
Index == 1 .. PerCall * GroupSize
Episodes == Calls \X Index
TaskStates == {"none", "waiting", "running", "done", "failed"}

Request == [sample : 1 .. NumSamples, envSeed : Nat, samplingSeed : Nat,
            group : (Calls \X (1 .. PerCall)) \union {NoGroup}]

(* A step record: its reward and whether that is a finite number, whether   *)
(* it ends its turn, whether the agent or the environment is its author,    *)
(* what its info and flags mark, and its token trace.  A trace with the      *)
(* chosen log-probs is "logprobs", one without them "tokens"; "unusable" is  *)
(* none at all, log-probs of the wrong type or length, or a prompt that does *)
(* not extend what came before it in the turn.                               *)
Marks == {"truncated", "incomplete", "parse_error"}
Traces == {"logprobs", "tokens", "unusable"}
ReturnedStep ==
    [reward : Int, finite : BOOLEAN, final : BOOLEAN, kind : {"agent", "env"},
     marks : SUBSET Marks, trace : Traces]

ASSUME ShapesAssumption == \A c \in Confs : c.shapes \subseteq Seq(ReturnedStep)

NoRollouts == [e \in Episodes |-> <<>>]
NoBatch == [ok |-> FALSE, items |-> {}, of |-> <<>>]

Init ==
    /\ conf \in Confs
    /\ upcoming = [i \in 1 .. NumSamples |-> i]
    /\ phase = "idle" /\ call = 0
    /\ requests = [c \in Calls |-> <<>>]
    /\ episode = [e \in Episodes |-> "none"]
    /\ rollouts = NoRollouts
    /\ permits = [c \in Calls |-> 0]
    /\ logged = [e \in Episodes |-> 0]
    /\ batch = NoBatch
    /\ faults = 0

-----------------------------------------------------------------------------
(* requests_fn *)

(* One request of make_dataset_*_requests_fn: both seeds are the sample's index. *)
BuildRequest(sample) ==
    [sample |-> sample, envSeed |-> sample, samplingSeed |-> sample, group |-> NoGroup]

(* Bug: each variant gets a group_id of its own. *)
ExpandApart(reqs) ==
    [k \in 1 .. GroupSize * Len(reqs) |->
        LET base == ((k - 1) \div GroupSize) + 1
            variant == (k - 1) % GroupSize
        IN  [reqs[base] EXCEPT !.samplingSeed = @ + variant,
                               !.group = <<call + 1, ((base + variant - 1) % PerCall) + 1>>]]

(* GRPORequestStrategy.expand: GroupSize variants of each request, on one  *)
(* environment seed and one new group_id, with sampling seeds in a row.    *)
Expand(reqs) ==
    [k \in 1 .. GroupSize * Len(reqs) |->
        LET base == ((k - 1) \div GroupSize) + 1
            variant == (k - 1) % GroupSize
        IN  [reqs[base] EXCEPT !.samplingSeed = @ + variant,
                               !.group = <<call + 1, base>>]]

(* The dataset builders use the strategy for groups of more than one. *)
Expanded(reqs) == IF GroupSize = 1 THEN reqs ELSE Expand(reqs)

(* asyncio.Semaphore(max(1, concurrency)). *)
Limit == IF Concurrency > 1 THEN Concurrency ELSE 1

(* The samples a call takes and those left: a queue gives what it has, an  *)
(* in-memory sequence starts over, in a new order if it is shuffled.       *)
Orders == IF conf.source = "shuffled"
          THEN {f \in [1 .. NumSamples -> 1 .. NumSamples] : IsInjective(f)}
          ELSE {[i \in 1 .. NumSamples |-> i]}

Cut(samples, n) == <<SubSeq(samples, 1, n), SubSeq(samples, n + 1, Len(samples))>>

Fetches ==
    IF Len(upcoming) >= PerCall THEN {Cut(upcoming, PerCall)}
    ELSE IF conf.source = "queue" THEN {Cut(upcoming, Len(upcoming))}
    ELSE {Cut(upcoming \o order, PerCall) : order \in Orders}

(* next_batch: requests_fn and the start of generate_rollouts, which        *)
(* creates a task for every episode before it awaits them all.              *)
NextBatch ==
    /\ phase = "idle" /\ call < MaxCalls
    /\ \E fetch \in Fetches :
         LET reqs == Expanded([i \in DOMAIN fetch[1] |-> BuildRequest(fetch[1][i])])
         IN  /\ fetch[1] # <<>> \/ conf.onEmpty = "return_empty"
             /\ upcoming' = fetch[2]
             /\ requests' = [requests EXCEPT ![call + 1] = reqs]
             /\ episode' = [e \in Episodes |->
                              IF e[1] = call + 1 /\ e[2] \in DOMAIN reqs
                              THEN "waiting" ELSE episode[e]]
    /\ call' = call + 1
    /\ phase' = "awaiting"
    /\ permits' = [permits EXCEPT ![call + 1] = Limit]
    /\ batch' = NoBatch
    /\ UNCHANGED <<conf, rollouts, logged, faults>>

(* An empty queue ends the source: RequestsExhausted. *)
RunOut ==
    /\ phase = "idle"
    /\ conf.source = "queue" /\ upcoming = <<>> /\ conf.onEmpty = "raise"
    /\ phase' = "stopped"
    /\ batch' = NoBatch
    /\ UNCHANGED <<conf, upcoming, call, requests, taskVars>>

-----------------------------------------------------------------------------
(* The tasks: _run_one_request *)

(* The call that created the task still waits for it. *)
Awaited(e) == phase = "awaiting" /\ e[1] = call

(* Waiters of a semaphore are served in the order in which they came, which *)
(* is the order in which the tasks were created.                            *)
First(e) == \A i \in 1 .. e[2] - 1 : episode[<<e[1], i>>] # "waiting"

(* Bug: the task does not ask for a permit. *)
StartAnyway(e) ==
    /\ episode[e] = "waiting" /\ First(e)
    /\ episode' = [episode EXCEPT ![e] = "running"]
    /\ UNCHANGED <<conf, upcoming, phase, call, requests, rollouts, permits, logged, batch, faults>>

(* async with sem: the episode starts. *)
StartEpisode(e) ==
    /\ episode[e] = "waiting" /\ First(e)
    /\ permits[e[1]] > 0
    /\ permits' = [permits EXCEPT ![e[1]] = @ - 1]
    /\ episode' = [episode EXCEPT ![e] = "running"]
    /\ UNCHANGED <<conf, upcoming, phase, call, requests, rollouts, logged, batch, faults>>

(* Bug: the permit is released in an except clause only. *)
EndAndKeep(e) ==
    /\ episode[e] = "running"
    /\ episode' = [episode EXCEPT ![e] = "done"]
    /\ \E shapes \in [1 .. conf.agents -> conf.shapes] :
         rollouts' = IF Awaited(e) THEN [rollouts EXCEPT ![e] = shapes] ELSE rollouts
    /\ logged' = [logged EXCEPT ![e] = @ + conf.agents]
    /\ UNCHANGED <<conf, upcoming, phase, call, requests, permits, batch, faults>>

(* The protocol returns the rollouts of its agents; each gets the request's *)
(* meta and a line in the log before the permit is released.                *)
EndEpisode(e) ==
    /\ episode[e] = "running"
    /\ episode' = [episode EXCEPT ![e] = "done"]
    /\ \E shapes \in [1 .. conf.agents -> conf.shapes] :
         rollouts' = IF Awaited(e) THEN [rollouts EXCEPT ![e] = shapes] ELSE rollouts
    /\ logged' = [logged EXCEPT ![e] = @ + conf.agents]
    /\ permits' = [permits EXCEPT ![e[1]] = @ + 1]
    /\ UNCHANGED <<conf, upcoming, phase, call, requests, batch, faults>>

(* A factory, the protocol or the inference call raises, or the log does    *)
(* when the lines of some agents are written.                               *)
FailEpisode(e) ==
    /\ episode[e] = "running"
    /\ faults < MaxFaults /\ faults' = faults + 1
    /\ episode' = [episode EXCEPT ![e] = "failed"]
    /\ \E n \in 0 .. conf.agents - 1 : logged' = [logged EXCEPT ![e] = @ + n]
    /\ permits' = [permits EXCEPT ![e[1]] = @ + 1]
    /\ UNCHANGED <<conf, upcoming, phase, call, requests, rollouts, batch>>

-----------------------------------------------------------------------------
(* The end of the call *)

Created(c) == {i \in Index : episode[<<c, i>>] # "none"}

(* asyncio.gather raises as soon as one episode has failed. *)
GatherRaises ==
    /\ phase = "awaiting"
    /\ \E i \in Created(call) : episode[<<call, i>>] = "failed"
    /\ phase' = "idle"
    /\ rollouts' = NoRollouts
    /\ UNCHANGED <<conf, upcoming, call, requests, batch, episode, permits, logged, faults>>

(* Bug: the rollouts of every first agent, then those of every second one. *)
GatheredByAgent ==
    [k \in 1 .. conf.agents * Len(requests[call]) |-> <<call, ((k - 1) % Len(requests[call])) + 1>>]

(* The rollouts of the call, flattened: the k-th is of this episode, ... *)
Gathered ==
    [k \in 1 .. conf.agents * Len(requests[call]) |-> <<call, ((k - 1) \div conf.agents) + 1>>]

(* ... the rollout of this agent of it. *)
AgentOf(k) == ((k - 1) % conf.agents) + 1

(* The steps total_reward counts: only what was meant for the environment   *)
(* is ever marked as a parse error.                                          *)
Counted(steps) ==
    {t \in DOMAIN steps : steps[t].kind = "env" \/ "parse_error" \in steps[t].marks}

(* What the assigner sees of them. *)
CreditView(source) ==
    [k \in DOMAIN source |->
        LET steps == rollouts[source[k]][AgentOf(k)]
        IN  [group |-> requests[call][source[k][2]].group,
             rewards |-> [t \in DOMAIN steps |-> steps[t].reward],
             counted |-> Counted(steps)]]

(* The items of the k-th rollout: one per turn, with the credit and the     *)
(* mark of its last step.  Nothing depends on their order in the batch.     *)
ItemsOf(source, view, k) ==
    LET steps == rollouts[source[k]][AgentOf(k)]
    IN  {[of |-> source[k], agent |-> AgentOf(k), step |-> t,
          request |-> requests[call][source[k][2]],
          kind |-> steps[t].kind, marks |-> steps[t].marks,
          weight |-> Weight(conf.assigner, view, k, t)] :
            t \in {u \in DOMAIN steps : steps[u].final}}

(* The predicates of filters.py, ... *)
Passes(filter, item) ==
    CASE filter = "drop_truncated"              -> "truncated" \notin item.marks
      [] filter = "drop_incomplete_completions" -> "incomplete" \notin item.marks
      [] filter = "drop_parse_errors"           -> "parse_error" \notin item.marks
      [] filter = "keep_env_steps"              -> item.kind = "env"
      [] filter = "keep_agent_steps"            -> item.kind = "agent"

(* ... and several of them with combine; without any, all items are kept.   *)
Keeps(item) == \A filter \in conf.filters : Passes(filter, item)

(* generate_batch after its rollouts: credit, collation, filter. *)
Collated(source) ==
    LET view  == CreditView(source)
        items == UNION {ItemsOf(source, view, k) : k \in DOMAIN source}
    IN  [ok |-> TRUE, items |-> {item \in items : Keeps(item)}, of |-> source]

(* The steps of the turn that the t-th step ends. *)
TurnOf(steps, t) == {u \in 1 .. t : \A v \in u .. t - 1 : ~steps[v].final}

(* What a turn must be to become an item: an agent's, with one outcome of    *)
(* the environment at most, the token traces of all its agent steps, and     *)
(* log-probs in all of them or in none, in all of them if they are asked for. *)
TurnIsUsable(steps, t) ==
    LET turn == TurnOf(steps, t)
        said == {u \in turn : steps[u].kind = "agent"}
        kept == {u \in said : steps[u].trace = "logprobs"}
    IN  /\ said # {} /\ Cardinality(turn \ said) <= 1
        /\ \A u \in said : steps[u].trace # "unusable"
        /\ kept = said \/ (kept = {} /\ ~conf.logprobs)

(* Neither the reward nor the weight of an item may be infinite or no number. *)
IsNumeric(steps, t) ==
    /\ steps[t].finite
    /\ ~Diverges(conf.assigner, [u \in DOMAIN steps |-> steps[u].finite], Counted(steps), t)

(* Collation raises at the first turn of any rollout that cannot be an item. *)
CollationRaises(source) ==
    \E k \in DOMAIN source :
        LET steps == rollouts[source[k]][AgentOf(k)]
        IN  \E t \in DOMAIN steps :
                steps[t].final /\ ~(TurnIsUsable(steps, t) /\ IsNumeric(steps, t))

(* All episodes have ended well; the assigner or the collation may still    *)
(* raise, and then nothing of the call is returned.                          *)
GatherReturns ==
    /\ phase = "awaiting"
    /\ \A i \in Created(call) : episode[<<call, i>>] = "done"
    /\ phase' = "idle"
    /\ batch' = IF \/ CreditRaises(conf.assigner, CreditView(Gathered))
                   \/ CollationRaises(Gathered)
                THEN NoBatch ELSE Collated(Gathered)
    /\ rollouts' = NoRollouts
    /\ UNCHANGED <<conf, upcoming, call, requests, episode, permits, logged, faults>>

-----------------------------------------------------------------------------
Task(e) == StartEpisode(e) \/ EndEpisode(e) \/ FailEpisode(e)

Next ==
    \/ NextBatch \/ RunOut
    \/ GatherRaises \/ GatherReturns
    \/ \E e \in Episodes : Task(e)

Spec == Init /\ [][Next]_vars

(* The event loop runs tasks, those of a call that has raised too, and      *)
(* resumes the caller.  That an episode ends by itself is assumed: the      *)
(* protocols bound their rounds and the client its requests.                *)
Fairness ==
    /\ WF_vars(GatherRaises \/ GatherReturns)
    /\ WF_vars(\E e \in Episodes : StartEpisode(e) \/ EndEpisode(e))

FairSpec == Spec /\ Fairness

-----------------------------------------------------------------------------
(* Properties *)

(* Every variable keeps its type, and an episode that has returned has a    *)
(* line in the log for each of its agents.                                  *)
TypeOK ==
    /\ conf \in Confs
    /\ upcoming \in Seq(1 .. NumSamples)
    /\ phase \in {"idle", "awaiting", "stopped"}
    /\ call \in 0 .. MaxCalls
    /\ requests \in [Calls -> Seq(Request)]
    /\ episode \in [Episodes -> TaskStates]
    /\ permits \in [Calls -> 0 .. Limit]
    /\ logged \in [Episodes -> 0 .. conf.agents]
    /\ \A e \in Episodes : episode[e] = "done" => logged[e] = conf.agents
    /\ faults \in 0 .. MaxFaults

Running(c) == {i \in Index : episode[<<c, i>>] = "running"}

(* At most max(1, concurrency) episodes of a call run at once, also after   *)
(* it has raised and while others are starting beside it.                   *)
CallWithinLimit == \A c \in Calls : Cardinality(Running(c)) <= Limit

Ended(c) == \A i \in Created(c) : episode[<<c, i>>] \in {"done", "failed"}

(* Every task of a call gets its permit and ends, whether the call still    *)
(* waits for it or has raised, and whoever failed before it.                *)
EpisodesEnd == \A c \in Calls : ~Ended(c) ~> Ended(c)

(* A rollout every turn of which can be an item, whatever the assigner.      *)
IsSound(steps) ==
    /\ \A t \in DOMAIN steps : steps[t].final => TurnIsUsable(steps, t)
    /\ \A t \in DOMAIN steps : steps[t].finite

(* A call raises only if an episode did or has returned a rollout that is    *)
(* not sound: the assigner refuses nothing that the request strategy has     *)
(* expanded, and gives weights to all that is sound, unless the episodes     *)
(* have several agents, whose rollouts all carry the group of the one        *)
(* request, or there are no groups for an assigner that wants them.          *)
NothingRefused ==
    [][phase = "awaiting" /\ phase' = "idle" /\ ~batch'.ok =>
         \/ \E i \in Created(call) : episode[<<call, i>>] = "failed"
         \/ \E i \in Created(call), a \in 1 .. conf.agents :
                ~IsSound(rollouts[<<call, i>>][a])
         \/ conf.assigner \in GroupAssigners /\ (conf.agents > 1 \/ GroupSize = 1)]_vars

(* The weights the items of a group have, one for each rollout. *)
GroupWeights(group) ==
    {<<item.of, item.weight>> : item \in {x \in batch.items : x.request.group = group}}

(* What makes advantages within a group comparable: its rollouts answer the *)
(* same sample in the same environment under different sampling seeds, and  *)
(* together have no advantage over themselves, in whatever order their       *)
(* episodes ended and whatever else is in the batch.                         *)
GroupsComparable ==
    conf.assigner \in {"group", "hybrid"} =>
      LET reqs == {item.request : item \in batch.items}
      IN  /\ \A a, b \in reqs : a.group = b.group =>
               a.sample = b.sample /\ a.envSeed = b.envSeed
          /\ \A x, y \in batch.items :
               /\ x.request.group = y.request.group /\ x.of # y.of
               => x.request.samplingSeed # y.request.samplingSeed
          /\ \A g \in {a.group : a \in reqs} :
               Cardinality(GroupWeights(g)) = GroupSize =>
                 SumFunction([w \in GroupWeights(g) |-> w[2]]) = 0

(* The engine is a batch source: seen from its caller, a call answers with  *)
(* the rollouts of its own requests, all of them in order, or raises.       *)
Service == INSTANCE BatchService WITH
    Requests <- Request,
    width    <- conf.agents,
    status   <- IF phase = "awaiting" THEN "busy" ELSE phase,
    asked    <- IF call = 0 \/ phase = "stopped" THEN <<>> ELSE requests[call],
    answer   <- [k \in DOMAIN batch.of |-> requests[batch.of[k][1]][batch.of[k][2]]]

RefinesBatchService == Service!ServiceSpec
=============================================================================
