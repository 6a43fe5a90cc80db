-------------------------- MODULE MultiAgentProofs --------------------------
(***************************************************************************)
(* What an episode of the multi-agent protocol leaves behind for each of   *)
(* its agents, for every number of agents, of roles that are not managed,  *)
(* of rounds and of model calls.                                           *)
(***************************************************************************)
EXTENDS MultiAgent, RolloutProofs

LEMMA Typed ==
    ASSUME TypeOK, NEW a \in Agents
    PROVE  /\ ctx[a] \in Seq(Message) /\ calls[a] \in Seq(Call)
           /\ steps[a] \in Seq(StepRecord) /\ turn[a] \in Nat /\ obs[a] \in Int
           /\ AgentTypeOK
BY AgentTyped DEF TypeOK

LEMMA WithActIs ==
    ASSUME TypeOK, NEW a \in Agents
    PROVE  /\ WithAct(a) = Act(steps[a], calls[a], turn[a], FALSE)
           /\ WithAct(a) \in Seq(StepRecord) /\ Len(WithAct(a)) \in Nat
<1>1. WithAct(a) = Act(steps[a], calls[a], turn[a], FALSE)
    BY DEF WithAct, Act
<1>2. /\ steps[a] \in Seq(StepRecord) /\ calls[a] \in Seq(Call) /\ turn[a] \in Nat
      /\ FALSE \in BOOLEAN
    BY Typed
<1> QED
    BY <1>1, <1>2, ActSteps

(* What an agent's rollout records of the outcome out. *)
EnvStep(a, out) ==
    EnvironmentStep(FinalCall(a), turn[a], obs[a], Len(WithAct(a)), out[a])

LEMMA EnvStepIs ==
    ASSUME TypeOK, NEW a \in Agents, calls[a] # <<>>, NEW out \in Outcomes
    PROVE  LET e == EnvStep(a, out)
           IN  /\ WithOutcome(a, out) = Append(WithAct(a), e)
               /\ e \in StepRecord
               /\ e.kind = "env" /\ e.turn = turn[a]
               /\ e.source = Len(WithAct(a)) /\ e.seen = obs[a]
               /\ e.why = "none" /\ (Ends(e) <=> Ends(out[a]))
<1>1. FinalCall(a) \in Call
    BY Typed DEF FinalCall, Last
<1>2. turn[a] \in Nat /\ obs[a] \in Int /\ Len(WithAct(a)) \in Nat
    BY Typed, WithActIs
<1>3. out[a] \in Outcome
    BY DEF Outcomes
<1>4. WithOutcome(a, out) = Append(WithAct(a), EnvStep(a, out))
    BY DEF WithOutcome, EnvStep
<1> QED
    BY <1>1, <1>2, <1>3, <1>4, EnvironmentStepIs DEF EnvStep

-----------------------------------------------------------------------------
(* What a round does to one agent *)

(* An agent is asked only while it is not finished; between rounds, and of *)
(* an agent that is not asked, no act is in progress.                       *)
ActingInv ==
    /\ pc = "act" => acting \cap finished = {}
    /\ \A a \in Agents :
         pc = "loop" \/ (pc = "act" /\ a \notin acting) => calls[a] = <<>>

Hears(a, o) == obs'[a] = o /\ ctx'[a] = Append(ctx[a], User(o))
HearsNothing(a) == obs'[a] = obs[a] /\ ctx'[a] = ctx[a]
StaysIn(a) == a \in finished' <=> a \in finished
Earns(a, r) == earned'[a] = earned[a] + r

NotAsked(a) ==
    /\ steps'[a] = steps[a] /\ turn'[a] = turn[a] /\ calls'[a] = calls[a]
    /\ HearsNothing(a) /\ StaysIn(a) /\ Earns(a, 0)

(* Its last call was for an external tool: the turn stays open. *)
LeftInTurn(a) ==
    /\ FinalCall(a).target = "external"
    /\ steps'[a] = WithAct(a) /\ turn'[a] = turn[a]
    /\ HearsNothing(a) /\ StaysIn(a) /\ Earns(a, 0)

(* Its answer did not parse. *)
Rejected(a) ==
    /\ FinalCall(a).target = "env" /\ FinalCall(a).parse = "error"
    /\ steps'[a] = WithAct(a) /\ turn'[a] = turn[a] + 1
    /\ Hears(a, Feedback) /\ StaysIn(a) /\ Earns(a, ParserReward("error"))

(* Its answer went to the environment, which ended the agent or did not.   *)
Accepted(a, out) ==
    /\ FinalCall(a).target = "env" /\ FinalCall(a).parse = "action"
    /\ steps'[a] = WithOutcome(a, out) /\ turn'[a] = turn[a] + 1
    /\ IF Ends(out[a])
       THEN a \in finished' /\ HearsNothing(a)
       ELSE Hears(a, envTime') /\ StaysIn(a)
    /\ Earns(a, EnvReward + ParserReward("action"))

LEMMA RoundOf ==
    ASSUME TypeOK, LoopInv, ActingInv, NEW out \in Outcomes, TakeRound(out), NEW a \in Agents
    PROVE  IF a \notin acting THEN NotAsked(a)
           ELSE /\ calls[a] # <<>> /\ calls'[a] = <<>>
                /\ LeftInTurn(a) \/ Rejected(a) \/ Accepted(a, out)
<1> DEFINE valid == Answering("action")
           rejected == Answering("error")
           over == valid \cap EndedBy(out)
           news == [b \in (valid \ over) \cup rejected |->
                      IF b \in rejected THEN Feedback ELSE envTime']
           heard == [b \in DOMAIN news |-> User(news[b])]
<1>1. /\ \A b \in acting : Returned(b)
      /\ steps'[a] = IF a \in valid THEN WithOutcome(a, out)
                     ELSE IF a \in acting THEN WithAct(a) ELSE steps[a]
      /\ turn'[a] = IF a \in valid \cup rejected THEN turn[a] + 1 ELSE turn[a]
      /\ obs'[a] = IF a \in DOMAIN news THEN news[a] ELSE obs[a]
      /\ Hear(heard, acting)
      /\ finished' = finished \cup over
      /\ Earns(a, IF a \in valid THEN EnvReward + ParserReward("action")
                  ELSE IF a \in rejected THEN ParserReward("error") ELSE 0)
    BY DEF TakeRound, ClosedTurns, Earns
<1>2. /\ ctx'[a] = IF a \in DOMAIN heard THEN Append(ctx[a], heard[a]) ELSE ctx[a]
      /\ calls'[a] = IF a \in acting THEN <<>> ELSE calls[a]
    <2> HIDE DEF heard
    <2> QED
        BY <1>1 DEF Hear
<1>3. DOMAIN news = (valid \ over) \cup rejected /\ DOMAIN heard = DOMAIN news
    OBVIOUS
<1>4. \A b \in DOMAIN news :
        /\ news[b] = IF b \in rejected THEN Feedback ELSE envTime'
        /\ heard[b] = User(news[b])
    OBVIOUS
<1> HIDE DEF news, heard
<1>5. /\ a \in valid <=> /\ a \in acting
                         /\ FinalCall(a).target = "env" /\ FinalCall(a).parse = "action"
      /\ a \in rejected <=> /\ a \in acting
                            /\ FinalCall(a).target = "env" /\ FinalCall(a).parse = "error"
      /\ a \in over <=> a \in valid /\ Ends(out[a])
    BY DEF Answering, EndedBy
<1> HIDE DEF valid, rejected, over
<1>6. CASE a \notin acting
    <2>1. a \notin valid /\ a \notin rejected /\ a \notin over /\ a \notin DOMAIN news
        BY <1>3, <1>5, <1>6
    <2>2. NotAsked(a)
        BY <1>1, <1>2, <1>3, <1>6, <2>1 DEF NotAsked, HearsNothing, StaysIn
    <2> QED
        BY <1>6, <2>2
<1>7. CASE a \in acting
    <2>1. /\ calls[a] # <<>> /\ calls'[a] = <<>> /\ FinalCall(a).target # "internal"
        BY <1>1, <1>2, <1>7 DEF Returned
    <2>2. FinalCall(a).target \in Targets /\ (FinalCall(a).target = "env" => FinalCall(a).parse \in Parses)
        <3> DEFINE c == calls[a]
        <3>1. c \in Seq(Call) /\ c # <<>> /\ FinalCall(a) = c[Len(c)]
            BY <2>1, Typed DEF FinalCall, Last
        <3>2. Replies(c)
            BY DEF LoopInv
        <3> HIDE DEF c
        <3>3. Len(c) \in 1..Len(c) /\ c[Len(c)] \in Call
            BY <3>1
        <3>4. c[Len(c)].target \in Targets
            BY <3>3 DEF Call
        <3> QED
            BY <3>1, <3>2, <3>3, <3>4 DEF Replies
    <2>3. CASE FinalCall(a).target = "external"
        <3>1. a \notin valid /\ a \notin rejected /\ a \notin over /\ a \notin DOMAIN news
            BY <1>3, <1>5, <2>3
        <3>2. LeftInTurn(a)
            BY <1>1, <1>2, <1>3, <1>7, <2>3, <3>1 DEF LeftInTurn, HearsNothing, StaysIn
        <3> QED
            BY <1>7, <2>1, <3>2
    <2>4. CASE FinalCall(a).target = "env" /\ FinalCall(a).parse = "error"
        <3>1. a \notin valid /\ a \in rejected /\ a \notin over /\ a \in DOMAIN news
            BY <1>3, <1>5, <1>7, <2>4
        <3>2. news[a] = Feedback /\ heard[a] = User(Feedback)
            BY <1>4, <3>1
        <3>3. Rejected(a)
            BY <1>1, <1>2, <1>3, <1>7, <2>4, <3>1, <3>2 DEF Rejected, Hears, StaysIn
        <3> QED
            BY <1>7, <2>1, <3>3
    <2>5. CASE FinalCall(a).target = "env" /\ FinalCall(a).parse = "action" /\ Ends(out[a])
        <3>1. a \in valid /\ a \notin rejected /\ a \in over /\ a \notin DOMAIN news
            BY <1>3, <1>5, <1>7, <2>5
        <3>2. Accepted(a, out)
            BY <1>1, <1>2, <1>3, <2>5, <3>1 DEF Accepted, HearsNothing
        <3> QED
            BY <1>7, <2>1, <3>2
    <2>6. CASE FinalCall(a).target = "env" /\ FinalCall(a).parse = "action" /\ ~Ends(out[a])
        <3>1. a \in valid /\ a \notin rejected /\ a \notin over /\ a \in DOMAIN news
            BY <1>3, <1>5, <1>7, <2>6
        <3>2. news[a] = envTime' /\ heard[a] = User(envTime')
            BY <1>4, <3>1
        <3>3. Accepted(a, out)
            BY <1>1, <1>2, <1>3, <2>6, <3>1, <3>2 DEF Accepted, Hears, StaysIn
        <3> QED
            BY <1>7, <2>1, <3>3
    <2> QED
        BY <2>1, <2>2, <2>3, <2>4, <2>5, <2>6 DEF Targets, Parses
<1> QED
    BY <1>6, <1>7

(* What the agents hear while others move. *)
LEMMA OthersOf ==
    ASSUME TypeOK, NEW active, NEW out \in Outcomes, StepOthers(active, out), NEW a \in Agents
    PROVE  /\ steps'[a] = steps[a] /\ turn'[a] = turn[a] /\ calls'[a] = calls[a]
           /\ obs'[a] = envTime' /\ envTime' \in Nat
           /\ ctx'[a] = IF a \in finished THEN ctx[a] ELSE Append(ctx[a], User(envTime'))
<1> DEFINE heard == [b \in Agents \ finished |-> User(envTime')]
<1>1. /\ UNCHANGED <<steps, turn>> /\ obs' = [b \in Agents |-> envTime']
      /\ envTime' = envTime + 1 /\ Hear(heard, {})
    BY DEF StepOthers, ObsOfAll
<1>2. DOMAIN heard = Agents \ finished /\ \A b \in Agents \ finished : heard[b] = User(envTime')
    OBVIOUS
<1> HIDE DEF heard
<1>3. /\ ctx'[a] = IF a \in DOMAIN heard THEN Append(ctx[a], heard[a]) ELSE ctx[a]
      /\ calls'[a] = calls[a]
    BY <1>1 DEF Hear
<1>4. ctx'[a] = IF a \in finished THEN ctx[a] ELSE Append(ctx[a], User(envTime'))
    BY <1>2, <1>3
<1>5. envTime' \in Nat /\ obs'[a] = envTime'
    BY <1>1 DEF TypeOK
<1> QED
    BY <1>1, <1>3, <1>4, <1>5

-----------------------------------------------------------------------------
(* Types *)

BaseInv == TypeOK /\ LoopInv /\ ActingInv

LEMMA InitBase == Init => BaseInv
<1> SUFFICES ASSUME Init PROVE BaseInv
    OBVIOUS
<1>1. LoopInv
    BY LoopInit DEF Init
<1>2. TypeOK
    BY <1>1, MultiAgentAssumption DEF Init, TypeOK, LoopInv, FirstObs
<1>3. ActingInv
    BY DEF Init, AgentInit, ActingInv
<1> QED
    BY <1>1, <1>2, <1>3 DEF BaseInv

LEMMA OthersBase ==
    ASSUME BaseInv, NEW active, NEW out \in Outcomes, StepOthers(active, out)
    PROVE  BaseInv'
<1>0. TypeOK /\ LoopInv /\ ActingInv
    BY DEF BaseInv
<1> DEFINE heard == [a \in Agents \ finished |-> User(envTime')]
<1>1. envTime' \in Nat /\ obs' = [a \in Agents |-> envTime'] /\ Hear(heard, {})
        /\ ended' = ended \cup EndedBy(out)
    BY <1>0 DEF StepOthers, ObsOfAll, TypeOK
<1>2. LoopInv'
    <2>1. User(envTime') \in Message
        BY <1>1, Messages
    <2>2. \A a \in Agents \cap DOMAIN heard : heard[a] \in Message
        BY <2>1
    <2> HIDE DEF heard
    <2> QED
        BY <1>0, <1>1, <2>2, LoopHear
<1>3. t' \in 0..MaxSteps
    BY <1>0, MultiAgentAssumption DEF StepOthers, TypeOK
<1>4. TypeOK'
    <2>1. AgentTypeOK'
        BY <1>2 DEF LoopInv
    <2>2. ended' \subseteq Agents /\ obs' \in [Agents -> Int]
        BY <1>0, <1>1 DEF TypeOK, EndedBy
    <2> QED
        BY <1>0, <1>1, <1>3, <2>1, <2>2 DEF StepOthers, TypeOK
<1>5. ActingInv'
    <2>1. \A a \in Agents : calls'[a] = calls[a]
        BY <1>0, OthersOf
    <2>2. pc = "loop" /\ pc' = "loop"
        BY DEF StepOthers
    <2> QED
        BY <1>0, <2>1, <2>2 DEF ActingInv
<1> QED
    BY <1>2, <1>4, <1>5 DEF BaseInv

LEMMA RoundBase ==
    ASSUME BaseInv, NEW out \in Outcomes, TakeRound(out)
    PROVE  BaseInv'
<1>0. TypeOK /\ LoopInv /\ ActingInv
    BY DEF BaseInv
<1> DEFINE valid == Answering("action")
           rejected == Answering("error")
           over == valid \cap EndedBy(out)
           news == [b \in (valid \ over) \cup rejected |->
                      IF b \in rejected THEN Feedback ELSE envTime']
           heard == [b \in DOMAIN news |-> User(news[b])]
<1>1. /\ pc = "act" /\ pc' \in {"return", "loop"}
      /\ Hear(heard, acting) /\ finished' = finished \cup over
      /\ DOMAIN steps' = Agents /\ DOMAIN turn' = Agents /\ DOMAIN obs' = Agents
      /\ steps' = [a \in Agents |-> steps'[a]] /\ turn' = [a \in Agents |-> turn'[a]]
      /\ obs' = [a \in Agents |-> obs'[a]]
      /\ t' = t /\ acting' = acting
    BY DEF TakeRound
<1>2. envTime' \in Nat /\ ended' \subseteq Agents
    BY <1>0 DEF TakeRound, TypeOK, EndedBy, envVars
<1>3. earned' \in [Agents -> Int]
    <2>1. earned' = [a \in Agents |-> earned[a] +
             (IF a \in valid THEN EnvReward + ParserReward("action")
              ELSE IF a \in rejected THEN ParserReward("error") ELSE 0)]
        BY DEF TakeRound
    <2>2. EnvReward + ParserReward("action") = 11 /\ ParserReward("error") = -2
        BY DEF EnvReward, ParserReward
    <2>3. earned \in [Agents -> Int]
        BY <1>0 DEF TypeOK
    <2> HIDE DEF valid, rejected
    <2> QED
        BY <2>1, <2>2, <2>3
<1>4. LoopInv'
    <2>1. \A b \in DOMAIN news : news[b] \in Int
        BY <1>2 DEF Feedback
    <2> HIDE DEF news
    <2>2. \A a \in Agents \cap DOMAIN heard : heard[a] \in Message
        BY <2>1, Messages
    <2> HIDE DEF heard
    <2> QED
        BY <1>0, <1>1, <2>2, LoopHear
<1>5. finished' \subseteq Agents
    BY <1>0, <1>1 DEF TypeOK, EndedBy
<1> HIDE DEF valid, rejected, over, news, heard
<1>6. ASSUME NEW a \in Agents
      PROVE  /\ steps'[a] \in Seq(StepRecord) /\ turn'[a] \in Nat /\ obs'[a] \in Int
             /\ calls'[a] = <<>>
    <2>1. /\ steps[a] \in Seq(StepRecord) /\ WithAct(a) \in Seq(StepRecord)
          /\ turn[a] \in Nat /\ obs[a] \in Int
        BY <1>0, Typed, WithActIs
    <2>2. CASE NotAsked(a) /\ a \notin acting
        BY <1>0, <1>1, <2>1, <2>2 DEF NotAsked, HearsNothing, ActingInv
    <2>3. CASE LeftInTurn(a) /\ calls'[a] = <<>>
        BY <2>1, <2>3 DEF LeftInTurn, HearsNothing
    <2>4. CASE Rejected(a) /\ calls'[a] = <<>>
        BY <2>1, <2>4 DEF Rejected, Hears, Feedback
    <2>5. CASE Accepted(a, out) /\ calls[a] # <<>> /\ calls'[a] = <<>>
        <3>1. WithOutcome(a, out) \in Seq(StepRecord)
            BY <1>0, <2>1, <2>5, EnvStepIs
        <3> QED
            BY <1>2, <2>1, <2>5, <3>1 DEF Accepted, Hears, HearsNothing
    <2> QED
        BY <1>0, <2>2, <2>3, <2>4, <2>5, RoundOf
<1>7. steps' \in [Agents -> Seq(StepRecord)] /\ turn' \in [Agents -> Nat]
        /\ obs' \in [Agents -> Int]
    BY <1>1, <1>6
<1>8. TypeOK'
    BY <1>0, <1>1, <1>2, <1>3, <1>4, <1>5, <1>7 DEF TypeOK, LoopInv
<1>9. ActingInv'
    BY <1>1, <1>6 DEF ActingInv
<1> QED
    BY <1>4, <1>8, <1>9 DEF BaseInv

LEMMA CallBase ==
    ASSUME BaseInv, NEW a \in Agents, NEW target \in Targets, NEW parse \in Parses,
           CallModel(a, target, parse)
    PROVE  BaseInv'
<1>0. TypeOK /\ LoopInv /\ ActingInv
    BY DEF BaseInv
<1>1. /\ pc = "act" /\ pc' = "act" /\ a \in acting /\ ModelCall(a, target, parse)
      /\ UNCHANGED <<t, acting, finished, envVars, traceVars>>
    BY DEF CallModel
<1>2. LoopInv'
    BY <1>0, <1>1, LoopCall
<1>3. TypeOK'
    BY <1>0, <1>1, <1>2 DEF TypeOK, LoopInv, envVars, traceVars
<1>4. \A b \in Agents \ {a} : calls'[b] = calls[b]
    BY <1>0, <1>1, Called DEF LoopInv
<1>5. ActingInv'
    <2>1. pc' = pc /\ acting' = acting /\ finished' = finished
        BY <1>1
    <2>2. \A b \in Agents : pc' = "act" /\ b \notin acting' => calls'[b] = <<>>
        BY <1>0, <1>1, <1>4, <2>1 DEF ActingInv
    <2> QED
        BY <1>0, <1>1, <2>1, <2>2 DEF ActingInv
<1> QED
    BY <1>2, <1>3, <1>5 DEF BaseInv

LEMMA BaseStep == BaseInv /\ [Next]_vars => BaseInv'
<1> SUFFICES ASSUME BaseInv, [Next]_vars PROVE BaseInv'
    OBVIOUS
<1>0. TypeOK /\ LoopInv /\ ActingInv
    BY DEF BaseInv
<1>1. ASSUME NEW active \in SUBSET (Agents \cup Others), BeginRound(active) PROVE BaseInv'
    <2>1. LoopInv' /\ calls' = calls
        BY <1>0, <1>1, LoopSame DEF BeginRound, agentVars
    <2>2. pc = "loop" /\ pc' = "act" /\ acting' = (active \cap Agents) \ finished
            /\ finished' = finished
        BY <1>1 DEF BeginRound, ToPoll
    <2>3. TypeOK'
        BY <1>0, <1>1, <2>1, <2>2, MultiAgentAssumption
        DEF BeginRound, envVars, traceVars, TypeOK, LoopInv
    <2>4. ActingInv'
        BY <1>0, <2>1, <2>2 DEF ActingInv
    <2> QED
        BY <2>1, <2>3, <2>4 DEF BaseInv
<1>2. CASE Exhausted \/ NobodyActive \/ CallFails
    <2>1. /\ UNCHANGED <<agentVars, t, acting, finished, envVars, traceVars>>
          /\ pc' \in {"return", "raised"}
        BY <1>2 DEF Exhausted, NobodyActive, LeaveLoop, CallFails
    <2>2. LoopInv'
        BY <1>0, <2>1, LoopSame
    <2>3. TypeOK'
        BY <1>0, <2>1, <2>2 DEF envVars, traceVars, TypeOK, LoopInv
    <2>4. ActingInv'
        BY <1>0, <2>1 DEF ActingInv, agentVars
    <2> QED
        BY <2>2, <2>3, <2>4 DEF BaseInv
<1>3. CASE ReturnRollouts
    <2>1. LoopInv'
        BY <1>0, <1>3, LoopSame DEF ReturnRollouts
    <2>2. steps' \in [Agents -> Seq(StepRecord)]
        <3>1. \A a \in Agents : Marked(steps[a]) \in Seq(StepRecord)
            BY <1>0, Typed, MarkedSteps
        <3> QED
            BY <1>3, <3>1 DEF ReturnRollouts
    <2>3. TypeOK'
        BY <1>0, <1>3, <2>1, <2>2 DEF ReturnRollouts, envVars, TypeOK, LoopInv
    <2>4. ActingInv'
        BY <1>0, <1>3 DEF ReturnRollouts, ActingInv, agentVars
    <2> QED
        BY <2>1, <2>3, <2>4 DEF BaseInv
<1>4. CASE UNCHANGED vars
    <2>1. LoopInv'
        BY <1>0, <1>4, LoopSame DEF vars
    <2>2. TypeOK'
        BY <1>0, <1>4, <2>1 DEF vars, envVars, traceVars, TypeOK, LoopInv
    <2>3. ActingInv'
        BY <1>0, <1>4 DEF vars, agentVars, ActingInv
    <2> QED
        BY <2>1, <2>2, <2>3 DEF BaseInv
<1> QED
    BY <1>1, <1>2, <1>3, <1>4, OthersBase, CallBase, RoundBase DEF Next, Stopped

(* Every variable keeps its type, and each act stays within its calls. *)
THEOREM TypeCorrect == Spec => []TypeOK
<1>1. BaseInv => TypeOK
    BY DEF BaseInv
<1> QED
    BY <1>1, InitBase, BaseStep, PTL DEF Spec

-----------------------------------------------------------------------------
(* The shape of a turn *)

(* Every rollout is one that can be collected, and each agent's turn is    *)
(* open, a new one or one that an external call left behind.               *)
TurnInv == \A a \in Agents :
    /\ Shaped(steps[a])
    /\ pc \in {"loop", "act"} => Open(steps[a], calls[a], ctx[a], turn[a])

LEMMA InitTurn == Init => TurnInv
BY DEF Init, AgentInit, TurnInv, Shaped, Open

(* What a rollout is like with the steps of an act that has returned. *)
LEMMA ActShape ==
    ASSUME TypeOK, TurnInv, pc = "act", NEW a \in Agents, calls[a] # <<>>
    PROVE  LET w == WithAct(a)
           IN  /\ Shaped(w)
               /\ \A i \in 1..Len(w) :
                    /\ w[i].turn < turn[a] + 1
                    /\ w[i].turn = turn[a] => w[i].kind = "agent"
               /\ Len(w) \in 1..Len(w)
               /\ w[Len(w)].kind = "agent" /\ w[Len(w)].turn = turn[a]
               /\ w[Len(w)].prompt = FinalCall(a).prompt
<1> DEFINE c == calls[a]
           x == ctx[a]
           s == steps[a]
           n == turn[a]
           b == FALSE
           w == Act(s, c, n, b)
<1>1. /\ s \in Seq(StepRecord) /\ c \in Seq(Call) /\ n \in Nat /\ b \in BOOLEAN
      /\ Shaped(s) /\ Open(s, c, x, n) /\ c # <<>>
    BY Typed DEF TurnInv
<1>2. WithAct(a) = w /\ FinalCall(a) = c[Len(c)]
    BY WithActIs DEF FinalCall, Last
<1> HIDE DEF c, x, s, n, b
<1>3. /\ Shaped(w)
      /\ \A i \in 1..Len(w) : w[i].turn < n + 1 /\ (w[i].turn = n => w[i].kind = "agent")
      /\ Len(w) \in 1..Len(w) /\ w[Len(w)].kind = "agent" /\ w[Len(w)].turn = n
      /\ w[Len(w)].prompt = c[Len(c)].prompt
    BY <1>1, ActKeepsShape
<1> HIDE DEF w
<1> QED
    BY <1>2, <1>3 DEF n

(* A turn that ends with an external call stays open. *)
LEMMA ExternalKeepsOpen ==
    ASSUME TypeOK, TurnInv, pc = "act", NEW a \in Agents, calls[a] # <<>>,
           FinalCall(a).target = "external"
    PROVE  Open(WithAct(a), <<>>, ctx[a], turn[a])
<1> DEFINE c == calls[a]
           x == ctx[a]
           s == steps[a]
           n == turn[a]
<1>1. /\ s \in Seq(StepRecord) /\ c \in Seq(Call) /\ n \in Nat /\ FALSE \in BOOLEAN
      /\ Shaped(s) /\ Open(s, c, x, n)
    BY Typed DEF TurnInv
<1>2. WithAct(a) = Act(s, c, n, FALSE) /\ c[Len(c)].target = "external"
    BY WithActIs DEF FinalCall, Last
<1> HIDE DEF c, x, s, n
<1>3. \A k \in 1..Len(c) : c[k].target # "env"
    <2>1. \A k \in 1..Len(c) : k < Len(c) => c[k].target = "internal"
        BY <1>1 DEF Open
    <2>2. \A k \in 1..Len(c) : k < Len(c) \/ k = Len(c)
        BY <1>1
    <2> QED
        BY <1>2, <2>1, <2>2
<1>4. Open(WithAct(a), <<>>, x, n)
    BY <1>1, <1>2, <1>3, ActIsOpen
<1> QED
    BY <1>4 DEF x, n

(* The step of the environment closes the turn. *)
LEMMA OutcomeShape ==
    ASSUME TypeOK, TurnInv, pc = "act", NEW a \in Agents, calls[a] # <<>>,
           NEW out \in Outcomes
    PROVE  LET s == WithOutcome(a, out)
           IN  /\ s \in Seq(StepRecord) /\ Shaped(s)
               /\ \A i \in 1..Len(s) : s[i].turn < turn[a] + 1
<1> DEFINE e == EnvStep(a, out)
           w == WithAct(a)
           n == turn[a]
<1>1. /\ WithOutcome(a, out) = Append(w, e)
      /\ e \in StepRecord /\ e.kind = "env" /\ e.turn = n
    BY EnvStepIs
<1>2. w \in Seq(StepRecord) /\ n \in Nat
    BY WithActIs, Typed
<1>3. /\ Shaped(w)
      /\ \A i \in 1..Len(w) : w[i].turn < n + 1 /\ (w[i].turn = n => w[i].kind = "agent")
      /\ Len(w) \in 1..Len(w) /\ w[Len(w)].kind = "agent" /\ w[Len(w)].turn = n
    BY ActShape
<1> HIDE DEF e, w, n
<1>4. Shaped(Append(w, e))
    BY <1>1, <1>2, <1>3, EnvKeepsShape
<1>5. \A i \in 1..Len(Append(w, e)) : Append(w, e)[i].turn < n + 1
    BY <1>1, <1>2, <1>3, AppendTurns
<1>6. Append(w, e) \in Seq(StepRecord)
    BY <1>1, <1>2
<1> QED
    BY <1>1, <1>4, <1>5, <1>6 DEF n

LEMMA RoundTurn ==
    ASSUME BaseInv, TurnInv, NEW out \in Outcomes, TakeRound(out), NEW a \in Agents
    PROVE  Shaped(steps'[a]) /\ Open(steps'[a], calls'[a], ctx'[a], turn'[a])
<1>0. TypeOK /\ LoopInv /\ ActingInv /\ pc = "act"
    BY DEF BaseInv, TakeRound
<1>1. Shaped(steps[a]) /\ Open(steps[a], calls[a], ctx[a], turn[a])
    BY <1>0 DEF TurnInv
<1>2. WithAct(a) \in Seq(StepRecord) /\ turn[a] \in Nat
    BY <1>0, WithActIs, Typed
<1>3. CASE NotAsked(a)
    BY <1>1, <1>3 DEF NotAsked, HearsNothing
<1>4. CASE LeftInTurn(a) /\ calls[a] # <<>> /\ calls'[a] = <<>>
    <2>1. Shaped(WithAct(a)) /\ Open(WithAct(a), <<>>, ctx[a], turn[a])
        BY <1>0, <1>4, ActShape, ExternalKeepsOpen DEF LeftInTurn
    <2> QED
        BY <1>4, <2>1 DEF LeftInTurn, HearsNothing
<1>5. CASE Rejected(a) /\ calls[a] # <<>> /\ calls'[a] = <<>>
    <2>1. Shaped(WithAct(a)) /\ \A i \in 1..Len(WithAct(a)) : WithAct(a)[i].turn < turn[a] + 1
        BY <1>0, <1>5, ActShape
    <2>2. Open(WithAct(a), <<>>, ctx'[a], turn[a] + 1)
        BY <1>2, <2>1, FreshIsOpen
    <2> QED
        BY <1>5, <2>1, <2>2 DEF Rejected
<1>6. CASE Accepted(a, out) /\ calls[a] # <<>> /\ calls'[a] = <<>>
    <2> DEFINE s == WithOutcome(a, out)
    <2>1. s \in Seq(StepRecord) /\ Shaped(s) /\ \A i \in 1..Len(s) : s[i].turn < turn[a] + 1
        BY <1>0, <1>6, OutcomeShape
    <2> HIDE DEF s
    <2>2. Open(s, <<>>, ctx'[a], turn[a] + 1)
        BY <1>2, <2>1, FreshIsOpen
    <2> QED
        BY <1>6, <2>1, <2>2 DEF Accepted, s
<1> QED
    BY <1>0, <1>3, <1>4, <1>5, <1>6, RoundOf

LEMMA TurnStep ==
    ASSUME BaseInv, TurnInv, [Next]_vars
    PROVE  TurnInv'
<1>0. TypeOK /\ ActingInv
    BY DEF BaseInv
<1>1. ASSUME NEW active, BeginRound(active) PROVE TurnInv'
    BY <1>1 DEF BeginRound, agentVars, traceVars, TurnInv
<1>2. ASSUME NEW active, NEW out \in Outcomes, StepOthers(active, out) PROVE TurnInv'
    <2> SUFFICES ASSUME NEW a \in Agents
                 PROVE  /\ Shaped(steps'[a])
                        /\ pc' \in {"loop", "act"} => Open(steps'[a], calls'[a], ctx'[a], turn'[a])
        BY DEF TurnInv
    <2>1. /\ steps'[a] = steps[a] /\ turn'[a] = turn[a] /\ calls'[a] = calls[a]
          /\ envTime' \in Nat
          /\ ctx'[a] = IF a \in finished THEN ctx[a] ELSE Append(ctx[a], User(envTime'))
        BY <1>0, <1>2, OthersOf
    <2>2. pc = "loop" /\ calls[a] = <<>>
        BY <1>0, <1>2 DEF StepOthers, ActingInv
    <2>3. Shaped(steps[a]) /\ Open(steps[a], <<>>, ctx[a], turn[a])
        BY <2>2 DEF TurnInv
    <2>4. Open(steps[a], <<>>, Append(ctx[a], User(envTime')), turn[a])
        <3>1. /\ steps[a] \in Seq(StepRecord) /\ turn[a] \in Nat /\ ctx[a] \in Seq(Message)
              /\ User(envTime') \in Message
            BY <1>0, <2>1, Typed, Messages
        <3> HIDE DEF User
        <3> QED
            BY <2>3, <3>1, OpenHears
    <2> QED
        BY <2>1, <2>2, <2>3, <2>4
<1>3. CASE Exhausted \/ NobodyActive \/ CallFails
    <2>1. pc' \in {"return", "raised"} /\ steps' = steps
        BY <1>3 DEF Exhausted, NobodyActive, LeaveLoop, CallFails, traceVars
    <2> QED
        BY <2>1 DEF TurnInv
<1>4. ASSUME NEW b \in Agents, NEW target \in Targets, NEW parse \in Parses,
             CallModel(b, target, parse)
      PROVE  TurnInv'
    <2> SUFFICES ASSUME NEW a \in Agents
                 PROVE  /\ Shaped(steps'[a])
                        /\ pc' \in {"loop", "act"} => Open(steps'[a], calls'[a], ctx'[a], turn'[a])
        BY DEF TurnInv
    <2>1. pc = "act" /\ steps' = steps /\ turn' = turn /\ ModelCall(b, target, parse)
        BY <1>4 DEF CallModel, traceVars
    <2>2. Shaped(steps[a]) /\ Open(steps[a], calls[a], ctx[a], turn[a])
        BY <2>1 DEF TurnInv
    <2>3. CASE a = b
        <3>1. AgentTypeOK /\ steps[a] \in Seq(StepRecord) /\ turn[a] \in Nat
            BY <1>0, Typed
        <3>2. Open(steps[a], calls'[a], ctx'[a], turn[a])
            BY <2>1, <2>2, <2>3, <3>1, CallKeepsOpen
        <3> QED
            BY <2>1, <2>2, <3>2
    <2>4. CASE a # b
        <3>1. calls'[a] = calls[a] /\ ctx'[a] = ctx[a]
            BY <1>0, <2>1, <2>4, Called DEF TypeOK
        <3> QED
            BY <2>1, <2>2, <3>1
    <2> QED
        BY <2>3, <2>4
<1>5. ASSUME NEW out \in Outcomes, TakeRound(out) PROVE TurnInv'
    BY <1>5, RoundTurn DEF TurnInv
<1>6. CASE ReturnRollouts
    <2>1. pc' = "done" /\ \A a \in Agents : steps'[a] = Marked(steps[a])
        BY <1>6 DEF ReturnRollouts
    <2>2. \A a \in Agents : Shaped(Marked(steps[a]))
        BY <1>0, Typed, MarkKeepsShape DEF TurnInv
    <2> QED
        BY <2>1, <2>2 DEF TurnInv
<1>7. CASE UNCHANGED vars
    BY <1>7 DEF vars, agentVars, traceVars, TurnInv
<1> QED
    BY <1>1, <1>2, <1>3, <1>4, <1>5, <1>6, <1>7 DEF Next, Stopped

(* No agent's rollout costs the batch: each of them becomes samples, even  *)
(* where a turn stayed open over rounds and the agent saw others move.     *)
THEOREM RolloutsCollectableAlways == Spec => []RolloutsCollectable
<1>1. BaseInv /\ TurnInv /\ [Next]_vars => BaseInv' /\ TurnInv'
    BY BaseStep, TurnStep
<1>2. BaseInv /\ TurnInv => RolloutsCollectable
    BY Typed, ShapedIsCollectable DEF RolloutsCollectable, TurnInv, BaseInv
<1> QED
    BY <1>1, <1>2, InitBase, InitTurn, PTL DEF Spec

-----------------------------------------------------------------------------
(* The end of an episode *)

EnvEndsLast(s) == LastEnds(s) /\ s[Len(s)].kind = "env"

(* Until the rollouts are returned, those of the finished agents end with  *)
(* the environment's step that ended them, and no other carries an end.    *)
EndInv ==
    /\ pc \in {"loop", "act", "return"} => \A a \in Agents :
         /\ Unmarked(steps[a])
         /\ IF a \in finished THEN EnvEndsLast(steps[a]) ELSE NoEnd(steps[a])
    /\ EachEndsOnce

LEMMA InitEnd == Init => EndInv
BY DEF Init, EndInv, EachEndsOnce, NoEnd, Unmarked

(* A rollout that the environment ended takes no mark. *)
LEMMA EndedUnmarked ==
    ASSUME NEW s \in Seq(StepRecord), EnvEndsLast(s)
    PROVE  Marked(s) = s
<1>1. s # <<>> /\ s[Len(s)].kind = "env" /\ Ends(s[Len(s)])
    BY DEF EnvEndsLast, LastEnds
<1>2. EndStep(s) = Len(s)
    BY <1>1, EndStepIs
<1> QED
    BY <1>1, <1>2 DEF Marked

(* No step of an act ends a rollout here. *)
LEMMA ActEnd ==
    ASSUME TypeOK, TurnInv, pc = "act", NEW a \in Agents, calls[a] # <<>>,
           NoEnd(steps[a]), Unmarked(steps[a])
    PROVE  NoEnd(WithAct(a)) /\ Unmarked(WithAct(a))
<1> DEFINE c == calls[a]
           x == ctx[a]
           s == steps[a]
           n == turn[a]
           b == FALSE
           w == Act(s, c, n, b)
<1>1. /\ s \in Seq(StepRecord) /\ c \in Seq(Call) /\ n \in Nat /\ b \in BOOLEAN
      /\ Open(s, c, x, n) /\ c # <<>> /\ NoEnd(s) /\ Unmarked(s)
    BY Typed DEF TurnInv
<1>2. WithAct(a) = w /\ ~b
    BY WithActIs
<1> HIDE DEF c, x, s, n, b
<1>3. Unmarked(w) /\ NoEnd(w)
    <2> DEFINE ends == c[Len(c)].target = "env" /\ c[Len(c)].parse = "error" /\ b
    <2>1. ~ends
        BY <1>2
    <2>2. Unmarked(w) /\ (~ends => NoEnd(w))
        BY <1>1, ActEnds
    <2> HIDE DEF ends
    <2> QED
        BY <2>1, <2>2
<1> QED
    BY <1>2, <1>3

LEMMA OutcomeEnd ==
    ASSUME TypeOK, TurnInv, pc = "act", NEW a \in Agents, calls[a] # <<>>,
           NEW out \in Outcomes, NoEnd(steps[a]), Unmarked(steps[a])
    PROVE  LET s == WithOutcome(a, out)
           IN  /\ Unmarked(s)
               /\ Ends(out[a]) => EnvEndsLast(s)
               /\ ~Ends(out[a]) => NoEnd(s)
<1> DEFINE e == EnvStep(a, out)
           w == WithAct(a)
<1>1. /\ WithOutcome(a, out) = Append(w, e)
      /\ e \in StepRecord /\ e.kind = "env" /\ e.why = "none" /\ (Ends(e) <=> Ends(out[a]))
    BY EnvStepIs
<1>2. w \in Seq(StepRecord) /\ NoEnd(w) /\ Unmarked(w)
    BY WithActIs, ActEnd
<1> HIDE DEF e, w
<1>3. /\ Unmarked(Append(w, e))
      /\ Ends(e) => LastEnds(Append(w, e))
      /\ ~Ends(e) => NoEnd(Append(w, e))
    BY <1>1, <1>2, EnvEnds
<1>4. Append(w, e)[Len(Append(w, e))] = e
    BY <1>1, <1>2
<1> QED
    BY <1>1, <1>3, <1>4 DEF EnvEndsLast

LEMMA RoundEnd ==
    ASSUME BaseInv, TurnInv, EndInv, NEW out \in Outcomes, TakeRound(out), NEW a \in Agents
    PROVE  /\ Unmarked(steps'[a])
           /\ IF a \in finished' THEN EnvEndsLast(steps'[a]) ELSE NoEnd(steps'[a])
<1>0. TypeOK /\ LoopInv /\ ActingInv /\ pc = "act"
    BY DEF BaseInv, TakeRound
<1>1. /\ Unmarked(steps[a])
      /\ IF a \in finished THEN EnvEndsLast(steps[a]) ELSE NoEnd(steps[a])
    BY <1>0 DEF EndInv
<1>2. CASE a \notin acting
    <2>1. NotAsked(a)
        BY <1>0, <1>2, RoundOf
    <2> QED
        BY <1>1, <2>1 DEF NotAsked, StaysIn
<1>3. CASE a \in acting
    <2>1. (calls[a] # <<>> /\ LeftInTurn(a)) \/ Rejected(a) \/ Accepted(a, out)
        BY <1>0, <1>3, RoundOf
    <2>2. a \notin finished /\ NoEnd(steps[a]) /\ calls[a] # <<>>
        BY <1>0, <1>1, <1>3, RoundOf DEF ActingInv
    <2>3. NoEnd(WithAct(a)) /\ Unmarked(WithAct(a))
        BY <1>0, <1>1, <2>2, ActEnd
    <2>4. CASE LeftInTurn(a)
        BY <2>2, <2>3, <2>4 DEF LeftInTurn, StaysIn
    <2>5. CASE Rejected(a)
        BY <2>2, <2>3, <2>5 DEF Rejected, StaysIn
    <2>6. CASE Accepted(a, out)
        <3>1. LET s == WithOutcome(a, out)
              IN  /\ Unmarked(s)
                  /\ Ends(out[a]) => EnvEndsLast(s)
                  /\ ~Ends(out[a]) => NoEnd(s)
            BY <1>0, <1>1, <2>2, OutcomeEnd
        <3> QED
            BY <2>2, <2>6, <3>1 DEF Accepted, StaysIn
    <2> QED
        BY <2>1, <2>4, <2>5, <2>6
<1> QED
    BY <1>2, <1>3

LEMMA EndStepInv ==
    ASSUME BaseInv, TurnInv, EndInv, [Next]_vars
    PROVE  EndInv'
<1>0. TypeOK
    BY DEF BaseInv
<1>1. ASSUME NEW active, BeginRound(active) PROVE EndInv'
    BY <1>1 DEF BeginRound, traceVars, EndInv, EachEndsOnce
<1>2. ASSUME NEW active, NEW out \in Outcomes, StepOthers(active, out) PROVE EndInv'
    BY <1>2 DEF StepOthers, EndInv, EachEndsOnce
<1>3. CASE Exhausted \/ NobodyActive
    BY <1>3 DEF Exhausted, NobodyActive, LeaveLoop, traceVars, EndInv, EachEndsOnce
<1>4. CASE CallFails
    BY <1>4 DEF CallFails, EndInv, EachEndsOnce
<1>5. ASSUME NEW b \in Agents, NEW target \in Targets, NEW parse \in Parses,
             CallModel(b, target, parse)
      PROVE  EndInv'
    BY <1>5 DEF CallModel, traceVars, EndInv, EachEndsOnce
<1>6. ASSUME NEW out \in Outcomes, TakeRound(out) PROVE EndInv'
    <2>1. pc' \in {"loop", "return"}
        BY <1>6 DEF TakeRound
    <2>2. \A a \in Agents :
            /\ Unmarked(steps'[a])
            /\ IF a \in finished' THEN EnvEndsLast(steps'[a]) ELSE NoEnd(steps'[a])
        BY <1>6, RoundEnd
    <2> QED
        BY <2>1, <2>2 DEF EndInv, EachEndsOnce
<1>7. CASE ReturnRollouts
    <2>1. /\ pc = "return" /\ pc' = "done"
          /\ \A a \in Agents : steps'[a] = Marked(steps[a])
        BY <1>7 DEF ReturnRollouts
    <2>2. ASSUME NEW a \in Agents, Marked(steps[a]) # <<>> PROVE EndedOnce(Marked(steps[a]))
        <3>1. steps[a] \in Seq(StepRecord) /\ Unmarked(steps[a])
            BY <1>0, <2>1, Typed DEF EndInv
        <3>2. CASE a \in finished
            <4>1. EnvEndsLast(steps[a])
                BY <2>1, <3>2 DEF EndInv
            <4> QED
                BY <3>1, <4>1, EndedUnmarked, LastEndsOnce DEF EnvEndsLast
        <3>3. CASE a \notin finished
            <4>1. NoEnd(steps[a])
                BY <2>1, <3>3 DEF EndInv
            <4>2. steps[a] # <<>>
                BY <2>2 DEF Marked
            <4> QED
                BY <3>1, <4>1, <4>2, MarkEndsOnce
        <3> QED
            BY <3>2, <3>3
    <2> QED
        BY <2>1, <2>2 DEF EndInv, EachEndsOnce
<1>8. CASE UNCHANGED vars
    BY <1>8 DEF vars, traceVars, EndInv, EachEndsOnce
<1> QED
    BY <1>1, <1>2, <1>3, <1>4, <1>5, <1>6, <1>7, <1>8 DEF Next, Stopped

(* Each rollout ends once, and its metadata says why, in whatever order    *)
(* the environment ends the agents and whatever ends the loop.             *)
THEOREM EachEndsOnceAlways == Spec => []EachEndsOnce
<1>1. BaseInv /\ TurnInv /\ EndInv /\ [Next]_vars => BaseInv' /\ TurnInv' /\ EndInv'
    BY BaseStep, TurnStep, EndStepInv
<1>2. EndInv => EachEndsOnce
    BY DEF EndInv
<1> QED
    BY <1>1, <1>2, InitBase, InitTurn, InitEnd, PTL DEF Spec

-----------------------------------------------------------------------------
(* What the agents saw *)

(* Whatever an agent that is not finished is asked ends with the           *)
(* observation the protocol holds for it, also when others moved since.    *)
SawInv == \A a \in Agents :
    /\ Sourced(steps[a])
    /\ pc \in {"loop", "act"} /\ a \notin finished => Said(calls[a], ctx[a], obs[a])

LEMMA InitSaw == Init => SawInv
<1> SUFFICES ASSUME Init, NEW a \in Agents
             PROVE  Sourced(steps[a]) /\ Said(calls[a], ctx[a], obs[a])
    BY DEF SawInv
<1>1. /\ ctx[a] = <<User(FirstObs)>> /\ calls[a] = <<>> /\ obs[a] = FirstObs
      /\ steps[a] = <<>>
    BY DEF Init, AgentInit
<1>2. SaidLast(<<User(FirstObs)>>, FirstObs)
    BY DEF SaidLast
<1> QED
    BY <1>1, <1>2 DEF Sourced, Said

LEMMA ActSources ==
    ASSUME TypeOK, NEW a \in Agents, Sourced(steps[a])
    PROVE  Sourced(WithAct(a))
<1>1. steps[a] \in Seq(StepRecord) /\ calls[a] \in Seq(Call) /\ turn[a] \in Nat
    BY Typed
<1>2. ASSUME NEW b \in BOOLEAN PROVE Sourced(Act(steps[a], calls[a], turn[a], b))
    BY <1>1, ActKeepsSources
<1> QED
    BY <1>2, WithActIs

LEMMA OutcomeSources ==
    ASSUME TypeOK, TurnInv, pc = "act", NEW a \in Agents, calls[a] # <<>>,
           NEW out \in Outcomes, Sourced(steps[a]), Said(calls[a], ctx[a], obs[a])
    PROVE  Sourced(WithOutcome(a, out))
<1> DEFINE e == EnvStep(a, out)
           w == WithAct(a)
           c == calls[a]
<1>1. /\ WithOutcome(a, out) = Append(w, e) /\ e \in StepRecord
      /\ e.turn = turn[a] /\ e.source = Len(w) /\ e.seen = obs[a]
    BY EnvStepIs
<1>2. /\ w \in Seq(StepRecord) /\ Sourced(w)
      /\ Len(w) \in 1..Len(w) /\ w[Len(w)].kind = "agent" /\ w[Len(w)].turn = turn[a]
      /\ w[Len(w)].prompt = FinalCall(a).prompt
    BY WithActIs, ActSources, ActShape
<1>3. c \in Seq(Call) /\ c # <<>> /\ FinalCall(a) = c[Len(c)]
        /\ \A k \in 1..Len(c) : SaidLast(c[k].prompt, obs[a])
    BY Typed DEF FinalCall, Last, Said
<1> HIDE DEF e, w, c
<1>4. SaidLast(w[Len(w)].prompt, obs[a])
    <2>1. Len(c) \in 1..Len(c)
        BY <1>3
    <2> QED
        BY <1>2, <1>3, <2>1
<1> QED
    BY <1>1, <1>2, <1>4, EnvKeepsSources

(* The latest user message is now o. *)
LEMMA HearsSaid ==
    ASSUME TypeOK, NEW a \in Agents, NEW o \in Int, Hears(a, o), calls'[a] = <<>>
    PROVE  Said(calls'[a], ctx'[a], obs'[a])
<1>1. ctx[a] \in Seq(Message)
    BY Typed
<1>2. SaidLast(ctx'[a], obs'[a])
    BY <1>1, SaidLastNow DEF Hears
<1> QED
    BY <1>2 DEF Said

LEMMA RoundSaw ==
    ASSUME BaseInv, TurnInv, SawInv, NEW out \in Outcomes, TakeRound(out), NEW a \in Agents
    PROVE  /\ Sourced(steps'[a])
           /\ a \notin finished' => Said(calls'[a], ctx'[a], obs'[a])
<1>0. TypeOK /\ LoopInv /\ ActingInv /\ pc = "act"
    BY DEF BaseInv, TakeRound
<1>1. Sourced(steps[a]) /\ (a \notin finished => Said(calls[a], ctx[a], obs[a]))
    BY <1>0 DEF SawInv
<1>2. CASE a \notin acting
    <2>1. NotAsked(a)
        BY <1>0, <1>2, RoundOf
    <2> QED
        BY <1>1, <2>1 DEF NotAsked, HearsNothing, StaysIn
<1>3. CASE a \in acting
    <2>1. LeftInTurn(a) \/ Rejected(a) \/ Accepted(a, out)
        BY <1>0, <1>3, RoundOf
    <2>2. /\ calls[a] # <<>> /\ calls'[a] = <<>>
          /\ a \notin finished /\ Said(calls[a], ctx[a], obs[a])
        BY <1>0, <1>1, <1>3, RoundOf DEF ActingInv
    <2>3. Sourced(WithAct(a))
        BY <1>0, <1>1, ActSources
    <2>4. HearsNothing(a) => Said(calls'[a], ctx'[a], obs'[a])
        BY <2>2 DEF HearsNothing, Said
    <2>5. CASE LeftInTurn(a)
        BY <2>3, <2>4, <2>5 DEF LeftInTurn
    <2>6. CASE Rejected(a)
        <3>1. Said(calls'[a], ctx'[a], obs'[a])
            BY <1>0, <2>2, <2>6, HearsSaid DEF Rejected, Feedback
        <3> QED
            BY <2>3, <2>6, <3>1 DEF Rejected
    <2>7. CASE Accepted(a, out)
        <3>1. Sourced(WithOutcome(a, out))
            BY <1>0, <1>1, <2>2, OutcomeSources
        <3>2. ~Ends(out[a]) => Said(calls'[a], ctx'[a], obs'[a])
            <4>1. envTime' \in Int
                BY <1>0 DEF TakeRound, TypeOK, envVars
            <4>2. ASSUME NEW o \in Int, Hears(a, o) PROVE Said(calls'[a], ctx'[a], obs'[a])
                BY <1>0, <2>2, <4>2, HearsSaid
            <4> QED
                BY <2>7, <4>1, <4>2 DEF Accepted
        <3> QED
            BY <2>7, <3>1, <3>2 DEF Accepted
    <2> QED
        BY <2>1, <2>5, <2>6, <2>7
<1> QED
    BY <1>2, <1>3

LEMMA SawStep ==
    ASSUME BaseInv, TurnInv, SawInv, [Next]_vars
    PROVE  SawInv'
<1>0. TypeOK /\ ActingInv
    BY DEF BaseInv
<1>1. ASSUME NEW active, BeginRound(active) PROVE SawInv'
    BY <1>1 DEF BeginRound, agentVars, traceVars, SawInv
<1>2. ASSUME NEW active, NEW out \in Outcomes, StepOthers(active, out) PROVE SawInv'
    <2> SUFFICES ASSUME NEW a \in Agents
                 PROVE  /\ Sourced(steps'[a])
                        /\ pc' \in {"loop", "act"} /\ a \notin finished' =>
                             Said(calls'[a], ctx'[a], obs'[a])
        BY DEF SawInv
    <2>1. /\ steps'[a] = steps[a] /\ calls'[a] = calls[a]
          /\ obs'[a] = envTime' /\ envTime' \in Int
          /\ ctx'[a] = IF a \in finished THEN ctx[a] ELSE Append(ctx[a], User(envTime'))
        BY <1>0, <1>2, OthersOf
    <2>2. calls'[a] = <<>> /\ finished' = finished
        BY <1>0, <1>2, <2>1 DEF StepOthers, ActingInv
    <2>3. a \notin finished => Hears(a, envTime')
        BY <2>1 DEF Hears
    <2>4. ASSUME NEW o \in Int, Hears(a, o) PROVE Said(calls'[a], ctx'[a], obs'[a])
        BY <1>0, <2>2, <2>4, HearsSaid
    <2>5. Sourced(steps[a])
        BY DEF SawInv
    <2> QED
        BY <2>1, <2>2, <2>3, <2>4, <2>5
<1>3. CASE Exhausted \/ NobodyActive \/ CallFails
    <2>1. pc' \in {"return", "raised"} /\ steps' = steps
        BY <1>3 DEF Exhausted, NobodyActive, LeaveLoop, CallFails, traceVars
    <2> QED
        BY <2>1 DEF SawInv
<1>4. ASSUME NEW b \in Agents, NEW target \in Targets, NEW parse \in Parses,
             CallModel(b, target, parse)
      PROVE  SawInv'
    <2> SUFFICES ASSUME NEW a \in Agents
                 PROVE  /\ Sourced(steps'[a])
                        /\ pc' \in {"loop", "act"} /\ a \notin finished' =>
                             Said(calls'[a], ctx'[a], obs'[a])
        BY DEF SawInv
    <2>1. /\ pc = "act" /\ steps' = steps /\ obs' = obs /\ finished' = finished
          /\ ModelCall(b, target, parse)
        BY <1>4 DEF CallModel, traceVars
    <2>2. Sourced(steps[a]) /\ (a \notin finished => Said(calls[a], ctx[a], obs[a]))
        BY <2>1 DEF SawInv
    <2>3. CASE a = b
        <3>1. a \notin finished => Said(calls'[a], ctx'[a], obs[a])
            BY <1>0, <2>1, <2>2, <2>3, CallKeepsSaid DEF TypeOK
        <3> QED
            BY <2>1, <2>2, <3>1
    <2>4. CASE a # b
        <3>1. calls'[a] = calls[a] /\ ctx'[a] = ctx[a]
            BY <1>0, <2>1, <2>4, Called DEF TypeOK
        <3> QED
            BY <2>1, <2>2, <3>1
    <2> QED
        BY <2>3, <2>4
<1>5. ASSUME NEW out \in Outcomes, TakeRound(out) PROVE SawInv'
    BY <1>5, RoundSaw DEF SawInv
<1>6. CASE ReturnRollouts
    <2>1. pc' = "done" /\ \A a \in Agents : steps'[a] = Marked(steps[a])
        BY <1>6 DEF ReturnRollouts
    <2>2. \A a \in Agents : Sourced(Marked(steps[a]))
        BY <1>0, Typed, MarkKeepsSources DEF SawInv
    <2> QED
        BY <2>1, <2>2 DEF SawInv
<1>7. CASE UNCHANGED vars
    BY <1>7 DEF vars, agentVars, traceVars, SawInv
<1> QED
    BY <1>1, <1>2, <1>3, <1>4, <1>5, <1>6, <1>7 DEF Next, Stopped

(* What an environment step says was seen is what that agent was shown     *)
(* last before its answer, also when others moved in between.              *)
THEOREM EachSawWhatItActedOnAlways == Spec => []EachSawWhatItActedOn
<1>1. BaseInv /\ TurnInv /\ SawInv /\ [Next]_vars => BaseInv' /\ TurnInv' /\ SawInv'
    BY BaseStep, TurnStep, SawStep
<1>2. BaseInv /\ SawInv => EachSawWhatItActedOn
    BY Typed, SourcedSaw DEF EachSawWhatItActedOn, SawInv, BaseInv
<1> QED
    BY <1>1, <1>2, InitBase, InitTurn, InitSaw, PTL DEF Spec
-----------------------------------------------------------------------------
(* What the answers earned *)

(* Each rollout is worth what its agent earned so far, its turns are        *)
(* settled, and nothing of the turn in progress has been paid.              *)
PaidUp(a) ==
    /\ Settled(steps[a]) /\ TotalReward(steps[a]) = earned[a]
    /\ pc \in {"loop", "act"} => Owing(steps[a], turn[a])

PayInv == \A a \in Agents : PaidUp(a)

LEMMA InitPay == Init => PayInv
BY NothingPaid DEF Init, PayInv, PaidUp

LEMMA ActPay ==
    ASSUME TypeOK, LoopInv, TurnInv, PayInv, pc = "act", NEW a \in Agents, Returned(a)
    PROVE  LET bad == FinalCall(a).target = "env" /\ FinalCall(a).parse = "error"
           IN  /\ Settled(WithAct(a))
               /\ TotalReward(WithAct(a)) =
                    earned[a] + (IF bad THEN ParserReward("error") ELSE 0)
               /\ ~bad => Owing(WithAct(a), turn[a])
<1> DEFINE c == calls[a]
           x == ctx[a]
           s == steps[a]
           n == turn[a]
           b == FALSE
           w == Act(s, c, n, b)
           bad == c[Len(c)].target = "env" /\ c[Len(c)].parse = "error"
<1>1. /\ s \in Seq(StepRecord) /\ c \in Seq(Call) /\ n \in Nat /\ b \in BOOLEAN
      /\ Open(s, c, x, n) /\ c # <<>>
      /\ Settled(s) /\ Owing(s, n) /\ TotalReward(s) = earned[a]
    BY Typed DEF TurnInv, PayInv, PaidUp, Returned
<1>2. Replies(c)
    BY DEF LoopInv
<1>3. WithAct(a) = w /\ FinalCall(a) = c[Len(c)] /\ c[Len(c)].target # "internal"
    BY WithActIs DEF FinalCall, Last, Returned
<1> HIDE DEF c, b, x, s, n
<1>4. /\ Settled(w)
      /\ TotalReward(w) = TotalReward(s) + (IF bad THEN ParserReward("error") ELSE 0)
      /\ ~bad => Owing(w, n)
    BY <1>1, <1>2, <1>3, ActPays
<1> HIDE DEF w
<1> QED
    BY <1>1, <1>3, <1>4 DEF n

LEMMA OutcomePay ==
    ASSUME TypeOK, LoopInv, TurnInv, PayInv, pc = "act", NEW a \in Agents, Returned(a),
           NEW out \in Outcomes, FinalCall(a).target = "env", FinalCall(a).parse = "action"
    PROVE  LET s == WithOutcome(a, out)
           IN  /\ Settled(s)
               /\ TotalReward(s) = earned[a] + (EnvReward + ParserReward("action"))
<1> DEFINE e == EnvStep(a, out)
           w == WithAct(a)
<1>1. /\ WithOutcome(a, out) = Append(w, e) /\ e \in StepRecord
      /\ e.kind = "env" /\ e.turn = turn[a]
    BY EnvStepIs DEF Returned
<1>2. e.reward = EnvReward + ParserReward("action")
    BY DEF EnvStep, EnvironmentStep, EnvParserReward, MovesToEnv
<1>3. Settled(w) /\ TotalReward(w) = earned[a] + 0 /\ Owing(w, turn[a])
    BY ActPay
<1>4. w \in Seq(StepRecord) /\ Len(w) \in 1..Len(w) /\ w[Len(w)].turn = turn[a]
    BY WithActIs, ActShape DEF Returned
<1> HIDE DEF e, w
<1>5. Settled(Append(w, e)) /\ TotalReward(Append(w, e)) = TotalReward(w) + e.reward
    BY <1>1, <1>3, <1>4, EnvPays
<1>6. earned[a] \in Int
    BY DEF TypeOK
<1> QED
    BY <1>1, <1>2, <1>3, <1>5, <1>6

LEMMA RoundPay ==
    ASSUME BaseInv, TurnInv, PayInv, NEW out \in Outcomes, TakeRound(out), NEW a \in Agents
    PROVE  PaidUp(a)'
<1>0. TypeOK /\ LoopInv /\ ActingInv /\ pc = "act"
    BY DEF BaseInv, TakeRound
<1>1. /\ Settled(steps[a]) /\ TotalReward(steps[a]) = earned[a] /\ Owing(steps[a], turn[a])
      /\ turn[a] \in Nat /\ earned[a] \in Int
    BY <1>0, Typed DEF PayInv, PaidUp, TypeOK
<1>2. CASE a \notin acting
    <2>1. NotAsked(a)
        BY <1>0, <1>2, RoundOf
    <2> QED
        BY <1>1, <2>1 DEF NotAsked, Earns, PaidUp
<1>3. CASE a \in acting
    <2>1. LeftInTurn(a) \/ Rejected(a) \/ Accepted(a, out)
        BY <1>0, <1>3, RoundOf
    <2>2. Returned(a) /\ calls[a] # <<>>
        BY <1>3 DEF TakeRound, Returned
    <2>3. \A i \in 1..Len(WithAct(a)) : WithAct(a)[i].turn < turn[a] + 1
        BY <1>0, <2>2, ActShape
    <2>4. CASE LeftInTurn(a)
        <3>1. /\ Settled(WithAct(a)) /\ TotalReward(WithAct(a)) = earned[a] + 0
              /\ Owing(WithAct(a), turn[a])
            BY <1>0, <2>2, <2>4, ActPay DEF LeftInTurn
        <3> QED
            BY <2>4, <3>1 DEF LeftInTurn, Earns, PaidUp
    <2>5. CASE Rejected(a)
        <3>1. /\ Settled(WithAct(a))
              /\ TotalReward(WithAct(a)) = earned[a] + ParserReward("error")
            BY <1>0, <2>2, <2>5, ActPay DEF Rejected
        <3>2. Owing(WithAct(a), turn[a] + 1)
            <4>1. WithAct(a) \in Seq(StepRecord)
                BY <1>0, WithActIs
            <4>2. turn[a] + 1 \in Nat
                BY <1>1
            <4> QED
                BY <2>3, <4>1, <4>2, FreshOwes
        <3> QED
            BY <2>5, <3>1, <3>2 DEF Rejected, Earns, PaidUp
    <2>6. CASE Accepted(a, out)
        <3> DEFINE s == WithOutcome(a, out)
        <3>1. Settled(s) /\ TotalReward(s) = earned[a] + (EnvReward + ParserReward("action"))
            BY <1>0, <2>2, <2>6, OutcomePay DEF Accepted
        <3>2. s \in Seq(StepRecord) /\ \A i \in 1..Len(s) : s[i].turn < turn[a] + 1
            BY <1>0, <2>2, OutcomeShape
        <3>3. Owing(s, turn[a] + 1)
            <4> HIDE DEF s
            <4> QED
                BY <1>1, <3>2, FreshOwes
        <3> QED
            BY <2>6, <3>1, <3>3 DEF Accepted, Earns, PaidUp
    <2> QED
        BY <2>1, <2>4, <2>5, <2>6
<1> QED
    BY <1>2, <1>3

LEMMA PayStep ==
    ASSUME BaseInv, TurnInv, PayInv, [Next]_vars
    PROVE  PayInv'
<1>0. TypeOK
    BY DEF BaseInv
<1>1. ASSUME NEW active, BeginRound(active) PROVE PayInv'
    BY <1>1 DEF BeginRound, traceVars, PayInv, PaidUp
<1>2. ASSUME NEW active, NEW out \in Outcomes, StepOthers(active, out) PROVE PayInv'
    BY <1>2 DEF StepOthers, PayInv, PaidUp
<1>3. CASE Exhausted \/ NobodyActive \/ CallFails
    BY <1>3 DEF Exhausted, NobodyActive, LeaveLoop, CallFails, traceVars, PayInv, PaidUp
<1>4. ASSUME NEW b \in Agents, NEW target \in Targets, NEW parse \in Parses,
             CallModel(b, target, parse)
      PROVE  PayInv'
    BY <1>4 DEF CallModel, traceVars, PayInv, PaidUp
<1>5. ASSUME NEW out \in Outcomes, TakeRound(out) PROVE PayInv'
    BY <1>5, RoundPay DEF PayInv
<1>6. CASE ReturnRollouts
    <2>1. /\ pc' = "done" /\ earned' = earned
          /\ \A a \in Agents : steps'[a] = Marked(steps[a])
        BY <1>6 DEF ReturnRollouts
    <2>2. \A a \in Agents : /\ Settled(Marked(steps[a]))
                            /\ TotalReward(Marked(steps[a])) = earned[a]
        BY <1>0, Typed, MarkKeepsPay DEF PayInv, PaidUp
    <2> QED
        BY <2>1, <2>2 DEF PayInv, PaidUp
<1>7. CASE UNCHANGED vars
    BY <1>7 DEF vars, traceVars, PayInv, PaidUp
<1> QED
    BY <1>1, <1>2, <1>3, <1>4, <1>5, <1>6, <1>7 DEF Next, Stopped

(* What the environment and the parser gave for an agent's answers is in   *)
(* its own rollout, in the samples and in the total, once.                 *)
THEOREM RewardsCountedOnceAlways == Spec => []RewardsCountedOnce
<1>1. BaseInv /\ TurnInv /\ PayInv /\ [Next]_vars => BaseInv' /\ TurnInv' /\ PayInv'
    BY BaseStep, TurnStep, PayStep
<1>2. BaseInv /\ PayInv => RewardsCountedOnce
    BY Typed, SettledSamples DEF RewardsCountedOnce, PayInv, PaidUp, BaseInv
<1> QED
    BY <1>1, <1>2, InitBase, InitTurn, InitPay, PTL DEF Spec
=============================================================================
