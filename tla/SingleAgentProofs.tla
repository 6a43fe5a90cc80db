------------------------- MODULE SingleAgentProofs -------------------------
(***************************************************************************)
(* What an episode of the single-agent protocol leaves behind, for every   *)
(* number of rounds, of model calls and of external calls.                 *)
(***************************************************************************)
EXTENDS SingleAgent, RolloutProofs

(* What the assumptions say, in the form the steps use. *)
LEMMA Constants ==
    /\ Agents = {Me} /\ Me \in Agents /\ MaxReact \in Nat \ {0}
    /\ MaxSteps \in Nat /\ MaxExternal \in Nat
BY SingleAgentAssumption, AgentLoopAssumption

(* What the protocol knows of its agent and its rollout. *)
LEMMA Typed ==
    ASSUME TypeOK
    PROVE  /\ ctx[Me] \in Seq(Message) /\ calls[Me] \in Seq(Call)
           /\ steps \in Seq(StepRecord) /\ turn \in Nat /\ obs \in Int
           /\ conf.stopOnParseError \in BOOLEAN
           /\ AgentTypeOK
BY Constants, AgentTyped DEF TypeOK, Conf

(* The rollout with the steps of the act, and with that of the environment. *)
LEMMA WithActIs ==
    ASSUME TypeOK
    PROVE  /\ WithAct = Act(steps, calls[Me], turn, conf.stopOnParseError)
           /\ WithAct \in Seq(StepRecord) /\ Len(WithAct) \in Nat
<1>1. WithAct = Act(steps, calls[Me], turn, conf.stopOnParseError)
    BY DEF WithAct, Act
<1> QED
    BY <1>1, Typed, ActSteps

(* What the protocol records of the outcome out. *)
EnvStep(out) == EnvironmentStep(FinalCall(Me), turn, obs, Len(WithAct), out)

LEMMA EnvStepIs ==
    ASSUME TypeOK, calls[Me] # <<>>, NEW out \in Outcome
    PROVE  /\ EnvStep(out) \in StepRecord
           /\ EnvStep(out).kind = "env" /\ EnvStep(out).turn = turn
           /\ EnvStep(out).source = Len(WithAct) /\ EnvStep(out).seen = obs
           /\ EnvStep(out).why = "none" /\ (Ends(EnvStep(out)) <=> Ends(out))
<1>1. FinalCall(Me) \in Call
    BY Typed DEF FinalCall, Last
<1>2. turn \in Nat /\ obs \in Int /\ Len(WithAct) \in Nat
    BY Typed, WithActIs
<1> QED
    BY <1>1, <1>2, EnvironmentStepIs DEF EnvStep

(* The agent hears a message and its act is over. *)
LEMMA Told ==
    ASSUME LoopInv, NEW m \in Message, Hear([a \in {Me} |-> m], {Me})
    PROVE  LoopInv' /\ ctx'[Me] = Append(ctx[Me], m) /\ calls'[Me] = <<>>
<1> DEFINE heard == [a \in {Me} |-> m]
<1>1. LoopInv'
    <2>1. \A a \in Agents \cap DOMAIN heard : heard[a] \in Message
        OBVIOUS
    <2> HIDE DEF heard
    <2> QED
        BY <2>1, LoopHear
<1>2. ctx'[Me] = Append(ctx[Me], m) /\ calls'[Me] = <<>>
    BY Constants DEF Hear
<1> QED
    BY <1>1, <1>2

LEMMA ToldObservation ==
    ASSUME LoopInv, NEW o \in Int, Observe(o)
    PROVE  /\ LoopInv' /\ ctx'[Me] = Append(ctx[Me], User(o)) /\ calls'[Me] = <<>>
           /\ obs' = o
<1>1. User(o) \in Message
    BY Messages
<1>2. obs' = o /\ Hear([a \in {Me} |-> User(o)], {Me})
    BY DEF Observe
<1> HIDE DEF User
<1> QED
    BY <1>1, <1>2, Told

-----------------------------------------------------------------------------
(* Types *)

LEMMA InitType == Init => TypeOK /\ LoopInv
<1> SUFFICES ASSUME Init PROVE TypeOK /\ LoopInv
    OBVIOUS
<1>1. LoopInv
    BY LoopInit DEF Init
<1> QED
    BY <1>1, Constants DEF Init, TypeOK, LoopInv, FirstObs

LEMMA TypeStep == TypeOK /\ LoopInv /\ [Next]_vars => TypeOK' /\ LoopInv'
<1> SUFFICES ASSUME TypeOK, LoopInv, [Next]_vars PROVE TypeOK' /\ LoopInv'
    OBVIOUS
<1> USE Constants
<1>1. CASE BeginRound \/ Exhausted \/ NotActive \/ CallFails \/ UNCHANGED vars
    <2>1. UNCHANGED agentVars
        BY <1>1 DEF BeginRound, Exhausted, NotActive, LeaveLoop, CallFails, vars
    <2>2. LoopInv'
        BY <2>1, LoopSame
    <2> QED
        BY <1>1, <2>2 DEF BeginRound, Exhausted, NotActive, LeaveLoop, CallFails,
           protocolVars, vars, TypeOK, LoopInv
<1>2. ASSUME NEW target \in Targets, NEW parse \in Parses, CallModel(target, parse)
      PROVE  TypeOK' /\ LoopInv'
    <2>1. LoopInv'
        BY <1>2, LoopCall DEF CallModel
    <2> QED
        BY <1>2, <2>1 DEF CallModel, protocolVars, TypeOK, LoopInv
<1>3. CASE HandleExternal
    <2>1. WithAct \in Seq(StepRecord)
        BY WithActIs
    <2>2. LoopInv' /\ pc' \in {"act", "raised"}
        <3>1. CASE conf.hasHandler
            BY <1>3, <3>1, Messages, Told DEF HandleExternal, Answered
        <3>2. CASE ~conf.hasHandler
            BY <1>3, <3>2, LoopSame DEF HandleExternal
        <3> QED
            BY <3>1, <3>2
    <2> QED
        BY <1>3, <2>1, <2>2 DEF HandleExternal, TypeOK, LoopInv
<1>4. CASE RejectAnswer
    <2>1. WithAct \in Seq(StepRecord)
        BY WithActIs
    <2>2. LoopInv' /\ obs' = Feedback /\ turn' = turn + 1
        BY <1>4, ToldObservation DEF RejectAnswer, FreshTurn, Feedback
    <2>3. pc' \in {"return", "loop"} /\ exhausted' \in BOOLEAN
        BY <1>4 DEF RejectAnswer, TypeOK
    <2>4. earned' \in Int
        BY <1>4 DEF RejectAnswer, TypeOK, ParserReward
    <2> QED
        BY <1>4, <2>1, <2>2, <2>3, <2>4 DEF RejectAnswer, TypeOK, LoopInv, Feedback
<1>5. ASSUME NEW out \in Outcome, StepEnv(out) PROVE TypeOK' /\ LoopInv'
    <2>1. calls[Me] # <<>> /\ steps' = Append(WithAct, EnvStep(out))
        BY <1>5 DEF StepEnv, Answered, Returned, EnvStep
    <2>2. steps' \in Seq(StepRecord)
        BY <2>1, WithActIs, EnvStepIs
    <2>3. envTime' \in Nat /\ earned' \in Int
        BY <1>5 DEF StepEnv, TypeOK, EnvReward, ParserReward
    <2>4. CASE Ends(out)
        <3>1. /\ pc' = "return" /\ exhausted' = FALSE /\ obs' = envTime'
              /\ UNCHANGED <<agentVars, turn, conf, t, external>>
            BY <1>5, <2>4 DEF StepEnv
        <3>2. LoopInv'
            BY <3>1, LoopSame
        <3>3. /\ conf' \in Conf /\ t' \in 0..MaxSteps
              /\ turn' \in Nat /\ external' \in Nat
            BY <3>1 DEF TypeOK
        <3>4. pc' \in {"loop", "act", "return", "done", "raised"} /\ obs' \in Int
            BY <2>3, <3>1
        <3>5. exhausted' \in BOOLEAN
            BY <3>1, Zenon
        <3> QED
            BY <2>2, <2>3, <3>2, <3>3, <3>4, <3>5, Zenon DEF TypeOK, LoopInv
    <2>5. CASE ~Ends(out)
        <3>1. Observe(envTime') /\ turn' = turn + 1 /\ pc' = "loop" /\ exhausted' = exhausted
            BY <1>5, <2>5 DEF StepEnv, FreshTurn
        <3>2. ASSUME NEW o \in Int, Observe(o) PROVE LoopInv' /\ obs' = o
            BY <3>2, ToldObservation
        <3>3. LoopInv' /\ obs' = envTime'
            <4> HIDE DEF Observe
            <4> QED
                BY <2>3, <3>1, <3>2
        <3> QED
            BY <1>5, <2>2, <2>3, <3>1, <3>3 DEF StepEnv, TypeOK, LoopInv
    <2> QED
        BY <2>4, <2>5
<1>6. CASE ReturnRollout
    <2>1. steps' \in Seq(StepRecord)
        BY <1>6, MarkedSteps DEF ReturnRollout, MarkedIfExhausted, TypeOK
    <2>2. LoopInv'
        BY <1>6, LoopSame DEF ReturnRollout
    <2> QED
        BY <1>6, <2>1, <2>2 DEF ReturnRollout, TypeOK, LoopInv
<1> QED
    BY <1>1, <1>2, <1>3, <1>4, <1>5, <1>6 DEF Next, Stopped

(* Every variable keeps its type, and an act stays within its calls. *)
THEOREM TypeCorrect == Spec => []TypeOK
<1>1. TypeOK /\ LoopInv /\ [Next]_vars => TypeOK' /\ LoopInv'
    BY TypeStep
<1> QED
    BY <1>1, InitType, PTL DEF Spec

-----------------------------------------------------------------------------
(* The shape of a turn *)

(* The rollout is one that can be collected, and the turn in progress is   *)
(* open; between rounds no call of an act is pending.                      *)
TurnInv ==
    /\ Shaped(steps)
    /\ pc = "loop" => calls[Me] = <<>>
    /\ pc \in {"loop", "act"} => Open(steps, calls[Me], ctx[Me], turn)

LEMMA InitTurn == Init => TurnInv
BY Constants DEF Init, AgentInit, TurnInv, Shaped, Open

(* What the rollout is like with the steps of an act that has returned. *)
LEMMA ActShape ==
    ASSUME TypeOK, TurnInv, pc = "act", calls[Me] # <<>>
    PROVE  /\ Shaped(WithAct)
           /\ \A i \in 1..Len(WithAct) :
                /\ WithAct[i].turn < turn + 1
                /\ WithAct[i].turn = turn => WithAct[i].kind = "agent"
           /\ Len(WithAct) \in 1..Len(WithAct)
           /\ WithAct[Len(WithAct)].kind = "agent" /\ WithAct[Len(WithAct)].turn = turn
           /\ WithAct[Len(WithAct)].prompt = FinalCall(Me).prompt
<1> DEFINE c == calls[Me]
           b == conf.stopOnParseError
           x == ctx[Me]
           w == Act(steps, c, turn, b)
<1>1. /\ steps \in Seq(StepRecord) /\ c \in Seq(Call) /\ turn \in Nat /\ b \in BOOLEAN
      /\ Shaped(steps) /\ Open(steps, c, x, turn) /\ c # <<>>
    BY Typed DEF TurnInv
<1>2. WithAct = w /\ FinalCall(Me) = c[Len(c)]
    BY WithActIs DEF FinalCall, Last
<1> HIDE DEF c, b, x
<1>3. /\ Shaped(w)
      /\ \A i \in 1..Len(w) : w[i].turn < turn + 1 /\ (w[i].turn = turn => w[i].kind = "agent")
      /\ Len(w) \in 1..Len(w) /\ w[Len(w)].kind = "agent" /\ w[Len(w)].turn = turn
      /\ w[Len(w)].prompt = c[Len(c)].prompt
    BY <1>1, ActKeepsShape
<1> QED
    BY <1>2, <1>3

(* A turn that an external call interrupts goes on with what was said. *)
LEMMA ExternalKeepsOpen ==
    ASSUME TypeOK, TurnInv, Answered("external", "none")
    PROVE  Open(WithAct, <<>>, Append(ctx[Me], ToolResult), turn)
<1> DEFINE c == calls[Me]
           b == conf.stopOnParseError
           x == ctx[Me]
<1>1. /\ steps \in Seq(StepRecord) /\ c \in Seq(Call) /\ turn \in Nat /\ b \in BOOLEAN
      /\ x \in Seq(Message) /\ Shaped(steps) /\ Open(steps, c, x, turn)
    BY Typed DEF TurnInv, Answered
<1>2. WithAct = Act(steps, c, turn, b) /\ WithAct \in Seq(StepRecord)
    BY WithActIs
<1>3. c[Len(c)].target = "external"
    BY DEF Answered, FinalCall, Last
<1> HIDE DEF c, b, x
<1>4. \A k \in 1..Len(c) : c[k].target # "env"
    <2>1. \A k \in 1..Len(c) : k < Len(c) => c[k].target = "internal"
        BY <1>1 DEF Open
    <2>2. \A k \in 1..Len(c) : k < Len(c) \/ k = Len(c)
        BY <1>1
    <2> QED
        BY <1>3, <2>1, <2>2
<1>5. Open(WithAct, <<>>, x, turn)
    BY <1>1, <1>2, <1>4, ActIsOpen
<1> QED
    BY <1>1, <1>2, <1>5, Messages, OpenHears DEF x

LEMMA TurnStep ==
    ASSUME TypeOK, LoopInv, TurnInv, [Next]_vars
    PROVE  TurnInv'
<1> USE Constants
<1>0. WithAct \in Seq(StepRecord) /\ turn \in Nat
    BY WithActIs, Typed
<1>1. CASE BeginRound
    BY <1>1 DEF BeginRound, agentVars, TurnInv
<1>2. CASE Exhausted \/ NotActive \/ CallFails
    <2>1. pc' \in {"return", "raised"} /\ steps' = steps
        BY <1>2 DEF Exhausted, NotActive, LeaveLoop, CallFails
    <2> QED
        BY <2>1 DEF TurnInv
<1>3. ASSUME NEW target \in Targets, NEW parse \in Parses, CallModel(target, parse)
      PROVE  TurnInv'
    <2>1. /\ pc = "act" /\ pc' = "act" /\ steps' = steps /\ turn' = turn
          /\ ModelCall(Me, target, parse)
        BY <1>3 DEF CallModel, protocolVars
    <2>2. Open(steps, calls'[Me], ctx'[Me], turn)
        BY <2>1, Typed, CallKeepsOpen DEF TurnInv
    <2> QED
        BY <2>1, <2>2 DEF TurnInv
<1>4. CASE HandleExternal
    <2>1. /\ pc = "act" /\ calls[Me] # <<>> /\ Answered("external", "none")
          /\ steps' = WithAct /\ turn' = turn
        BY <1>4 DEF HandleExternal, Answered, Returned
    <2>2. Shaped(WithAct)
        BY <2>1, ActShape
    <2>3. CASE pc' = "raised"
        BY <2>1, <2>2, <2>3 DEF TurnInv
    <2>4. CASE pc' = pc /\ Hear([a \in {Me} |-> ToolResult], {Me})
        <3>1. ctx'[Me] = Append(ctx[Me], ToolResult) /\ calls'[Me] = <<>>
            BY <2>4, Messages, Told
        <3>2. Open(WithAct, <<>>, ctx'[Me], turn)
            BY <2>1, <3>1, ExternalKeepsOpen
        <3> QED
            BY <2>1, <2>2, <2>4, <3>1, <3>2 DEF TurnInv
    <2> QED
        BY <1>4, <2>3, <2>4 DEF HandleExternal
<1>5. CASE RejectAnswer
    <2>1. /\ pc = "act" /\ calls[Me] # <<>> /\ steps' = WithAct /\ turn' = turn + 1
          /\ pc' \in {"return", "loop"} /\ Observe(Feedback)
        BY <1>5 DEF RejectAnswer, Answered, Returned, FreshTurn
    <2>2. calls'[Me] = <<>>
        BY <2>1, ToldObservation DEF Feedback
    <2>3. Shaped(WithAct) /\ \A i \in 1..Len(WithAct) : WithAct[i].turn < turn + 1
        BY <2>1, ActShape
    <2>4. Open(WithAct, <<>>, ctx'[Me], turn + 1)
        BY <1>0, <2>3, FreshIsOpen
    <2> QED
        BY <2>1, <2>2, <2>3, <2>4 DEF TurnInv
<1>6. ASSUME NEW out \in Outcome, StepEnv(out) PROVE TurnInv'
    <2> DEFINE e == EnvStep(out)
               s == Append(WithAct, e)
    <2>1. pc = "act" /\ calls[Me] # <<>> /\ steps' = s
        BY <1>6 DEF StepEnv, Answered, Returned, EnvStep
    <2>2. e \in StepRecord /\ e.kind = "env" /\ e.turn = turn
        BY <2>1, EnvStepIs
    <2> HIDE DEF e
    <2>3. Shaped(s)
        BY <1>0, <2>1, <2>2, ActShape, EnvKeepsShape
    <2>4. \A i \in 1..Len(s) : s[i].turn < turn + 1
        <3>1. \A i \in 1..Len(WithAct) : WithAct[i].turn < turn + 1
            BY <2>1, ActShape
        <3> QED
            BY <1>0, <2>2, <3>1, AppendTurns
    <2>5. s \in Seq(StepRecord)
        BY <1>0, <2>2
    <2> HIDE DEF s
    <2>6. CASE pc' = "return"
        BY <2>1, <2>3, <2>6 DEF TurnInv
    <2>7. CASE pc' = "loop" /\ turn' = turn + 1 /\ Observe(envTime')
        <3>1. calls'[Me] = <<>>
            BY <2>7 DEF Observe, Hear
        <3>2. Open(s, <<>>, ctx'[Me], turn + 1)
            BY <1>0, <2>4, <2>5, FreshIsOpen
        <3> QED
            BY <2>1, <2>3, <2>7, <3>1, <3>2 DEF TurnInv
    <2> QED
        BY <1>6, <2>6, <2>7 DEF StepEnv, FreshTurn
<1>7. CASE ReturnRollout
    <2>1. pc' = "done" /\ (steps' = steps \/ steps' = Marked(steps))
        BY <1>7 DEF ReturnRollout, MarkedIfExhausted
    <2>2. Shaped(steps')
        BY <2>1, MarkKeepsShape DEF TurnInv, TypeOK
    <2> QED
        BY <2>1, <2>2 DEF TurnInv
<1>8. CASE UNCHANGED vars
    BY <1>8 DEF vars, agentVars, protocolVars, TurnInv
<1> QED
    BY <1>1, <1>2, <1>3, <1>4, <1>5, <1>6, <1>7, <1>8 DEF Next, Stopped

(* Every rollout of a finished episode becomes training samples, whatever  *)
(* the model answered and whenever the environment ended it.               *)
THEOREM RolloutCollectableAlways == Spec => []RolloutCollectable
<1>1. TypeOK /\ LoopInv /\ TurnInv /\ [Next]_vars => TurnInv'
    BY TurnStep
<1>2. TypeOK /\ LoopInv /\ [Next]_vars => TypeOK' /\ LoopInv'
    BY TypeStep
<1>3. TypeOK /\ TurnInv => RolloutCollectable
    BY ShapedIsCollectable DEF RolloutCollectable, TurnInv, TypeOK
<1> QED
    BY <1>1, <1>2, <1>3, InitTurn, InitType, PTL DEF Spec

-----------------------------------------------------------------------------
(* The end of an episode *)

EndInv ==
    /\ pc # "done" => Unmarked(steps)
    /\ pc \in {"loop", "act"} => exhausted /\ NoEnd(steps)
    /\ pc = "return" => IF exhausted THEN NoEnd(steps) ELSE LastEnds(steps)
    /\ EndsOnce

LEMMA InitEnd == Init => EndInv
BY DEF Init, EndInv, EndsOnce, NoEnd, Unmarked

LEMMA ActEnd ==
    ASSUME TypeOK, TurnInv, EndInv, pc = "act", calls[Me] # <<>>
    PROVE  LET ends == /\ FinalCall(Me).target = "env" /\ FinalCall(Me).parse = "error"
                       /\ conf.stopOnParseError
           IN  /\ exhausted /\ Unmarked(WithAct)
               /\ ends => LastEnds(WithAct)
               /\ ~ends => NoEnd(WithAct)
<1> DEFINE c == calls[Me]
           b == conf.stopOnParseError
           x == ctx[Me]
           w == Act(steps, c, turn, b)
<1>1. /\ steps \in Seq(StepRecord) /\ c \in Seq(Call) /\ turn \in Nat /\ b \in BOOLEAN
      /\ Open(steps, c, x, turn) /\ c # <<>>
      /\ exhausted /\ NoEnd(steps) /\ Unmarked(steps)
    BY Typed DEF TurnInv, EndInv
<1>2. WithAct = w /\ FinalCall(Me) = c[Len(c)]
    BY WithActIs DEF FinalCall, Last
<1> DEFINE ends == c[Len(c)].target = "env" /\ c[Len(c)].parse = "error" /\ b
<1>3. Unmarked(w) /\ (ends => LastEnds(w)) /\ (~ends => NoEnd(w))
    <2> HIDE DEF c, b, x
    <2> QED
        BY <1>1, ActEnds
<1> HIDE DEF w
<1> QED
    BY <1>1, <1>2, <1>3

LEMMA EndStepInv ==
    ASSUME TypeOK, LoopInv, TurnInv, EndInv, [Next]_vars
    PROVE  EndInv'
<1>1. CASE BeginRound \/ Exhausted \/ NotActive
    BY <1>1 DEF BeginRound, Exhausted, NotActive, LeaveLoop, agentVars, EndInv, EndsOnce
<1>2. CASE CallFails
    BY <1>2 DEF CallFails, EndInv, EndsOnce
<1>3. ASSUME NEW target \in Targets, NEW parse \in Parses, CallModel(target, parse)
      PROVE  EndInv'
    BY <1>3 DEF CallModel, protocolVars, EndInv, EndsOnce
<1>4. CASE HandleExternal
    <2>1. /\ pc = "act" /\ calls[Me] # <<>> /\ FinalCall(Me).target = "external"
          /\ steps' = WithAct /\ exhausted' = exhausted /\ pc' \in {"act", "raised"}
        BY <1>4 DEF HandleExternal, Answered, Returned
    <2>2. Unmarked(WithAct) /\ NoEnd(WithAct) /\ exhausted
        BY <2>1, ActEnd
    <2> QED
        BY <2>1, <2>2 DEF EndInv, EndsOnce
<1>5. CASE RejectAnswer
    <2>1. /\ pc = "act" /\ calls[Me] # <<>> /\ steps' = WithAct
          /\ FinalCall(Me).target = "env" /\ FinalCall(Me).parse = "error"
        BY <1>5 DEF RejectAnswer, Answered, Returned
    <2>2. CASE conf.stopOnParseError
        <3>1. pc' = "return" /\ ~exhausted'
            BY <1>5, <2>2 DEF RejectAnswer
        <3>2. Unmarked(WithAct) /\ LastEnds(WithAct)
            BY <2>1, <2>2, ActEnd
        <3> QED
            BY <2>1, <3>1, <3>2 DEF EndInv, EndsOnce
    <2>3. CASE ~conf.stopOnParseError
        <3>1. pc' = "loop" /\ exhausted' = exhausted
            BY <1>5, <2>3 DEF RejectAnswer
        <3>2. Unmarked(WithAct) /\ NoEnd(WithAct) /\ exhausted
            BY <2>1, <2>3, ActEnd
        <3> QED
            BY <2>1, <3>1, <3>2 DEF EndInv, EndsOnce
    <2> QED
        BY <2>2, <2>3
<1>6. ASSUME NEW out \in Outcome, StepEnv(out) PROVE EndInv'
    <2> DEFINE e == EnvStep(out)
               s == Append(WithAct, e)
    <2>1. /\ pc = "act" /\ calls[Me] # <<>> /\ steps' = s
          /\ FinalCall(Me).parse = "action"
        BY <1>6 DEF StepEnv, Answered, Returned, EnvStep
    <2>2. e \in StepRecord /\ e.kind = "env" /\ e.why = "none" /\ (Ends(e) <=> Ends(out))
        BY <2>1, EnvStepIs
    <2>3. Unmarked(WithAct) /\ NoEnd(WithAct) /\ exhausted /\ WithAct \in Seq(StepRecord)
        BY <2>1, ActEnd, WithActIs
    <2> HIDE DEF e
    <2>4. Unmarked(s) /\ (Ends(out) => LastEnds(s)) /\ (~Ends(out) => NoEnd(s))
        BY <2>2, <2>3, EnvEnds
    <2> HIDE DEF s
    <2>5. CASE Ends(out)
        <3>1. pc' = "return" /\ ~exhausted'
            BY <1>6, <2>5 DEF StepEnv
        <3> QED
            BY <2>1, <2>4, <2>5, <3>1 DEF EndInv, EndsOnce
    <2>6. CASE ~Ends(out)
        <3>1. pc' = "loop" /\ exhausted' = exhausted
            BY <1>6, <2>6 DEF StepEnv
        <3> QED
            BY <2>1, <2>3, <2>4, <2>6, <3>1 DEF EndInv, EndsOnce
    <2> QED
        BY <2>5, <2>6
<1>7. CASE ReturnRollout
    <2>1. pc = "return" /\ pc' = "done" /\ steps \in Seq(StepRecord)
            /\ steps' = IF exhausted THEN Marked(steps) ELSE steps
        BY <1>7 DEF ReturnRollout, MarkedIfExhausted, TypeOK
    <2>2. Unmarked(steps) /\ IF exhausted THEN NoEnd(steps) ELSE LastEnds(steps)
        BY <2>1 DEF EndInv
    <2>3. CASE exhausted /\ steps = <<>>
        BY <2>1, <2>3 DEF Marked, EndInv, EndsOnce
    <2>4. CASE exhausted /\ steps # <<>>
        BY <2>1, <2>2, <2>4, MarkEndsOnce DEF EndInv, EndsOnce
    <2>5. CASE ~exhausted
        BY <2>1, <2>2, <2>5, LastEndsOnce DEF EndInv, EndsOnce
    <2> QED
        BY <2>3, <2>4, <2>5
<1>8. CASE UNCHANGED vars
    BY <1>8 DEF vars, agentVars, protocolVars, EndInv, EndsOnce
<1> QED
    BY <1>1, <1>2, <1>3, <1>4, <1>5, <1>6, <1>7, <1>8 DEF Next, Stopped

(* An episode ends once, and its metadata says why, however it came about. *)
THEOREM EndsOnceAlways == Spec => []EndsOnce
<1>1. TypeOK /\ LoopInv /\ TurnInv /\ EndInv /\ [Next]_vars => TurnInv' /\ EndInv'
    BY TurnStep, EndStepInv
<1>2. TypeOK /\ LoopInv /\ [Next]_vars => TypeOK' /\ LoopInv'
    BY TypeStep
<1>3. EndInv => EndsOnce
    BY DEF EndInv
<1> QED
    BY <1>1, <1>2, <1>3, InitTurn, InitEnd, InitType, PTL DEF Spec

-----------------------------------------------------------------------------
(* What the agent saw *)

SawInv ==
    /\ Sourced(steps)
    /\ pc \in {"loop", "act"} => Said(calls[Me], ctx[Me], obs)

LEMMA InitSaw == Init => SawInv
<1> SUFFICES ASSUME Init PROVE SawInv
    OBVIOUS
<1>1. /\ ctx[Me] = <<User(FirstObs)>> /\ calls[Me] = <<>> /\ obs = FirstObs
      /\ steps = <<>>
    BY Constants DEF Init, AgentInit
<1>2. SaidLast(<<User(FirstObs)>>, FirstObs)
    BY DEF SaidLast
<1> QED
    BY <1>1, <1>2 DEF SawInv, Sourced, Said

LEMMA ActSources ==
    ASSUME TypeOK, Sourced(steps)
    PROVE  Sourced(WithAct)
BY Typed, WithActIs, ActKeepsSources

(* What the final call of an act was asked ends with the observation. *)
LEMMA FinalSaid ==
    ASSUME TypeOK, SawInv, pc = "act", calls[Me] # <<>>
    PROVE  SaidLast(FinalCall(Me).prompt, obs)
<1> DEFINE c == calls[Me]
<1>1. c \in Seq(Call) /\ c # <<>> /\ FinalCall(Me) = c[Len(c)]
    BY Typed DEF FinalCall, Last
<1>2. \A k \in 1..Len(c) : SaidLast(c[k].prompt, obs)
    BY DEF SawInv, Said
<1> HIDE DEF c
<1>3. Len(c) \in 1..Len(c)
    BY <1>1
<1> QED
    BY <1>1, <1>2, <1>3

LEMMA SawStep ==
    ASSUME TypeOK, LoopInv, TurnInv, SawInv, [Next]_vars
    PROVE  SawInv'
<1> USE Constants
<1>0. ctx[Me] \in Seq(Message) /\ obs \in Int /\ steps \in Seq(StepRecord)
    BY Typed
<1>1. CASE BeginRound
    BY <1>1 DEF BeginRound, agentVars, SawInv
<1>2. CASE Exhausted \/ NotActive \/ CallFails
    <2>1. pc' \in {"return", "raised"} /\ steps' = steps
        BY <1>2 DEF Exhausted, NotActive, LeaveLoop, CallFails
    <2> QED
        BY <2>1 DEF SawInv
<1>3. ASSUME NEW target \in Targets, NEW parse \in Parses, CallModel(target, parse)
      PROVE  SawInv'
    <2>1. /\ pc = "act" /\ pc' = "act" /\ steps' = steps /\ obs' = obs
          /\ ModelCall(Me, target, parse)
        BY <1>3 DEF CallModel, protocolVars
    <2>2. Said(calls'[Me], ctx'[Me], obs)
        BY <2>1, Typed, CallKeepsSaid DEF SawInv
    <2> QED
        BY <2>1, <2>2 DEF SawInv
<1>4. Sourced(WithAct)
    BY ActSources DEF SawInv
<1>5. CASE HandleExternal
    <2>1. pc = "act" /\ steps' = WithAct /\ obs' = obs
        BY <1>5 DEF HandleExternal, Answered
    <2>2. CASE pc' = "raised"
        BY <1>4, <2>1, <2>2 DEF SawInv
    <2>3. CASE pc' = pc /\ Hear([a \in {Me} |-> ToolResult], {Me})
        <3>1. ctx'[Me] = Append(ctx[Me], ToolResult) /\ calls'[Me] = <<>>
            BY <2>3, Messages, Told
        <3>2. SaidLast(Append(ctx[Me], ToolResult), obs)
            BY <1>0, <2>1, Messages, OtherMessages, SaidLastAppend DEF SawInv, Said
        <3> QED
            BY <1>4, <2>1, <2>3, <3>1, <3>2 DEF SawInv, Said
    <2> QED
        BY <1>5, <2>2, <2>3 DEF HandleExternal
<1>6. CASE RejectAnswer
    <2>1. steps' = WithAct /\ pc' \in {"return", "loop"} /\ Observe(Feedback)
        BY <1>6 DEF RejectAnswer
    <2>2. /\ obs' = Feedback /\ ctx'[Me] = Append(ctx[Me], User(Feedback))
          /\ calls'[Me] = <<>>
        BY <2>1, ToldObservation DEF Feedback
    <2>3. SaidLast(ctx'[Me], obs')
        BY <1>0, <2>2, SaidLastNow DEF Feedback
    <2> QED
        BY <1>4, <2>1, <2>2, <2>3 DEF SawInv, Said
<1>7. ASSUME NEW out \in Outcome, StepEnv(out) PROVE SawInv'
    <2> DEFINE e == EnvStep(out)
               s == Append(WithAct, e)
    <2>1. /\ pc = "act" /\ calls[Me] # <<>> /\ steps' = s /\ envTime' \in Int
        BY <1>7 DEF StepEnv, Answered, Returned, TypeOK, EnvStep
    <2>2. /\ e \in StepRecord /\ e.turn = turn
          /\ e.source = Len(WithAct) /\ e.seen = obs
        BY <2>1, EnvStepIs
    <2> HIDE DEF e
    <2>3. Sourced(s)
        <3>1. /\ Len(WithAct) \in 1..Len(WithAct)
              /\ WithAct[Len(WithAct)].kind = "agent" /\ WithAct[Len(WithAct)].turn = turn
              /\ WithAct[Len(WithAct)].prompt = FinalCall(Me).prompt
            BY <2>1, ActShape
        <3>2. SaidLast(FinalCall(Me).prompt, obs) /\ WithAct \in Seq(StepRecord)
            BY <2>1, FinalSaid, WithActIs
        <3> QED
            BY <1>4, <2>2, <3>1, <3>2, EnvKeepsSources
    <2> HIDE DEF s
    <2>4. CASE pc' = "return"
        BY <2>1, <2>3, <2>4 DEF SawInv
    <2>5. CASE pc' = "loop" /\ Observe(envTime')
        <3>1. /\ obs' = envTime' /\ ctx'[Me] = Append(ctx[Me], User(envTime'))
              /\ calls'[Me] = <<>>
            BY <2>5 DEF Observe, Hear
        <3>2. \A o \in Int : SaidLast(Append(ctx[Me], User(o)), o)
            BY <1>0, SaidLastNow
        <3>3. SaidLast(ctx'[Me], obs')
            BY <2>1, <3>1, <3>2
        <3> QED
            BY <2>1, <2>3, <2>5, <3>1, <3>3 DEF SawInv, Said
    <2> QED
        BY <1>7, <2>4, <2>5 DEF StepEnv
<1>8. CASE ReturnRollout
    <2>1. pc' = "done" /\ (steps' = steps \/ steps' = Marked(steps))
        BY <1>8 DEF ReturnRollout, MarkedIfExhausted
    <2>2. Sourced(steps')
        BY <1>0, <2>1, MarkKeepsSources DEF SawInv
    <2> QED
        BY <2>1, <2>2 DEF SawInv
<1>9. CASE UNCHANGED vars
    BY <1>9 DEF vars, agentVars, protocolVars, SawInv
<1> QED
    BY <1>1, <1>2, <1>3, <1>5, <1>6, <1>7, <1>8, <1>9 DEF Next, Stopped

(* What an environment step says was seen is what the agent was shown last *)
(* before the answer the environment was given.                            *)
THEOREM SawWhatItActedOnAlways == Spec => []SawWhatItActedOn
<1>1. TypeOK /\ LoopInv /\ TurnInv /\ SawInv /\ [Next]_vars => TurnInv' /\ SawInv'
    BY TurnStep, SawStep
<1>2. TypeOK /\ LoopInv /\ [Next]_vars => TypeOK' /\ LoopInv'
    BY TypeStep
<1>3. TypeOK /\ SawInv => SawWhatItActedOn
    BY SourcedSaw DEF SawWhatItActedOn, SawInv, TypeOK
<1> QED
    BY <1>1, <1>2, <1>3, InitTurn, InitSaw, InitType, PTL DEF Spec
-----------------------------------------------------------------------------
(* What the answers earned *)

(* The rollout is worth what was earned so far, its turns are settled, and *)
(* nothing of the turn in progress has been paid.                          *)
PayInv ==
    /\ Settled(steps) /\ TotalReward(steps) = earned
    /\ pc \in {"loop", "act"} => Owing(steps, turn)

LEMMA InitPay == Init => PayInv
BY NothingPaid DEF Init, PayInv

LEMMA ActPay ==
    ASSUME TypeOK, LoopInv, TurnInv, PayInv, pc = "act", Returned(Me)
    PROVE  LET bad == FinalCall(Me).target = "env" /\ FinalCall(Me).parse = "error"
           IN  /\ Settled(WithAct)
               /\ TotalReward(WithAct) = earned + (IF bad THEN ParserReward("error") ELSE 0)
               /\ ~bad => Owing(WithAct, turn)
<1> DEFINE c == calls[Me]
           b == conf.stopOnParseError
           x == ctx[Me]
           w == Act(steps, c, turn, b)
           bad == c[Len(c)].target = "env" /\ c[Len(c)].parse = "error"
<1>1. /\ steps \in Seq(StepRecord) /\ c \in Seq(Call) /\ turn \in Nat /\ b \in BOOLEAN
      /\ Open(steps, c, x, turn) /\ c # <<>>
      /\ Settled(steps) /\ Owing(steps, turn) /\ TotalReward(steps) = earned
    BY Typed DEF TurnInv, PayInv, Returned
<1>2. Replies(c)
    BY Constants DEF LoopInv
<1>3. WithAct = w /\ FinalCall(Me) = c[Len(c)] /\ c[Len(c)].target # "internal"
    BY WithActIs DEF FinalCall, Last, Returned
<1> HIDE DEF c, b, x
<1>4. /\ Settled(w)
      /\ TotalReward(w) = TotalReward(steps) + (IF bad THEN ParserReward("error") ELSE 0)
      /\ ~bad => Owing(w, turn)
    BY <1>1, <1>2, <1>3, ActPays
<1> HIDE DEF w
<1> QED
    BY <1>1, <1>3, <1>4

LEMMA PayStep ==
    ASSUME TypeOK, LoopInv, TurnInv, PayInv, [Next]_vars
    PROVE  PayInv'
<1> USE Constants
<1>0. WithAct \in Seq(StepRecord) /\ turn \in Nat /\ steps \in Seq(StepRecord)
    BY WithActIs, Typed
<1>1. CASE BeginRound
    BY <1>1 DEF BeginRound, PayInv
<1>2. CASE Exhausted \/ NotActive \/ CallFails
    BY <1>2 DEF Exhausted, NotActive, LeaveLoop, CallFails, PayInv
<1>3. ASSUME NEW target \in Targets, NEW parse \in Parses, CallModel(target, parse)
      PROVE  PayInv'
    BY <1>3 DEF CallModel, protocolVars, PayInv
<1>4. CASE HandleExternal
    <2>1. /\ pc = "act" /\ Returned(Me) /\ FinalCall(Me).target = "external"
          /\ steps' = WithAct /\ turn' = turn /\ earned' = earned
        BY <1>4 DEF HandleExternal, Answered
    <2>2. Settled(WithAct) /\ TotalReward(WithAct) = earned + 0 /\ Owing(WithAct, turn)
        BY <2>1, ActPay
    <2> QED
        BY <2>1, <2>2 DEF PayInv, TypeOK
<1>5. CASE RejectAnswer
    <2>1. /\ pc = "act" /\ Returned(Me)
          /\ FinalCall(Me).target = "env" /\ FinalCall(Me).parse = "error"
          /\ steps' = WithAct /\ turn' = turn + 1 /\ earned' = earned + ParserReward("error")
        BY <1>5 DEF RejectAnswer, Answered, FreshTurn
    <2>2. Settled(WithAct) /\ TotalReward(WithAct) = earned + ParserReward("error")
        BY <2>1, ActPay
    <2>3. Owing(WithAct, turn + 1)
        BY <1>0, <2>1, ActShape, FreshOwes DEF Returned
    <2> QED
        BY <2>1, <2>2, <2>3 DEF PayInv
<1>6. ASSUME NEW out \in Outcome, StepEnv(out) PROVE PayInv'
    <2> DEFINE e == EnvStep(out)
               s == Append(WithAct, e)
    <2>1. /\ pc = "act" /\ Returned(Me) /\ steps' = s
          /\ FinalCall(Me).target = "env" /\ FinalCall(Me).parse = "action"
          /\ earned' = earned + EnvReward + ParserReward("action")
        BY <1>6 DEF StepEnv, Answered, EnvStep
    <2>2. e \in StepRecord /\ e.kind = "env" /\ e.turn = turn
        BY <2>1, EnvStepIs DEF Returned
    <2>3. e.reward = EnvReward + ParserReward("action")
        BY <2>1 DEF EnvStep, EnvironmentStep, EnvParserReward, MovesToEnv
    <2> HIDE DEF e
    <2>4. Settled(WithAct) /\ TotalReward(WithAct) = earned + 0 /\ Owing(WithAct, turn)
        BY <2>1, ActPay
    <2>5. Len(WithAct) \in 1..Len(WithAct) /\ WithAct[Len(WithAct)].turn = turn
        BY <2>1, ActShape DEF Returned
    <2>6. Settled(s) /\ TotalReward(s) = TotalReward(WithAct) + e.reward
        BY <1>0, <2>2, <2>4, <2>5, EnvPays
    <2>7. \A i \in 1..Len(s) : s[i].turn < turn + 1
        <3>1. \A i \in 1..Len(WithAct) : WithAct[i].turn < turn + 1
            BY <2>1, ActShape DEF Returned
        <3> QED
            BY <1>0, <2>2, <3>1, AppendTurns
    <2>8. s \in Seq(StepRecord)
        BY <1>0, <2>2
    <2> HIDE DEF s
    <2>9. Owing(s, turn + 1)
        BY <1>0, <2>7, <2>8, FreshOwes
    <2>10. TotalReward(s) = earned'
        BY <2>1, <2>3, <2>4, <2>6 DEF TypeOK, EnvReward, ParserReward
    <2>11. pc' = "return" \/ turn' = turn + 1
        BY <1>6 DEF StepEnv, FreshTurn
    <2> QED
        BY <1>6, <2>1, <2>6, <2>9, <2>10, <2>11 DEF PayInv
<1>7. CASE ReturnRollout
    <2>1. /\ pc' = "done" /\ earned' = earned
          /\ steps' = steps \/ steps' = Marked(steps)
        BY <1>7 DEF ReturnRollout, MarkedIfExhausted
    <2>2. Settled(steps') /\ TotalReward(steps') = earned
        BY <1>0, <2>1, MarkKeepsPay DEF PayInv
    <2> QED
        BY <2>1, <2>2 DEF PayInv
<1>8. CASE UNCHANGED vars
    BY <1>8 DEF vars, protocolVars, PayInv
<1> QED
    BY <1>1, <1>2, <1>3, <1>4, <1>5, <1>6, <1>7, <1>8 DEF Next, Stopped

(* What the environment and the parser gave is in the samples of the       *)
(* rollout and in its total once, whatever the model answered and however  *)
(* many calls a turn took.                                                 *)
THEOREM RewardCountedOnceAlways == Spec => []RewardCountedOnce
<1>1. TypeOK /\ LoopInv /\ TurnInv /\ PayInv /\ [Next]_vars => TurnInv' /\ PayInv'
    BY TurnStep, PayStep
<1>2. TypeOK /\ LoopInv /\ [Next]_vars => TypeOK' /\ LoopInv'
    BY TypeStep
<1>3. TypeOK /\ PayInv => RewardCountedOnce
    BY Typed, SettledSamples DEF RewardCountedOnce, PayInv
<1> QED
    BY <1>1, <1>2, <1>3, InitTurn, InitPay, InitType, PTL DEF Spec
=============================================================================
