----------------------------- MODULE AgentLoop -----------------------------
(***************************************************************************)
(* ReActAgent on a FullDialog context: one act() is a loop of at most      *)
(* MaxReact model calls.  A call that uses tools of the agent goes round   *)
(* again; one that uses an external tool, or answers, returns.  The last   *)
(* call is asked for the answer: tool calls in its text count for nothing. *)
(* With MaxReact = 1 the loop has the shape of the plain Agent.            *)
(***************************************************************************)
EXTENDS Rollout

CONSTANTS
    Agents,
    MaxReact   \* ReActAgent.max_react_steps

ASSUME AgentLoopAssumption == MaxReact \in Nat \ {0}

VARIABLES
    ctx,    \* ContextStrategy._messages of each agent
    calls   \* the AgentActSteps of each agent's act() so far

agentVars == <<ctx, calls>>

FirstObs == 0   \* of env.reset

AgentInit ==
    /\ ctx = [a \in Agents |-> <<User(FirstObs)>>]
    /\ calls = [a \in Agents |-> <<>>]

NeverFinal(a) == Len(calls[a]) = MaxReact  \* mutant: off by one
FinalTry(a) == Len(calls[a]) = MaxReact - 1

FinalCall(a) == Last(calls[a])

(* act() has returned: its last call left the loop. *)
Returned(a) == calls[a] # <<>> /\ FinalCall(a).target # "internal"

Prompt(a) == IF FinalTry(a) THEN Append(ctx[a], FinalInstruction) ELSE ctx[a]

(* One model call whose reply goes to target, and parses or does not.  The *)
(* reply is remembered, and so are the results of the agent's own tools;   *)
(* the final instruction is not.                                           *)
ModelCall(a, target, parse) ==
    /\ ~Returned(a)
    /\ FinalTry(a) => target = "env"
    /\ calls' = [calls EXCEPT ![a] = Append(@,
         [target |-> target, prompt |-> Prompt(a),
          parse |-> IF target = "external" THEN "none" ELSE parse])]
    /\ ctx' = [ctx EXCEPT ![a] =
         @ \o <<Assistant(IF target = "external" THEN "none" ELSE parse)>>
           \o IF target = "internal" THEN <<ToolResult>> ELSE <<>>]

(* The messages heard by each agent of heard are appended to its context,  *)
(* and the acts of the agents in again are over.                           *)
Hear(heard, again) ==
    /\ ctx' = [a \in Agents |->
                 IF a \in DOMAIN heard THEN Append(ctx[a], heard[a]) ELSE ctx[a]]
    /\ calls' = [a \in Agents |-> IF a \in again THEN <<>> ELSE calls[a]]

Message == ({"user"} \X Int) \cup ({"assistant"} \X (Parses \cup {"none"}))
           \cup {ToolResult, FinalInstruction}
Call == [target : Targets, prompt : Seq(Message), parse : Parses \cup {"none"}]
StepRecord ==
    [kind : {"agent", "env"}, turn : Nat, target : Targets,
     parse : Parses \cup {"none"}, prompt : Seq(Message), seen : Int,
     source : Nat, reward : Int, term : BOOLEAN, trunc : BOOLEAN,
     why : {"none", "max_steps"}]

AgentTypeOK ==
    /\ ctx \in [Agents -> Seq(Message)]
    /\ calls \in [Agents -> Seq(Call)]
    /\ \A a \in Agents : Len(calls[a]) <= MaxReact
=============================================================================
