-------------------------- MODULE MCRolloutEngine --------------------------
(* Two groups of two episodes a call, two at a time; a second call beside    *)
(* what a failed first one has left running.                                 *)
EXTENDS RolloutEngine

(* Steps of an agent and of the environment. *)
Agent(r, final, marks, trace) ==
    [reward |-> r, finite |-> TRUE, final |-> final, kind |-> "agent",
     marks |-> marks, trace |-> trace]
Env(r, final, marks) ==
    [reward |-> r, finite |-> TRUE, final |-> final, kind |-> "env",
     marks |-> marks, trace |-> "tokens"]

(* A turn that fails to parse; a turn that pays followed by one cut off. *)
Unparsed(trace) == <<Agent(0, TRUE, {"parse_error"}, trace)>>
TwoTurns(trace) == <<Agent(1, FALSE, {}, trace), Env(1, TRUE, {}),
                     Agent(0, FALSE, {}, trace), Env(0, TRUE, {"truncated"})>>

(* What collation refuses: log-probs in one half of a turn, a reward that is *)
(* no number, one that spoils the return of the turn before it, two outcomes *)
(* in a turn, or a turn without an agent.                                    *)
Mixed == <<Agent(0, FALSE, {}, "tokens"), Agent(0, FALSE, {}, "logprobs"), Env(1, TRUE, {})>>
NotANumber == <<Agent(0, FALSE, {}, "tokens"), [Env(0, TRUE, {}) EXCEPT !.finite = FALSE]>>
Spoilt == <<Agent(0, TRUE, {"parse_error"}, "tokens"),
            [Agent(0, FALSE, {}, "tokens") EXCEPT !.finite = FALSE], Env(1, TRUE, {})>>
TwoOutcomes == <<Agent(0, FALSE, {}, "tokens"), Env(0, FALSE, {}), Env(1, TRUE, {})>>
NoAgent == <<Env(1, TRUE, {})>>

MCConfs ==
    LET C(s, o, a, n, f, l, sh) ==
          [source |-> s, onEmpty |-> o, assigner |-> a, agents |-> n, filters |-> f,
           logprobs |-> l, shapes |-> sh]
    IN  {C("queue", "raise", "hybrid", 1, {}, TRUE,
           {Unparsed("logprobs"), TwoTurns("logprobs"), Unparsed("tokens")}),
         C("shuffled", "raise", "group", 1, {"drop_truncated", "drop_incomplete_completions"},
           FALSE, {Unparsed("tokens"), TwoTurns("tokens"), NotANumber}),
         C("sequence", "raise", "perstep", 1, {"keep_agent_steps"},
           FALSE, {Mixed, TwoOutcomes, NoAgent, Unparsed("unusable")}),
         C("queue", "return_empty", "hybrid_positive", 2, {"drop_parse_errors"},
           FALSE, {Unparsed("tokens"), TwoTurns("logprobs")}),
         C("sequence", "raise", "montecarlo", 2, {"keep_env_steps"},
           FALSE, {TwoTurns("tokens"), Spoilt})}
=============================================================================
