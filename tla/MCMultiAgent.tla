---------------------------- MODULE MCMultiAgent ----------------------------
(* Two managed agents, which are alike, and one role nobody manages. *)
EXTENDS MultiAgent

Alike == Permutations(Agents)
=============================================================================
