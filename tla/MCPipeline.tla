----------------------------- MODULE MCPipeline -----------------------------
(* Two actors that race each other and the trainer. *)
EXTENDS Pipeline

CONSTANTS a1, a2

MCActors == {a1, a2}
=============================================================================
