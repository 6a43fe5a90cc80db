---------------------------- MODULE MCWeightSync ----------------------------
(* Two tensor-parallel workers, two tensors, three publishes. *)
EXTENDS WeightSync

CONSTANTS w1, w2

MCWorkers == {w1, w2}
=============================================================================
