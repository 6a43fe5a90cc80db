---------------------------- MODULE MCCheckpoint ----------------------------
(* Four processes one after another; two checkpoints kept, the default. *)
EXTENDS Checkpoint
=============================================================================
