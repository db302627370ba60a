----------------------------- MODULE MCSequencer -----------------------------
(* Instances of Sequencer for TLC. *)
EXTENDS Sequencer, TLC

ItemSymmetry == Permutations(Items)
=============================================================================
