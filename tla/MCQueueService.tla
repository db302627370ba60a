--------------------------- MODULE MCQueueService ---------------------------
(* Instances of QueueService for TLC. *)
EXTENDS QueueService, TLC

ItemSymmetry == Permutations(Items)
=============================================================================
