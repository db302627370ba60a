---------------------------- MODULE MCStatusMonitor ----------------------------
(* Instances of StatusMonitor for TLC. *)
EXTENDS StatusMonitor, TLC
=============================================================================
