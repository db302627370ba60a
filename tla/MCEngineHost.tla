---------------------------- MODULE MCEngineHost ----------------------------
(* Instances of EngineHost for TLC. *)
EXTENDS EngineHost, TLC
=============================================================================
