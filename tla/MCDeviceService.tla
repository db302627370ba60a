---------------------------- MODULE MCDeviceService ----------------------------
(* Instances of DeviceService and ItemResolution for TLC. *)
EXTENDS ItemResolution, TLC

NameSymmetry == Permutations(Names)
=============================================================================
