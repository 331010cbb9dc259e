-------------------------- MODULE MCDeviceTracking --------------------------
(***************************************************************************)
(* Instances of DeviceTracking for model checking.                         *)
(***************************************************************************)
EXTENDS DeviceTracking, TLC

Interchangeable ==
  Permutations(Devices) \cup Permutations(Entities) \cup Permutations(UniqueIds)
=============================================================================
