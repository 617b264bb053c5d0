-------------------------- MODULE MCDeviceDirectory --------------------------
(* DeviceDirectory for TLC: peers are interchangeable. *)
EXTENDS DeviceDirectory, TLC

Symmetry == Permutations(Peers)
=============================================================================
