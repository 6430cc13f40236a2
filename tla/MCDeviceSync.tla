---------------------------- MODULE MCDeviceSync ----------------------------
(* Instances of DeviceSync for TLC. *)
EXTENDS DeviceSync, TLC

\* The texts are interchangeable, and so are the keys.
Symmetry == Permutations(Texts)
=============================================================================
