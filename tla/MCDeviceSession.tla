-------------------------- MODULE MCDeviceSession --------------------------
(* Two clients, three tokens each, two callers. *)
EXTENDS DeviceSession, TLC
CONSTANTS k1, k2
MCCallers == {k1, k2}
MCClients == 1..2
Symmetry == Permutations(MCCallers)
=============================================================================
