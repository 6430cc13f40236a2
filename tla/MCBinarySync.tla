----------------------------- MODULE MCBinarySync -----------------------------
(* Instances of BinarySync for TLC. *)
EXTENDS BinarySync, TLC

\* What a file holds is only compared.
Symmetry == Permutations(Bytes)
=============================================================================
