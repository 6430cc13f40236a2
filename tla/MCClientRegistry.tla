--------------------------- MODULE MCClientRegistry ---------------------------
(* An instance of ClientRegistry for TLC. *)
EXTENDS ClientRegistry, TLC

CONSTANTS p1, p2

Symmetry == Permutations(Posts)
=============================================================================
