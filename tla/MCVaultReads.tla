----------------------------- MODULE MCVaultReads -----------------------------
(* An instance of VaultReads, over VaultHistory, for TLC. *)
EXTENDS VaultReads

CONSTANTS pa, pA, pb

\* pa and pA differ only in case.
MCPathKey == [p \in Paths |-> IF p = pA THEN pa ELSE p]
MCPathOrder == [p \in Paths |-> CASE p = pA -> 1 [] p = pa -> 2 [] p = pb -> 3]
Nobody == [g \in {} |-> g]
\* One revision is held by an export.
MCPins == {[path |-> pa, rev |-> 1]}
=============================================================================
