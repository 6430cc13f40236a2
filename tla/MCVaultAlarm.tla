----------------------------- MODULE MCVaultAlarm -----------------------------
(* An instance of VaultAlarm for TLC. *)
EXTENDS VaultAlarm
=============================================================================
