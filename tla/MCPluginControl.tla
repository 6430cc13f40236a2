-------------------------- MODULE MCPluginControl --------------------------
(* A narrow and a wide settings policy. *)
EXTENDS PluginControl
MCScopes == 0..1
=============================================================================
