---------------------------- MODULE MCPackedExport ----------------------------
(* An instance of PackedExport for TLC: a text of one unit and a blob of two. *)
EXTENDS PackedExport

CONSTANTS txt, bin

MCSize == [c \in Contents |-> IF c = bin THEN 2 ELSE 1]
=============================================================================
