--------------------------- MODULE MCBlobCollection ---------------------------
(* An instance of BlobCollection for TLC. *)
EXTENDS BlobCollection

CONSTANTS h1, h2, h3

MCHashOrder == [h \in Hashes |-> CASE h = h1 -> 1 [] h = h2 -> 2 [] h = h3 -> 3]
=============================================================================
