------------------------- MODULE MCServerDirectory -------------------------
(* Instances of ServerDirectory for TLC. *)
EXTENDS ServerDirectory

CONSTANTS s1, c1, c2
=============================================================================
