---------------------------- MODULE MCNetChannel ----------------------------
(* Instances of NetChannel for TLC. *)
EXTENDS NetChannel
=============================================================================
