-------------------------- MODULE MCTransportLocks --------------------------
(* Instances of TransportLocks for TLC. *)
EXTENDS TransportLocks

CONSTANTS p1, p2
=============================================================================
