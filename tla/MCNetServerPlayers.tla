------------------------- MODULE MCNetServerPlayers -------------------------
(* Instances of NetServerPlayers for TLC. *)
EXTENDS NetServerPlayers, TLC

CONSTANTS a1, a2, a3

Request(a, uid, fit, bot) == [addr |-> a, uid |-> uid, fit |-> fit, bot |-> bot]

(* The server's own client, a player whose proposed number is taken, a third
   one, and one with the wrong password from an address in use.              *)
Crowd == {Request(a1, 1, TRUE, TRUE), Request(a2, 1, TRUE, FALSE),
          Request(a3, 2, TRUE, FALSE), Request(a1, 4, FALSE, FALSE)}

Symmetric == Permutations(Channels)
=============================================================================
