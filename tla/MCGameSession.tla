--------------------------- MODULE MCGameSession ---------------------------
(* Instances of GameSession for TLC. *)
EXTENDS GameSession

CONSTANTS p1, p2

(* A run ends where the bound on missions leaves the server nothing to choose. *)
MissionsLast == state # Create \/ mission < MaxMissions
=============================================================================
