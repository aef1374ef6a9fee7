--------------------------- MODULE MCTurnStream ---------------------------
(* Instances of TurnStream for TLC: the windows and the bounds are given in the .cfg files. *)
EXTENDS TurnStream
=============================================================================
