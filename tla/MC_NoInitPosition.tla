------------------------- MODULE MC_NoInitPosition -------------------------
(* Model-checking instance of NoInitPosition: an interrupt may step any    *)
(* combination of the axes in any direction.                               *)
EXTENDS NoInitPosition

AllMoves == [Axes -> {-1, 0, 1}]
=============================================================================
