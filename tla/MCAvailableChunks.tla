-------------------------- MODULE MCAvailableChunks --------------------------
(* Three chunks of two arenas.                                              *)
EXTENDS AvailableChunks

CONSTANTS c1, c2, c3, a1, a2

ThreeChunks == {c1, c2, c3}
TwoArenas == {a1, a2}
=============================================================================
