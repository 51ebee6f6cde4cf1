------------------------------- MODULE MCDHash -------------------------------
(* Five keys: four of them on one path in a table of four, in pairs in a    *)
(* table of eight.                                                          *)
EXTENDS DHash, TLC

CONSTANTS k1, k2, k3, k4, k5

FiveKeys == {k1, k2, k3, k4, k5}
HashOfFive == (k1 :> 2) @@ (k2 :> 4) @@ (k3 :> 8) @@ (k4 :> 12) @@ (k5 :> 62)
=============================================================================
