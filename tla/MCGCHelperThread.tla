-------------------------- MODULE MCGCHelperThread --------------------------
(* The helper thread with two kinds and two chunks.                         *)
EXTENDS GCHelperThread
=============================================================================
