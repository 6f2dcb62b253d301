----------------------------- MODULE MCRecovery -----------------------------
(* Recovery with two compute nodes and one storage node. *)
EXTENDS Recovery
=============================================================================
