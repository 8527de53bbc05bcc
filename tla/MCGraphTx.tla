------------------------------- MODULE MCGraphTx -------------------------------
(* A small instance of GraphTx. *)
EXTENDS GraphTx, TLC
=============================================================================
