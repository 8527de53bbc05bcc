----------------------------- MODULE MCTokenInit -----------------------------
(* Instances for TLC: the pods are replicas of one deployment. *)
EXTENDS TokenInit, TLC
=============================================================================
