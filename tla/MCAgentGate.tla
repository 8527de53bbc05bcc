------------------------------ MODULE MCAgentGate ------------------------------
(* A small instance of AgentGate. *)
EXTENDS AgentGate, TLC

Symmetry == Permutations(Conns) \union Permutations(RowIds) \union Permutations(Bots)
=============================================================================
