------------------------------- MODULE MCPartTx -------------------------------
(* A small instance of PartTx. *)
EXTENDS PartTx, TLC

Symmetry == Permutations(Conns) \union Permutations(PartIds)
            \union Permutations(ProposalIds) \union Permutations(Names)
=============================================================================
