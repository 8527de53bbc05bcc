---------------------------- MODULE MCMigrations ----------------------------
(* Instances for TLC: parts, contracts and names are interchangeable; the    *)
(* database holds two contracts, or proposals in place of some of them.      *)
EXTENDS Migrations

RowsOf(t) == IF t \in DOMAIN rows THEN Cardinality(DOMAIN rows[t]) ELSE 0

WithinBounds ==
  RowsOf("contracts") + RowsOf("part_subtype_proposals")
    + RowsOf("contract_subtype_proposals") <= 2

MCNext == Next /\ WithinBounds'
MCSpec == Init /\ [][MCNext]_vars

Symmetry ==
  Permutations(PartIds) \union Permutations(ContractIds) \union Permutations(PartNames)
=============================================================================
