------------------------------ MODULE MCAuthTokens ------------------------------
(* A small instance of AuthTokens: two requests at once with two tokens, or a  *)
(* chain of three tokens and one request at a time.                           *)
EXTENDS AuthTokens, Naturals, TLC

SomeGrants == {{"write"}, {"read", "revoke-agent"}}

Issued == {t \in TokenIds : rows[t].state # "absent"}
Busy == {c \in Conns : pc[c] # "idle"}
WithinBounds == Cardinality(Issued) <= 2 \/ Cardinality(Busy) <= 1

MCNext == Next /\ WithinBounds'
MCSpec == Init /\ [][MCNext]_vars

Symmetry == Permutations(Conns) \union Permutations(TokenIds)
=============================================================================
