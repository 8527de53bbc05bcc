------------------------------ MODULE MCJwksCache ------------------------------
(* A small instance of JwksCache: one kid has had two keys, and a second kid  *)
(* comes and goes beside the first of them.                                   *)
EXTENDS JwksCache, TLC

CONSTANTS k1, k2, k3

Kids == k1 :> "kid1" @@ k2 :> "kid1" @@ k3 :> "kid2"

Rotations == {{k1}, {k2}, {k1, k3}}
WithinBounds == published \in Rotations

MCInit == Init /\ WithinBounds
MCNext == Next /\ WithinBounds'
MCSpec == MCInit /\ [][MCNext]_vars /\ Fairness
=============================================================================
