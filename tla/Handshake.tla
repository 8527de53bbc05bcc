------------------------------ MODULE Handshake ------------------------------
(***************************************************************************)
(* Who may accept what: the two gates of src/routers/_subtype_helpers.py   *)
(* that every propose/accept flow goes through.                            *)
(***************************************************************************)
CONSTANTS
  Actors,   \* X-Actor identities
  NoActor   \* no X-Actor on the request (None)

ASSUME ActorsAssumption == NoActor \notin Actors

OptActor == Actors \union {NoActor}

\* enforce_two_party lets the acceptance through.
TwoParty(proposer, acceptor, singleOperator) ==
  \/ singleOperator
  \/ NoActor \in {proposer, acceptor}
  \/ proposer # acceptor

\* Mutant: any acceptor with a name will do.
NotAnonymous(acceptor, knownAgents) == acceptor # NoActor

\* enforce_human_confirmation lets the acceptance through.
HumanConfirmed(acceptor, knownAgents) ==
  acceptor # NoActor /\ acceptor \notin knownAgents
=============================================================================
