----------------------------- MODULE LedgerRows -----------------------------
(***************************************************************************)
(* The rows of contract_versions (and of template_versions, which has the  *)
(* same columns) that belong to one contract (or template), and the guards *)
(* on them.  rows[v] is the row of version v: the unique index allows one  *)
(* row a version at most.  Shared by Ledger, what the handlers promise,    *)
(* and LedgerTx, how they do it.                                           *)
(***************************************************************************)
EXTENDS Versioning, Handshake

CONSTANTS
  Versions,      \* the versions a request may name
  FirstVersion   \* the version the contract is registered with

ASSUME VersionsAssumption ==
  /\ Versions \subseteq Version
  /\ FirstVersion \in Versions
  /\ ~IsPrerelease(FirstVersion)
  /\ \A v \in Versions : StableOf(v) \in Versions

\* body names a markdown text by the version it was submitted with, so that a
\* copy can be told from a text of its own.
Row == [status       : {"absent", "proposal", "active"},
        proposer     : OptActor,
        acceptor     : OptActor,
        override     : BOOLEAN,
        promotedFrom : Nat \union {NoPre},
        body         : Versions]

NoRow == [status |-> "absent", proposer |-> NoActor, acceptor |-> NoActor,
          override |-> FALSE, promotedFrom |-> NoPre, body |-> FirstVersion]

Proposal(v, proposer) ==
  [NoRow EXCEPT !.status = "proposal", !.proposer = proposer, !.body = v]

\* The stable proposal `row` once flipped in place.
Accepted(row, acceptor, override) ==
  [row EXCEPT !.status = "active", !.acceptor = acceptor, !.override = override]

\* Mutant: the acceptor is taken for the proposer of the promoted row.
PromotedByAcceptor(v, row, acceptor, override) ==
  [status |-> "active", proposer |-> acceptor, acceptor |-> acceptor,
   override |-> override, promotedFrom |-> v.pre, body |-> row.body]

\* The new active row that an accepted candidate v, found as `row`, inserts.
Promoted(v, row, acceptor, override) ==
  [status |-> "active", proposer |-> row.proposer, acceptor |-> acceptor,
   override |-> override, promotedFrom |-> v.pre, body |-> row.body]

Existing(rows) == {v \in Versions : rows[v].status # "absent"}
Active(rows)   == {v \in Versions : rows[v].status = "active"}

LatestActive(rows) == Latest(Active(rows))

\* What GET .../proposals lists.
Pending(rows) ==
  {v \in Versions : /\ rows[v].status = "proposal"
                    /\ Newer(v, LatestActive(rows))}

\* register_contract inserts the first version as active, with no attribution.
InitialRows ==
  [v \in Versions |->
     IF v = FirstVersion THEN [NoRow EXCEPT !.status = "active"] ELSE NoRow]
=============================================================================
