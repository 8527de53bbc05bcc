------------------------------- MODULE Ledger -------------------------------
(***************************************************************************)
(* What the proposal endpoints of a contract (or template) promise: every  *)
(* request takes effect at one instant, or not at all.                     *)
(***************************************************************************)
EXTENDS LedgerRows

CONSTANT Deletable  \* contracts are soft-deletable, templates are not

VARIABLES rows, deleted

vars == <<rows, deleted>>

Init ==
  /\ rows = InitialRows
  /\ deleted = FALSE

\* A proposal is strictly newer than everything proposed or accepted before.
Propose(v, actor) ==
  /\ ~deleted
  /\ Exceeds(v, Existing(rows))
  /\ rows' = [rows EXCEPT ![v] = Proposal(v, actor)]
  /\ UNCHANGED deleted

AcceptStable(v, actor, override) ==
  /\ ~deleted
  /\ ~IsPrerelease(v)
  /\ rows[v].status = "proposal"
  /\ TwoParty(rows[v].proposer, actor, override)
  /\ rows' = [rows EXCEPT ![v] = Accepted(@, actor, override)]
  /\ UNCHANGED deleted

\* The candidate stays a proposal; its body becomes the stable version's.
AcceptCandidate(v, actor, override) ==
  /\ ~deleted
  /\ IsPrerelease(v)
  /\ rows[v].status = "proposal"
  /\ rows[StableOf(v)].status = "absent"
  /\ TwoParty(rows[v].proposer, actor, override)
  /\ rows' = [rows EXCEPT ![v].override = override,
                          ![StableOf(v)] = Promoted(v, rows[v], actor, override)]
  /\ UNCHANGED deleted

Delete ==
  /\ Deletable
  /\ ~deleted
  /\ deleted' = TRUE
  /\ UNCHANGED rows

Next ==
  \/ \E v \in Versions, a \in OptActor : Propose(v, a)
  \/ \E v \in Versions, a \in OptActor, o \in BOOLEAN :
       AcceptStable(v, a, o) \/ AcceptCandidate(v, a, o)
  \/ Delete

Spec == Init /\ [][Next]_vars
=============================================================================
