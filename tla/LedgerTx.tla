------------------------------ MODULE LedgerTx ------------------------------
(***************************************************************************)
(* create_proposal and accept_proposal (and their template twins) one SQL  *)
(* statement at a time.  A request runs in one READ COMMITTED transaction: *)
(* SELECT ... FOR UPDATE on the contract row, plain SELECTs on the version *)
(* rows, then INSERT/UPDATE and COMMIT.  Every early return, and a request *)
(* that dies, rolls back and so releases the row lock.                     *)
(***************************************************************************)
EXTENDS LedgerRows

CONSTANTS
  Conns,      \* request slots, each with a session of its own
  Nobody,     \* the row lock is free
  Deletable

ASSUME NobodyAssumption == Nobody \notin Conns

VARIABLES
  rows,       \* committed version rows
  deleted,    \* committed: the contract's deleted_at is set
  holder,     \* who holds the contract (template) row lock
  pc,         \* pc[c]: the statement request c is about to run
  req,        \* req[c]: its parameters
  seen,       \* seen[c]: the version row its SELECT returned
  res         \* res[c]: the HTTP status it will answer

vars == <<rows, deleted, holder, pc, req, seen, res>>

Request == [op : {"create", "accept"}, version : Versions,
            actor : OptActor, override : BOOLEAN]
NoRequest == [op |-> "create", version |-> FirstVersion,
              actor |-> NoActor, override |-> FALSE]

Init ==
  /\ rows = InitialRows
  /\ deleted = FALSE
  /\ holder = Nobody
  /\ pc = [c \in Conns |-> "idle"]
  /\ req = [c \in Conns |-> NoRequest]
  /\ seen = [c \in Conns |-> NoRow]
  /\ res = [c \in Conns |-> "none"]

\* A request arrives and issues its first statement, the SELECT ... FOR UPDATE.
Begin(c) ==
  /\ pc[c] = "idle"
  /\ pc' = [pc EXCEPT ![c] = "lock"]
  /\ UNCHANGED <<rows, deleted, holder, req, seen, res>>

\* Mutant: an early return leaves its transaction open.
FinishOnlyOnSuccess(c, code) ==
  /\ pc' = [pc EXCEPT ![c] = "done"]
  /\ res' = [res EXCEPT ![c] = code]
  /\ req' = [req EXCEPT ![c] = NoRequest]
  /\ seen' = [seen EXCEPT ![c] = NoRow]
  /\ holder' = IF code \in {"200", "201"} THEN Nobody ELSE holder

\* The transaction of c ends, by commit or rollback, and `code` is answered.
Finish(c, code) ==
  /\ pc' = [pc EXCEPT ![c] = "done"]
  /\ res' = [res EXCEPT ![c] = code]
  /\ req' = [req EXCEPT ![c] = NoRequest]
  /\ seen' = [seen EXCEPT ![c] = NoRow]
  /\ holder' = Nobody

Goto(c, label) ==
  /\ pc' = [pc EXCEPT ![c] = label]
  /\ UNCHANGED <<holder, req, res>>

\* Mutant: a plain SELECT, which waits for nobody.
LockFree(c) ==
  /\ pc[c] = "lock"
  /\ \/ deleted /\ Finish(c, "404")
     \/ /\ ~deleted
        /\ holder' = c
        /\ \E r \in Request : /\ r.op = "create" => ~r.override
                              /\ req' = [req EXCEPT ![c] = r]
                              /\ pc' = [pc EXCEPT ![c] = r.op]
        /\ UNCHANGED <<seen, res>>
  /\ UNCHANGED <<rows, deleted>>

\* SELECT ... FOR UPDATE returns the row as it is once the lock is granted.  The
\* parameters, which matter only from here on, are chosen here; only
\* accept_proposal takes ?single_operator.
Lock(c) ==
  /\ pc[c] = "lock"
  /\ holder = Nobody
  /\ \/ deleted /\ Finish(c, "404")
     \/ /\ ~deleted
        /\ holder' = c
        /\ \E r \in Request : /\ r.op = "create" => ~r.override
                              /\ req' = [req EXCEPT ![c] = r]
                              /\ pc' = [pc EXCEPT ![c] = r.op]
        /\ UNCHANGED <<seen, res>>
  /\ UNCHANGED <<rows, deleted>>

\* create_proposal: _latest_any_version and the strictly-greater check.
CheckLatest(c) ==
  /\ pc[c] = "create"
  /\ IF Exceeds(req[c].version, Existing(rows))
       THEN Goto(c, "insert") /\ UNCHANGED seen
       ELSE Finish(c, "409")
  /\ UNCHANGED <<rows, deleted>>

\* INSERT and COMMIT; the unique index refuses a second row of a version.
Insert(c) ==
  /\ pc[c] = "insert"
  /\ LET v == req[c].version IN
       IF rows[v].status # "absent"
         THEN Finish(c, "500") /\ UNCHANGED rows
         ELSE /\ rows' = [rows EXCEPT ![v] = Proposal(v, req[c].actor)]
              /\ Finish(c, "201")
  /\ UNCHANGED deleted

\* Mutant: the two-party gate is on the stable path only.
FindProposalUngated(c) ==
  /\ pc[c] = "accept"
  /\ LET row == rows[req[c].version]
         gate == \/ IsPrerelease(req[c].version)
                 \/ TwoParty(row.proposer, req[c].actor, req[c].override) IN
       \/ row.status = "absent" /\ Finish(c, "404")
       \/ row.status = "active" /\ Finish(c, "409")
       \/ row.status = "proposal" /\ ~gate /\ Finish(c, "422")
       \/ /\ row.status = "proposal" /\ gate
          /\ seen' = [seen EXCEPT ![c] = row]
          /\ Goto(c, IF IsPrerelease(req[c].version) THEN "stable" ELSE "flip")
  /\ UNCHANGED <<rows, deleted>>

\* Mutant: a version that was accepted already is accepted again.
FindAnyRow(c) ==
  /\ pc[c] = "accept"
  /\ LET row == rows[req[c].version] IN
       \/ row.status = "absent" /\ Finish(c, "404")
       \/ /\ row.status # "absent"
          /\ TwoParty(row.proposer, req[c].actor, req[c].override)
          /\ seen' = [seen EXCEPT ![c] = row]
          /\ Goto(c, IF IsPrerelease(req[c].version) THEN "stable" ELSE "flip")
  /\ UNCHANGED <<rows, deleted>>

\* accept_proposal: the SELECT of the proposal row and the checks on it.
FindProposal(c) ==
  /\ pc[c] = "accept"
  /\ LET row == rows[req[c].version] IN
       \/ row.status = "absent" /\ Finish(c, "404")
       \/ row.status = "active" /\ Finish(c, "409")
       \/ /\ row.status = "proposal"
          /\ ~TwoParty(row.proposer, req[c].actor, req[c].override)
          /\ Finish(c, "422")
       \/ /\ row.status = "proposal"
          /\ TwoParty(row.proposer, req[c].actor, req[c].override)
          /\ seen' = [seen EXCEPT ![c] = row]
          /\ Goto(c, IF IsPrerelease(req[c].version) THEN "stable" ELSE "flip")
  /\ UNCHANGED <<rows, deleted>>

\* UPDATE of the row found, and COMMIT.
Flip(c) ==
  /\ pc[c] = "flip"
  /\ rows' = [rows EXCEPT ![req[c].version] =
                            Accepted(@, req[c].actor, req[c].override)]
  /\ Finish(c, "200")
  /\ UNCHANGED deleted

\* Mutant: a mere proposal of the stable version is overlooked.
CheckStableActive(c) ==
  /\ pc[c] = "stable"
  /\ IF rows[StableOf(req[c].version)].status = "active"
       THEN Finish(c, "409")
       ELSE Goto(c, "promote") /\ UNCHANGED seen
  /\ UNCHANGED <<rows, deleted>>

\* A candidate: SELECT of a row at the stable version, whatever its status.
CheckStable(c) ==
  /\ pc[c] = "stable"
  /\ IF rows[StableOf(req[c].version)].status # "absent"
       THEN Finish(c, "409")
       ELSE Goto(c, "promote") /\ UNCHANGED seen
  /\ UNCHANGED <<rows, deleted>>

\* UPDATE of the candidate, INSERT of the stable row, and COMMIT.
Promote(c) ==
  /\ pc[c] = "promote"
  /\ LET v == req[c].version
         new == Promoted(v, seen[c], req[c].actor, req[c].override) IN
       IF rows[StableOf(v)].status # "absent"
         THEN Finish(c, "500") /\ UNCHANGED rows
         ELSE /\ rows' = [rows EXCEPT ![v].override = req[c].override,
                                      ![StableOf(v)] = new]
              /\ Finish(c, "200")
  /\ UNCHANGED deleted

\* The response is sent, or lost: either way the slot is free again.
Reply(c) ==
  /\ pc[c] = "done"
  /\ pc' = [pc EXCEPT ![c] = "idle"]
  /\ res' = [res EXCEPT ![c] = "none"]
  /\ UNCHANGED <<rows, deleted, holder, req, seen>>

\* The connection or the server dies before the commit: PostgreSQL rolls back.
Die(c) ==
  /\ pc[c] \notin {"idle", "done"}
  /\ pc' = [pc EXCEPT ![c] = "idle"]
  /\ req' = [req EXCEPT ![c] = NoRequest]
  /\ seen' = [seen EXCEPT ![c] = NoRow]
  /\ holder' = IF holder = c THEN Nobody ELSE holder
  /\ UNCHANGED <<rows, deleted, res>>

\* accept_contract_deletion commits: it holds the same row lock from its first
\* statement on, so to the ledger it is one step.  Graph models the rest of it.
Delete ==
  /\ Deletable
  /\ holder = Nobody
  /\ ~deleted
  /\ deleted' = TRUE
  /\ UNCHANGED <<rows, holder, pc, req, seen, res>>

Statement(c) ==
  \/ CheckLatest(c) \/ Insert(c)
  \/ FindProposal(c) \/ Flip(c)
  \/ CheckStable(c) \/ Promote(c)
  \/ Reply(c)

Next ==
  \/ \E c \in Conns : Begin(c) \/ Lock(c) \/ Statement(c) \/ Die(c)
  \/ Delete

Spec == Init /\ [][Next]_vars

\* A session keeps running its statements, and PostgreSQL grants the row lock in
\* the order of arrival, so no waiter is passed over for ever.
Fairness == \A c \in Conns : WF_vars(Statement(c)) /\ SF_vars(Lock(c))

FairSpec == Spec /\ Fairness
-----------------------------------------------------------------------------
TypeOK ==
  /\ rows \in [Versions -> Row]
  /\ deleted \in BOOLEAN
  /\ holder \in Conns \union {Nobody}
  /\ pc \in [Conns -> {"idle", "lock", "create", "insert", "accept", "flip",
                       "stable", "promote", "done"}]
  /\ req \in [Conns -> Request]
  /\ seen \in [Conns -> Row]
  /\ res \in [Conns -> {"none", "200", "201", "404", "409", "422", "500"}]

\* No request ever runs into the unique index: the checks made under the row lock
\* already refuse a version that exists, so concurrent writers see 409, never an
\* IntegrityError (500).
NoIntegrityError == \A c \in Conns : res[c] # "500"

\* Proposer-doesn't-accept holds of what is stored: an active version whose
\* proposer also accepted it carries the single_operator override, whichever of
\* the two acceptance paths made it active.
TwoPartyRecorded ==
  \A v \in Active(rows) : TwoParty(rows[v].proposer, rows[v].acceptor, rows[v].override)

\* A version promoted from a candidate is that candidate's text under its
\* proposer's name, and the candidate is still there as a proposal; a version
\* that was flipped in place is its own text.
PromotedFromCandidate ==
  \A v \in Active(rows) :
    LET rc == [v EXCEPT !.pre = rows[v].promotedFrom] IN
      /\ rows[v].body = rc
      /\ rc # v => /\ rows[rc].status = "proposal"
                   /\ rows[rc].proposer = rows[v].proposer

\* A candidate that has been promoted, though still stored as a proposal, is
\* never listed as open: nobody is invited to accept it a second time.
PromotedNotListed ==
  \A v \in Active(rows) :
    rows[v].promotedFrom # NoPre
      => [v EXCEPT !.pre = rows[v].promotedFrom] \notin Pending(rows)

\* What an accepted version records is never rewritten, nor is a proposal's text
\* or author, and no row disappears: a second acceptance, or one racing the first,
\* changes nothing.
HistoryIsFinal ==
  [][\A v \in Versions :
       /\ rows[v].status = "active" => rows'[v] = rows[v]
       /\ rows[v].status = "proposal"
            => /\ rows'[v].status # "absent"
               /\ rows'[v].body = rows[v].body
               /\ rows'[v].proposer = rows[v].proposer]_vars

\* The statements of concurrent requests amount to the atomic operations of
\* Ledger: each takes effect at one instant or not at all.
Atomic == INSTANCE Ledger
Linearizable == Atomic!Spec

\* Every request is answered (or dies): no early return keeps the row lock.
Answered == \A c \in Conns : pc[c] = "lock" ~> pc[c] = "idle"
=============================================================================
