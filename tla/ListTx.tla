------------------------------- MODULE ListTx -------------------------------
(***************************************************************************)
(* GET .../proposals beside the writers of LedgerTx.  list_proposals reads *)
(* the latest active version and then the proposals, each in a snapshot of *)
(* its own (READ COMMITTED) and without a lock: a version may be accepted, *)
(* or proposed, between the two.                                           *)
(***************************************************************************)
EXTENDS LedgerTx

VARIABLE list   \* the reader: what it has read, what was open meanwhile, its answer

allVars == <<vars, list>>

\* always, ever: the proposals that were open at every, at some moment so far.
NoList == [reading |-> FALSE, active |-> FirstVersion, always |-> {}, ever |-> {},
           answer |-> {}]

ListInit == Init /\ list = NoList

\* The contract is there, and its latest active version is read.
ReadActive ==
  /\ ~list.reading /\ ~deleted
  /\ list' = [NoList EXCEPT !.reading = TRUE, !.active = LatestActive(rows),
                            !.always = Pending(rows), !.ever = Pending(rows)]
  /\ UNCHANGED vars

\* Mutant: a candidate counts as its stable version.
ListedByStable(rs, active) ==
  {v \in Versions : /\ rs[v].status = "proposal"
                    /\ Newer(StableOf(v), active) \/ StableOf(v) = active}

\* The rows that are proposals now, filtered by the version that was active then.
Listed(rs, active) == {v \in Versions : rs[v].status = "proposal" /\ Newer(v, active)}

ReadProposals ==
  /\ list.reading
  /\ list' = [list EXCEPT !.reading = FALSE, !.answer = Listed(rows, list.active)]
  /\ UNCHANGED vars

\* A writer's step, seen by nobody but the two sets.
Meanwhile ==
  /\ Next
  /\ list' = IF list.reading
             THEN [list EXCEPT !.always = @ \intersect Pending(rows'),
                               !.ever = @ \union Pending(rows')]
             ELSE NoList

ListNext == Meanwhile \/ ReadActive \/ ReadProposals

ListSpec == ListInit /\ [][ListNext]_allVars

\* The writers as before; a reader waits for nobody and keeps nobody waiting.
FairListSpec == ListSpec /\ Fairness
-----------------------------------------------------------------------------
\* docs/api.md: "Returns every proposal-status version newer than the current
\* active version", and "Older proposals (now superseded by an accepted version) are
\* [...] excluded from this listing."  The answer may be no snapshot, but whatever is
\* proposed, accepted and promoted between the two statements, a proposal that was
\* open throughout is in it, and each entry was open at some moment of the request.
ListedBetween ==
  ~list.reading => list.always \subseteq list.answer /\ list.answer \subseteq list.ever
=============================================================================
