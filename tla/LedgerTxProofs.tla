--------------------------- MODULE LedgerTxProofs ---------------------------
(***************************************************************************)
(* LedgerTx and ListTx, for every number of versions, actors and           *)
(* concurrent requests: the order of versions that both rely on, type      *)
(* correctness, the inductive invariant that ties what a request has read  *)
(* to what is still stored when it writes, what follows for the stored     *)
(* rows, and what a listing read in two statements answers.                *)
(***************************************************************************)
EXTENDS ListTx, TLAPS

\* total_ordering on _sort_key: no version is newer than itself.
LEMMA NewerIrreflexive ==
  ASSUME NEW v \in Version PROVE ~Newer(v, v)
BY DEF Version, Newer, TripleAbove, SameTriple, PreAbove, NoPre

\* The comparison of sort keys is transitive.
LEMMA NewerTransitive ==
  ASSUME NEW u \in Version, NEW v \in Version, NEW w \in Version,
         Newer(u, v), Newer(v, w)
  PROVE  Newer(u, w)
BY DEF Version, Newer, TripleAbove, SameTriple, PreAbove, NoPre

\* Any two versions compare: a new version is newer than the latest, equal to it,
\* or refused with 409.
LEMMA NewerTotal ==
  ASSUME NEW v \in Version, NEW w \in Version
  PROVE  Newer(v, w) \/ v = w \/ Newer(w, v)
BY DEF Version, Newer, TripleAbove, SameTriple, PreAbove, NoPre

\* Version.stable(): the stable version is newer than its candidate, and whatever
\* is newer than the candidate at another triple is newer than the stable one.
THEOREM StableIsNextTriple ==
  ASSUME NEW v \in Version, IsPrerelease(v)
  PROVE  /\ StableOf(v) \in Version
         /\ Newer(StableOf(v), v)
         /\ \A w \in Version : Newer(w, v) /\ ~SameTriple(w, v) => Newer(w, StableOf(v))
<1>1. StableOf(v) \in Version
  BY DEF Version, StableOf
<1>2. Newer(StableOf(v), v)
  BY DEF Version, StableOf, Newer, SameTriple, PreAbove, NoPre, IsPrerelease
<1>3. ASSUME NEW w \in Version, Newer(w, v), ~SameTriple(w, v)
      PROVE  Newer(w, StableOf(v))
  BY <1>3 DEF Version, StableOf, Newer, TripleAbove, SameTriple
<1> QED BY <1>1, <1>2, <1>3

\* A version that exceeds a set is not in it: the strictly-greater check also
\* excludes every version that already has a row.
LEMMA ExceedsIsFresh ==
  ASSUME NEW S \in SUBSET Version, NEW v \in Version, Exceeds(v, S)
  PROVE  v \notin S
BY NewerIrreflexive DEF Exceeds
-----------------------------------------------------------------------------
\* The requests that have been granted the row lock.
Granted == {"create", "insert", "accept", "flip", "stable", "promote"}

\* Only the holder of the row lock is past its first statement, and the contract
\* stays undeleted under its lock.
LockInv == \A c \in Conns : pc[c] \in Granted => holder = c /\ ~deleted

\* What request c found is still so when it acts on it.
UpToDate(c) ==
  /\ pc[c] = "insert" => Exceeds(req[c].version, Existing(rows))
  /\ pc[c] \in {"flip", "stable", "promote"}
       => /\ seen[c] = rows[req[c].version]
          /\ seen[c].status = "proposal"
          /\ TwoParty(seen[c].proposer, req[c].actor, req[c].override)
          /\ IsPrerelease(req[c].version) <=> pc[c] # "flip"
  /\ pc[c] = "promote" => rows[StableOf(req[c].version)].status = "absent"

SeenInv == \A c \in Conns : UpToDate(c)

\* Active versions are stable, and a proposal is its own text.
RowInv ==
  \A v \in Versions :
    /\ rows[v].status = "active" => ~IsPrerelease(v)
    /\ rows[v].status = "proposal" => rows[v].body = v /\ rows[v].promotedFrom = NoPre

-----------------------------------------------------------------------------
LEMMA NoRowType == NoRow \in Row
BY VersionsAssumption DEF NoRow, Row, OptActor

LEMMA NoRequestType == NoRequest \in Request
BY VersionsAssumption DEF NoRequest, Request, OptActor

LEMMA ProposalType ==
  ASSUME NEW v \in Versions, NEW a \in OptActor
  PROVE  Proposal(v, a) \in Row
BY NoRowType DEF Proposal, Row

LEMMA AcceptedType ==
  ASSUME NEW row \in Row, NEW a \in OptActor, NEW o \in BOOLEAN
  PROVE  Accepted(row, a, o) \in Row
BY DEF Accepted, Row

LEMMA PromotedType ==
  ASSUME NEW v \in Versions, NEW row \in Row, NEW a \in OptActor, NEW o \in BOOLEAN
  PROVE  Promoted(v, row, a, o) \in Row
BY VersionsAssumption DEF Promoted, Row, Version

LEMMA InitialRowsType == InitialRows \in [Versions -> Row]
BY NoRowType DEF InitialRows, NoRow, Row

\* The bookkeeping of a request that ends keeps its type.
LEMMA FinishType ==
  ASSUME TypeOK, NEW c \in Conns, NEW code \in {"200", "201", "404", "409", "422", "500"},
         Finish(c, code)
  PROVE  /\ holder' \in Conns \union {Nobody}
         /\ pc' \in [Conns -> {"idle", "lock", "create", "insert", "accept", "flip",
                               "stable", "promote", "done"}]
         /\ req' \in [Conns -> Request]
         /\ seen' \in [Conns -> Row]
         /\ res' \in [Conns -> {"none", "200", "201", "404", "409", "422", "500"}]
BY NoRowType, NoRequestType DEF TypeOK, Finish

LEMMA InitType == Init => TypeOK
BY InitialRowsType, NoRowType, NoRequestType DEF Init, TypeOK

LEMMA NextType == TypeOK /\ [Next]_vars => TypeOK'
<1> SUFFICES ASSUME TypeOK, [Next]_vars PROVE TypeOK'
  OBVIOUS
<1>1. ASSUME NEW c \in Conns, Begin(c) PROVE TypeOK'
  BY <1>1 DEF TypeOK, Begin
<1>2. ASSUME NEW c \in Conns, Lock(c) PROVE TypeOK'
  <2>1. CASE deleted /\ Finish(c, "404")
    BY <1>2, <2>1, FinishType DEF TypeOK, Lock
  <2>2. CASE ~deleted
    <3>1. PICK r \in Request : /\ req' = [req EXCEPT ![c] = r]
                               /\ pc' = [pc EXCEPT ![c] = r.op]
      BY <1>2, <2>2 DEF Lock
    <3>2. r.op \in {"create", "accept"}
      BY DEF Request
    <3>3. UNCHANGED <<rows, deleted, seen, res>> /\ holder' = c
      BY <1>2, <2>2 DEF Lock
    <3> QED BY <3>1, <3>2, <3>3 DEF TypeOK
  <2> QED BY <1>2, <2>1, <2>2 DEF Lock
<1>3. ASSUME NEW c \in Conns, CheckLatest(c) PROVE TypeOK'
  <2>1. CASE Finish(c, "409")
    BY <1>3, <2>1, FinishType DEF TypeOK, CheckLatest
  <2>2. CASE Goto(c, "insert") /\ UNCHANGED seen
    BY <1>3, <2>2 DEF TypeOK, CheckLatest, Goto
  <2> QED BY <1>3, <2>1, <2>2 DEF CheckLatest
<1>4. ASSUME NEW c \in Conns, Insert(c) PROVE TypeOK'
  <2>1. req[c].version \in Versions /\ req[c].actor \in OptActor
    BY DEF TypeOK, Request
  <2>2. rows' \in [Versions -> Row]
    BY <1>4, <2>1, ProposalType DEF TypeOK, Insert
  <2>3. Finish(c, "500") \/ Finish(c, "201")
    BY <1>4 DEF Insert
  <2> QED BY <1>4, <2>2, <2>3, FinishType DEF TypeOK, Insert
<1>5. ASSUME NEW c \in Conns, FindProposal(c) PROVE TypeOK'
  <2>1. CASE \E code \in {"404", "409", "422"} : Finish(c, code)
    BY <1>5, <2>1, FinishType DEF TypeOK, FindProposal
  <2>2. CASE /\ seen' = [seen EXCEPT ![c] = rows[req[c].version]]
             /\ Goto(c, IF IsPrerelease(req[c].version) THEN "stable" ELSE "flip")
    <3>1. rows[req[c].version] \in Row
      BY DEF TypeOK, Request
    <3> QED BY <1>5, <2>2, <3>1 DEF TypeOK, FindProposal, Goto
  <2> QED BY <1>5, <2>1, <2>2 DEF FindProposal
<1>6. ASSUME NEW c \in Conns, Flip(c) PROVE TypeOK'
  <2>1. req[c] \in Request
    BY DEF TypeOK
  <2>2. rows' \in [Versions -> Row]
    BY <1>6, <2>1, AcceptedType DEF TypeOK, Flip, Request
  <2> QED BY <1>6, <2>2, FinishType DEF TypeOK, Flip
<1>7. ASSUME NEW c \in Conns, CheckStable(c) PROVE TypeOK'
  <2>1. CASE Finish(c, "409")
    BY <1>7, <2>1, FinishType DEF TypeOK, CheckStable
  <2>2. CASE Goto(c, "promote") /\ UNCHANGED seen
    BY <1>7, <2>2 DEF TypeOK, CheckStable, Goto
  <2> QED BY <1>7, <2>1, <2>2 DEF CheckStable
<1>8. ASSUME NEW c \in Conns, Promote(c) PROVE TypeOK'
  <2> DEFINE v == req[c].version
             new == Promoted(v, seen[c], req[c].actor, req[c].override)
  <2>1. v \in Versions /\ req[c].actor \in OptActor /\ req[c].override \in BOOLEAN
    BY DEF TypeOK, Request
  <2>2. new \in Row
    BY <2>1, PromotedType DEF TypeOK
  <2>3. CASE rows' = [rows EXCEPT ![v].override = req[c].override, ![StableOf(v)] = new]
    <3>1. [rows[v] EXCEPT !.override = req[c].override] \in Row
      BY <2>1 DEF TypeOK, Row
    <3>2. rows' = [[rows EXCEPT ![v] = [rows[v] EXCEPT !.override = req[c].override]]
                     EXCEPT ![StableOf(v)] = new]
      BY <2>1, <2>3 DEF TypeOK
    <3>3. rows' \in [Versions -> Row]
      BY <2>1, <2>2, <3>1, <3>2 DEF TypeOK
    <3> HIDE DEF v, new
    <3>4. Finish(c, "500") \/ Finish(c, "200")
      BY <1>8 DEF Promote
    <3> QED BY <1>8, <3>3, <3>4, FinishType DEF TypeOK, Promote
  <2>4. CASE UNCHANGED rows /\ Finish(c, "500")
    BY <1>8, <2>4, FinishType DEF TypeOK, Promote
  <2> QED BY <1>8, <2>3, <2>4 DEF Promote
<1>9. ASSUME NEW c \in Conns, Reply(c) PROVE TypeOK'
  BY <1>9 DEF TypeOK, Reply
<1>10. ASSUME NEW c \in Conns, Die(c) PROVE TypeOK'
  BY <1>10, NoRowType, NoRequestType DEF TypeOK, Die
<1>11. CASE Delete
  BY <1>11 DEF TypeOK, Delete
<1>12. CASE UNCHANGED vars
  BY <1>12 DEF TypeOK, vars
<1> QED
  BY <1>1, <1>2, <1>3, <1>4, <1>5, <1>6, <1>7, <1>8, <1>9, <1>10, <1>11, <1>12
     DEF Next, Statement

\* Every variable keeps its type: rows, locks and request state of any number of
\* concurrent create and accept requests.
THEOREM TypeCorrect == Spec => []TypeOK
BY InitType, NextType, PTL DEF Spec
-----------------------------------------------------------------------------
\* Only the holder of the row lock is past its first statement, and every step keeps
\* it so.
LEMMA LockNext == TypeOK /\ LockInv /\ [Next]_vars => LockInv'
<1> SUFFICES ASSUME TypeOK, LockInv, [Next]_vars, NEW d \in Conns, pc'[d] \in Granted
             PROVE  holder' = d /\ ~deleted'
  BY DEF LockInv
<1> USE DEF Granted
<1>1. ASSUME NEW c \in Conns, Begin(c) PROVE holder' = d /\ ~deleted'
  BY <1>1 DEF TypeOK, LockInv, Begin
<1>2. ASSUME NEW c \in Conns, Lock(c) PROVE holder' = d /\ ~deleted'
  BY <1>2, NobodyAssumption DEF TypeOK, LockInv, Lock, Finish
<1>3. ASSUME NEW c \in Conns, Statement(c) PROVE holder' = d /\ ~deleted'
  <2>1. CASE Reply(c)
    BY <2>1 DEF TypeOK, LockInv, Reply
  <2>2. ASSUME pc[c] \in Granted, UNCHANGED deleted,
               NEW label, pc' = [pc EXCEPT ![c] = label],
               label = "done" \/ holder' = holder
        PROVE  holder' = d /\ ~deleted'
    BY <2>2 DEF TypeOK, LockInv
  <2>3. CASE CheckLatest(c)
    BY <2>2, <2>3 DEF CheckLatest, Finish, Goto
  <2>4. CASE Insert(c)
    BY <2>2, <2>4 DEF Insert, Finish
  <2>5. CASE FindProposal(c)
    <3>1. UNCHANGED deleted /\ pc[c] \in Granted
      BY <2>5 DEF FindProposal
    <3>2. CASE \E code \in {"404", "409", "422"} : Finish(c, code)
      BY <2>2, <3>1, <3>2 DEF Finish
    <3>3. CASE Goto(c, IF IsPrerelease(req[c].version) THEN "stable" ELSE "flip")
      BY <2>2, <3>1, <3>3 DEF Goto
    <3> QED BY <2>5, <3>2, <3>3 DEF FindProposal
  <2>6. CASE Flip(c)
    BY <2>2, <2>6 DEF Flip, Finish
  <2>7. CASE CheckStable(c)
    BY <2>2, <2>7 DEF CheckStable, Finish, Goto
  <2>8. CASE Promote(c)
    BY <2>2, <2>8 DEF Promote, Finish
  <2> QED BY <1>3, <2>1, <2>3, <2>4, <2>5, <2>6, <2>7, <2>8 DEF Statement
<1>4. ASSUME NEW c \in Conns, Die(c) PROVE holder' = d /\ ~deleted'
  BY <1>4 DEF TypeOK, LockInv, Die
<1>5. CASE Delete
  BY <1>5, NobodyAssumption DEF TypeOK, LockInv, Delete
<1>6. CASE UNCHANGED vars
  BY <1>6 DEF TypeOK, LockInv, vars
<1> QED BY <1>1, <1>2, <1>3, <1>4, <1>5, <1>6 DEF Next

\* A request that is not the one taking a step stays up to date: either no row
\* changes, or the one that changes it has the lock and the other has not started.
LEMMA OthersUpToDate ==
  ASSUME TypeOK, LockInv, SeenInv, NEW c \in Conns, NEW d \in Conns, c # d,
         pc[c] \in Granted \/ UNCHANGED rows,
         pc'[d] = pc[d], req'[d] = req[d], seen'[d] = seen[d]
  PROVE  UpToDate(d)'
<1>1. CASE UNCHANGED rows
  BY <1>1 DEF SeenInv, UpToDate, Exceeds, Existing
<1>2. CASE pc[c] \in Granted
  BY <1>2 DEF LockInv, Granted, UpToDate
<1> QED BY <1>1, <1>2

\* What a request found under the row lock is not changed by anybody else before it
\* acts on it.
LEMMA SeenNext == TypeOK /\ LockInv /\ SeenInv /\ [Next]_vars => SeenInv'
<1> SUFFICES ASSUME TypeOK, LockInv, SeenInv, [Next]_vars, NEW d \in Conns
             PROVE  UpToDate(d)'
  BY DEF SeenInv
<1>1. ASSUME NEW c \in Conns, Begin(c) PROVE UpToDate(d)'
  <2>1. CASE c = d
    BY <1>1, <2>1 DEF TypeOK, Begin, UpToDate
  <2>2. CASE c # d
    BY <1>1, <2>2, OthersUpToDate DEF TypeOK, Begin
  <2> QED BY <2>1, <2>2
<1>2. ASSUME NEW c \in Conns, Lock(c) PROVE UpToDate(d)'
  <2>1. CASE c = d
    <3>1. CASE Finish(c, "404")
      BY <2>1, <3>1 DEF TypeOK, Finish, UpToDate
    <3>2. CASE ~deleted
      <4>1. PICK r \in Request : pc' = [pc EXCEPT ![c] = r.op]
        BY <1>2, <3>2 DEF Lock
      <4>2. pc'[d] \in {"create", "accept"}
        BY <2>1, <4>1 DEF TypeOK, Request
      <4> QED BY <4>2 DEF UpToDate
    <3> QED BY <1>2, <3>1, <3>2 DEF Lock
  <2>2. CASE c # d
    BY <1>2, <2>2, OthersUpToDate DEF TypeOK, Lock, Finish
  <2> QED BY <2>1, <2>2
<1>3. ASSUME NEW c \in Conns, Statement(c), c # d PROVE UpToDate(d)'
  <2>1. pc[c] \in Granted \/ UNCHANGED rows
    BY <1>3 DEF Statement, CheckLatest, Insert, FindProposal, Flip, CheckStable,
                Promote, Reply, Granted
  <2>2. pc'[d] = pc[d] /\ req'[d] = req[d] /\ seen'[d] = seen[d]
    <3>1. CASE \E code : Finish(c, code)
      BY <1>3, <3>1 DEF TypeOK, Finish
    <3>2. CASE \E label : Goto(c, label) /\ UNCHANGED seen
      BY <1>3, <3>2 DEF TypeOK, Goto
    <3>3. CASE FindProposal(c)
      BY <1>3, <3>3 DEF TypeOK, FindProposal, Finish, Goto
    <3>4. CASE Reply(c)
      BY <1>3, <3>4 DEF TypeOK, Reply
    <3> QED BY <1>3, <3>1, <3>2, <3>3, <3>4
            DEF Statement, CheckLatest, Insert, Flip, CheckStable, Promote
  <2> QED BY <1>3, <2>1, <2>2, OthersUpToDate
<1>4. ASSUME Statement(d) PROVE UpToDate(d)'
  <2>1. ASSUME NEW code, Finish(d, code) PROVE UpToDate(d)'
    BY <2>1 DEF TypeOK, Finish, UpToDate
  <2>2. CASE CheckLatest(d)
    <3>1. CASE Exceeds(req[d].version, Existing(rows)) /\ Goto(d, "insert")
      BY <2>2, <3>1 DEF TypeOK, CheckLatest, Goto, UpToDate, Exceeds, Existing
    <3> QED BY <2>1, <2>2, <3>1 DEF CheckLatest
  <2>3. CASE Insert(d)
    BY <2>1, <2>3 DEF Insert
  <2>4. CASE FindProposal(d)
    <3> DEFINE row == rows[req[d].version]
               label == IF IsPrerelease(req[d].version) THEN "stable" ELSE "flip"
    <3>1. CASE /\ row.status = "proposal"
               /\ TwoParty(row.proposer, req[d].actor, req[d].override)
               /\ seen' = [seen EXCEPT ![d] = row]
               /\ Goto(d, label)
      <4>1. pc'[d] = label /\ seen'[d] = row /\ UNCHANGED <<rows, req>>
        BY <2>4, <3>1 DEF TypeOK, FindProposal, Goto
      <4> QED BY <3>1, <4>1 DEF UpToDate
    <3> QED BY <2>1, <2>4, <3>1 DEF FindProposal
  <2>5. CASE Flip(d)
    BY <2>1, <2>5 DEF Flip
  <2>6. CASE CheckStable(d)
    <3>1. CASE /\ rows[StableOf(req[d].version)].status = "absent"
               /\ Goto(d, "promote") /\ UNCHANGED seen
      <4>1. /\ pc[d] = "stable" /\ pc'[d] = "promote"
            /\ UNCHANGED <<rows, req, seen>>
        BY <2>6, <3>1 DEF TypeOK, CheckStable, Goto
      <4> QED BY <3>1, <4>1 DEF SeenInv, UpToDate
    <3> QED BY <2>1, <2>6, <3>1 DEF CheckStable
  <2>7. CASE Promote(d)
    BY <2>1, <2>7 DEF Promote
  <2>8. CASE Reply(d)
    BY <2>8 DEF TypeOK, Reply, UpToDate
  <2> QED BY <1>4, <2>2, <2>3, <2>4, <2>5, <2>6, <2>7, <2>8 DEF Statement
<1>5. ASSUME NEW c \in Conns, Die(c) PROVE UpToDate(d)'
  <2>1. CASE c = d
    BY <1>5, <2>1 DEF TypeOK, Die, UpToDate
  <2>2. CASE c # d
    BY <1>5, <2>2, OthersUpToDate DEF TypeOK, Die
  <2> QED BY <2>1, <2>2
<1>6. CASE Delete \/ UNCHANGED vars
  BY <1>6 DEF SeenInv, UpToDate, Exceeds, Existing, Delete, vars
<1> QED BY <1>1, <1>2, <1>3, <1>4, <1>5, <1>6 DEF Next
-----------------------------------------------------------------------------
\* A request that writes a row does what Ledger says, and every other statement
\* leaves the committed state alone.
LEMMA StepsAreAtomic ==
  TypeOK /\ LockInv /\ SeenInv /\ [Next]_vars => [Atomic!Next]_<<rows, deleted>>
<1> SUFFICES ASSUME TypeOK, LockInv, SeenInv, [Next]_vars
             PROVE  Atomic!Next \/ UNCHANGED <<rows, deleted>>
  OBVIOUS
<1>1. ASSUME NEW c \in Conns, Insert(c), ~UNCHANGED rows PROVE Atomic!Next
  <2>1. req[c].version \in Versions /\ req[c].actor \in OptActor
    BY DEF TypeOK, Request
  <2>2. ~deleted /\ Exceeds(req[c].version, Existing(rows))
    BY <1>1 DEF LockInv, Granted, SeenInv, UpToDate, Insert
  <2>3. /\ rows' = [rows EXCEPT ![req[c].version] = Proposal(req[c].version, req[c].actor)]
        /\ UNCHANGED deleted
    BY <1>1 DEF Insert
  <2>4. Atomic!Propose(req[c].version, req[c].actor)
    BY <2>2, <2>3 DEF Atomic!Propose, Atomic!Exceeds, Exceeds, Atomic!Existing, Existing,
          Atomic!Newer, Newer, Atomic!TripleAbove, TripleAbove, Atomic!SameTriple, SameTriple,
          Atomic!PreAbove, PreAbove, Atomic!NoPre, NoPre,
          Atomic!Proposal, Proposal, Atomic!NoRow, NoRow
  <2> QED BY <2>1, <2>4 DEF Atomic!Next, OptActor, Atomic!OptActor
<1>2. ASSUME NEW c \in Conns, Flip(c) PROVE Atomic!Next
  <2> DEFINE r == req[c]
  <2>1. r.version \in Versions /\ r.actor \in OptActor /\ r.override \in BOOLEAN
    BY DEF TypeOK, Request
  <2>2. /\ ~deleted
        /\ ~IsPrerelease(r.version)
        /\ rows[r.version].status = "proposal"
        /\ TwoParty(rows[r.version].proposer, r.actor, r.override)
    BY <1>2 DEF LockInv, Granted, SeenInv, UpToDate, Flip
  <2>3. /\ rows' = [rows EXCEPT ![r.version] = Accepted(@, r.actor, r.override)]
        /\ UNCHANGED deleted
    BY <1>2 DEF Flip
  <2> HIDE DEF r
  <2>4. Atomic!AcceptStable(r.version, r.actor, r.override)
    BY <2>2, <2>3 DEF Atomic!AcceptStable, Atomic!IsPrerelease, IsPrerelease, Atomic!NoPre,
          NoPre, Atomic!TwoParty, TwoParty, Atomic!Accepted, Accepted
  <2> QED BY <2>1, <2>4 DEF Atomic!Next, OptActor, Atomic!OptActor
<1>3. ASSUME NEW c \in Conns, Promote(c), ~UNCHANGED rows PROVE Atomic!Next
  <2> DEFINE r == req[c]
  <2>1. r.version \in Versions /\ r.actor \in OptActor /\ r.override \in BOOLEAN
    BY DEF TypeOK, Request
  <2>2. /\ ~deleted
        /\ IsPrerelease(r.version)
        /\ rows[r.version].status = "proposal"
        /\ TwoParty(rows[r.version].proposer, r.actor, r.override)
        /\ rows[StableOf(r.version)].status = "absent"
        /\ seen[c] = rows[r.version]
    BY <1>3 DEF LockInv, Granted, SeenInv, UpToDate, Promote
  <2>3. /\ rows' = [rows EXCEPT ![r.version].override = r.override,
                                ![StableOf(r.version)] =
                                   Promoted(r.version, rows[r.version], r.actor, r.override)]
        /\ UNCHANGED deleted
    BY <1>3, <2>2 DEF Promote
  <2> HIDE DEF r
  <2>4. Atomic!AcceptCandidate(r.version, r.actor, r.override)
    BY <2>2, <2>3 DEF Atomic!AcceptCandidate, Atomic!IsPrerelease, IsPrerelease, Atomic!NoPre,
          NoPre, Atomic!StableOf, StableOf, Atomic!TwoParty, TwoParty, Atomic!Promoted, Promoted
  <2> QED BY <2>1, <2>4 DEF Atomic!Next, OptActor, Atomic!OptActor
<1>4. ASSUME NEW c \in Conns, Begin(c) \/ Lock(c) \/ Die(c) PROVE UNCHANGED <<rows, deleted>>
  BY <1>4 DEF Begin, Lock, Die
<1>5. ASSUME NEW c \in Conns, CheckLatest(c) \/ FindProposal(c) \/ CheckStable(c) \/ Reply(c)
      PROVE  UNCHANGED <<rows, deleted>>
  BY <1>5 DEF CheckLatest, FindProposal, CheckStable, Reply
<1>6. CASE Delete
  BY <1>6 DEF Delete, Atomic!Next, Atomic!Delete
<1>7. CASE UNCHANGED vars
  BY <1>7 DEF vars
<1>8. ASSUME NEW c \in Conns, Insert(c) \/ Promote(c) PROVE UNCHANGED deleted
  BY <1>8 DEF Insert, Promote
<1> QED BY <1>1, <1>2, <1>3, <1>4, <1>5, <1>6, <1>7, <1>8 DEF Next, Statement

LEMMA InitLockSeen == Init => LockInv /\ SeenInv
BY DEF Init, LockInv, Granted, SeenInv, UpToDate

\* The statements of any number of concurrent requests, with crashes anywhere and a
\* deletion at any time, implement the atomic ledger.
THEOREM Refinement == Spec => Linearizable
<1>1. Init => Atomic!Init
  BY DEF Init, Atomic!Init, InitialRows, Atomic!InitialRows, NoRow, Atomic!NoRow,
         NoPre, Atomic!NoPre
<1>2. TypeOK /\ LockInv /\ SeenInv /\ [Next]_vars => [Atomic!Next]_(Atomic!vars)
  BY StepsAreAtomic DEF Atomic!vars
<1> QED BY <1>1, <1>2, InitType, NextType, InitLockSeen, LockNext, SeenNext, PTL
        DEF Spec, Linearizable, Atomic!Spec
-----------------------------------------------------------------------------
\* What is recorded follows from the atomic ledger alone.  The version that an active
\* one was promoted from is its body, so it has a row.
Sound == RowInv /\ TwoPartyRecorded /\ PromotedFromCandidate

LEMMA InitSound == Init => Sound
<1> SUFFICES ASSUME Init PROVE Sound
  OBVIOUS
<1>1. \A v \in Versions : rows[v].status = "active" => v = FirstVersion
  BY DEF Init, InitialRows, NoRow
<1>2. /\ rows[FirstVersion] = [NoRow EXCEPT !.status = "active"]
      /\ \A v \in Versions : rows[v].status # "proposal"
  BY VersionsAssumption DEF Init, InitialRows, NoRow
<1>3. RowInv /\ TwoPartyRecorded
  BY <1>1, <1>2, VersionsAssumption
     DEF RowInv, TwoPartyRecorded, Active, TwoParty, NoRow
<1>4. [FirstVersion EXCEPT !.pre = NoPre] = FirstVersion
  BY VersionsAssumption DEF IsPrerelease, Version
<1>5. PromotedFromCandidate
  BY <1>1, <1>2, <1>4, VersionsAssumption DEF PromotedFromCandidate, Active, NoRow
<1> QED BY <1>3, <1>5 DEF Sound

\* The rows after each of the ledger's three writes, in this module's own terms.
LEMMA AtomicSteps ==
  ASSUME TypeOK, Atomic!Next, ~UNCHANGED rows
  PROVE  \E v \in Versions, a \in OptActor, o \in BOOLEAN :
           \/ /\ rows[v].status = "absent"
              /\ Exceeds(v, Existing(rows))
              /\ rows' = [rows EXCEPT ![v] = Proposal(v, a)]
           \/ /\ rows[v].status = "proposal"
              /\ TwoParty(rows[v].proposer, a, o)
              /\ \/ /\ ~IsPrerelease(v)
                    /\ rows' = [rows EXCEPT ![v] = Accepted(rows[v], a, o)]
                 \/ /\ IsPrerelease(v)
                    /\ rows[StableOf(v)].status = "absent"
                    /\ rows' = [rows EXCEPT ![v].override = o,
                                            ![StableOf(v)] = Promoted(v, rows[v], a, o)]
<1>1. ASSUME NEW v \in Versions, NEW a \in OptActor, Atomic!Propose(v, a)
      PROVE  /\ rows[v].status = "absent"
             /\ Exceeds(v, Existing(rows))
             /\ rows' = [rows EXCEPT ![v] = Proposal(v, a)]
  <2>1. Exceeds(v, Existing(rows))
    BY <1>1 DEF Atomic!Propose, Atomic!Exceeds, Exceeds, Atomic!Existing, Existing,
          Atomic!Newer, Newer, Atomic!TripleAbove, TripleAbove, Atomic!SameTriple, SameTriple,
          Atomic!PreAbove, PreAbove, Atomic!NoPre, NoPre
  <2>2. v \notin Existing(rows)
    BY <2>1, ExceedsIsFresh, VersionsAssumption DEF Existing
  <2> QED BY <1>1, <2>1, <2>2 DEF Atomic!Propose, Existing, Atomic!Proposal, Proposal,
                            Atomic!NoRow, NoRow, Atomic!NoPre, NoPre
<1>2. ASSUME NEW v \in Versions, NEW a \in OptActor, NEW o \in BOOLEAN,
             Atomic!AcceptStable(v, a, o)
      PROVE  /\ rows[v].status = "proposal"
             /\ TwoParty(rows[v].proposer, a, o)
             /\ ~IsPrerelease(v)
             /\ rows' = [rows EXCEPT ![v] = Accepted(rows[v], a, o)]
  BY <1>2 DEF Atomic!AcceptStable, Atomic!IsPrerelease, IsPrerelease, Atomic!NoPre,
        NoPre, Atomic!TwoParty, TwoParty, Atomic!Accepted, Accepted
<1>3. ASSUME NEW v \in Versions, NEW a \in OptActor, NEW o \in BOOLEAN,
             Atomic!AcceptCandidate(v, a, o)
      PROVE  /\ rows[v].status = "proposal"
             /\ TwoParty(rows[v].proposer, a, o)
             /\ IsPrerelease(v)
             /\ rows[StableOf(v)].status = "absent"
             /\ rows' = [rows EXCEPT ![v].override = o,
                                     ![StableOf(v)] = Promoted(v, rows[v], a, o)]
  BY <1>3 DEF Atomic!AcceptCandidate, Atomic!IsPrerelease, IsPrerelease, Atomic!NoPre,
        NoPre, Atomic!StableOf, StableOf, Atomic!TwoParty, TwoParty, Atomic!Promoted, Promoted
<1>4. ~Atomic!Delete
  BY DEF Atomic!Delete
<1>5. CASE \E v \in Versions, a \in OptActor : Atomic!Propose(v, a)
  BY <1>1, <1>5
<1>6. CASE \E v \in Versions, a \in OptActor, o \in BOOLEAN : Atomic!AcceptStable(v, a, o)
  BY <1>2, <1>6
<1>7. CASE \E v \in Versions, a \in OptActor, o \in BOOLEAN : Atomic!AcceptCandidate(v, a, o)
  BY <1>3, <1>7
<1> QED BY <1>4, <1>5, <1>6, <1>7 DEF Atomic!Next, OptActor, Atomic!OptActor

\* The version that the text of v comes from: v itself or a candidate.
Origin(v) == [v EXCEPT !.pre = rows[v].promotedFrom]

Traced(v) ==
  /\ rows[v].body = Origin(v)
  /\ Origin(v) # v => /\ rows[Origin(v)].status = "proposal"
                      /\ rows[Origin(v)].proposer = rows[v].proposer

LEMMA TracedPrimed ==
  /\ PromotedFromCandidate <=> \A v \in Active(rows) : Traced(v)
  /\ PromotedFromCandidate' <=> \A v \in Active(rows') : Traced(v)'
BY DEF PromotedFromCandidate, Traced, Origin

\* An active version stays traced if its row and the candidate's proposer stay.
LEMMA StaysTraced ==
  ASSUME TypeOK, PromotedFromCandidate, NEW v \in Active(rows), rows'[v] = rows[v],
         \A w \in Versions : w # v /\ w = Origin(v) /\ rows[w].status = "proposal"
           => rows'[w].status = "proposal" /\ rows'[w].proposer = rows[w].proposer
  PROVE  Traced(v)'
<1>1. v \in Versions /\ Traced(v)
  BY TracedPrimed DEF Active
<1>2. Origin(v) \in Versions
  BY <1>1 DEF TypeOK, Row, Traced
<1>3. Origin(v)' = Origin(v)
  BY DEF Origin
<1> QED BY <1>1, <1>2, <1>3 DEF Traced

LEMMA ProposeKeepsSound ==
  ASSUME TypeOK, Sound, NEW v \in Versions, NEW a \in OptActor,
         rows[v].status = "absent",
         rows' = [rows EXCEPT ![v] = Proposal(v, a)]
  PROVE  Sound'
<1>1. \A w \in Versions : w # v => rows'[w] = rows[w]
  BY DEF TypeOK
<1>2. /\ rows'[v].status = "proposal"
      /\ rows'[v].body = v
      /\ rows'[v].promotedFrom = NoPre
  BY DEF TypeOK, Proposal, NoRow
<1>3. Active(rows') = Active(rows) /\ v \notin Active(rows)
  BY <1>1, <1>2 DEF Active
<1>4. RowInv'
  BY <1>1, <1>2 DEF Sound, RowInv
<1>5. TwoPartyRecorded'
  BY <1>1, <1>3 DEF Sound, TwoPartyRecorded, Active
<1>6. PromotedFromCandidate'
  <2>1. ASSUME NEW w \in Active(rows) PROVE Traced(w)'
    BY <1>1, <1>3, StaysTraced DEF Active, Sound
  <2> QED BY <1>3, <2>1, TracedPrimed
<1> QED BY <1>4, <1>5, <1>6 DEF Sound

LEMMA AcceptStableKeepsSound ==
  ASSUME TypeOK, Sound, NEW v \in Versions, NEW a \in OptActor, NEW o \in BOOLEAN,
         rows[v].status = "proposal", TwoParty(rows[v].proposer, a, o), ~IsPrerelease(v),
         rows' = [rows EXCEPT ![v] = Accepted(rows[v], a, o)]
  PROVE  Sound'
<1>1. \A w \in Versions : w # v => rows'[w] = rows[w]
  BY DEF TypeOK
<1>2. /\ rows'[v].status = "active"
      /\ rows'[v].proposer = rows[v].proposer
      /\ rows'[v].acceptor = a
      /\ rows'[v].override = o
      /\ rows'[v].body = v
      /\ rows'[v].promotedFrom = NoPre
  BY DEF TypeOK, Row, Accepted, Sound, RowInv
<1>3. Active(rows') = Active(rows) \union {v} /\ v \notin Active(rows)
  BY <1>1, <1>2 DEF Active
<1>4. RowInv'
  BY <1>1, <1>2 DEF Sound, RowInv
<1>5. TwoPartyRecorded'
  BY <1>1, <1>2, <1>3 DEF Sound, TwoPartyRecorded, Active
<1>6. \A w \in Versions : ~IsPrerelease(w) => [w EXCEPT !.pre = NoPre] = w
  BY VersionsAssumption DEF IsPrerelease, Version
<1>7. ASSUME NEW w \in Active(rows) PROVE Traced(w)'
  <2>1. w \in Versions /\ w # v /\ ~IsPrerelease(w) /\ rows'[w] = rows[w]
    BY <1>1, <1>3 DEF Active, Sound, RowInv
  <2>2. Origin(w) = v => rows[w].promotedFrom = NoPre
    BY <2>1, VersionsAssumption DEF Origin, IsPrerelease, Version
  <2>3. Origin(w) # v
    BY <1>6, <2>1, <2>2 DEF Origin
  <2> QED BY <1>1, <2>1, <2>3, StaysTraced DEF Sound
<1>8. Traced(v)'
  BY <1>2, <1>6 DEF Traced, Origin
<1>9. PromotedFromCandidate'
  BY <1>3, <1>7, <1>8, TracedPrimed
<1> QED BY <1>4, <1>5, <1>9 DEF Sound

LEMMA AcceptCandidateKeepsSound ==
  ASSUME TypeOK, Sound, NEW v \in Versions, NEW a \in OptActor, NEW o \in BOOLEAN,
         rows[v].status = "proposal", TwoParty(rows[v].proposer, a, o), IsPrerelease(v),
         rows[StableOf(v)].status = "absent",
         rows' = [rows EXCEPT ![v].override = o,
                              ![StableOf(v)] = Promoted(v, rows[v], a, o)]
  PROVE  Sound'
<1> DEFINE s == StableOf(v)
<1>1. /\ s \in Versions /\ s # v /\ ~IsPrerelease(s)
      /\ [s EXCEPT !.pre = v.pre] = v
  BY VersionsAssumption DEF StableOf, IsPrerelease, Version, NoPre
<1>2. \A w \in Versions : w \notin {v, s} => rows'[w] = rows[w]
  BY <1>1 DEF TypeOK
<1>3. rows'[v] = [rows[v] EXCEPT !.override = o]
  BY <1>1 DEF TypeOK
<1>4. rows'[s] = Promoted(v, rows[v], a, o)
  BY <1>1 DEF TypeOK
<1> HIDE DEF s
<1>5. /\ rows'[v].status = "proposal"
      /\ rows'[v].body = v
      /\ rows'[v].promotedFrom = NoPre
      /\ rows'[v].proposer = rows[v].proposer
  BY <1>3 DEF TypeOK, Row, Sound, RowInv
<1>6. /\ rows'[s].status = "active"
      /\ rows'[s].body = v
      /\ rows'[s].promotedFrom = v.pre
      /\ rows'[s].proposer = rows[v].proposer
      /\ rows'[s].acceptor = a
      /\ rows'[s].override = o
  BY <1>4 DEF Promoted, Sound, RowInv
<1>7. /\ Active(rows') = Active(rows) \union {s}
      /\ s \notin Active(rows) /\ v \notin Active(rows)
  BY <1>1, <1>2, <1>5, <1>6 DEF Active, s
<1>8. RowInv'
  <2> SUFFICES ASSUME NEW w \in Versions
               PROVE  /\ rows'[w].status = "active" => ~IsPrerelease(w)
                      /\ rows'[w].status = "proposal"
                           => rows'[w].body = w /\ rows'[w].promotedFrom = NoPre
    BY DEF RowInv
  <2>1. CASE w = v
    BY <1>5, <2>1
  <2>2. CASE w = s
    BY <1>1, <1>6, <2>2
  <2>3. CASE w \notin {v, s}
    BY <1>2, <2>3 DEF Sound, RowInv
  <2> QED BY <2>1, <2>2, <2>3
<1>9. TwoPartyRecorded'
  BY <1>2, <1>6, <1>7 DEF Sound, TwoPartyRecorded, Active
<1>10. ASSUME NEW w \in Active(rows) PROVE Traced(w)'
  <2>1. rows'[w] = rows[w]
    BY <1>2, <1>7 DEF Active
  <2>2. \A u \in Versions : rows[u].status = "proposal"
          => rows'[u].status = "proposal" /\ rows'[u].proposer = rows[u].proposer
    BY <1>2, <1>5 DEF s
  <2> QED BY <2>1, <2>2, StaysTraced DEF Sound
<1>11. Traced(s)'
  <2>1. Origin(s)' = v
    BY <1>1, <1>6 DEF Origin
  <2> QED BY <1>5, <1>6, <2>1 DEF Traced
<1>12. PromotedFromCandidate'
  BY <1>7, <1>10, <1>11, TracedPrimed
<1> QED BY <1>8, <1>9, <1>12 DEF Sound

LEMMA SoundNext == TypeOK /\ Sound /\ [Atomic!Next]_<<rows, deleted>> => Sound'
<1> SUFFICES ASSUME TypeOK, Sound, [Atomic!Next]_<<rows, deleted>> PROVE Sound'
  OBVIOUS
<1>1. CASE UNCHANGED rows
  BY <1>1 DEF Sound, RowInv, TwoPartyRecorded, PromotedFromCandidate, Active
<1>2. CASE ~UNCHANGED rows
  BY <1>2, AtomicSteps, ProposeKeepsSound, AcceptStableKeepsSound, AcceptCandidateKeepsSound
<1> QED BY <1>1, <1>2

LEMMA SoundAlways == Spec => []Sound
BY InitType, NextType, InitLockSeen, LockNext, SeenNext, InitSound, StepsAreAtomic,
   SoundNext, PTL DEF Spec

\* Whoever made a version active was not its proposer, unless the override says so,
\* on both acceptance paths and under any interleaving.
THEOREM TwoPartyAlways == Spec => []TwoPartyRecorded
BY SoundAlways, PTL DEF Sound

\* A promoted version is always its candidate's text under its proposer's name.
THEOREM ProvenanceAlways == Spec => []PromotedFromCandidate
BY SoundAlways, PTL DEF Sound

\* What was accepted is never rewritten and no proposal loses its text or author,
\* however acceptances race.
THEOREM HistoryAlwaysFinal == Spec => HistoryIsFinal
<1> DEFINE Final == \A v \in Versions :
                      /\ rows[v].status = "active" => rows'[v] = rows[v]
                      /\ rows[v].status = "proposal"
                           => /\ rows'[v].status # "absent"
                              /\ rows'[v].body = rows[v].body
                              /\ rows'[v].proposer = rows[v].proposer
<1>1. ASSUME TypeOK, Atomic!Next, ~UNCHANGED rows PROVE Final
  <2>1. PICK v \in Versions, a \in OptActor, o \in BOOLEAN :
           \/ /\ rows[v].status = "absent"
              /\ rows' = [rows EXCEPT ![v] = Proposal(v, a)]
           \/ /\ rows[v].status = "proposal"
              /\ \/ rows' = [rows EXCEPT ![v] = Accepted(rows[v], a, o)]
                 \/ /\ rows[StableOf(v)].status = "absent"
                    /\ rows' = [rows EXCEPT ![v].override = o,
                                            ![StableOf(v)] = Promoted(v, rows[v], a, o)]
    BY <1>1, AtomicSteps
  <2> SUFFICES ASSUME NEW w \in Versions
               PROVE  /\ rows[w].status = "active" => rows'[w] = rows[w]
                      /\ rows[w].status = "proposal"
                           => /\ rows'[w].status # "absent"
                              /\ rows'[w].body = rows[w].body
                              /\ rows'[w].proposer = rows[w].proposer
    OBVIOUS
  <2>2. CASE /\ rows[v].status = "absent"
             /\ rows' = [rows EXCEPT ![v] = Proposal(v, a)]
    BY <1>1, <2>2 DEF TypeOK
  <2>3. CASE /\ rows[v].status = "proposal"
             /\ rows' = [rows EXCEPT ![v] = Accepted(rows[v], a, o)]
    BY <1>1, <2>3 DEF TypeOK, Row, Accepted
  <2>4. CASE /\ rows[v].status = "proposal"
             /\ rows[StableOf(v)].status = "absent"
             /\ rows' = [rows EXCEPT ![v].override = o,
                                     ![StableOf(v)] = Promoted(v, rows[v], a, o)]
    <3>1. StableOf(v) \in Versions /\ StableOf(v) # v
      BY <2>4, VersionsAssumption
    <3>2. \A u \in Versions : u \notin {v, StableOf(v)} => rows'[u] = rows[u]
      BY <1>1, <2>4, <3>1 DEF TypeOK
    <3>3. rows'[v] = [rows[v] EXCEPT !.override = o]
      BY <1>1, <2>4, <3>1 DEF TypeOK
    <3>4. /\ rows'[v].status = rows[v].status
          /\ rows'[v].body = rows[v].body
          /\ rows'[v].proposer = rows[v].proposer
      BY <1>1, <3>3 DEF TypeOK, Row
    <3> QED BY <2>4, <3>2, <3>4
  <2> QED BY <2>1, <2>2, <2>3, <2>4
<1>2. TypeOK /\ LockInv /\ SeenInv /\ [Next]_vars => [Final]_vars
  <2> SUFFICES ASSUME TypeOK, LockInv, SeenInv, [Next]_vars PROVE Final
    OBVIOUS
  <2>1. CASE UNCHANGED rows
    BY <2>1 DEF TypeOK, Row
  <2>2. CASE ~UNCHANGED rows
    BY <1>1, <2>2, StepsAreAtomic
  <2> QED BY <2>1, <2>2
<1> QED BY <1>2, InitType, NextType, InitLockSeen, LockNext, SeenNext, PTL
        DEF Spec, HistoryIsFinal
-----------------------------------------------------------------------------
\* A step answers 500 only by running into the unique index, which the checks made
\* under the lock exclude.
LEMMA AnswersNext ==
  TypeOK /\ LockInv /\ SeenInv /\ NoIntegrityError /\ [Next]_vars => NoIntegrityError'
<1> SUFFICES ASSUME TypeOK, SeenInv, NoIntegrityError, [Next]_vars, NEW d \in Conns
             PROVE  res'[d] # "500"
  BY DEF NoIntegrityError
<1>1. res[d] # "500"
  BY DEF NoIntegrityError
<1>2. ASSUME NEW c \in Conns, NEW code \in {"200", "201", "404", "409", "422"},
             Finish(c, code)
      PROVE  res'[d] # "500"
  BY <1>1, <1>2 DEF TypeOK, Finish
<1>3. CASE UNCHANGED res
  BY <1>1, <1>3
<1>4. ASSUME NEW c \in Conns, Insert(c) PROVE res'[d] # "500"
  <2>1. Exceeds(req[c].version, Existing(rows)) /\ req[c].version \in Versions
    BY <1>4 DEF SeenInv, UpToDate, Insert, TypeOK, Request
  <2>2. rows[req[c].version].status = "absent"
    BY <2>1, ExceedsIsFresh, VersionsAssumption DEF Existing
  <2> QED BY <1>2, <1>4, <2>2 DEF Insert
<1>5. ASSUME NEW c \in Conns, Promote(c) PROVE res'[d] # "500"
  <2>1. rows[StableOf(req[c].version)].status = "absent"
    BY <1>5 DEF SeenInv, UpToDate, Promote
  <2> QED BY <1>2, <1>5, <2>1 DEF Promote
<1>6. ASSUME NEW c \in Conns, Lock(c) PROVE res'[d] # "500"
  BY <1>2, <1>3, <1>6 DEF Lock
<1>7. ASSUME NEW c \in Conns, CheckLatest(c) \/ CheckStable(c) PROVE res'[d] # "500"
  BY <1>2, <1>3, <1>7 DEF CheckLatest, CheckStable, Goto
<1>8. ASSUME NEW c \in Conns, FindProposal(c) PROVE res'[d] # "500"
  BY <1>2, <1>3, <1>8 DEF FindProposal, Goto
<1>9. ASSUME NEW c \in Conns, Flip(c) PROVE res'[d] # "500"
  BY <1>2, <1>9 DEF Flip
<1>10. ASSUME NEW c \in Conns, Reply(c) PROVE res'[d] # "500"
  BY <1>1, <1>10 DEF TypeOK, Reply
<1>11. ASSUME NEW c \in Conns, Begin(c) \/ Die(c) PROVE UNCHANGED res
  BY <1>11 DEF Begin, Die
<1>12. Delete \/ UNCHANGED vars => UNCHANGED res
  BY DEF Delete, vars
<1> QED BY <1>3, <1>4, <1>5, <1>6, <1>7, <1>8, <1>9, <1>10, <1>11, <1>12 DEF Next, Statement

\* Racing writers are refused with 409, never with an IntegrityError.
THEOREM NeverIntegrityError == Spec => []NoIntegrityError
<1>1. Init => NoIntegrityError
  BY DEF Init, NoIntegrityError
<1> QED BY <1>1, InitType, NextType, InitLockSeen, LockNext, SeenNext, AnswersNext, PTL
        DEF Spec
-----------------------------------------------------------------------------
\* Some version of S is newer than all others, so Latest(S) is one of them.
HasLatest(S) == \E v \in S : \A w \in S \ {v} : Newer(v, w)

LEMMA LatestIsNewest ==
  ASSUME NEW S, HasLatest(S)
  PROVE  Latest(S) \in S /\ \A w \in S \ {Latest(S)} : Newer(Latest(S), w)
BY DEF HasLatest, Latest

\* Whatever version is added to a set that has a latest, there is a latest one.
LEMMA OneMoreHasLatest ==
  ASSUME NEW S \in SUBSET Version, HasLatest(S), NEW v \in Version
  PROVE  HasLatest(S \union {v})
<1>1. PICK u \in S : \A w \in S \ {u} : Newer(u, w)
  BY DEF HasLatest
<1>2. CASE Newer(v, u)
  <2>1. \A w \in S : Newer(v, w)
    BY <1>1, <1>2, NewerTransitive
  <2> QED BY <2>1 DEF HasLatest
<1>3. CASE v = u \/ Newer(u, v)
  BY <1>1, <1>3 DEF HasLatest
<1> QED BY <1>2, <1>3, NewerTotal

\* The latest of more versions is the same or a newer one.
LEMMA LatestGrows ==
  ASSUME NEW S \in SUBSET Version, NEW v \in S, HasLatest(S)
  PROVE  Latest(S) \in Version /\ (Latest(S) = v \/ Newer(Latest(S), v))
BY LatestIsNewest

\* What each kind of write does to the three sets of versions that readers look at.
LEMMA WriteEffects ==
  ASSUME TypeOK, Sound, Atomic!Next, ~UNCHANGED rows
  PROVE  /\ \E v \in Versions : Active(rows') \in {Active(rows), Active(rows) \union {v}}
         /\ Active(rows) \subseteq Active(rows')
         /\ \A v \in Versions :
              rows'[v].status = "proposal" /\ rows[v].status # "proposal"
                => Exceeds(v, Existing(rows)) /\ Active(rows') = Active(rows)
<1>1. PICK v \in Versions, a \in OptActor, o \in BOOLEAN :
         \/ /\ rows[v].status = "absent"
            /\ Exceeds(v, Existing(rows))
            /\ rows' = [rows EXCEPT ![v] = Proposal(v, a)]
         \/ /\ rows[v].status = "proposal"
            /\ \/ rows' = [rows EXCEPT ![v] = Accepted(rows[v], a, o)]
               \/ /\ IsPrerelease(v)
                  /\ rows[StableOf(v)].status = "absent"
                  /\ rows' = [rows EXCEPT ![v].override = o,
                                          ![StableOf(v)] = Promoted(v, rows[v], a, o)]
  BY AtomicSteps
<1>2. CASE /\ rows[v].status = "absent"
           /\ Exceeds(v, Existing(rows))
           /\ rows' = [rows EXCEPT ![v] = Proposal(v, a)]
  <2>1. \A w \in Versions : w # v => rows'[w] = rows[w]
    BY <1>2 DEF TypeOK
  <2>2. rows'[v].status = "proposal"
    BY <1>2 DEF TypeOK, Proposal, NoRow
  <2>3. Active(rows') = Active(rows)
    BY <1>2, <2>1, <2>2 DEF Active
  <2> QED BY <1>2, <2>1, <2>3
<1>3. CASE /\ rows[v].status = "proposal"
           /\ rows' = [rows EXCEPT ![v] = Accepted(rows[v], a, o)]
  <2>1. \A w \in Versions : w # v => rows'[w] = rows[w]
    BY <1>3 DEF TypeOK
  <2>2. rows'[v].status = "active"
    BY <1>3 DEF TypeOK, Row, Accepted
  <2>3. Active(rows') = Active(rows) \union {v}
    BY <2>1, <2>2 DEF Active
  <2> QED BY <2>1, <2>2, <2>3
<1>4. CASE /\ rows[v].status = "proposal"
           /\ IsPrerelease(v)
           /\ rows[StableOf(v)].status = "absent"
           /\ rows' = [rows EXCEPT ![v].override = o,
                                   ![StableOf(v)] = Promoted(v, rows[v], a, o)]
  <2> DEFINE s == StableOf(v)
  <2>1. s \in Versions /\ s # v
    BY <1>4, VersionsAssumption
  <2>2. \A w \in Versions : w \notin {v, s} => rows'[w] = rows[w]
    BY <1>4, <2>1 DEF TypeOK
  <2>3. rows'[v] = [rows[v] EXCEPT !.override = o]
    BY <1>4, <2>1 DEF TypeOK
  <2>4. rows'[s] = Promoted(v, rows[v], a, o)
    BY <1>4, <2>1 DEF TypeOK
  <2>5. rows'[v].status = "proposal" /\ rows'[s].status = "active"
    BY <1>4, <2>3, <2>4 DEF TypeOK, Row, Promoted
  <2> HIDE DEF s
  <2>6. Active(rows') = Active(rows) \union {s}
    BY <1>4, <2>1, <2>2, <2>5 DEF Active
  <2> QED BY <1>4, <2>1, <2>2, <2>5, <2>6
<1> QED BY <1>1, <1>2, <1>3, <1>4

LatestExists == HasLatest(Active(rows))

LEMMA LatestInit == Init => LatestExists
<1> SUFFICES ASSUME Init PROVE LatestExists
  OBVIOUS
<1>1. Active(rows) = {FirstVersion}
  BY VersionsAssumption DEF Init, InitialRows, NoRow, Active
<1> QED BY <1>1 DEF LatestExists, HasLatest

LEMMA LatestNext ==
  TypeOK /\ Sound /\ LatestExists /\ [Atomic!Next]_<<rows, deleted>> => LatestExists'
<1> SUFFICES ASSUME TypeOK, Sound, LatestExists, Atomic!Next, ~UNCHANGED rows
             PROVE  LatestExists'
  BY DEF LatestExists
<1>1. PICK v \in Versions : Active(rows') \in {Active(rows), Active(rows) \union {v}}
  BY WriteEffects
<1>2. Active(rows) \in SUBSET Version /\ v \in Version
  BY VersionsAssumption DEF Active
<1> QED BY <1>1, <1>2, OneMoreHasLatest DEF LatestExists

\* Every safe state of the ledger has a latest active version.
LEMMA LatestAlways == Spec => [](Sound /\ LatestExists)
BY InitType, NextType, InitLockSeen, LockNext, SeenNext, InitSound, StepsAreAtomic,
   SoundNext, LatestInit, LatestNext, PTL DEF Spec

\* The candidate of an active version is older than that version, and so than the
\* latest active one: never again open.
LEMMA PromotedIsOlder == TypeOK /\ Sound /\ LatestExists => PromotedNotListed
<1> SUFFICES ASSUME TypeOK, Sound, LatestExists, NEW v \in Active(rows),
                    rows[v].promotedFrom # NoPre
             PROVE  ~Newer([v EXCEPT !.pre = rows[v].promotedFrom], LatestActive(rows))
  BY DEF PromotedNotListed, Pending
<1> DEFINE rc == [v EXCEPT !.pre = rows[v].promotedFrom]
           top == LatestActive(rows)
<1>1. v \in Versions /\ ~IsPrerelease(v) /\ Active(rows) \in SUBSET Version
  BY VersionsAssumption DEF Active, Sound, RowInv
<1>2. rc \in Version /\ IsPrerelease(rc) /\ StableOf(rc) = v
  BY <1>1, VersionsAssumption DEF TypeOK, Row, Version, IsPrerelease, StableOf
<1>3. Newer(v, rc) /\ v \in Version
  BY <1>2, StableIsNextTriple
<1>4. top \in Version /\ (top = v \/ Newer(top, v))
  BY <1>1, LatestGrows DEF LatestExists, LatestActive
<1> HIDE DEF rc, top
<1>5. ASSUME Newer(rc, top) PROVE FALSE
  <2>1. Newer(v, top)
    BY <1>2, <1>3, <1>4, <1>5, NewerTransitive
  <2> QED BY <1>3, <1>4, <2>1, NewerTransitive, NewerIrreflexive
<1> QED BY <1>5 DEF rc, top

\* However candidates and stable versions race, a promoted candidate is never
\* offered for acceptance again.
THEOREM PromotedNeverListed == Spec => []PromotedNotListed
<1>1. Spec => []TypeOK
  BY TypeCorrect
<1> QED BY <1>1, LatestAlways, PromotedIsOlder, PTL
-----------------------------------------------------------------------------
ListType ==
  list \in [reading : BOOLEAN, active : Versions, always : SUBSET Versions,
            ever : SUBSET Versions, answer : SUBSET Versions]

\* Between the two statements of a listing: the version read first is active still,
\* what was open throughout would be listed now, and what would be listed now was
\* open at some moment.
WhileReading ==
  list.reading => /\ list.active \in Active(rows)
                  /\ list.always \subseteq Pending(rows)
                  /\ Listed(rows, list.active) \subseteq list.ever

ListInv == ListType /\ WhileReading /\ ListedBetween

\* Whoever is open now is newer than any version that was active before.
LEMMA PendingIsListed ==
  ASSUME TypeOK, LatestExists, NEW a \in Active(rows)
  PROVE  Pending(rows) \subseteq Listed(rows, a)
<1> SUFFICES ASSUME NEW v \in Pending(rows) PROVE v \in Listed(rows, a)
  OBVIOUS
<1>1. Active(rows) \in SUBSET Version /\ v \in Version
  BY VersionsAssumption DEF Active, Pending
<1>2. LatestActive(rows) \in Version /\ (LatestActive(rows) = a \/ Newer(LatestActive(rows), a))
  BY <1>1, LatestGrows DEF LatestExists, LatestActive
<1>3. Newer(v, a)
  BY <1>1, <1>2, NewerTransitive DEF Pending
<1> QED BY <1>3 DEF Pending, Listed

LEMMA ListInitInv == ListInit => ListInv
BY VersionsAssumption DEF ListInit, NoList, ListInv, ListType, WhileReading, ListedBetween

\* A listing that starts reads what is open at that moment.
LEMMA ReadActiveInv ==
  ASSUME TypeOK, LatestExists, ListInv, ReadActive
  PROVE  ListInv'
<1>1. list' = [NoList EXCEPT !.reading = TRUE, !.active = LatestActive(rows),
                             !.always = Pending(rows), !.ever = Pending(rows)]
  BY DEF ReadActive
<1>2. rows' = rows
  BY DEF ReadActive, vars
<1>3. LatestActive(rows) \in Active(rows) /\ Active(rows) \subseteq Versions
  BY LatestIsNewest DEF LatestExists, LatestActive, Active
<1>4. Pending(rows) \subseteq Versions /\ Pending(rows) = Listed(rows, LatestActive(rows))
  BY DEF Pending, Listed
<1>5. /\ list'.reading /\ list'.active = LatestActive(rows)
      /\ list'.always = Pending(rows) /\ list'.ever = Pending(rows)
  BY <1>1 DEF NoList
<1>6. ListType'
  BY <1>1, <1>3, <1>4 DEF ListType, NoList
<1> QED BY <1>2, <1>3, <1>4, <1>5, <1>6 DEF ListInv, WhileReading, ListedBetween

\* The second statement answers between `always` and `ever`.
LEMMA ReadProposalsInv ==
  ASSUME TypeOK, LatestExists, ListInv, ReadProposals
  PROVE  ListInv'
<1>1. list' = [list EXCEPT !.reading = FALSE, !.answer = Listed(rows, list.active)]
  BY DEF ReadProposals
<1>2. Listed(rows, list.active) \in SUBSET Versions
  BY DEF Listed
<1>3. ListType' /\ ~list'.reading
  BY <1>1, <1>2 DEF ListInv, ListType
<1>4. /\ list'.always = list.always /\ list'.ever = list.ever
      /\ list'.answer = Listed(rows, list.active)
  BY <1>1 DEF ListInv, ListType
<1>5. list.always \subseteq Listed(rows, list.active)
  BY PendingIsListed DEF ReadProposals, ListInv, WhileReading
<1>6. Listed(rows, list.active) \subseteq list.ever
  BY DEF ReadProposals, ListInv, WhileReading
<1> QED BY <1>3, <1>4, <1>5, <1>6 DEF ListInv, WhileReading, ListedBetween

\* A write between the two statements keeps the two sets on either side.
LEMMA MeanwhileInv ==
  ASSUME TypeOK, Sound, LatestExists, LatestExists', ListInv, Meanwhile,
         [Atomic!Next]_<<rows, deleted>>
  PROVE  ListInv'
<1>1. Pending(rows') \in SUBSET Versions /\ Active(rows) \in SUBSET Version
  BY VersionsAssumption DEF Pending, Active
<1>2. CASE ~list.reading
  BY <1>2, ListInitInv, VersionsAssumption
     DEF Meanwhile, NoList, ListInv, ListType, WhileReading, ListedBetween
<1>3. CASE list.reading
  <2>1. list' = [list EXCEPT !.always = @ \intersect Pending(rows'),
                             !.ever = @ \union Pending(rows')]
    BY <1>3 DEF Meanwhile
  <2>2. ListType'
    BY <1>1, <2>1 DEF ListInv, ListType
  <2>3. /\ list'.reading /\ list'.active = list.active
        /\ list'.always \subseteq Pending(rows')
        /\ list.ever \subseteq list'.ever /\ Pending(rows') \subseteq list'.ever
    BY <1>3, <2>1 DEF ListInv, ListType
  <2>4. list.active \in Active(rows')
    BY <1>3, WriteEffects DEF ListInv, WhileReading
  <2>5. ASSUME NEW v \in Listed(rows', list.active) PROVE v \in list'.ever
    <3>1. v \in Versions /\ rows'[v].status = "proposal" /\ Newer(v, list.active)
      BY <2>5 DEF Listed
    <3>2. CASE rows[v].status = "proposal"
      BY <1>3, <2>3, <3>1, <3>2 DEF Listed, ListInv, WhileReading
    <3>3. CASE rows[v].status # "proposal"
      <4>1. ~UNCHANGED rows
        BY <3>1, <3>3
      <4>2. Exceeds(v, Existing(rows)) /\ Active(rows') = Active(rows)
        BY <3>1, <3>3, <4>1, WriteEffects
      <4>3. LatestActive(rows') \in Existing(rows)
        BY <4>2, LatestIsNewest DEF LatestExists, LatestActive, Active, Existing
      <4>4. Newer(v, LatestActive(rows'))
        BY <4>2, <4>3 DEF Exceeds
      <4> QED BY <2>3, <3>1, <4>4 DEF Pending
    <3> QED BY <3>2, <3>3
  <2> QED BY <2>2, <2>3, <2>4, <2>5 DEF ListInv, WhileReading, ListedBetween
<1> QED BY <1>2, <1>3

LEMMA ListNextInv ==
  /\ TypeOK /\ LockInv /\ SeenInv /\ Sound /\ LatestExists /\ ListInv
  /\ [ListNext]_allVars
  => ListInv'
<1> SUFFICES ASSUME TypeOK, LockInv, SeenInv, Sound, LatestExists, ListInv,
                    [ListNext]_allVars
             PROVE  ListInv'
  OBVIOUS
<1>1. CASE Meanwhile
  <2>1. [Atomic!Next]_<<rows, deleted>>
    BY <1>1, StepsAreAtomic DEF Meanwhile
  <2>2. LatestExists'
    BY <2>1, LatestNext
  <2> QED BY <1>1, <2>1, <2>2, MeanwhileInv
<1>2. CASE UNCHANGED allVars
  BY <1>2 DEF allVars, vars, ListInv, ListType, WhileReading, ListedBetween
<1> QED BY <1>1, <1>2, ReadActiveInv, ReadProposalsInv DEF ListNext

\* Whatever is proposed, accepted and promoted between the two statements of a
\* listing, it contains every proposal that was open throughout and none that was
\* not open at some moment.
THEOREM ListingBetween == ListSpec => []ListedBetween
<1>1. [ListNext]_allVars => [Next]_vars
  BY DEF ListNext, Meanwhile, ReadActive, ReadProposals, allVars, vars
<1>2. ListInit => Init
  BY DEF ListInit
<1>3. ListInv => ListedBetween
  BY DEF ListInv
<1> QED BY <1>1, <1>2, <1>3, InitType, NextType, InitLockSeen, LockNext, SeenNext,
           InitSound, StepsAreAtomic, SoundNext, LatestInit, LatestNext,
           ListInitInv, ListNextInv, PTL DEF ListSpec
=============================================================================
