----------------------------- MODULE GraphProofs -----------------------------
(***************************************************************************)
(* Graph, for every number of parts, contracts, proposals, slugs, actors   *)
(* and requests under way: what the handlers check again and the rows they *)
(* lock are enough to keep slugs and endpoints sound, however stale a      *)
(* proposal or an unlocked read is, and every deletion is accounted for.   *)
(***************************************************************************)
EXTENDS Graph, AgentGate, TLAPS

Change == Subtypes \union Names \union Shapes \union (End \X End) \union {Nothing}

ProposalRow ==
  [status : {"none", "open", "accepted"},
   kind : {"part_subtype", "part_name", "part_deletion", "contract_subtype",
           "contract_endpoint", "contract_deletion", Nothing},
   target : PartIds \union ContractIds \union {Nothing}, change : Change,
   proposer : OptActor, acceptor : OptActor, override : BOOLEAN, cascade : BOOLEAN]

LoadedRows == UNION {[C -> ContractRow] : C \in SUBSET ContractIds}

TaskRow ==
  [op : {"none", "register", "contract_subtype", "contract_endpoint", "part_deletion"},
   proposal : ProposalIds \union {Nothing},
   target : PartIds \union ContractIds \union {Nothing}, actor : OptActor, flag : BOOLEAN,
   owner : PartIds \union {Nothing}, cp : PartIds \union {Nothing},
   shape : Shapes \union {Nothing}, ownerSubtype : Subtypes \union {Nothing},
   cpSubtype : Subtypes \union {Nothing}, loaded : LoadedRows]

Typed ==
  /\ parts \in [PartIds -> PartRow]
  /\ contracts \in [ContractIds -> ContractRow]
  /\ proposals \in [ProposalIds -> ProposalRow]
  /\ \A q \in ProposalIds :
       /\ proposals[q].status = "none" => proposals[q] = NoProposal
       /\ proposals[q].status # "none" => Suits(proposals[q])
  /\ task \in [Sessions -> TaskRow]

-----------------------------------------------------------------------------
(* Rows *)

Unstamped(row) == row.proposer = NoActor /\ row.acceptor = NoActor /\ row.override = FALSE

\* A live contract has its columns, and none of those of a deletion.
Whole(c) ==
  /\ contracts[c].owner \in PartIds /\ contracts[c].cp \in PartIds
  /\ contracts[c].shape \in Shapes
  /\ Unstamped(contracts[c])

LiveRows == \A c \in ContractIds : LiveContract(c) => Whole(c)

Touches(row, p) == p \in {row.owner, row.cp}

\* A deleted part is the copy of its deletion proposal.
TracedPart(p) ==
  LET cause == proposals[parts[p].cause] IN
    /\ parts[p].cause \in ProposalIds
    /\ cause.status = "accepted" /\ cause.kind = "part_deletion" /\ cause.target = p
    /\ cause.proposer = parts[p].proposer
    /\ cause.acceptor = parts[p].acceptor
    /\ cause.override = parts[p].override
    /\ parts[p].acceptor \in Actors \ Agents /\ parts[p].acceptor # cause.proposer

\* A deleted contract leads to the acceptance that wrote it last.
Proposed(c, row) ==
  \/ proposals[row.cause].proposer = row.proposer
  \/ /\ proposals[row.cause].proposer = NoActor
     /\ \E q \in Takers(c) : proposals[q].proposer = row.proposer

Forced(c, row) ==
  \E q \in Takers(c) : /\ proposals[q].override = row.override
                       /\ q = row.cause \/ proposals[q].target = c

TracedContract(c) ==
  LET row == contracts[c]
      cause == proposals[row.cause] IN
    /\ row.cause \in Takers(c)
    /\ cause.acceptor = row.acceptor
    /\ \/ cause.kind = "contract_deletion"
       \/ cause.target \in {row.owner, row.cp}
       \/ WasMoved(c)
    /\ Proposed(c, row)
    /\ Forced(c, row)
    /\ cause.kind # "contract_deletion" =>
         row.acceptor \in Actors \ Agents /\ row.acceptor # cause.proposer

Traced ==
  /\ \A p \in PartIds : parts[p].state = "deleted" => TracedPart(p)
  /\ \A c \in ContractIds : contracts[c].state = "deleted" => TracedContract(c)

\* ?single_operator=true is refused for the deletion of a part.
Unforced ==
  \A q \in ProposalIds : proposals[q].status = "accepted" /\ proposals[q].kind = "part_deletion"
                           => proposals[q].override = FALSE

-----------------------------------------------------------------------------
(* Requests under way *)

\* The proposal that a request is about to accept stays open while it has the lock.
Holds(t) ==
  /\ t.proposal \in ProposalIds
  /\ proposals[t.proposal].status = "open"
  /\ proposals[t.proposal].kind = t.op
  /\ proposals[t.proposal].target = t.target

Ruled(t) == BothRead(t) => t.cp \in PartIds /\ Admits(t.shape, t.ownerSubtype, t.cpSubtype)

RegisterOK(t) == t.op = "register" => t.owner \in PartIds /\ t.shape \in Shapes /\ Ruled(t)

ShiftOK(t) ==
  t.op \in ShiftOps =>
    /\ t.target \in ContractIds /\ LiveContract(t.target)
    /\ Holds(t)
    /\ t.owner \in PartIds /\ t.cp \in PartIds /\ t.owner # t.cp /\ t.shape \in Shapes
    /\ Ruled(t)
    /\ t.op = "contract_subtype" => /\ t.owner = contracts[t.target].owner
                                    /\ t.cp = contracts[t.target].cp

\* A contract that a cascade has read: it was live, and touches the part unless it
\* has been moved.
ReadOK(t, c) ==
  /\ t.flag
  /\ t.loaded[c].state = "live" /\ Unstamped(t.loaded[c])
  /\ contracts[c].state # "absent"
  /\ Touches(contracts[c], t.target) \/ WasMoved(c)

DeletionOK(t) ==
  t.op = "part_deletion" =>
    /\ t.target \in PartIds /\ LivePart(t.target)
    /\ Holds(t)
    /\ t.actor \in Actors \ Agents /\ t.actor # proposals[t.proposal].proposer
    /\ \A c \in ContractIds :
         LiveContract(c) /\ Touches(contracts[c], t.target) => c \in DOMAIN t.loaded
    /\ \A c \in DOMAIN t.loaded : ReadOK(t, c)

TaskOK(t) == RegisterOK(t) /\ ShiftOK(t) /\ DeletionOK(t)

\* Two requests that want one row lock.
Conflict(t, u) ==
  /\ t.target = u.target
  /\ \/ t.op = "part_deletion" /\ u.op = "part_deletion"
     \/ t.op \in ShiftOps /\ u.op \in ShiftOps

TasksOK == \A s \in Sessions : TaskOK(task[s])
Exclusive == \A s, r \in Sessions : s # r => ~Conflict(task[s], task[r])

GraphInv ==
  /\ Typed /\ LiveRows /\ LiveNamesUnique /\ LiveShapesSound /\ Traced /\ Unforced
  /\ TasksOK /\ Exclusive

-----------------------------------------------------------------------------
(* Steps *)

\* What no step may do to what has been deleted or settled.
Settled ==
  /\ \A p \in PartIds : parts[p].state = "deleted" => parts'[p] = parts[p]
  /\ \A q \in ProposalIds : proposals[q].status = "accepted" => proposals'[q] = proposals[q]
  /\ \A c \in ContractIds : contracts[c].state = "deleted" =>
       /\ contracts'[c].state = "deleted"
       /\ contracts'[c].owner = contracts[c].owner
       /\ contracts'[c].cp = contracts[c].cp
       /\ contracts'[c].shape = contracts[c].shape
       /\ contracts'[c] # contracts[c] =>
            \E s \in Sessions :
              /\ task'[s] # task[s]
              /\ c \in DOMAIN task[s].loaded /\ task[s].loaded[c].state = "live"

\* Where a contract lands, the rule holds of the subtypes there are, or were read.
Lands ==
  \A c \in ContractIds :
    contracts'[c].state = "live" /\ contracts'[c] # contracts[c] =>
      LET row == contracts'[c]
          now == <<parts[row.owner].subtype, parts[row.cp].subtype>> IN
        \/ Admits(row.shape, now[1], now[2])
        \/ \E s \in Sessions :
             /\ task'[s] # task[s]
             /\ <<task[s].owner, task[s].cp, task[s].shape>> = <<row.owner, row.cp, row.shape>>
             /\ <<task[s].ownerSubtype, task[s].cpSubtype>> # now
             /\ Admits(row.shape, task[s].ownerSubtype, task[s].cpSubtype)

\* No deletion of a part leaves a contract on it.
Clears ==
  \A p \in PartIds :
    LivePart(p) /\ parts'[p].state = "deleted"
      => \A c \in ContractIds : contracts'[c].state = "live"
                                  => p \notin {contracts'[c].owner, contracts'[c].cp}

\* What every step keeps and does.
Good == GraphInv' /\ Settled /\ Lands /\ Clears

-----------------------------------------------------------------------------
(* Records *)

LEMMA NoProposalType == NoProposal \in ProposalRow /\ NoProposal.status = "none"
BY DEF NoProposal, ProposalRow, Change, OptActor

LEMMA NewPart ==
  ASSUME NEW name \in Names, NEW subtype \in Subtypes
  PROVE  LET row == [NoPart EXCEPT !.state = "live", !.name = name, !.subtype = subtype]
         IN  /\ row \in PartRow /\ row.state = "live"
             /\ row.name = name /\ row.subtype = subtype
BY DEF NoPart, PartRow, OptActor

\* The copy that a soft delete makes, of a row of either kind.
LEMMA DeletedPart ==
  ASSUME Typed, NEW row \in PartRow, NEW q \in ProposalIds, NEW a \in OptActor, NEW o \in BOOLEAN
  PROVE  /\ Deleted(row, q, a, o) \in PartRow
         /\ Deleted(row, q, a, o).state = "deleted" /\ Deleted(row, q, a, o).cause = q
         /\ Deleted(row, q, a, o).proposer = proposals[q].proposer
         /\ Deleted(row, q, a, o).acceptor = a /\ Deleted(row, q, a, o).override = o
BY DEF Deleted, PartRow, Typed, ProposalRow

LEMMA DeletedContract ==
  ASSUME Typed, NEW row \in ContractRow, NEW q \in ProposalIds, NEW a \in OptActor, NEW o \in BOOLEAN
  PROVE  /\ Deleted(row, q, a, o) \in ContractRow
         /\ Deleted(row, q, a, o).state = "deleted" /\ Deleted(row, q, a, o).cause = q
         /\ Deleted(row, q, a, o).owner = row.owner /\ Deleted(row, q, a, o).cp = row.cp
         /\ Deleted(row, q, a, o).shape = row.shape
         /\ Deleted(row, q, a, o).proposer = proposals[q].proposer
         /\ Deleted(row, q, a, o).acceptor = a /\ Deleted(row, q, a, o).override = o
BY DEF Deleted, ContractRow, Typed, ProposalRow

\* What a cascade writes over a row, when it read one that had no stamps.
LEMMA SweptContract ==
  ASSUME Typed, NEW row \in ContractRow, NEW read, Unstamped(read),
         NEW q \in ProposalIds, NEW a \in Actors
  PROVE  /\ Swept(row, read, q, a) \in ContractRow
         /\ Swept(row, read, q, a).state = "deleted" /\ Swept(row, read, q, a).cause = q
         /\ Swept(row, read, q, a).owner = row.owner /\ Swept(row, read, q, a).cp = row.cp
         /\ Swept(row, read, q, a).shape = row.shape
         /\ Swept(row, read, q, a).proposer = IF proposals[q].proposer = NoActor
                                                THEN row.proposer ELSE proposals[q].proposer
         /\ Swept(row, read, q, a).acceptor = a
         /\ Swept(row, read, q, a).override = row.override
<1>1. a # NoActor /\ a \in OptActor
  BY ActorsAssumption DEF OptActor
<1>2. /\ Written(a, read.acceptor, row.acceptor) = a
      /\ Written(FALSE, read.override, row.override) = row.override
      /\ Written(proposals[q].proposer, read.proposer, row.proposer)
           = IF proposals[q].proposer = NoActor THEN row.proposer ELSE proposals[q].proposer
  BY <1>1 DEF Written, Unstamped
<1>3. Swept(row, read, q, a) =
        [row EXCEPT !.state = "deleted", !.cause = q,
                    !.proposer = IF proposals[q].proposer = NoActor
                                   THEN row.proposer ELSE proposals[q].proposer,
                    !.acceptor = a, !.override = row.override]
  BY <1>2 DEF Swept
<1>4. proposals[q].proposer \in OptActor /\ row.proposer \in OptActor /\ row.override \in BOOLEAN
  BY DEF Typed, ProposalRow, ContractRow
<1>5. QED BY <1>1, <1>3, <1>4 DEF ContractRow

LEMMA NoTaskType ==
  /\ NoTask \in TaskRow /\ NoTask.op = "none"
  /\ TaskOK(NoTask)
  /\ \A u : ~Conflict(NoTask, u) /\ ~Conflict(u, NoTask)
<1>1. NoRows \in LoadedRows
  <2>1. NoRows \in [{} -> ContractRow]
    BY DEF NoRows
  <2>2. QED BY <2>1 DEF LoadedRows
<1>2. NoTask \in TaskRow /\ NoTask.op = "none"
  BY <1>1 DEF NoTask, TaskRow, OptActor
<1>3. QED BY <1>2 DEF TaskOK, RegisterOK, ShiftOK, DeletionOK, ShiftOps, Conflict

\* The touching contracts, as a cascade loads them.
LEMMA LoadedType ==
  ASSUME Typed, NEW p
  PROVE  [c \in Touching(p) |-> contracts[c]] \in LoadedRows
<1>1. Touching(p) \in SUBSET ContractIds
  BY DEF Touching
<1>2. [c \in Touching(p) |-> contracts[c]] \in [Touching(p) -> ContractRow]
  BY <1>1 DEF Typed
<1>3. QED BY <1>1, <1>2 DEF LoadedRows

LEMMA LoadedDomain ==
  ASSUME NEW l \in LoadedRows PROVE DOMAIN l \subseteq ContractIds
BY DEF LoadedRows

\* A proposal is filed in a row that was never used.
LEMMA Filed ==
  ASSUME Typed, NEW kind \in {"part_subtype", "part_name", "part_deletion", "contract_subtype",
                              "contract_endpoint", "contract_deletion"},
         NEW target \in PartIds \union ContractIds, NEW change \in Change, NEW a \in OptActor,
         \A row : row.kind = kind /\ row.target = target /\ row.change = change => Suits(row),
         File(kind, target, change, a), UNCHANGED <<parts, contracts, task>>
  PROVE  /\ Typed'
         /\ \A q \in ProposalIds : proposals[q].status # "none" => proposals'[q] = proposals[q]
         /\ \A q \in ProposalIds : proposals'[q].status = "accepted" => proposals'[q] = proposals[q]
<1>1. PICK q \in ProposalIds :
        /\ proposals[q].status = "none"
        /\ proposals' = [proposals EXCEPT ![q] =
             [NoProposal EXCEPT !.status = "open", !.kind = kind, !.target = target,
                                !.change = change, !.proposer = a]]
  BY DEF File
<1> DEFINE row == [NoProposal EXCEPT !.status = "open", !.kind = kind, !.target = target,
                                     !.change = change, !.proposer = a]
<1>2. /\ row \in ProposalRow /\ row.status = "open"
      /\ row.kind = kind /\ row.target = target /\ row.change = change
  BY DEF NoProposal, ProposalRow, OptActor
<1>3. Suits(row)
  BY <1>2
<1>4. proposals' = [proposals EXCEPT ![q] = row]
  BY <1>1
<1> HIDE DEF row
<1>5. /\ proposals' \in [ProposalIds -> ProposalRow]
      /\ proposals'[q] = row
      /\ \A o \in ProposalIds : o # q => proposals'[o] = proposals[o]
  BY <1>2, <1>4 DEF Typed
<1>6. \A o \in ProposalIds :
        /\ proposals'[o].status = "none" => proposals'[o] = NoProposal
        /\ proposals'[o].status # "none" => Suits(proposals'[o])
  BY <1>2, <1>3, <1>5 DEF Typed
<1>7. Typed'
  BY <1>5, <1>6 DEF Typed, Suits
<1>8. QED
  BY <1>1, <1>2, <1>5, <1>7

\* An acceptance stamps the proposal it is about, and no other.
LEMMA Stamped ==
  ASSUME Typed, NEW q \in ProposalIds, proposals[q].status = "open",
         NEW a \in OptActor, NEW o \in BOOLEAN, NEW cascade \in BOOLEAN, Stamp(q, a, o, cascade)
  PROVE  /\ proposals' \in [ProposalIds -> ProposalRow]
         /\ \A r \in ProposalIds : /\ proposals'[r].status = "none" => proposals'[r] = NoProposal
                                   /\ proposals'[r].status # "none" => Suits(proposals'[r])
         /\ proposals'[q].status = "accepted" /\ proposals'[q].acceptor = a
         /\ proposals'[q].override = o /\ proposals'[q].cascade = cascade
         /\ proposals'[q].kind = proposals[q].kind /\ proposals'[q].target = proposals[q].target
         /\ proposals'[q].proposer = proposals[q].proposer
         /\ \A r \in ProposalIds : r # q => proposals'[r] = proposals[r]
         /\ \A r \in ProposalIds : proposals[r].status = "accepted" => proposals'[r] = proposals[r]
<1>1. /\ proposals' \in [ProposalIds -> ProposalRow]
      /\ proposals'[q].status = "accepted" /\ proposals'[q].acceptor = a
      /\ proposals'[q].override = o /\ proposals'[q].cascade = cascade
      /\ proposals'[q].kind = proposals[q].kind /\ proposals'[q].target = proposals[q].target
      /\ proposals'[q].proposer = proposals[q].proposer /\ proposals'[q].change = proposals[q].change
      /\ \A r \in ProposalIds : r # q => proposals'[r] = proposals[r]
  <2> DEFINE row == [proposals[q] EXCEPT !.status = "accepted", !.acceptor = a,
                                         !.override = o, !.cascade = cascade]
  <2>1. /\ row \in ProposalRow /\ row.status = "accepted" /\ row.acceptor = a
        /\ row.override = o /\ row.cascade = cascade
        /\ row.kind = proposals[q].kind /\ row.target = proposals[q].target
        /\ row.proposer = proposals[q].proposer /\ row.change = proposals[q].change
    BY DEF Typed, ProposalRow
  <2>2. proposals' = [proposals EXCEPT ![q] = row]
    BY DEF Stamp, Typed, ProposalRow
  <2> HIDE DEF row
  <2>3. QED BY <2>1, <2>2 DEF Typed
<1>2. Suits(proposals'[q])
  BY <1>1 DEF Typed, Suits
<1>3. QED
  BY <1>1, <1>2 DEF Typed

-----------------------------------------------------------------------------
(* What holds of a step by what it leaves alone *)

\* Accepted proposals are settled.
Accepted == \A q \in ProposalIds : proposals[q].status = "accepted" => proposals'[q] = proposals[q]

LEMMA TakersGrow ==
  ASSUME Accepted, NEW c
  PROVE  /\ \A q \in Takers(c) : q \in Takers(c)' /\ proposals'[q] = proposals[q]
         /\ WasMoved(c) => WasMoved(c)'
BY DEF Accepted, Takers, WasMoved

LEMMA TracedPartStays ==
  ASSUME Accepted, NEW p, parts'[p] = parts[p], TracedPart(p)
  PROVE  TracedPart(p)'
BY DEF Accepted, TracedPart

LEMMA TracedContractStays ==
  ASSUME Accepted, NEW c, contracts'[c] = contracts[c], TracedContract(c)
  PROVE  TracedContract(c)'
<1>1. /\ \A q \in Takers(c) : q \in Takers(c)' /\ proposals'[q] = proposals[q]
      /\ WasMoved(c) => WasMoved(c)'
  BY TakersGrow
<1>2. /\ contracts[c].cause \in Takers(c) /\ contracts[c].cause \in Takers(c)'
      /\ proposals'[contracts[c].cause] = proposals[contracts[c].cause]
  BY <1>1 DEF TracedContract
<1>3. Proposed(c, contracts[c]) => Proposed(c, contracts[c])'
  BY <1>1, <1>2 DEF Proposed
<1>4. Forced(c, contracts[c]) => Forced(c, contracts[c])'
  BY <1>1, <1>2 DEF Forced
<1>5. Proposed(c, contracts[c])' /\ Forced(c, contracts[c])'
  BY <1>3, <1>4 DEF TracedContract
<1>6. QED BY <1>1, <1>2, <1>5 DEF TracedContract, Proposed, Forced

\* A row that was deleted before stays traced if it and its proposal stay.
LEMMA StaysTraced ==
  ASSUME GraphInv, Accepted,
         \A p \in PartIds : parts'[p].state = "deleted" => parts'[p] = parts[p],
         \A c \in ContractIds : contracts'[c].state = "deleted" => contracts'[c] = contracts[c]
  PROVE  Traced'
<1>1. ASSUME NEW p \in PartIds, parts'[p].state = "deleted" PROVE TracedPart(p)'
  BY <1>1, TracedPartStays DEF GraphInv, Traced
<1>2. ASSUME NEW c \in ContractIds, contracts'[c].state = "deleted" PROVE TracedContract(c)'
  BY <1>2, TracedContractStays DEF GraphInv, Traced
<1>3. QED BY <1>1, <1>2 DEF Traced

\* A request that this step neither concerns nor disturbs.
LEMMA TaskStays ==
  ASSUME GraphInv, Accepted, NEW s \in Sessions, task'[s] = task[s],
         Holds(task[s]) => proposals'[task[s].proposal] = proposals[task[s].proposal],
         task[s].op \in ShiftOps => contracts'[task[s].target] = contracts[task[s].target],
         task[s].op = "part_deletion" =>
           /\ LivePart(task[s].target)'
           /\ \A c \in ContractIds :
                /\ LiveContract(c)' /\ Touches(contracts'[c], task[s].target)
                     => c \in DOMAIN task[s].loaded
                /\ c \in DOMAIN task[s].loaded =>
                     /\ contracts'[c].state # "absent"
                     /\ Touches(contracts'[c], task[s].target) \/ WasMoved(c)'
  PROVE  TaskOK(task[s])'
<1>1. TaskOK(task[s]) /\ DOMAIN task[s].loaded \subseteq ContractIds
  BY LoadedDomain DEF GraphInv, TasksOK, Typed, TaskRow
<1>2. RegisterOK(task[s])'
  BY <1>1 DEF TaskOK, RegisterOK, Ruled, BothRead
<1>3. ShiftOK(task[s])'
  BY <1>1 DEF TaskOK, ShiftOK, Holds, Ruled, BothRead, LiveContract
<1>4. DeletionOK(task[s])'
  <2> SUFFICES ASSUME task[s].op = "part_deletion" PROVE DeletionOK(task[s])'
    BY DEF DeletionOK
  <2>1. DeletionOK(task[s]) /\ Holds(task[s])
    BY <1>1 DEF TaskOK, DeletionOK
  <2>2. \A c \in DOMAIN task[s].loaded : ReadOK(task[s], c)'
    BY <1>1, <2>1 DEF DeletionOK, ReadOK, Unstamped
  <2>3. QED BY <2>1, <2>2 DEF DeletionOK, Holds
<1>5. QED BY <1>2, <1>3, <1>4 DEF TaskOK

\* No request is disturbed by a step that leaves the contracts and what is held.
LEMMA TasksStay ==
  ASSUME GraphInv, Accepted, task' = task, contracts' = contracts,
         \A p \in PartIds : LivePart(p) => LivePart(p)',
         \A s \in Sessions :
           Holds(task[s]) => proposals'[task[s].proposal] = proposals[task[s].proposal]
  PROVE  TasksOK' /\ Exclusive'
<1>1. ASSUME NEW s \in Sessions PROVE TaskOK(task[s])'
  <2>1. TaskOK(task[s]) /\ DOMAIN task[s].loaded \subseteq ContractIds
    BY LoadedDomain DEF GraphInv, TasksOK, Typed, TaskRow
  <2>2. task[s].op = "part_deletion" =>
          /\ LivePart(task[s].target)'
          /\ \A c \in ContractIds :
               /\ LiveContract(c)' /\ Touches(contracts'[c], task[s].target)
                    => c \in DOMAIN task[s].loaded
               /\ c \in DOMAIN task[s].loaded =>
                    /\ contracts'[c].state # "absent"
                    /\ Touches(contracts'[c], task[s].target) \/ WasMoved(c)'
    BY <2>1, TakersGrow DEF TaskOK, DeletionOK, ReadOK, LiveContract
  <2>3. QED BY <2>2, TaskStays
<1>2. QED BY <1>1 DEF TasksOK, Exclusive, Conflict, GraphInv

LEMMA SameParts ==
  ASSUME GraphInv, parts' = parts PROVE LiveNamesUnique' /\ Clears
BY DEF GraphInv, LiveNamesUnique, LivePart, Clears

LEMMA SameContracts ==
  ASSUME GraphInv, contracts' = contracts PROVE LiveShapesSound' /\ LiveRows' /\ Lands
BY DEF GraphInv, LiveShapesSound, LiveRows, Whole, LiveContract, Unclaimed, Lands

\* A step that files a proposal.
LEMMA FiledGood ==
  ASSUME GraphInv, Typed', UNCHANGED <<parts, contracts, task>>,
         \A q \in ProposalIds : proposals[q].status # "none" => proposals'[q] = proposals[q],
         \A q \in ProposalIds : proposals'[q].status = "accepted" => proposals'[q] = proposals[q]
  PROVE  Good
<1>1. Settled /\ Accepted
  BY DEF Settled, Accepted
<1>2. Traced' /\ Unforced'
  BY <1>1, StaysTraced DEF GraphInv, Unforced
<1>3. TasksOK' /\ Exclusive'
  BY <1>1, TasksStay DEF Holds, LivePart
<1>4. QED BY <1>1, <1>2, <1>3, SameParts, SameContracts DEF Good, GraphInv

\* A step that deletes nothing, leaves the contracts, and what requests hold.
LEMMA PartGood ==
  ASSUME GraphInv, Typed', LiveNamesUnique', Accepted, UNCHANGED <<contracts, task>>, Unforced',
         \A p \in PartIds : parts'[p].state = "deleted" => parts'[p] = parts[p],
         \A p \in PartIds : parts[p].state = "deleted" => parts'[p] = parts[p],
         \A p \in PartIds : LivePart(p) => LivePart(p)',
         \A s \in Sessions :
           Holds(task[s]) => proposals'[task[s].proposal] = proposals[task[s].proposal]
  PROVE  Good
<1>1. Traced'
  BY StaysTraced
<1>2. Clears /\ Settled
  BY DEF Clears, LivePart, Settled, Accepted
<1>3. TasksOK' /\ Exclusive'
  BY TasksStay
<1>4. QED BY <1>1, <1>2, <1>3, SameContracts DEF Good, GraphInv

\* A step of one request that commits nothing.
LEMMA TaskGood ==
  ASSUME GraphInv, UNCHANGED <<parts, contracts, proposals>>,
         NEW s \in Sessions, NEW t \in TaskRow, task' = [task EXCEPT ![s] = t], TaskOK(t),
         \A r \in Sessions : r # s => ~Conflict(t, task[r])
  PROVE  Good
<1>1. /\ task' \in [Sessions -> TaskRow] /\ task'[s] = t
      /\ \A r \in Sessions : r # s => task'[r] = task[r]
  BY DEF GraphInv, Typed
<1>2. Typed'
  BY <1>1 DEF GraphInv, Typed, Suits
<1>3. Accepted /\ Settled
  BY DEF Accepted, Settled
<1>4. Traced' /\ Unforced'
  BY <1>3, StaysTraced DEF GraphInv, Unforced
<1>5. TaskOK(t)'
  BY DEF TaskOK, RegisterOK, ShiftOK, DeletionOK, Ruled, BothRead, Holds, ReadOK, Unstamped,
         LiveContract, LivePart, Touches, WasMoved
<1>6. ASSUME NEW r \in Sessions, r # s PROVE TaskOK(task[r])'
  <2>1. TaskOK(task[r])
    BY DEF GraphInv, TasksOK
  <2>2. QED
    BY <1>1, <1>6, <2>1 DEF TaskOK, RegisterOK, ShiftOK, DeletionOK, Ruled, BothRead, Holds,
       ReadOK, Unstamped, LiveContract, LivePart, Touches, WasMoved
<1>7. TasksOK'
  BY <1>1, <1>5, <1>6 DEF TasksOK
<1>8. Exclusive'
  BY <1>1 DEF GraphInv, Exclusive, Conflict
<1>9. QED BY <1>2, <1>3, <1>4, <1>7, <1>8, SameParts, SameContracts DEF Good, GraphInv

\* An acceptance that no deletion of a part is about, and that holds nothing itself.
LEMMA StampedApart ==
  ASSUME GraphInv, NEW q \in ProposalIds, proposals[q].status = "open",
         proposals[q].kind # "part_deletion",
         NEW a \in OptActor, NEW o \in BOOLEAN, Stamp(q, a, o, FALSE)
  PROVE  /\ Accepted /\ Unforced'
         /\ proposals[q].kind \in {"part_subtype", "part_name", "contract_deletion"} =>
              \A s \in Sessions :
                Holds(task[s]) => proposals'[task[s].proposal] = proposals[task[s].proposal]
<1>1. /\ proposals'[q].kind = proposals[q].kind
      /\ \A r \in ProposalIds : r # q => proposals'[r] = proposals[r]
      /\ \A r \in ProposalIds : proposals[r].status = "accepted" => proposals'[r] = proposals[r]
  BY Stamped DEF GraphInv
<1>2. Accepted /\ Unforced'
  BY <1>1 DEF GraphInv, Unforced, Accepted
<1>3. ASSUME proposals[q].kind \in {"part_subtype", "part_name", "contract_deletion"},
             NEW s \in Sessions, Holds(task[s])
      PROVE  proposals'[task[s].proposal] = proposals[task[s].proposal]
  <2>1. task[s].op \notin {"part_subtype", "part_name", "contract_deletion"}
    BY DEF GraphInv, Typed, TaskRow
  <2>2. task[s].proposal # q /\ task[s].proposal \in ProposalIds
    BY <1>3, <2>1 DEF Holds
  <2>3. QED BY <1>1, <2>2
<1>4. QED BY <1>2, <1>3

\* A request that ends leaves no trace among those under way.
LEMMA TaskEnds ==
  ASSUME GraphInv, NEW s \in Sessions, task' = [task EXCEPT ![s] = NoTask],
         \A r \in Sessions : r # s => TaskOK(task[r])'
  PROVE  /\ task' \in [Sessions -> TaskRow] /\ TasksOK' /\ Exclusive'
         /\ task[s].op # "none" => task'[s] # task[s]
<1>1. /\ NoTask \in TaskRow /\ NoTask.op = "none"
      /\ \A u : ~Conflict(NoTask, u) /\ ~Conflict(u, NoTask)
  BY NoTaskType
<1>2. /\ task' \in [Sessions -> TaskRow] /\ task'[s] = NoTask
      /\ \A r \in Sessions : r # s => task'[r] = task[r]
  BY <1>1 DEF GraphInv, Typed
<1>3. TaskOK(NoTask)'
  BY <1>1 DEF TaskOK, RegisterOK, ShiftOK, DeletionOK, ShiftOps
<1>4. TasksOK'
  BY <1>2, <1>3 DEF TasksOK
<1>5. Exclusive'
  BY <1>1, <1>2 DEF GraphInv, Exclusive, Conflict
<1>6. QED BY <1>1, <1>2, <1>4, <1>5

\* A contract that lands where a request has read the subtypes that the rule admits.
LEMMA LandsAsRead ==
  ASSUME NEW s \in Sessions, NEW c \in ContractIds, task'[s] # task[s],
         contracts'[c].owner = task[s].owner, contracts'[c].cp = task[s].cp,
         contracts'[c].shape = task[s].shape,
         Admits(task[s].shape, task[s].ownerSubtype, task[s].cpSubtype),
         \A d \in ContractIds : d # c => contracts'[d] = contracts[d]
  PROVE  Lands
<1> DEFINE now == <<parts[task[s].owner].subtype, parts[task[s].cp].subtype>>
<1>1. CASE <<task[s].ownerSubtype, task[s].cpSubtype>> = now
  <2>1. Admits(contracts'[c].shape, parts[contracts'[c].owner].subtype, parts[contracts'[c].cp].subtype)
    BY <1>1
  <2>2. QED BY <2>1 DEF Lands
<1>2. CASE <<task[s].ownerSubtype, task[s].cpSubtype>> # now
  BY <1>2 DEF Lands
<1>3. QED BY <1>1, <1>2

-----------------------------------------------------------------------------
LEMMA InitOK == Init => GraphInv
<1> SUFFICES ASSUME Init PROVE GraphInv
  OBVIOUS
<1>1. /\ \A p \in PartIds : parts[p] = NoPart
      /\ \A c \in ContractIds : contracts[c] = NoContract
      /\ \A q \in ProposalIds : proposals[q] = NoProposal
      /\ \A s \in Sessions : task[s] = NoTask
  BY DEF Init
<1>2. NoPart \in PartRow /\ NoContract \in ContractRow
  BY DEF NoPart, NoContract, PartRow, ContractRow, OptActor
<1>3. NoPart.state = "absent" /\ NoContract.state = "absent"
  BY DEF NoPart, NoContract
<1>4. Typed
  BY <1>1, <1>2, NoProposalType, NoTaskType DEF Init, Typed
<1>5. TasksOK /\ Exclusive
  BY <1>1, NoTaskType DEF TasksOK, Exclusive
<1>6. Unforced /\ LiveRows
  BY <1>1, <1>3, NoProposalType DEF Unforced, LiveRows, LiveContract
<1>7. QED
  BY <1>1, <1>3, <1>4, <1>5, <1>6
  DEF GraphInv, LiveNamesUnique, LiveShapesSound, LivePart, LiveContract, Traced

LEMMA RegisterPartOK ==
  ASSUME GraphInv, NEW name \in Names, NEW subtype \in Subtypes, RegisterPart(name, subtype)
  PROVE  Good
<1>1. PICK p \in PartIds :
        /\ parts[p].state = "absent"
        /\ parts' = [parts EXCEPT ![p] = [NoPart EXCEPT !.state = "live", !.name = name,
                                                        !.subtype = subtype]]
  BY DEF RegisterPart
<1>2. /\ parts' \in [PartIds -> PartRow]
      /\ parts'[p].state = "live" /\ parts'[p].name = name
      /\ \A o \in PartIds : o # p => parts'[o] = parts[o]
  <2> DEFINE row == [NoPart EXCEPT !.state = "live", !.name = name, !.subtype = subtype]
  <2>1. row \in PartRow /\ row.state = "live" /\ row.name = name
    BY NewPart
  <2>2. parts' = [parts EXCEPT ![p] = row]
    BY <1>1
  <2> HIDE DEF row
  <2>3. QED BY <2>1, <2>2 DEF GraphInv, Typed
<1>3. UNCHANGED <<contracts, proposals, task>> /\ ~Taken(name)
  BY DEF RegisterPart
<1>4. Typed'
  BY <1>2, <1>3 DEF GraphInv, Typed, Suits
<1>5. LiveNamesUnique'
  BY <1>2, <1>3 DEF GraphInv, LiveNamesUnique, LivePart, Taken, Resolves
<1>6. Accepted /\ Unforced'
  BY <1>3 DEF Accepted, GraphInv, Unforced
<1>7. \A r \in PartIds : /\ LivePart(r) => LivePart(r)'
                         /\ parts[r].state = "deleted" => parts'[r] = parts[r]
                         /\ parts'[r].state = "deleted" => parts'[r] = parts[r]
  BY <1>1, <1>2 DEF LivePart
<1>8. QED BY <1>3, <1>4, <1>5, <1>6, <1>7, PartGood

-----------------------------------------------------------------------------
(* Proposals *)

LEMMA ProposeOK ==
  ASSUME GraphInv, NEW kind \in {"part_subtype", "part_name", "part_deletion", "contract_subtype",
                                 "contract_endpoint", "contract_deletion"},
         NEW target \in PartIds \union ContractIds, NEW change \in Change, NEW a \in OptActor,
         \A row : row.kind = kind /\ row.target = target /\ row.change = change => Suits(row),
         File(kind, target, change, a), UNCHANGED <<parts, contracts, task>>
  PROVE  Good
<1>1. /\ Typed'
      /\ \A q \in ProposalIds : proposals[q].status # "none" => proposals'[q] = proposals[q]
      /\ \A q \in ProposalIds : proposals'[q].status = "accepted" => proposals'[q] = proposals[q]
  BY Filed DEF GraphInv
<1>2. QED BY <1>1, FiledGood

LEMMA ProposePartSubtypeShiftOK ==
  ASSUME GraphInv, NEW name \in Names, NEW s \in Subtypes, NEW a \in OptActor,
         ProposePartSubtypeShift(name, s, a)
  PROVE  Good
<1>1. PICK p \in PartIds : File("part_subtype", p, s, a)
  BY DEF ProposePartSubtypeShift
<1>2. s \in Change
  BY DEF Change
<1>3. \A row : row.kind = "part_subtype" /\ row.target = p /\ row.change = s => Suits(row)
  BY DEF Suits
<1>4. QED BY <1>1, <1>2, <1>3, ProposeOK DEF ProposePartSubtypeShift

LEMMA ProposePartNameShiftOK ==
  ASSUME GraphInv, NEW name \in Names, NEW new \in Names, NEW a \in OptActor,
         ProposePartNameShift(name, new, a)
  PROVE  Good
<1>1. PICK p \in PartIds : File("part_name", p, new, a)
  BY DEF ProposePartNameShift
<1>2. new \in Change
  BY DEF Change
<1>3. \A row : row.kind = "part_name" /\ row.target = p /\ row.change = new => Suits(row)
  BY DEF Suits
<1>4. QED BY <1>1, <1>2, <1>3, ProposeOK DEF ProposePartNameShift

LEMMA ProposePartDeletionOK ==
  ASSUME GraphInv, NEW name \in Names, NEW a \in OptActor, ProposePartDeletion(name, a)
  PROVE  Good
<1>1. PICK p \in PartIds : File("part_deletion", p, Nothing, a)
  BY DEF ProposePartDeletion
<1>2. Nothing \in Change
  BY DEF Change
<1>3. \A row : row.kind = "part_deletion" /\ row.target = p /\ row.change = Nothing => Suits(row)
  BY DEF Suits
<1>4. QED BY <1>1, <1>2, <1>3, ProposeOK DEF ProposePartDeletion

LEMMA ProposeContractSubtypeShiftOK ==
  ASSUME GraphInv, NEW c \in ContractIds, NEW shape \in Shapes, NEW a \in OptActor,
         ProposeContractSubtypeShift(c, shape, a)
  PROVE  Good
<1>1. shape \in Change
  BY DEF Change
<1>2. \A row : row.kind = "contract_subtype" /\ row.target = c /\ row.change = shape => Suits(row)
  BY DEF Suits
<1>3. QED BY <1>1, <1>2, ProposeOK DEF ProposeContractSubtypeShift

LEMMA ProposeContractEndpointShiftOK ==
  ASSUME GraphInv, NEW c \in ContractIds, NEW p1 \in PartIds \union {Keep},
         NEW p2 \in PartIds \union {Keep}, NEW a \in OptActor,
         ProposeContractEndpointShift(c, p1, p2, a)
  PROVE  Good
<1>1. <<p1, p2>> \in End \X End
  BY DEF End
<1>2. <<p1, p2>> \in Change
  BY <1>1 DEF Change
<1>3. \A row : row.kind = "contract_endpoint" /\ row.target = c /\ row.change = <<p1, p2>> => Suits(row)
  BY <1>1 DEF Suits
<1>4. QED BY <1>2, <1>3, ProposeOK DEF ProposeContractEndpointShift

LEMMA ProposeContractDeletionOK ==
  ASSUME GraphInv, NEW c \in ContractIds, NEW a \in OptActor, ProposeContractDeletion(c, a)
  PROVE  Good
<1>1. Nothing \in Change
  BY DEF Change
<1>2. \A row : row.kind = "contract_deletion" /\ row.target = c /\ row.change = Nothing => Suits(row)
  BY DEF Suits
<1>3. QED BY <1>1, <1>2, ProposeOK DEF ProposeContractDeletion

-----------------------------------------------------------------------------
(* Acceptances *)

LEMMA AcceptPartSubtypeShiftOK ==
  ASSUME GraphInv, NEW name \in Names, NEW q \in ProposalIds, NEW a \in OptActor, NEW o \in BOOLEAN,
         AcceptPartSubtypeShift(name, q, a, o)
  PROVE  Good
<1>1. PICK p \in PartIds :
        /\ LivePart(p) /\ Acceptable(q, "part_subtype", p, a, o)
        /\ parts' = [parts EXCEPT ![p].subtype = proposals[q].change]
  BY DEF AcceptPartSubtypeShift, LocksPart, Addresses, Resolves
<1>2. proposals[q].change \in Subtypes
  BY <1>1 DEF GraphInv, Typed, Acceptable, Suits
<1>3. /\ parts' \in [PartIds -> PartRow]
      /\ \A r \in PartIds : /\ parts'[r].state = parts[r].state /\ parts'[r].name = parts[r].name
                            /\ r # p => parts'[r] = parts[r]
  BY <1>1, <1>2 DEF GraphInv, Typed, PartRow
<1>4. /\ Stamp(q, a, o, FALSE) /\ UNCHANGED <<contracts, task>>
      /\ proposals[q].status = "open" /\ proposals[q].kind = "part_subtype"
  BY <1>1 DEF AcceptPartSubtypeShift, Acceptable
<1>5. Typed'
  BY <1>3, <1>4, Stamped DEF GraphInv, Typed
<1>6. LiveNamesUnique'
  BY <1>3 DEF GraphInv, LiveNamesUnique, LivePart
<1>7. /\ Accepted /\ Unforced'
      /\ \A s \in Sessions :
           Holds(task[s]) => proposals'[task[s].proposal] = proposals[task[s].proposal]
  BY <1>4, StampedApart
<1>8. \A r \in PartIds : /\ LivePart(r) => LivePart(r)'
                         /\ parts[r].state = "deleted" => parts'[r] = parts[r]
                         /\ parts'[r].state = "deleted" => parts'[r] = parts[r]
  BY <1>1, <1>3 DEF LivePart
<1>9. QED BY <1>4, <1>5, <1>6, <1>7, <1>8, PartGood

LEMMA AcceptPartNameShiftOK ==
  ASSUME GraphInv, NEW name \in Names, NEW q \in ProposalIds, NEW a \in OptActor, NEW o \in BOOLEAN,
         AcceptPartNameShift(name, q, a, o)
  PROVE  Good
<1>1. PICK p \in PartIds :
        /\ LivePart(p) /\ Acceptable(q, "part_name", p, a, o)
        /\ ~Taken(proposals[q].change)
        /\ parts' = [parts EXCEPT ![p].name = proposals[q].change]
  BY DEF AcceptPartNameShift, LocksPart, Addresses, Resolves
<1>2. proposals[q].change \in Names
  BY <1>1 DEF GraphInv, Typed, Acceptable, Suits
<1>3. /\ parts' \in [PartIds -> PartRow]
      /\ parts'[p].name = proposals[q].change /\ parts'[p].state = parts[p].state
      /\ \A r \in PartIds : r # p => parts'[r] = parts[r]
  BY <1>1, <1>2 DEF GraphInv, Typed, PartRow
<1>4. /\ Stamp(q, a, o, FALSE) /\ UNCHANGED <<contracts, task>>
      /\ proposals[q].status = "open" /\ proposals[q].kind = "part_name"
  BY <1>1 DEF AcceptPartNameShift, Acceptable
<1>5. Typed'
  BY <1>3, <1>4, Stamped DEF GraphInv, Typed
<1>6. \A r \in PartIds : LivePart(r) => parts[r].name # proposals[q].change
  BY <1>1 DEF Taken, Resolves
<1>7. LiveNamesUnique'
  BY <1>3, <1>6 DEF GraphInv, LiveNamesUnique, LivePart
<1>8. /\ Accepted /\ Unforced'
      /\ \A s \in Sessions :
           Holds(task[s]) => proposals'[task[s].proposal] = proposals[task[s].proposal]
  BY <1>4, StampedApart
<1>9. \A r \in PartIds : /\ LivePart(r) => LivePart(r)'
                         /\ parts[r].state = "deleted" => parts'[r] = parts[r]
                         /\ parts'[r].state = "deleted" => parts'[r] = parts[r]
  BY <1>1, <1>3 DEF LivePart
<1>10. QED BY <1>4, <1>5, <1>7, <1>8, <1>9, PartGood

\* Only a known human who is not the proposer confirms a part deletion.
LEMMA ConfirmedByHuman ==
  ASSUME NEW a \in OptActor, NEW b \in OptActor, HumanConfirmed(a, Agents), TwoParty(b, a, FALSE)
  PROVE  a \in Actors \ Agents /\ a # b
BY DEF HumanConfirmed, TwoParty, OptActor
\* What is read of a part's subtype.
LEMMA SubtypeType ==
  ASSUME GraphInv, NEW p \in PartIds PROVE parts[p].subtype \in Subtypes \union {Nothing}
BY DEF GraphInv, Typed, PartRow

LEMMA AbandonOK ==
  ASSUME GraphInv, NEW s \in Sessions, Abandon(s) PROVE Good
<1>1. NoTask \in TaskRow /\ TaskOK(NoTask) /\ \A u : ~Conflict(NoTask, u)
  BY NoTaskType
<1>2. QED BY <1>1, TaskGood DEF Abandon

LEMMA AcceptPartDeletionOK ==
  ASSUME GraphInv, NEW s \in Sessions, NEW name \in Names, NEW q \in ProposalIds,
         NEW a \in OptActor, NEW cascade \in BOOLEAN, AcceptPartDeletion(s, name, q, a, cascade)
  PROVE  Good
<1>1. PICK p \in PartIds :
        /\ LivePart(p) /\ ~Deleting(p) /\ Acceptable(q, "part_deletion", p, a, FALSE)
        /\ Touching(p) # {} => cascade
        /\ task' = [task EXCEPT ![s] =
             [NoTask EXCEPT !.op = "part_deletion", !.proposal = q, !.target = p, !.actor = a,
                            !.flag = cascade, !.loaded = [c \in Touching(p) |-> contracts[c]]]]
  BY DEF AcceptPartDeletion, LocksPart, Addresses, Resolves
<1> DEFINE loaded == [c \in Touching(p) |-> contracts[c]]
           t == [NoTask EXCEPT !.op = "part_deletion", !.proposal = q, !.target = p, !.actor = a,
                               !.flag = cascade, !.loaded = loaded]
<1>2. loaded \in LoadedRows
  BY LoadedType DEF GraphInv
<1>3. /\ DOMAIN loaded = Touching(p)
      /\ \A c \in Touching(p) : loaded[c] = contracts[c]
  OBVIOUS
<1> HIDE DEF loaded
<1>4. /\ t \in TaskRow /\ t.op = "part_deletion" /\ t.proposal = q /\ t.target = p
      /\ t.actor = a /\ t.flag = cascade /\ t.loaded = loaded
  BY <1>2, NoTaskType DEF NoTask, TaskRow
<1>5. task' = [task EXCEPT ![s] = t]
  BY <1>1 DEF loaded
<1> HIDE DEF t
<1>6. /\ proposals[q].status = "open" /\ proposals[q].kind = "part_deletion"
      /\ proposals[q].target = p /\ TwoParty(proposals[q].proposer, a, FALSE)
      /\ proposals[q].proposer \in OptActor
  BY <1>1 DEF Acceptable, GraphInv, Typed, ProposalRow
<1>7. a \in Actors \ Agents /\ a # proposals[q].proposer
  BY <1>6, ConfirmedByHuman DEF AcceptPartDeletion
<1>8. ASSUME NEW c \in Touching(p) PROVE ReadOK(t, c)
  <2>1. c \in ContractIds /\ LiveContract(c) /\ Touches(contracts[c], p)
    BY DEF Touching, Touches
  <2>2. Unstamped(contracts[c])
    BY <2>1 DEF GraphInv, LiveRows, Whole
  <2>3. QED BY <1>1, <1>3, <1>4, <2>1, <2>2 DEF ReadOK, LiveContract
<1>9. DeletionOK(t)
  BY <1>1, <1>3, <1>4, <1>6, <1>7, <1>8 DEF DeletionOK, Holds, Touching, Touches
<1>10. TaskOK(t)
  BY <1>4, <1>9 DEF TaskOK, RegisterOK, ShiftOK, ShiftOps
<1>11. \A r \in Sessions : r # s => ~Conflict(t, task[r])
  BY <1>1, <1>4 DEF Conflict, Deleting, ShiftOps
<1>12. QED BY <1>4, <1>5, <1>10, <1>11, TaskGood DEF AcceptPartDeletion

LEMMA RegisterContractOK ==
  ASSUME GraphInv, NEW s \in Sessions, NEW owner \in PartIds, NEW shape \in Shapes,
         RegisterContract(s, owner, shape)
  PROVE  Good
<1> DEFINE t == [NoTask EXCEPT !.op = "register", !.owner = owner, !.shape = shape,
                               !.ownerSubtype = parts[owner].subtype]
<1>1. /\ t \in TaskRow /\ t.op = "register" /\ t.owner = owner /\ t.shape = shape
      /\ t.cpSubtype = Nothing
  BY NoTaskType, SubtypeType DEF NoTask, TaskRow
<1>2. task' = [task EXCEPT ![s] = t] /\ UNCHANGED <<parts, contracts, proposals>>
  BY DEF RegisterContract
<1> HIDE DEF t
<1>3. TaskOK(t)
  BY <1>1 DEF TaskOK, RegisterOK, ShiftOK, DeletionOK, ShiftOps, Ruled, BothRead
<1>4. \A u : ~Conflict(t, u)
  BY <1>1 DEF Conflict, ShiftOps
<1>5. QED BY <1>1, <1>2, <1>3, <1>4, TaskGood

LEMMA ResolveCounterpartyOK ==
  ASSUME GraphInv, NEW s \in Sessions, NEW cp \in PartIds, ResolveCounterparty(s, cp)
  PROVE  Good
<1> DEFINE t == [task[s] EXCEPT !.cp = cp, !.cpSubtype = parts[cp].subtype]
<1>1. task[s] \in TaskRow /\ task[s].op = "register" /\ RegisterOK(task[s])
  BY DEF ResolveCounterparty, GraphInv, Typed, TasksOK, TaskOK
<1>2. /\ t \in TaskRow /\ t.op = "register" /\ t.owner = task[s].owner
      /\ t.shape = task[s].shape /\ t.cp = cp
  BY <1>1, SubtypeType DEF TaskRow
<1>3. task' = [task EXCEPT ![s] = t] /\ UNCHANGED <<parts, contracts, proposals>> /\ Check(t)
  BY DEF ResolveCounterparty
<1> HIDE DEF t
<1>4. TaskOK(t)
  BY <1>1, <1>2, <1>3 DEF TaskOK, RegisterOK, ShiftOK, DeletionOK, ShiftOps, Ruled, Check
<1>5. \A u : ~Conflict(t, u)
  BY <1>2 DEF Conflict, ShiftOps
<1>6. QED BY <1>2, <1>3, <1>4, <1>5, TaskGood

LEMMA AcceptContractSubtypeShiftOK ==
  ASSUME GraphInv, NEW s \in Sessions, NEW c \in ContractIds, NEW q \in ProposalIds,
         NEW a \in OptActor, NEW o \in BOOLEAN, AcceptContractSubtypeShift(s, c, q, a, o)
  PROVE  Good
<1> DEFINE t == [NoTask EXCEPT !.op = "contract_subtype", !.proposal = q, !.target = c, !.actor = a,
                      !.flag = o, !.owner = contracts[c].owner, !.cp = contracts[c].cp,
                      !.shape = proposals[q].change,
                      !.ownerSubtype = parts[contracts[c].owner].subtype]
<1>1. /\ LiveContract(c) /\ ~Shifting(c) /\ proposals[q].status = "open"
      /\ proposals[q].kind = "contract_subtype" /\ proposals[q].target = c
  BY DEF AcceptContractSubtypeShift, LocksContract, Acceptable
<1>2. /\ contracts[c].owner \in PartIds /\ contracts[c].cp \in PartIds
      /\ contracts[c].owner # contracts[c].cp
  BY <1>1 DEF GraphInv, LiveRows, Whole, LiveShapesSound
<1>3. proposals[q].change \in Shapes
  BY <1>1 DEF GraphInv, Typed, Suits
<1>4. /\ t \in TaskRow /\ t.op = "contract_subtype" /\ t.proposal = q /\ t.target = c
      /\ t.owner = contracts[c].owner /\ t.cp = contracts[c].cp
      /\ t.shape = proposals[q].change /\ t.cpSubtype = Nothing
  BY <1>2, <1>3, NoTaskType, SubtypeType DEF NoTask, TaskRow
<1>5. task' = [task EXCEPT ![s] = t] /\ UNCHANGED <<parts, contracts, proposals>>
  BY DEF AcceptContractSubtypeShift
<1> HIDE DEF t
<1>6. ShiftOK(t)
  BY <1>1, <1>2, <1>3, <1>4 DEF ShiftOK, Holds, Ruled, BothRead
<1>7. TaskOK(t)
  BY <1>4, <1>6 DEF TaskOK, RegisterOK, DeletionOK
<1>8. \A r \in Sessions : r # s => ~Conflict(t, task[r])
  BY <1>1, <1>4 DEF Conflict, Shifting
<1>9. QED BY <1>4, <1>5, <1>7, <1>8, TaskGood

LEMMA AcceptContractEndpointShiftOK ==
  ASSUME GraphInv, NEW s \in Sessions, NEW c \in ContractIds, NEW q \in ProposalIds,
         NEW a \in OptActor, NEW o \in BOOLEAN, AcceptContractEndpointShift(s, c, q, a, o)
  PROVE  Good
<1> DEFINE owner == Moved(contracts[c].owner, proposals[q].change[1])
           cp == Moved(contracts[c].cp, proposals[q].change[2])
           base == [NoTask EXCEPT !.op = "contract_endpoint", !.proposal = q, !.target = c,
                             !.actor = a, !.flag = o, !.owner = owner, !.cp = cp,
                             !.shape = contracts[c].shape]
           t == IF proposals[q].change[1] # Keep
                  THEN [base EXCEPT !.ownerSubtype = parts[owner].subtype]
                  ELSE [base EXCEPT !.cpSubtype = parts[cp].subtype]
<1>1. /\ LiveContract(c) /\ ~Shifting(c) /\ proposals[q].status = "open"
      /\ proposals[q].kind = "contract_endpoint" /\ proposals[q].target = c
  BY DEF AcceptContractEndpointShift, LocksContract, Acceptable
<1>2. proposals[q].change \in End \X End
  BY <1>1 DEF GraphInv, Typed, Suits
<1>3. contracts[c].owner \in PartIds /\ contracts[c].cp \in PartIds /\ contracts[c].shape \in Shapes
  BY <1>1 DEF GraphInv, LiveRows, Whole
<1>4. owner \in PartIds /\ cp \in PartIds
  BY <1>2, <1>3 DEF Moved, End
<1>5. /\ owner # cp /\ task' = [task EXCEPT ![s] = t] /\ UNCHANGED <<parts, contracts, proposals>>
  BY DEF AcceptContractEndpointShift, Moves
<1> HIDE DEF owner, cp
<1>6. /\ base \in TaskRow /\ base.op = "contract_endpoint" /\ base.proposal = q
      /\ base.target = c /\ base.owner = owner /\ base.cp = cp
      /\ base.shape = contracts[c].shape
      /\ base.ownerSubtype = Nothing /\ base.cpSubtype = Nothing
  BY <1>3, <1>4, NoTaskType DEF NoTask, TaskRow
<1> HIDE DEF base
<1>7. /\ parts[owner].subtype \in Subtypes \union {Nothing}
      /\ parts[cp].subtype \in Subtypes \union {Nothing}
  BY <1>4, SubtypeType
<1>8. /\ t \in TaskRow /\ t.op = "contract_endpoint" /\ t.proposal = q /\ t.target = c
      /\ t.owner = owner /\ t.cp = cp /\ t.shape = contracts[c].shape
      /\ ~BothRead(t)
  BY <1>6, <1>7 DEF TaskRow, BothRead
<1> HIDE DEF t
<1>9. ShiftOK(t)
  BY <1>1, <1>3, <1>4, <1>5, <1>8 DEF ShiftOK, Holds, Ruled
<1>10. TaskOK(t)
  BY <1>8, <1>9 DEF TaskOK, RegisterOK, DeletionOK
<1>11. \A r \in Sessions : r # s => ~Conflict(t, task[r])
  BY <1>1, <1>8 DEF Conflict, Shifting
<1>12. QED BY <1>5, <1>8, <1>10, <1>11, TaskGood

LEMMA ReadOtherEndOK ==
  ASSUME GraphInv, NEW s \in Sessions, ReadOtherEnd(s)
  PROVE  Good
<1> DEFINE t == IF task[s].ownerSubtype = Nothing
                  THEN [task[s] EXCEPT !.ownerSubtype = parts[task[s].owner].subtype]
                  ELSE [task[s] EXCEPT !.cpSubtype = parts[task[s].cp].subtype]
<1>1. task[s] \in TaskRow /\ task[s].op \in ShiftOps /\ ShiftOK(task[s])
  BY DEF ReadOtherEnd, GraphInv, Typed, TasksOK, TaskOK
<1>2. /\ task[s].owner \in PartIds /\ task[s].cp \in PartIds
      /\ parts[task[s].owner].subtype \in Subtypes \union {Nothing}
      /\ parts[task[s].cp].subtype \in Subtypes \union {Nothing}
  BY <1>1, SubtypeType DEF ShiftOK
<1>3. /\ t \in TaskRow /\ t.op = task[s].op /\ t.proposal = task[s].proposal
      /\ t.target = task[s].target /\ t.owner = task[s].owner /\ t.cp = task[s].cp
      /\ t.shape = task[s].shape
  BY <1>1, <1>2 DEF TaskRow
<1>4. task' = [task EXCEPT ![s] = t] /\ UNCHANGED <<parts, contracts, proposals>> /\ Check(t)
  BY DEF ReadOtherEnd
<1> HIDE DEF t
<1>5. ShiftOK(t)
  BY <1>1, <1>3, <1>4 DEF ShiftOK, Holds, Ruled, Check
<1>6. TaskOK(t)
  BY <1>1, <1>3, <1>5 DEF TaskOK, RegisterOK, DeletionOK, ShiftOps
<1>7. \A r \in Sessions : r # s => ~Conflict(t, task[r])
  BY <1>3 DEF GraphInv, Exclusive, Conflict
<1>8. QED BY <1>3, <1>4, <1>6, <1>7, TaskGood

-----------------------------------------------------------------------------
(* Requests that commit *)

\* A step that deletes nothing, and leaves the parts.
LEMMA ContractGood ==
  ASSUME GraphInv, Typed', LiveRows', LiveShapesSound', Lands, Accepted, Unforced',
         TasksOK', Exclusive', parts' = parts,
         \A c \in ContractIds : contracts'[c].state = "deleted" => contracts'[c] = contracts[c],
         \A c \in ContractIds : contracts[c].state = "deleted" => contracts'[c] = contracts[c]
  PROVE  Good
<1>1. Traced'
  BY StaysTraced
<1>2. Settled
  BY DEF Settled, Accepted
<1>3. QED BY <1>1, <1>2, SameParts DEF Good, GraphInv

LEMMA LandContractOK ==
  ASSUME GraphInv, NEW s \in Sessions, LandContract(s)
  PROVE  Good
<1> DEFINE t == task[s]
<1>1. /\ t \in TaskRow /\ t.op = "register" /\ t.owner \in PartIds /\ t.cp \in PartIds
      /\ t.shape \in Shapes /\ Admits(t.shape, t.ownerSubtype, t.cpSubtype)
  BY DEF LandContract, GraphInv, Typed, TasksOK, TaskOK, RegisterOK, Ruled
<1>2. /\ ~Deleting(t.owner) /\ ~Deleting(t.cp) /\ t.owner # t.cp
      /\ Unclaimed(t.owner, t.cp, t.shape, {})
      /\ task' = [task EXCEPT ![s] = NoTask] /\ UNCHANGED <<parts, proposals>>
  BY DEF LandContract, IndexAdmits
<1>3. PICK c \in ContractIds :
        /\ contracts[c].state = "absent"
        /\ contracts' = [contracts EXCEPT ![c] =
             [NoContract EXCEPT !.state = "live", !.owner = t.owner, !.cp = t.cp,
                                !.shape = t.shape]]
  BY DEF LandContract
<1> HIDE DEF t
<1>4. /\ contracts' \in [ContractIds -> ContractRow]
      /\ contracts'[c].state = "live" /\ contracts'[c].shape = t.shape
      /\ contracts'[c].owner = t.owner /\ contracts'[c].cp = t.cp /\ Unstamped(contracts'[c])
      /\ \A d \in ContractIds : d # c => contracts'[d] = contracts[d]
  <2> DEFINE row == [NoContract EXCEPT !.state = "live", !.owner = t.owner, !.cp = t.cp,
                                       !.shape = t.shape]
  <2>1. /\ row \in ContractRow /\ row.state = "live" /\ row.shape = t.shape
        /\ row.owner = t.owner /\ row.cp = t.cp /\ Unstamped(row)
    BY <1>1 DEF NoContract, ContractRow, OptActor, Unstamped
  <2>2. contracts' = [contracts EXCEPT ![c] = row]
    BY <1>3
  <2> HIDE DEF row
  <2>3. QED BY <2>1, <2>2 DEF GraphInv, Typed
<1>5. Accepted /\ Unforced'
  BY <1>2 DEF Accepted, GraphInv, Unforced
<1>6. ASSUME NEW r \in Sessions, r # s PROVE TaskOK(task[r])'
  <2>1. task'[r] = task[r] /\ TaskOK(task[r])
    BY <1>2, <1>6 DEF GraphInv, Typed, TasksOK
  <2>2. task[r].op \in ShiftOps => contracts'[task[r].target] = contracts[task[r].target]
    BY <1>3, <1>4, <2>1 DEF TaskOK, ShiftOK, LiveContract
  <2>3. ASSUME task[r].op = "part_deletion"
        PROVE  /\ LivePart(task[r].target)'
               /\ \A d \in ContractIds :
                    /\ LiveContract(d)' /\ Touches(contracts'[d], task[r].target)
                         => d \in DOMAIN task[r].loaded
                    /\ d \in DOMAIN task[r].loaded =>
                         /\ contracts'[d].state # "absent"
                         /\ Touches(contracts'[d], task[r].target) \/ WasMoved(d)'
    <3>1. DeletionOK(task[r]) /\ LivePart(task[r].target)'
      BY <1>2, <2>1, <2>3 DEF TaskOK, DeletionOK, LivePart
    <3>2. task[r].target \notin {t.owner, t.cp}
      BY <1>2, <2>3 DEF Deleting
    <3>3. c \notin DOMAIN task[r].loaded
      BY <1>3, <2>3, <3>1 DEF DeletionOK, ReadOK
    <3>4. \A d \in ContractIds : WasMoved(d) => WasMoved(d)'
      BY <1>5, TakersGrow
    <3>5. QED BY <1>4, <2>3, <3>1, <3>2, <3>3, <3>4 DEF DeletionOK, ReadOK, Touches, LiveContract
  <2>4. QED BY <1>2, <1>5, <2>1, <2>2, <2>3, TaskStays DEF Holds
<1>7. /\ task' \in [Sessions -> TaskRow] /\ TasksOK' /\ Exclusive' /\ task'[s] # task[s]
  BY <1>1, <1>2, <1>6, TaskEnds DEF t
<1>8. Typed'
  BY <1>2, <1>4, <1>7 DEF GraphInv, Typed, Suits
<1>9. LiveRows' /\ LiveShapesSound'
  BY <1>1, <1>2, <1>4 DEF GraphInv, LiveRows, Whole, LiveShapesSound, LiveContract, Unclaimed
<1>10. Lands
  BY <1>1, <1>4, <1>7, LandsAsRead DEF t
<1>11. \A d \in ContractIds :
         contracts'[d].state = "deleted" \/ contracts[d].state = "deleted"
           => contracts'[d] = contracts[d]
  BY <1>3, <1>4
<1>12. QED BY <1>2, <1>5, <1>7, <1>8, <1>9, <1>10, <1>11, ContractGood

LEMMA LandShiftOK ==
  ASSUME GraphInv, NEW s \in Sessions, LandShift(s)
  PROVE  Good
<1>0. PICK t, c, q : t = task[s] /\ c = t.target /\ q = t.proposal
  OBVIOUS
<1>00. PICK no \in BOOLEAN : no = FALSE
  OBVIOUS
<1>1. /\ t \in TaskRow /\ t.op \in ShiftOps /\ c \in ContractIds /\ LiveContract(c)
      /\ Holds(t) /\ t.owner \in PartIds /\ t.cp \in PartIds /\ t.owner # t.cp
      /\ t.shape \in Shapes /\ Admits(t.shape, t.ownerSubtype, t.cpSubtype)
      /\ t.op = "contract_subtype" => t.owner = contracts[c].owner /\ t.cp = contracts[c].cp
      /\ t.actor \in OptActor /\ t.flag \in BOOLEAN
  BY <1>0 DEF LandShift, GraphInv, Typed, TasksOK, TaskOK, ShiftOK, Ruled, TaskRow
<1>2. /\ q \in ProposalIds /\ proposals[q].status = "open" /\ proposals[q].kind = t.op
      /\ proposals[q].target = c
  BY <1>0, <1>1 DEF Holds
<1>3. /\ t.owner # contracts[c].owner => ~Deleting(t.owner)
      /\ t.cp # contracts[c].cp => ~Deleting(t.cp)
      /\ Unclaimed(t.owner, t.cp, t.shape, {c})
      /\ contracts' = [contracts EXCEPT ![c].owner = t.owner, ![c].cp = t.cp, ![c].shape = t.shape]
      /\ Stamp(q, t.actor, t.flag, no)
      /\ task' = [task EXCEPT ![s] = NoTask] /\ parts' = parts
  BY <1>0, <1>00 DEF LandShift, IndexAdmits
<1>4. /\ contracts' \in [ContractIds -> ContractRow]
      /\ contracts'[c].state = "live" /\ contracts'[c].shape = t.shape
      /\ contracts'[c].owner = t.owner /\ contracts'[c].cp = t.cp /\ Unstamped(contracts'[c])
      /\ \A d \in ContractIds : d # c => contracts'[d] = contracts[d]
  <2> DEFINE row == [contracts[c] EXCEPT !.owner = t.owner, !.cp = t.cp, !.shape = t.shape]
  <2>1. contracts[c] \in ContractRow /\ contracts[c].state = "live" /\ Unstamped(contracts[c])
    BY <1>1 DEF GraphInv, Typed, LiveRows, Whole, LiveContract
  <2>2. /\ row \in ContractRow /\ row.state = "live" /\ row.shape = t.shape
        /\ row.owner = t.owner /\ row.cp = t.cp /\ Unstamped(row)
    BY <1>1, <2>1 DEF ContractRow, Unstamped
  <2>3. contracts' = [contracts EXCEPT ![c] = row]
    BY <1>1, <1>3 DEF GraphInv, Typed, ContractRow
  <2> HIDE DEF row
  <2>4. QED BY <1>1, <2>2, <2>3 DEF GraphInv, Typed
<1>5. /\ proposals' \in [ProposalIds -> ProposalRow]
      /\ \A r \in ProposalIds : /\ proposals'[r].status = "none" => proposals'[r] = NoProposal
                                /\ proposals'[r].status # "none" => Suits(proposals'[r])
      /\ proposals'[q].status = "accepted" /\ proposals'[q].kind = t.op /\ proposals'[q].target = c
      /\ \A r \in ProposalIds : r # q => proposals'[r] = proposals[r]
  <2>1. Typed
    BY DEF GraphInv
  <2>2. QED BY <1>1, <1>2, <1>3, <2>1, Stamped
<1>6. Accepted /\ Unforced'
  BY <1>00, <1>1, <1>2, <1>3, StampedApart DEF ShiftOps
<1>7. \A d \in ContractIds : WasMoved(d) => WasMoved(d)'
  BY <1>6, TakersGrow
<1>8. t.op = "contract_endpoint" => WasMoved(c)'
  BY <1>2, <1>5 DEF WasMoved
<1>9. ASSUME NEW r \in Sessions, r # s PROVE TaskOK(task[r])'
  <2>1. task'[r] = task[r] /\ TaskOK(task[r]) /\ ~Conflict(task[s], task[r])
    BY <1>3, <1>9 DEF GraphInv, Typed, TasksOK, Exclusive
  <2>2. Holds(task[r]) => task[r].proposal # q /\ task[r].proposal \in ProposalIds
    BY <1>0, <1>1, <1>2, <2>1 DEF Holds, Conflict
  <2>3. task[r].op \in ShiftOps => contracts'[task[r].target] = contracts[task[r].target]
    BY <1>0, <1>1, <1>4, <2>1 DEF TaskOK, ShiftOK, Conflict
  <2>4. ASSUME task[r].op = "part_deletion"
        PROVE  /\ LivePart(task[r].target)'
               /\ \A d \in ContractIds :
                    /\ LiveContract(d)' /\ Touches(contracts'[d], task[r].target)
                         => d \in DOMAIN task[r].loaded
                    /\ d \in DOMAIN task[r].loaded =>
                         /\ contracts'[d].state # "absent"
                         /\ Touches(contracts'[d], task[r].target) \/ WasMoved(d)'
    <3>1. DeletionOK(task[r]) /\ LivePart(task[r].target)'
      BY <1>3, <2>1, <2>4 DEF TaskOK, DeletionOK, LivePart
    <3>2. Deleting(task[r].target)
      BY <2>4 DEF Deleting
    <3>3. Touches(contracts'[c], task[r].target) => Touches(contracts[c], task[r].target)
      BY <1>3, <1>4, <3>2 DEF Touches
    <3>4. c \in DOMAIN task[r].loaded =>
            Touches(contracts'[c], task[r].target) \/ WasMoved(c)'
      BY <1>1, <1>4, <1>7, <1>8, <2>4, <3>1 DEF DeletionOK, ReadOK, Touches, ShiftOps
    <3>5. QED
      BY <1>1, <1>4, <1>7, <2>4, <3>1, <3>3, <3>4 DEF DeletionOK, ReadOK, LiveContract
  <2>5. QED BY <1>5, <1>6, <2>1, <2>2, <2>3, <2>4, TaskStays
<1>10. /\ task' \in [Sessions -> TaskRow] /\ TasksOK' /\ Exclusive' /\ task'[s] # task[s]
  BY <1>0, <1>1, <1>3, <1>9, TaskEnds DEF ShiftOps
<1>11. Typed'
  BY <1>3, <1>4, <1>5, <1>10 DEF GraphInv, Typed
<1>12. LiveRows' /\ LiveShapesSound'
  BY <1>1, <1>3, <1>4 DEF GraphInv, LiveRows, Whole, LiveShapesSound, LiveContract, Unclaimed
<1>13. Lands
  BY <1>0, <1>1, <1>4, <1>10, LandsAsRead
<1>14. \A d \in ContractIds :
         contracts'[d].state = "deleted" \/ contracts[d].state = "deleted"
           => contracts'[d] = contracts[d]
  BY <1>1, <1>4 DEF LiveContract
<1>15. QED BY <1>3, <1>6, <1>10, <1>11, <1>12, <1>13, <1>14, ContractGood

LEMMA AcceptContractDeletionOK ==
  ASSUME GraphInv, NEW c \in ContractIds, NEW q \in ProposalIds, NEW a \in OptActor,
         NEW o \in BOOLEAN, AcceptContractDeletion(c, q, a, o)
  PROVE  Good
<1>0. PICK no \in BOOLEAN : no = FALSE
  OBVIOUS
<1>1. /\ LiveContract(c) /\ ~Shifting(c)
      /\ proposals[q].status = "open" /\ proposals[q].kind = "contract_deletion"
      /\ proposals[q].target = c
      /\ contracts' = [contracts EXCEPT ![c] = Deleted(contracts[c], q, a, o)]
      /\ Stamp(q, a, o, no) /\ UNCHANGED <<parts, task>>
  BY <1>0 DEF AcceptContractDeletion, LocksContract, Acceptable
<1>2. /\ contracts' \in [ContractIds -> ContractRow]
      /\ contracts'[c].state = "deleted" /\ contracts'[c].cause = q
      /\ contracts'[c].proposer = proposals[q].proposer /\ contracts'[c].acceptor = a
      /\ contracts'[c].owner = contracts[c].owner /\ contracts'[c].cp = contracts[c].cp
      /\ contracts'[c].override = o
      /\ \A d \in ContractIds : d # c => contracts'[d] = contracts[d]
  BY <1>1, DeletedContract DEF GraphInv, Typed
<1>3. /\ proposals' \in [ProposalIds -> ProposalRow]
      /\ \A r \in ProposalIds : /\ proposals'[r].status = "none" => proposals'[r] = NoProposal
                                /\ proposals'[r].status # "none" => Suits(proposals'[r])
      /\ proposals'[q].status = "accepted" /\ proposals'[q].proposer = proposals[q].proposer
      /\ proposals'[q].acceptor = a /\ proposals'[q].override = o
      /\ proposals'[q].kind = "contract_deletion" /\ proposals'[q].target = c
  <2>1. Typed
    BY DEF GraphInv
  <2>2. QED BY <1>1, <2>1, Stamped
<1>4. /\ Accepted /\ Unforced'
      /\ \A s \in Sessions :
           Holds(task[s]) => proposals'[task[s].proposal] = proposals[task[s].proposal]
  BY <1>0, <1>1, StampedApart
<1>5. Typed'
  BY <1>1, <1>2, <1>3 DEF GraphInv, Typed
<1>6. Settled
  BY <1>1, <1>2, <1>4 DEF Settled, Accepted, LiveContract
<1>7. LiveShapesSound' /\ LiveRows' /\ Lands
  BY <1>2 DEF GraphInv, LiveShapesSound, LiveRows, Whole, LiveContract, Unclaimed, Lands
<1>8. ASSUME NEW r \in PartIds, parts'[r].state = "deleted" PROVE TracedPart(r)'
  BY <1>1, <1>4, <1>8, TracedPartStays DEF GraphInv, Traced
<1>9. ASSUME NEW d \in ContractIds, contracts'[d].state = "deleted" PROVE TracedContract(d)'
  <2>1. CASE d = c
    <3>1. q \in Takers(c)'
      BY <1>3 DEF Takers
    <3>2. Proposed(c, contracts[c])' /\ Forced(c, contracts[c])'
      BY <1>2, <1>3, <3>1 DEF Proposed, Forced
    <3>3. QED BY <1>2, <1>3, <2>1, <3>1, <3>2 DEF TracedContract
  <2>2. CASE d # c
    BY <1>2, <1>4, <1>9, <2>2, TracedContractStays DEF GraphInv, Traced
  <2>3. QED BY <2>1, <2>2
<1>10. ASSUME NEW s \in Sessions PROVE TaskOK(task[s])'
  <2>1. TaskOK(task[s]) /\ task'[s] = task[s]
    BY <1>1 DEF GraphInv, TasksOK
  <2>2. task[s].op \in ShiftOps => contracts'[task[s].target] = contracts[task[s].target]
    BY <1>1, <1>2, <2>1 DEF TaskOK, ShiftOK, Shifting
  <2>3. ASSUME task[s].op = "part_deletion"
        PROVE  /\ LivePart(task[s].target)'
               /\ \A d \in ContractIds :
                    /\ LiveContract(d)' /\ Touches(contracts'[d], task[s].target)
                         => d \in DOMAIN task[s].loaded
                    /\ d \in DOMAIN task[s].loaded =>
                         /\ contracts'[d].state # "absent"
                         /\ Touches(contracts'[d], task[s].target) \/ WasMoved(d)'
    <3>1. DeletionOK(task[s]) /\ LivePart(task[s].target)'
      BY <1>1, <2>1, <2>3 DEF TaskOK, DeletionOK, LivePart
    <3>2. \A d \in ContractIds : WasMoved(d) => WasMoved(d)'
      BY <1>4, TakersGrow
    <3>3. QED BY <1>2, <2>3, <3>1, <3>2 DEF DeletionOK, ReadOK, Touches, LiveContract
  <2>4. QED BY <1>4, <2>1, <2>2, <2>3, TaskStays
<1>11. TasksOK' /\ Exclusive'
  BY <1>1, <1>10 DEF TasksOK, GraphInv, Exclusive, Conflict
<1>12. QED
  BY <1>1, <1>4, <1>5, <1>6, <1>7, <1>8, <1>9, <1>11, SameParts DEF Good, GraphInv, Traced

LEMMA CommitPartDeletionOK ==
  ASSUME GraphInv, NEW s \in Sessions, CommitPartDeletion(s)
  PROVE  Good
<1>0. PICK t, p, q : t = task[s] /\ p = t.target /\ q = t.proposal
  OBVIOUS
<1>00. PICK o \in BOOLEAN : o = FALSE
  OBVIOUS
<1>1. /\ t \in TaskRow /\ t.op = "part_deletion" /\ p \in PartIds /\ LivePart(p) /\ Holds(t)
      /\ t.actor \in Actors \ Agents /\ t.actor # proposals[q].proposer
      /\ DeletionOK(t) /\ t.actor \in OptActor /\ t.flag \in BOOLEAN
      /\ DOMAIN t.loaded \subseteq ContractIds
  BY <1>0, LoadedDomain
  DEF CommitPartDeletion, GraphInv, Typed, TasksOK, TaskOK, DeletionOK, TaskRow
<1>2. /\ q \in ProposalIds /\ proposals[q].status = "open" /\ proposals[q].kind = "part_deletion"
      /\ proposals[q].target = p
  BY <1>0, <1>1 DEF Holds
<1>3. /\ \A c \in DOMAIN t.loaded : ~Shifting(c)
      /\ parts' = [parts EXCEPT ![p] = Deleted(parts[p], q, t.actor, o)]
      /\ contracts' = [c \in ContractIds |-> IF c \in DOMAIN t.loaded
                                               THEN Swept(contracts[c], t.loaded[c], q, t.actor)
                                               ELSE contracts[c]]
      /\ Stamp(q, t.actor, o, t.flag)
      /\ task' = [task EXCEPT ![s] = NoTask]
  BY <1>0, <1>00 DEF CommitPartDeletion
<1>4. /\ parts' \in [PartIds -> PartRow]
      /\ parts'[p].state = "deleted" /\ parts'[p].cause = q
      /\ parts'[p].proposer = proposals[q].proposer /\ parts'[p].acceptor = t.actor
      /\ parts'[p].override = o
      /\ \A r \in PartIds : r # p => parts'[r] = parts[r]
  <2>1. parts[p] \in PartRow /\ Typed
    BY <1>1 DEF GraphInv, Typed
  <2> DEFINE row == Deleted(parts[p], q, t.actor, o)
  <2>2. /\ row \in PartRow /\ row.state = "deleted" /\ row.cause = q
        /\ row.proposer = proposals[q].proposer /\ row.acceptor = t.actor /\ row.override = o
    BY <1>1, <1>2, <2>1, DeletedPart
  <2>3. parts' = [parts EXCEPT ![p] = row]
    BY <1>3
  <2> HIDE DEF row
  <2>4. QED BY <1>1, <2>1, <2>2, <2>3 DEF Typed
<1>5. ASSUME NEW c \in DOMAIN t.loaded
      PROVE  /\ contracts'[c] \in ContractRow
             /\ contracts'[c].state = "deleted" /\ contracts'[c].cause = q
             /\ contracts'[c].owner = contracts[c].owner /\ contracts'[c].cp = contracts[c].cp
             /\ contracts'[c].shape = contracts[c].shape
             /\ contracts'[c].proposer = IF proposals[q].proposer = NoActor
                                           THEN contracts[c].proposer ELSE proposals[q].proposer
             /\ contracts'[c].acceptor = t.actor
             /\ contracts'[c].override = contracts[c].override
  <2>1. /\ contracts[c] \in ContractRow /\ Unstamped(t.loaded[c]) /\ Typed
        /\ contracts'[c] = Swept(contracts[c], t.loaded[c], q, t.actor)
    BY <1>1, <1>3 DEF GraphInv, Typed, DeletionOK, ReadOK
  <2>2. QED BY <1>1, <1>2, <2>1, SweptContract
<1>6. \A c \in ContractIds : c \notin DOMAIN t.loaded => contracts'[c] = contracts[c]
  BY <1>3
<1>7. contracts' \in [ContractIds -> ContractRow]
  <2>1. \A c \in ContractIds : contracts'[c] \in ContractRow
    BY <1>5, <1>6 DEF GraphInv, Typed
  <2>2. QED BY <1>3, <2>1
<1>8. /\ proposals' \in [ProposalIds -> ProposalRow]
      /\ \A r \in ProposalIds : /\ proposals'[r].status = "none" => proposals'[r] = NoProposal
                                /\ proposals'[r].status # "none" => Suits(proposals'[r])
      /\ proposals'[q].status = "accepted" /\ proposals'[q].acceptor = t.actor
      /\ proposals'[q].override = o /\ proposals'[q].cascade = t.flag
      /\ proposals'[q].kind = "part_deletion" /\ proposals'[q].target = p
      /\ proposals'[q].proposer = proposals[q].proposer
      /\ \A r \in ProposalIds : r # q => proposals'[r] = proposals[r]
      /\ \A r \in ProposalIds : proposals[r].status = "accepted" => proposals'[r] = proposals[r]
  BY <1>1, <1>2, <1>3, Stamped DEF GraphInv
<1>9. Accepted /\ Unforced'
  BY <1>00, <1>8 DEF Accepted, GraphInv, Unforced
<1>10. /\ \A c : \A r \in Takers(c) : r \in Takers(c)' /\ proposals'[r] = proposals[r]
       /\ \A c : WasMoved(c) => WasMoved(c)'
  BY <1>9, TakersGrow
<1>11. ASSUME NEW r \in Sessions, r # s PROVE TaskOK(task[r])'
  <2>1. task'[r] = task[r] /\ TaskOK(task[r]) /\ ~Conflict(task[s], task[r])
    BY <1>3, <1>11 DEF GraphInv, Typed, TasksOK, Exclusive
  <2>2. Holds(task[r]) => task[r].proposal # q /\ task[r].proposal \in ProposalIds
    BY <1>0, <1>1, <1>2, <2>1 DEF Holds, Conflict
  <2>3. task[r].op \in ShiftOps => contracts'[task[r].target] = contracts[task[r].target]
    BY <1>3, <1>6, <2>1 DEF TaskOK, ShiftOK, Shifting
  <2>4. ASSUME task[r].op = "part_deletion"
        PROVE  /\ LivePart(task[r].target)'
               /\ \A d \in ContractIds :
                    /\ LiveContract(d)' /\ Touches(contracts'[d], task[r].target)
                         => d \in DOMAIN task[r].loaded
                    /\ d \in DOMAIN task[r].loaded =>
                         /\ contracts'[d].state # "absent"
                         /\ Touches(contracts'[d], task[r].target) \/ WasMoved(d)'
    <3>1. DeletionOK(task[r]) /\ LivePart(task[r].target)'
      BY <1>0, <1>1, <1>4, <2>1, <2>4 DEF TaskOK, DeletionOK, Conflict, LivePart
    <3>2. ASSUME NEW d \in ContractIds
          PROVE  /\ contracts'[d].owner = contracts[d].owner /\ contracts'[d].cp = contracts[d].cp
                 /\ LiveContract(d)' => LiveContract(d)
                 /\ contracts[d].state # "absent" => contracts'[d].state # "absent"
      BY <1>5, <1>6 DEF LiveContract
    <3>3. QED BY <1>10, <2>4, <3>1, <3>2 DEF DeletionOK, ReadOK, Touches
  <2>5. QED BY <1>8, <1>9, <2>1, <2>2, <2>3, <2>4, TaskStays
<1>12. /\ task' \in [Sessions -> TaskRow] /\ TasksOK' /\ Exclusive' /\ task'[s] # task[s]
  BY <1>0, <1>1, <1>3, <1>11, TaskEnds
<1>13. Typed'
  BY <1>4, <1>7, <1>8, <1>12 DEF Typed
<1>14. Settled
  <2>1. \A r \in PartIds : parts[r].state = "deleted" => parts'[r] = parts[r]
    BY <1>1, <1>4 DEF LivePart
  <2>2. ASSUME NEW c \in ContractIds, contracts[c].state = "deleted"
        PROVE  /\ contracts'[c].state = "deleted"
               /\ contracts'[c].owner = contracts[c].owner
               /\ contracts'[c].cp = contracts[c].cp
               /\ contracts'[c].shape = contracts[c].shape
               /\ contracts'[c] # contracts[c] =>
                    \E r \in Sessions :
                      /\ task'[r] # task[r]
                      /\ c \in DOMAIN task[r].loaded /\ task[r].loaded[c].state = "live"
    <3>1. CASE c \in DOMAIN t.loaded
      <4>1. t.loaded[c].state = "live"
        BY <1>1, <3>1 DEF DeletionOK, ReadOK
      <4>2. QED BY <1>0, <1>5, <1>12, <3>1, <4>1
    <3>2. CASE c \notin DOMAIN t.loaded
      BY <1>6, <2>2, <3>2
    <3>3. QED BY <3>1, <3>2
  <2>3. QED BY <1>9, <2>1, <2>2 DEF Settled, Accepted
<1>15. LiveNamesUnique'
  BY <1>4 DEF GraphInv, LiveNamesUnique, LivePart
<1>16. \A c \in ContractIds : contracts'[c].state = "live" =>
          contracts'[c] = contracts[c] /\ c \notin DOMAIN t.loaded
  BY <1>5, <1>6
<1>17. LiveShapesSound' /\ LiveRows' /\ Lands
  BY <1>16 DEF GraphInv, LiveShapesSound, LiveRows, Whole, LiveContract, Unclaimed, Lands
<1>18. Clears
  <2>1. \A c \in ContractIds :
          contracts'[c].state = "live" => p \notin {contracts'[c].owner, contracts'[c].cp}
    BY <1>0, <1>1, <1>16 DEF DeletionOK, Touches, LiveContract
  <2>2. QED BY <1>4, <2>1 DEF Clears, LivePart
<1>19. ASSUME NEW r \in PartIds, parts'[r].state = "deleted" PROVE TracedPart(r)'
  <2>1. CASE r = p
    BY <1>1, <1>2, <1>4, <1>8, <2>1 DEF TracedPart
  <2>2. CASE r # p
    BY <1>4, <1>9, <1>19, <2>2, TracedPartStays DEF GraphInv, Traced
  <2>3. QED BY <2>1, <2>2
<1>20. ASSUME NEW c \in ContractIds, contracts'[c].state = "deleted" PROVE TracedContract(c)'
  <2>1. CASE c \in DOMAIN t.loaded
    <3>1. t.flag /\ contracts[c].state # "absent" /\ (Touches(contracts[c], p) \/ WasMoved(c))
      BY <1>0, <1>1, <2>1 DEF DeletionOK, ReadOK
    <3>2. q \in Takers(c)'
      BY <1>2, <1>8, <3>1 DEF Takers
    <3>3. contracts[c].state = "live" \/ contracts[c].state = "deleted"
      BY <3>1 DEF GraphInv, Typed, ContractRow
    <3>4. contracts[c].state = "live" =>
            contracts[c].proposer = NoActor /\ contracts[c].override = FALSE
      BY DEF GraphInv, LiveRows, Whole, LiveContract, Unstamped
    <3>5. contracts[c].state = "deleted" => TracedContract(c)
      BY DEF GraphInv, Traced
    <3>6. Proposed(c, contracts[c])'
      <4>1. CASE proposals[q].proposer # NoActor
        BY <1>5, <1>8, <2>1, <4>1 DEF Proposed
      <4>2. CASE proposals[q].proposer = NoActor /\ contracts[c].state = "live"
        BY <1>5, <1>8, <2>1, <3>4, <4>2 DEF Proposed
      <4>3. CASE proposals[q].proposer = NoActor /\ contracts[c].state = "deleted"
        <5>1. PICK r \in Takers(c) : proposals[r].proposer = contracts[c].proposer
          BY <3>5, <4>3 DEF TracedContract, Proposed
        <5>2. r \in Takers(c)' /\ proposals'[r].proposer = contracts'[c].proposer
          BY <1>5, <1>10, <2>1, <4>3, <5>1
        <5>3. QED BY <1>5, <1>8, <2>1, <4>3, <5>2 DEF Proposed
      <4>4. QED BY <3>3, <4>1, <4>2, <4>3
    <3>7. Forced(c, contracts[c])'
      <4>1. CASE contracts[c].override = FALSE
        <5>1. proposals'[q].override = contracts'[c].override /\ q = contracts'[c].cause
          BY <1>00, <1>5, <1>8, <2>1, <4>1
        <5>2. QED BY <3>2, <5>1 DEF Forced
      <4>2. CASE contracts[c].override # FALSE
        <5>1. contracts[c].state = "deleted" /\ TracedContract(c)
          BY <3>3, <3>4, <3>5, <4>2
        <5>2. PICK r \in Takers(c) : /\ proposals[r].override = contracts[c].override
                                     /\ r = contracts[c].cause \/ proposals[r].target = c
          BY <5>1 DEF TracedContract, Forced
        <5>3. proposals[r].target = c
          BY <4>2, <5>2 DEF Takers, GraphInv, Unforced
        <5>4. /\ r \in Takers(c)' /\ proposals'[r].target = c
              /\ proposals'[r].override = contracts'[c].override
          BY <1>5, <1>10, <2>1, <5>2, <5>3
        <5>5. QED BY <5>4 DEF Forced
      <4>3. QED BY <4>1, <4>2
    <3>8. \/ p \in {contracts'[c].owner, contracts'[c].cp}
          \/ WasMoved(c)'
      BY <1>5, <1>10, <2>1, <3>1 DEF Touches
    <3>9. QED
      BY <1>1, <1>5, <1>8, <2>1, <3>2, <3>6, <3>7, <3>8 DEF TracedContract
  <2>2. CASE c \notin DOMAIN t.loaded
    BY <1>6, <1>9, <1>20, <2>2, TracedContractStays DEF GraphInv, Traced
  <2>3. QED BY <2>1, <2>2
<1>21. QED
  BY <1>9, <1>12, <1>13, <1>14, <1>15, <1>17, <1>18, <1>19, <1>20 DEF Good, GraphInv, Traced

-----------------------------------------------------------------------------
LEMMA StutterOK == GraphInv /\ UNCHANGED vars => Good
<1> SUFFICES ASSUME GraphInv, UNCHANGED vars PROVE Good
  OBVIOUS
<1>1. Typed'
  BY DEF GraphInv, Typed, Suits, vars
<1>2. QED BY <1>1, FiledGood DEF vars

LEMMA NextOK == GraphInv /\ [Next]_vars => Good
<1> SUFFICES ASSUME GraphInv, [Next]_vars PROVE Good
  OBVIOUS
<1>1. CASE NextPart
  BY <1>1, RegisterPartOK, ProposePartSubtypeShiftOK, ProposePartNameShiftOK,
     ProposePartDeletionOK, AcceptPartSubtypeShiftOK, AcceptPartNameShiftOK,
     AcceptPartDeletionOK DEF NextPart, Open
<1>2. CASE NextContract
  BY <1>2, RegisterContractOK, ProposeContractSubtypeShiftOK, ProposeContractEndpointShiftOK,
     ProposeContractDeletionOK, AcceptContractSubtypeShiftOK, AcceptContractEndpointShiftOK,
     AcceptContractDeletionOK DEF NextContract, Open
<1>3. CASE \E s \in Sessions : Proceed(s)
  BY <1>3, ResolveCounterpartyOK, ReadOtherEndOK, LandContractOK, LandShiftOK,
     CommitPartDeletionOK, AbandonOK DEF Proceed
<1>4. QED BY <1>1, <1>2, <1>3, StutterOK DEF Next

LEMMA NextInv == GraphInv /\ [Next]_vars => GraphInv'
BY NextOK DEF Good

LEMMA TypedOK == GraphInv => TypeOK
<1> SUFFICES ASSUME GraphInv PROVE TypeOK
  OBVIOUS
<1>1. \A q \in ProposalIds : proposals[q] \in ProposalRow
  BY DEF GraphInv, Typed
<1>2. ASSUME NEW s \in Sessions
      PROVE  /\ task[s] \in Task(task[s].loaded)
             /\ DOMAIN task[s].loaded \subseteq ContractIds
             /\ \A c \in DOMAIN task[s].loaded : task[s].loaded[c] \in ContractRow
  <2>1. task[s] \in TaskRow
    BY DEF GraphInv, Typed
  <2>2. task[s] \in Task(task[s].loaded)
    BY <2>1 DEF Task, TaskRow
  <2>3. QED BY <2>1, <2>2 DEF TaskRow, LoadedRows
<1>3. DOMAIN task = Sessions
  BY DEF GraphInv, Typed
<1>4. QED BY <1>1, <1>2, <1>3 DEF GraphInv, Typed, TypeOK, ProposalRow

-----------------------------------------------------------------------------
\* The rows of parts, contracts and proposals, and what requests have read of them,
\* are well-typed throughout.
THEOREM TypeCorrect == Spec => []TypeOK
<1>1. QED
  BY InitOK, NextInv, TypedOK, PTL DEF Spec

\* No sequence of registrations and renames gives two live parts one slug.
THEOREM LiveNamesAlwaysUnique == Spec => []LiveNamesUnique
<1>1. GraphInv => LiveNamesUnique
  BY DEF GraphInv
<1>2. QED
  BY InitOK, NextInv, <1>1, PTL DEF Spec

\* No sequence of registrations and shifts, however stale, gives two live contracts
\* one shape between one pair of parts, or a contract of a part with itself.
THEOREM LiveShapesAlwaysSound == Spec => []LiveShapesSound
<1>1. GraphInv => LiveShapesSound
  BY DEF GraphInv
<1>2. QED
  BY InitOK, NextInv, <1>1, PTL DEF Spec

\* Every deleted row leads to an acceptance that took it along, and what its columns
\* name besides is what an earlier acceptance left, however the cascades of two
\* parts, shifts that move a contract away from them and its own deletion interleave.
THEOREM DeletionsAlwaysTraceable == Spec => []DeletionTraceable
<1>1. GraphInv => DeletionTraceable
  BY DEF GraphInv, Traced, TracedPart, TracedContract, Proposed, Forced, DeletionTraceable
<1>2. QED
  BY InitOK, NextInv, <1>1, PTL DEF Spec

\* No agent has a part deleted, nor the contracts that a deletion sweeps along.
THEOREM HumansAlwaysInTheLoop == Spec => []HumanInTheLoop
<1>1. GraphInv => HumanInTheLoop
  BY DEF GraphInv, Traced, TracedPart, TracedContract, HumanInTheLoop
<1>2. QED
  BY InitOK, NextInv, <1>1, PTL DEF Spec

\* Nothing that was filed or under way before a deletion changes what was deleted,
\* except that a cascade that had read a contract alive writes who deleted it again.
THEOREM DeletedAlwaysFinal == Spec => DeletedIsFinal
<1>1. GraphInv /\ [Next]_vars => [Settled]_vars
  BY NextOK DEF Good
<1>2. QED
  BY InitOK, NextInv, <1>1, PTL DEF Spec, DeletedIsFinal, Settled

\* Where a contract lands the rule holds, of the subtypes there are or, when one was
\* shifted meanwhile, of those that the handler has read of these very parts.
THEOREM RuleAlwaysHoldsOnLanding == Spec => RuleHoldsOnLanding
<1>1. GraphInv /\ [Next]_vars => [Lands]_vars
  BY NextOK DEF Good
<1>2. QED
  BY InitOK, NextInv, <1>1, PTL DEF Spec, RuleHoldsOnLanding, Lands

\* However many contracts a part has, and whatever is under way, its deletion leaves
\* no live contract on it.
THEOREM DeletionAlwaysLeavesNoContract == Spec => DeletionLeavesNoContract
<1>1. GraphInv /\ [Next]_vars => [Clears]_vars
  BY NextOK DEF Good
<1>2. QED
  BY InitOK, NextInv, <1>1, PTL DEF Spec, DeletionLeavesNoContract, Clears

-----------------------------------------------------------------------------
(* The list that the gate reads.  Above, Agents is one list from beginning *)
(* to end; AgentGate has the requests that read and change it, one SQL     *)
(* statement at a time.  However many there are, an agent's first deed     *)
(* would have had to pass a gate that was read while every agent was still *)
(* on the list.                                                            *)

\* The steps that only a request which passed the gate takes.
Passed == {"find", "revoke", "delete_part"}

\* A revocation or deletion by somebody who was no agent from the start.
HumanDeed == \E d \in Doers : d \notin Bots

\* Until then nothing was revoked, so every bot is on the list that a gate reads,
\* and no bot is past it.
Untouched ==
  /\ Doers = {}
  /\ \A b \in Bots : Registered(b)
  /\ \A c \in Conns : pc[c] \in Passed => req[c].actor \notin Bots

GateInv == GateTypeOK /\ (HumanDeed \/ Untouched)

-----------------------------------------------------------------------------
LEMMA NoRowType == NoRow \in Row
BY DEF NoRow, Row

\* The row of a newly registered agent, as the migration or the handler writes it.
LEMMA NewRowType ==
  ASSUME NEW a \in Actors
  PROVE  /\ [NoRow EXCEPT !.state = "live", !.actor = a] \in Row
         /\ [NoRow EXCEPT !.state = "live", !.actor = a].state = "live"
BY DEF NoRow, Row

LEMMA NoRequestType == NoRequest \in Request
BY DEF NoRequest, Request, OptActor

\* The bookkeeping of a request that ends keeps its type.
LEMMA EndType ==
  ASSUME GateTypeOK, NEW c \in Conns, EndRequest(c)
  PROVE  /\ pc' \in [Conns -> {"idle", "check", "insert", "gate", "find", "revoke", "delete_part"}]
         /\ req' \in [Conns -> Request]
         /\ found' \in [Conns -> SUBSET RowIds]
BY NoRequestType DEF GateTypeOK, EndRequest

LEMMA InitType == GateInit => GateTypeOK
<1> SUFFICES ASSUME GateInit PROVE GateTypeOK
  OBVIOUS
<1>1. {NoRow} \union {[NoRow EXCEPT !.state = "live", !.actor = b] : b \in Bots} \subseteq Row
  BY AgentGateAssumption, NoRowType, NewRowType
<1>2. rows \in [RowIds -> Row]
  BY <1>1 DEF GateInit
<1>3. QED
  BY <1>2, NoRequestType DEF GateInit, GateTypeOK

LEMMA RegisterType ==
  ASSUME GateTypeOK, NEW c \in Conns, Register(c)
  PROVE  /\ rows' \in [RowIds -> Row]
         /\ \A i \in RowIds :
              rows'[i] = rows[i] \/ (rows[i].state = "absent" /\ rows'[i].state = "live")
<1>1. CASE UNCHANGED rows
  BY <1>1 DEF GateTypeOK
<1>2. CASE ~UNCHANGED rows
  <2>1. PICK i \in RowIds :
          /\ rows[i].state = "absent"
          /\ rows' = [rows EXCEPT ![i] = [NoRow EXCEPT !.state = "live",
                                                       !.actor = req[c].target]]
    BY <1>2 DEF Register
  <2>2. req[c].target \in Actors \union {Free}
    BY DEF GateTypeOK, Request
  <2>3. /\ [NoRow EXCEPT !.state = "live", !.actor = req[c].target] \in Row
        /\ [NoRow EXCEPT !.state = "live", !.actor = req[c].target].state = "live"
    BY <2>2 DEF NoRow, Row
  <2>4. rows' \in [RowIds -> Row]
    BY <2>1, <2>3 DEF GateTypeOK
  <2>5. QED
    BY <2>1, <2>3, <2>4 DEF GateTypeOK
<1>3. QED BY <1>1, <1>2

\* What Revoke writes into a live row.
LEMMA RevokedRow ==
  ASSUME NEW row \in Row, NEW a \in OptActor
  PROVE  LET new == [row EXCEPT !.state = "revoked", !.by = a]
         IN  new \in Row /\ new.state = "revoked" /\ new.by = a
BY DEF Row

LEMMA RevokeType ==
  ASSUME GateTypeOK, NEW c \in Conns, Revoke(c)
  PROVE  /\ rows' \in [RowIds -> Row]
         /\ \A i \in RowIds :
              IF i \in found[c] /\ LiveRow(i)
                THEN rows'[i].state = "revoked" /\ rows'[i].by = req[c].actor
                ELSE rows'[i] = rows[i]
<1>1. req[c].actor \in OptActor
  BY DEF GateTypeOK, Request
<1>2. \A i \in RowIds :
        LET new == [rows[i] EXCEPT !.state = "revoked", !.by = req[c].actor]
        IN  new \in Row /\ new.state = "revoked" /\ new.by = req[c].actor
  BY <1>1, RevokedRow DEF GateTypeOK
<1>3. QED
  BY <1>2 DEF GateTypeOK, Revoke

LEMMA NextType == GateTypeOK /\ [GateNext]_gateVars => GateTypeOK'
<1> SUFFICES ASSUME GateTypeOK, [GateNext]_gateVars PROVE GateTypeOK'
  OBVIOUS
<1>1. ASSUME NEW c \in Conns, Begin(c) PROVE GateTypeOK'
  <2>1. PICK r : r \in Request /\ req' = [req EXCEPT ![c] = r]
    <3>1. CASE \E actor \in OptActor, target \in Actors, op \in {"register", "revoke"} :
                 req' = [req EXCEPT ![c] = [op |-> op, actor |-> actor, target |-> target]]
      BY <3>1 DEF Request
    <3>2. CASE \E actor \in OptActor :
                 req' = [req EXCEPT ![c] = [NoRequest EXCEPT !.op = "delete_part", !.actor = actor]]
      BY <3>2 DEF NoRequest, Request
    <3>3. QED BY <1>1, <3>1, <3>2 DEF Begin
  <2>2. QED BY <1>1, <2>1 DEF GateTypeOK, Begin
<1>2. ASSUME NEW c \in Conns, CheckRegistered(c) PROVE GateTypeOK'
  <2>1. CASE Registered(req[c].target)
    BY <1>2, <2>1, EndType DEF CheckRegistered, GateTypeOK
  <2>2. CASE ~Registered(req[c].target)
    BY <1>2, <2>2 DEF CheckRegistered, Goto, GateTypeOK
  <2>3. QED BY <2>1, <2>2
<1>3. ASSUME NEW c \in Conns, Register(c) PROVE GateTypeOK'
  <2>1. rows' \in [RowIds -> Row]
    BY <1>3, RegisterType
  <2>2. EndRequest(c) /\ deleters' = deleters
    BY <1>3 DEF Register
  <2>3. QED BY <2>1, <2>2, EndType DEF GateTypeOK
<1>4. ASSUME NEW c \in Conns, PassGate(c) PROVE GateTypeOK'
  <2>1. CASE HumanConfirmed(req[c].actor, Allowlist)
    BY <1>4, <2>1 DEF PassGate, Goto, GateTypeOK
  <2>2. CASE ~HumanConfirmed(req[c].actor, Allowlist)
    BY <1>4, <2>2, EndType DEF PassGate, GateTypeOK
  <2>3. QED BY <2>1, <2>2
<1>5. ASSUME NEW c \in Conns, FindRow(c) PROVE GateTypeOK'
  BY <1>5 DEF FindRow, Goto, GateTypeOK
<1>6. ASSUME NEW c \in Conns, Revoke(c) PROVE GateTypeOK'
  <2>1. rows' \in [RowIds -> Row]
    BY <1>6, RevokeType
  <2>2. EndRequest(c) /\ deleters' = deleters
    BY <1>6 DEF Revoke
  <2>3. QED BY <2>1, <2>2, EndType DEF GateTypeOK
<1>7. ASSUME NEW c \in Conns, DeletePart(c) PROVE GateTypeOK'
  <2>1. deleters' \subseteq OptActor
    BY <1>7 DEF DeletePart, GateTypeOK, Request
  <2>2. QED BY <1>7, <2>1, EndType DEF DeletePart, GateTypeOK
<1>8. ASSUME NEW c \in Conns, Die(c) PROVE GateTypeOK'
  BY <1>8, EndType DEF Die, GateTypeOK
<1>9. CASE UNCHANGED gateVars
  BY <1>9 DEF GateTypeOK, gateVars
<1>10. QED
  BY <1>1, <1>2, <1>3, <1>4, <1>5, <1>6, <1>7, <1>8, <1>9 DEF GateNext

-----------------------------------------------------------------------------
\* A row that is revoked stays as it is: Register takes rows that were never used,
\* Revoke only those that are live when the lock is granted.
LEMMA RevokedStays ==
  ASSUME GateTypeOK, [GateNext]_gateVars, NEW i \in RowIds, rows[i].state = "revoked"
  PROVE  rows'[i] = rows[i]
<1>1. ASSUME NEW c \in Conns, Register(c) PROVE rows'[i] = rows[i]
  BY <1>1, RegisterType
<1>2. ASSUME NEW c \in Conns, Revoke(c) PROVE rows'[i] = rows[i]
  BY <1>2, RevokeType DEF LiveRow
<1>3. ASSUME UNCHANGED rows PROVE rows'[i] = rows[i]
  BY <1>3
<1>4. QED
  BY <1>1, <1>2, <1>3 DEF GateNext, Begin, CheckRegistered, PassGate, FindRow, DeletePart, Die, gateVars

\* What somebody has done is never forgotten.
LEMMA DoersGrow ==
  ASSUME GateTypeOK, [GateNext]_gateVars
  PROVE  Doers \subseteq Doers'
<1>1. deleters \subseteq deleters'
  BY DEF GateNext, Begin, CheckRegistered, Register, PassGate, FindRow, Revoke, DeletePart, Die, gateVars
<1>2. QED
  BY <1>1, RevokedStays DEF Doers

\* A step that revokes no row and deletes no part leaves the doers and, registering
\* at most, the bots' rows.
LEMMA QuietStep ==
  ASSUME GateTypeOK, Untouched, deleters' = deleters,
         \A i \in RowIds : rows'[i] = rows[i] \/ (rows[i].state = "absent" /\ rows'[i].state = "live")
  PROVE  Doers' = {} /\ \A b \in Bots : Registered(b)'
<1>1. \A i \in RowIds : rows'[i].state = "revoked" => rows[i].state = "revoked"
  OBVIOUS
<1>2. \A i \in RowIds : rows[i].state # "revoked"
  BY DEF Untouched, Doers
<1>3. Doers' = {}
  BY <1>1, <1>2 DEF Untouched, Doers
<1>4. ASSUME NEW b \in Bots PROVE Registered(b)'
  <2>1. PICK i \in RowIds : LiveRow(i) /\ rows[i].actor = b
    BY DEF Untouched, Registered
  <2>2. rows'[i] = rows[i]
    BY <2>1 DEF LiveRow
  <2>3. QED BY <2>1, <2>2 DEF Registered, LiveRow
<1>5. QED BY <1>3, <1>4

\* A request that has ended is past no gate, and no other moved.
LEMMA EndPasses ==
  ASSUME GateTypeOK, NEW c \in Conns, EndRequest(c),
         \A d \in Conns : pc[d] \in Passed => req[d].actor \notin Bots
  PROVE  \A d \in Conns : pc'[d] \in Passed => req'[d].actor \notin Bots
BY DEF GateTypeOK, EndRequest, Passed

LEMMA InitInv == GateInit => GateInv
<1> SUFFICES ASSUME GateInit PROVE GateInv
  OBVIOUS
<1>1. GateTypeOK
  BY InitType
<1>2. \A i \in RowIds : rows[i].state # "revoked"
  <2>1. ASSUME NEW row \in {NoRow} \union {[NoRow EXCEPT !.state = "live", !.actor = b] : b \in Bots}
        PROVE  row.state # "revoked"
    <3>1. CASE row = NoRow
      BY <3>1 DEF NoRow
    <3>2. CASE \E b \in Bots : row = [NoRow EXCEPT !.state = "live", !.actor = b]
      BY <3>2, NewRowType, AgentGateAssumption
    <3>3. QED BY <2>1, <3>1, <3>2
  <2>2. QED BY <2>1 DEF GateInit
<1>3. Doers = {}
  <2>1. deleters = {}
    BY DEF GateInit
  <2>2. QED BY <1>2, <2>1 DEF Doers
<1>4. \A b \in Bots : Registered(b)
  BY DEF GateInit, Registered
<1>5. \A c \in Conns : pc[c] \notin Passed
  BY DEF GateInit, Passed
<1>6. QED
  BY <1>1, <1>3, <1>4, <1>5 DEF GateInv, Untouched

LEMMA GateNextInv == GateInv /\ [GateNext]_gateVars => GateInv'
<1> SUFFICES ASSUME GateInv, [GateNext]_gateVars PROVE GateInv'
  OBVIOUS
<1>0. GateTypeOK /\ GateTypeOK'
  BY NextType DEF GateInv
<1>1. CASE HumanDeed
  BY <1>0, <1>1, DoersGrow DEF GateInv, HumanDeed
<1>2. CASE Untouched
  <2> DEFINE Quiet == \A i \in RowIds :
                rows'[i] = rows[i] \/ (rows[i].state = "absent" /\ rows'[i].state = "live")
             Clear == \A d \in Conns : pc'[d] \in Passed => req'[d].actor \notin Bots
  <2>0. \A d \in Conns : pc[d] \in Passed => req[d].actor \notin Bots
    BY <1>2 DEF Untouched
  <2>a. ASSUME Quiet, Clear, deleters' = deleters PROVE GateInv'
    <3>1. Doers' = {} /\ \A b \in Bots : Registered(b)'
      BY <1>0, <1>2, <2>a, QuietStep
    <3>2. Untouched'
      BY <3>1, <2>a DEF Untouched
    <3>3. QED BY <1>0, <3>2 DEF GateInv
  <2>1. ASSUME NEW c \in Conns, Begin(c) PROVE GateInv'
    <3>1. Clear
      BY <1>0, <2>0, <2>1 DEF Begin, GateTypeOK, Passed
    <3>2. QED BY <3>1, <2>1, <2>a DEF Begin
  <2>2. ASSUME NEW c \in Conns, CheckRegistered(c) PROVE GateInv'
    <3>1. Clear
      BY <1>0, <2>0, <2>2, EndPasses DEF CheckRegistered, Goto, GateTypeOK, Passed
    <3>2. QED BY <3>1, <2>2, <2>a DEF CheckRegistered
  <2>3. ASSUME NEW c \in Conns, Register(c) PROVE GateInv'
    <3>1. Clear
      BY <1>0, <2>0, <2>3, EndPasses DEF Register
    <3>2. Quiet
      BY <1>0, <2>3, RegisterType
    <3>3. QED BY <3>1, <3>2, <2>3, <2>a DEF Register
  <2>4. ASSUME NEW c \in Conns, PassGate(c) PROVE GateInv'
    <3>1. CASE HumanConfirmed(req[c].actor, Allowlist)
      <4>1. req[c].actor \notin Bots
        BY <3>1, <1>2 DEF HumanConfirmed, Allowlist, Untouched, Registered
      <4>2. Clear
        BY <4>1, <1>0, <2>0, <2>4, <3>1 DEF PassGate, Goto, GateTypeOK
      <4>3. QED BY <4>2, <2>4, <2>a DEF PassGate
    <3>2. CASE ~HumanConfirmed(req[c].actor, Allowlist)
      <4>1. Clear
        BY <1>0, <2>0, <2>4, <3>2, EndPasses DEF PassGate
      <4>2. QED BY <4>1, <2>4, <2>a DEF PassGate
    <3>3. QED BY <3>1, <3>2
  <2>5. ASSUME NEW c \in Conns, FindRow(c) PROVE GateInv'
    <3>1. Clear
      BY <1>0, <2>0, <2>5 DEF FindRow, Goto, GateTypeOK, Passed
    <3>2. QED BY <3>1, <2>5, <2>a DEF FindRow
  <2>6. ASSUME NEW c \in Conns, Revoke(c) PROVE GateInv'
    <3>1. req[c].actor \notin Bots
      BY <2>0, <2>6 DEF Revoke, Passed
    <3>2. CASE \E i \in found[c] : i \in RowIds /\ LiveRow(i)
      <4>1. PICK i \in RowIds : i \in found[c] /\ LiveRow(i)
        BY <3>2
      <4>2. rows'[i].state = "revoked" /\ rows'[i].by = req[c].actor
        BY <1>0, <2>6, <4>1, RevokeType
      <4>3. HumanDeed'
        BY <3>1, <4>2 DEF HumanDeed, Doers
      <4>4. QED BY <1>0, <4>3 DEF GateInv
    <3>3. CASE ~\E i \in found[c] : i \in RowIds /\ LiveRow(i)
      <4>1. Quiet
        BY <2>6, <3>3 DEF Revoke
      <4>2. Clear
        BY <1>0, <2>0, <2>6, EndPasses DEF Revoke
      <4>3. QED BY <4>1, <4>2, <2>6, <2>a DEF Revoke
    <3>4. QED BY <3>2, <3>3
  <2>7. ASSUME NEW c \in Conns, DeletePart(c) PROVE GateInv'
    <3>1. req[c].actor \notin Bots
      BY <2>0, <2>7 DEF DeletePart, Passed
    <3>2. HumanDeed'
      BY <3>1, <2>7 DEF HumanDeed, Doers, DeletePart
    <3>3. QED BY <1>0, <3>2 DEF GateInv
  <2>8. ASSUME NEW c \in Conns, Die(c) PROVE GateInv'
    <3>1. Clear
      BY <1>0, <2>0, <2>8, EndPasses DEF Die
    <3>2. QED BY <3>1, <2>8, <2>a DEF Die
  <2>9. CASE UNCHANGED gateVars
    BY <2>0, <2>9, <2>a DEF gateVars
  <2>10. QED
    BY <2>1, <2>2, <2>3, <2>4, <2>5, <2>6, <2>7, <2>8, <2>9 DEF GateNext
<1>3. QED
  BY <1>1, <1>2 DEF GateInv

-----------------------------------------------------------------------------
\* The bookkeeping of agent_actors.py's handlers is well-typed throughout.
THEOREM GateTypeCorrect == GateSpec => []GateTypeOK
<1>1. QED
  BY InitType, NextType, PTL DEF GateSpec

\* However registrations, revocations and deletions interleave, and however many
\* agents there are, a deed of an agent is preceded by one of somebody who is none.
THEOREM AgentsAlwaysConfined == GateSpec => []AgentsConfined
<1>1. GateInv => AgentsConfined
  BY DEF GateInv, HumanDeed, Untouched, AgentsConfined
<1>2. QED
  BY InitInv, GateNextInv, <1>1, PTL DEF GateSpec

\* A revocation's record is never rewritten, by whatever number of racing requests.
THEOREM RevokedAlwaysFinal == GateSpec => RevokedIsFinal
<1>1. GateTypeOK /\ [GateNext]_gateVars =>
        [\A i \in RowIds : rows[i].state = "revoked" => rows'[i] = rows[i]]_gateVars
  BY RevokedStays
<1>2. QED
  BY InitType, NextType, <1>1, PTL DEF GateSpec, RevokedIsFinal
=============================================================================
