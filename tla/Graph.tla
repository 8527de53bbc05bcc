-------------------------------- MODULE Graph --------------------------------
(***************************************************************************)
(* The graph of parts and contracts and every propose/accept flow on it.   *)
(* A refused request changes nothing, so an action is enabled exactly when *)
(* its handler goes on.  A handler that decides on rows it does not lock   *)
(* is as many actions as it has unlocked reads, and then its COMMIT:       *)
(* register_contract, the acceptances of a contract's subtype and endpoint *)
(* shift (the endpoints' subtypes), and the acceptance of a part deletion  *)
(* (the contracts that touch the part).  Every other handler decides on    *)
(* the row that it locks from its look-up to its COMMIT, and on what the   *)
(* unique indexes decide again at that COMMIT, so it is one action.        *)
(***************************************************************************)
EXTENDS Handshake, Rules, FiniteSets

CONSTANTS
  PartIds, ContractIds, ProposalIds,   \* row ids (uuids) to draw from: the bounds
  Names,                               \* part slugs
  Subtypes,                            \* the part subtypes in use
  Shapes,                              \* the contract shapes in use
  Agents,                              \* the live agent_actors rows
  Kinds,                               \* the proposal families that clients file
  Keep, Nothing,                       \* an endpoint left alone; no value
  Sessions                             \* database sessions, one per request under way

ASSUME DomainAssumption ==
  /\ Subtypes \subseteq PartSubtypes
  /\ Shapes \subseteq ContractShape
  /\ Agents \subseteq Actors
  /\ Keep \notin PartIds \union Names
  /\ Nothing \notin PartIds \union ContractIds \union ProposalIds
  /\ Nothing \notin Subtypes

VARIABLES
  parts, contracts, proposals,  \* committed rows
  task                          \* task[s]: what the request of session s is about and has read

vars == <<parts, contracts, proposals, task>>

NoPart == [state |-> "absent", name |-> Nothing, subtype |-> Nothing,
           cause |-> Nothing, proposer |-> NoActor, acceptor |-> NoActor,
           override |-> FALSE]

NoContract == [state |-> "absent", owner |-> Nothing, cp |-> Nothing, shape |-> Nothing,
               cause |-> Nothing, proposer |-> NoActor, acceptor |-> NoActor,
               override |-> FALSE]

NoProposal == [status |-> "none", kind |-> Nothing, target |-> Nothing,
               change |-> Nothing, proposer |-> NoActor, acceptor |-> NoActor,
               override |-> FALSE, cascade |-> FALSE]

NoRows == [c \in {} |-> NoContract]

NoTask == [op |-> "none", proposal |-> Nothing, target |-> Nothing, actor |-> NoActor,
           flag |-> FALSE, owner |-> Nothing, cp |-> Nothing, shape |-> Nothing,
           ownerSubtype |-> Nothing, cpSubtype |-> Nothing, loaded |-> NoRows]

Init ==
  /\ task = [s \in Sessions |-> NoTask]
  /\ parts = [p \in PartIds |-> NoPart]
  /\ contracts = [c \in ContractIds |-> NoContract]
  /\ proposals = [q \in ProposalIds |-> NoProposal]
-----------------------------------------------------------------------------
LivePart(p) == parts[p].state = "live"
LiveContract(c) == contracts[c].state = "live"

\* _resolve_part, and the existence checks on a slug: live rows only.
Resolves(name, p) == LivePart(p) /\ parts[p].name = name
Taken(name) == \E p \in PartIds : Resolves(name, p)

\* The lookup of every other write on /parts/{name}: SELECT ... WHERE name = ...
\* FOR UPDATE over live and deleted rows alike, scalar_one_or_none() (which
\* raises when two rows match), then the deleted_at check.
Rows(name) == {p \in PartIds : parts[p].state # "absent" /\ parts[p].name = name}
Addresses(name, p) == Resolves(name, p) /\ Rows(name) = {p}

ShiftOps == {"contract_subtype", "contract_endpoint"}

\* A request on the way to its COMMIT holds the row that it looked up FOR UPDATE.
Deleting(p) == \E s \in Sessions : task[s].op = "part_deletion" /\ task[s].target = p
Shifting(c) == \E s \in Sessions : task[s].op \in ShiftOps /\ task[s].target = c

\* The look-up of a part by its slug, of a contract by its id, each FOR UPDATE:
\* it waits for whoever has the row, and sees what was committed by then.
LocksPart(name, p) == Addresses(name, p) /\ ~Deleting(p)
LocksContract(c) == LiveContract(c) /\ ~Shifting(c)

\* Mutant: contracts deleted before are swept up, and stamped, again.
TouchingDeadOrAlive(p) == {c \in ContractIds : p \in {contracts[c].owner, contracts[c].cp}}

\* Mutant: only the contracts that the part owns are looked for.
TouchingOwned(p) == {c \in ContractIds : LiveContract(c) /\ p = contracts[c].owner}

\* The live contracts that touch part p.
Touching(p) == {c \in ContractIds : LiveContract(c) /\ p \in {contracts[c].owner, contracts[c].cp}}

RuleHolds(shape, owner, cp) == Admits(shape, parts[owner].subtype, parts[cp].subtype)

\* No live contract other than those in `own` has these endpoints and this shape.
Unclaimed(owner, cp, shape, own) ==
  ~ \E c \in ContractIds \ own :
      /\ LiveContract(c)
      /\ contracts[c].owner = owner
      /\ contracts[c].cp = cp
      /\ contracts[c].shape = shape

\* Mutant: the unique index on live contracts does without NULLS NOT DISTINCT.
IndexWithNullsDistinct(owner, cp, shape, own) ==
  shape[2] = NoType \/ Unclaimed(owner, cp, shape, own)

\* The unique index lets a live contract have these endpoints and this shape.
IndexAdmits(owner, cp, shape, own) == Unclaimed(owner, cp, shape, own)

\* INSERT of a proposal row.
File(kind, target, change, actor) ==
  /\ kind \in Kinds
  /\ \E q \in ProposalIds :
       /\ proposals[q].status = "none"
       /\ proposals' = [proposals EXCEPT ![q] =
            [NoProposal EXCEPT !.status = "open", !.kind = kind, !.target = target,
                               !.change = change, !.proposer = actor]]

\* The checks every accept makes on its proposal row ...
Acceptable(q, kind, target, actor, override) ==
  /\ proposals[q].status = "open"
  /\ proposals[q].kind = kind
  /\ proposals[q].target = target
  /\ TwoParty(proposals[q].proposer, actor, override)

\* Mutant: whether the deletion cascaded is not recorded.
StampWithoutCascade(q, actor, override, cascade) ==
  proposals' = [proposals EXCEPT ![q].status = "accepted",
                                 ![q].acceptor = actor,
                                 ![q].override = override]

\* ... and the stamps it leaves there.
Stamp(q, actor, override, cascade) ==
  proposals' = [proposals EXCEPT ![q].status = "accepted",
                                 ![q].acceptor = actor,
                                 ![q].override = override,
                                 ![q].cascade = cascade]

\* A soft delete copies the proposal row that landed: who asked, who confirmed,
\* and why (the proposal's rationale, named by its id).
Deleted(row, q, actor, override) ==
  [row EXCEPT !.state = "deleted", !.cause = q, !.override = override,
              !.proposer = proposals[q].proposer, !.acceptor = actor]

\* An UPDATE of the session's unit of work leaves a column out when its new value
\* is the one that was read, whatever the row has by now.
Written(new, read, current) == IF new = read THEN current ELSE new

\* What a cascade makes of a contract that it read as `read`: UPDATE ... WHERE id =
\* ..., which asks neither whether the contract still touches the part nor whether
\* it still lives.  The time and the rationale are always new.
Swept(row, read, q, actor) ==
  [row EXCEPT !.state = "deleted", !.cause = q,
              !.proposer = Written(proposals[q].proposer, read.proposer, row.proposer),
              !.acceptor = Written(actor, read.acceptor, row.acceptor),
              !.override = Written(FALSE, read.override, row.override)]
-----------------------------------------------------------------------------
(* Requests under way *)

Idle(s) == task[s] = NoTask
BothRead(t) == Nothing \notin {t.ownerSubtype, t.cpSubtype}

\* Mutant: a shift of the shape does not validate the source/target rule again.
CheckUnruled(t) ==
  \/ t.op = "contract_subtype"
  \/ /\ Admits(t.shape, t.ownerSubtype, t.cpSubtype)
     /\ Unclaimed(t.owner, t.cp, t.shape, {t.target})

\* What a handler checks of where a contract is to land, with the subtypes it has
\* read.  The acceptance of a shape does not look for another contract there.
Check(t) ==
  /\ Admits(t.shape, t.ownerSubtype, t.cpSubtype)
  /\ t.op # "contract_subtype" => Unclaimed(t.owner, t.cp, t.shape, {t.target})

\* A request that is refused, dies, or is the victim of a deadlock: a ROLLBACK.
Abandon(s) ==
  /\ ~Idle(s)
  /\ task' = [task EXCEPT ![s] = NoTask]
  /\ UNCHANGED <<parts, contracts, proposals>>
-----------------------------------------------------------------------------
RegisterPart(name, subtype) ==
  /\ ~Taken(name)
  /\ \E p \in PartIds :
       /\ parts[p].state = "absent"
       /\ parts' = [parts EXCEPT ![p] = [NoPart EXCEPT !.state = "live", !.name = name,
                                                       !.subtype = subtype]]
  /\ UNCHANGED <<contracts, proposals, task>>

\* register_contract resolves the owner first ...
RegisterContract(s, owner, shape) ==
  /\ Idle(s)
  /\ LivePart(owner)
  /\ task' = [task EXCEPT ![s] = [NoTask EXCEPT !.op = "register", !.owner = owner,
                                    !.shape = shape, !.ownerSubtype = parts[owner].subtype]]
  /\ UNCHANGED <<parts, contracts, proposals>>

\* ... then the counterparty, and validates.  Neither part is locked.
ResolveCounterparty(s, cp) ==
  /\ task[s].op = "register" /\ ~BothRead(task[s])
  /\ LivePart(cp)
  /\ LET t == [task[s] EXCEPT !.cp = cp, !.cpSubtype = parts[cp].subtype] IN
       Check(t) /\ task' = [task EXCEPT ![s] = t]
  /\ UNCHANGED <<parts, contracts, proposals>>

\* INSERT and COMMIT.  The foreign keys share the two parts, so they wait for a
\* deletion of either (and land on it, once deleted); the CHECK refuses a contract
\* of a part with itself.
LandContract(s) ==
  /\ task[s].op = "register" /\ BothRead(task[s])
  /\ LET t == task[s] IN
       /\ ~Deleting(t.owner) /\ ~Deleting(t.cp)
       /\ t.owner # t.cp
       /\ IndexAdmits(t.owner, t.cp, t.shape, {})
       /\ \E c \in ContractIds :
            /\ contracts[c].state = "absent"
            /\ contracts' = [contracts EXCEPT ![c] =
                 [NoContract EXCEPT !.state = "live", !.owner = t.owner, !.cp = t.cp,
                                    !.shape = t.shape]]
  /\ task' = [task EXCEPT ![s] = NoTask]
  /\ UNCHANGED <<parts, proposals>>

ProposePartSubtypeShift(name, subtype, actor) ==
  /\ \E p \in PartIds : /\ LocksPart(name, p)
                        /\ parts[p].subtype # subtype
                        /\ File("part_subtype", p, subtype, actor)
  /\ UNCHANGED <<parts, contracts, task>>

\* Contracts the new subtype no longer suits are reported, not blocked on.
AcceptPartSubtypeShift(name, q, actor, override) ==
  /\ \E p \in PartIds :
       /\ LocksPart(name, p)
       /\ Acceptable(q, "part_subtype", p, actor, override)
       /\ proposals[q].change # parts[p].subtype
       /\ parts' = [parts EXCEPT ![p].subtype = proposals[q].change]
  /\ Stamp(q, actor, override, FALSE)
  /\ UNCHANGED <<contracts, task>>

ProposePartNameShift(name, newName, actor) ==
  /\ newName # name
  /\ ~Taken(newName)
  /\ \E p \in PartIds : LocksPart(name, p) /\ File("part_name", p, newName, actor)
  /\ UNCHANGED <<parts, contracts, task>>

\* Mutant: the propose-time check that the new slug is free is relied on.
AcceptPartNameShiftUnchecked(name, q, actor, override) ==
  /\ \E p \in PartIds :
       /\ LocksPart(name, p)
       /\ Acceptable(q, "part_name", p, actor, override)
       /\ proposals[q].change # name
       /\ parts' = [parts EXCEPT ![p].name = proposals[q].change]
  /\ Stamp(q, actor, override, FALSE)
  /\ UNCHANGED <<contracts, task>>

\* The unique index on live slugs backs the check up at the COMMIT.
AcceptPartNameShift(name, q, actor, override) ==
  /\ \E p \in PartIds :
       /\ LocksPart(name, p)
       /\ Acceptable(q, "part_name", p, actor, override)
       /\ proposals[q].change # name /\ ~Taken(proposals[q].change)
       /\ parts' = [parts EXCEPT ![p].name = proposals[q].change]
  /\ Stamp(q, actor, override, FALSE)
  /\ UNCHANGED <<contracts, task>>

ProposePartDeletion(name, actor) ==
  /\ \E p \in PartIds : LocksPart(name, p) /\ File("part_deletion", p, Nothing, actor)
  /\ UNCHANGED <<parts, contracts, task>>

\* ?single_operator=true is refused, the acceptor must be a known human, and live
\* contracts block the deletion unless ?cascade=true takes them along.  They are
\* read, not locked.
AcceptPartDeletion(s, name, q, actor, cascade) ==
  /\ Idle(s)
  /\ HumanConfirmed(actor, Agents)
  /\ \E p \in PartIds :
       /\ LocksPart(name, p)
       /\ Acceptable(q, "part_deletion", p, actor, FALSE)
       /\ Touching(p) # {} => cascade
       /\ task' = [task EXCEPT ![s] =
            [NoTask EXCEPT !.op = "part_deletion", !.proposal = q, !.target = p, !.actor = actor,
                           !.flag = cascade, !.loaded = [c \in Touching(p) |-> contracts[c]]]]
  /\ UNCHANGED <<parts, contracts, proposals>>

\* The stamps and the COMMIT.  The UPDATEs of the contracts wait for the shifts
\* that have them locked.
CommitPartDeletion(s) ==
  /\ task[s].op = "part_deletion"
  /\ LET t == task[s]
         q == t.proposal IN
       /\ \A c \in DOMAIN t.loaded : ~Shifting(c)
       /\ parts' = [parts EXCEPT ![t.target] = Deleted(@, q, t.actor, FALSE)]
       /\ contracts' = [c \in ContractIds |-> IF c \in DOMAIN t.loaded
                                                THEN Swept(contracts[c], t.loaded[c], q, t.actor)
                                                ELSE contracts[c]]
       /\ Stamp(q, t.actor, FALSE, t.flag)
  /\ task' = [task EXCEPT ![s] = NoTask]
-----------------------------------------------------------------------------
ProposeContractSubtypeShift(c, shape, actor) ==
  /\ LocksContract(c)
  /\ shape # contracts[c].shape
  /\ RuleHolds(shape, contracts[c].owner, contracts[c].cp)
  /\ File("contract_subtype", c, shape, actor)
  /\ UNCHANGED <<parts, contracts, task>>

\* Locks the contract, and reads the owner's subtype.
AcceptContractSubtypeShift(s, c, q, actor, override) ==
  /\ Idle(s)
  /\ LocksContract(c)
  /\ Acceptable(q, "contract_subtype", c, actor, override)
  /\ proposals[q].change # contracts[c].shape
  /\ task' = [task EXCEPT ![s] =
       [NoTask EXCEPT !.op = "contract_subtype", !.proposal = q, !.target = c, !.actor = actor,
                      !.flag = override, !.owner = contracts[c].owner, !.cp = contracts[c].cp,
                      !.shape = proposals[q].change,
                      !.ownerSubtype = parts[contracts[c].owner].subtype]]
  /\ UNCHANGED <<parts, contracts, proposals>>

\* One side of a possibly one-sided endpoint shift.
Moved(current, new) == IF new = Keep THEN current ELSE new

\* Both sides must not stay, nor be one part.
Moves(c, owner, cp) == <<owner, cp>> # <<contracts[c].owner, contracts[c].cp>> /\ owner # cp

ProposeContractEndpointShift(c, newOwner, newCp, actor) ==
  /\ LocksContract(c)
  /\ {newOwner, newCp} # {Keep}
  /\ \A p \in {newOwner, newCp} \ {Keep} : LivePart(p)
  /\ LET owner == Moved(contracts[c].owner, newOwner)
         cp == Moved(contracts[c].cp, newCp) IN
       /\ Moves(c, owner, cp)
       /\ RuleHolds(contracts[c].shape, owner, cp)
       /\ Unclaimed(owner, cp, contracts[c].shape, {c})
  /\ File("contract_endpoint", c, <<newOwner, newCp>>, actor)
  /\ UNCHANGED <<parts, contracts, task>>

\* Locks the contract and reads the subtype of a new owner, or else of the new
\* counterparty.  session.get(Part, id) finds a soft-deleted row too, so the "part
\* has been deleted" check, which tests for None, never fires.
AcceptContractEndpointShift(s, c, q, actor, override) ==
  /\ Idle(s)
  /\ LocksContract(c)
  /\ Acceptable(q, "contract_endpoint", c, actor, override)
  /\ LET owner == Moved(contracts[c].owner, proposals[q].change[1])
         cp == Moved(contracts[c].cp, proposals[q].change[2])
         t == [NoTask EXCEPT !.op = "contract_endpoint", !.proposal = q, !.target = c,
                             !.actor = actor, !.flag = override, !.owner = owner, !.cp = cp,
                             !.shape = contracts[c].shape] IN
       /\ Moves(c, owner, cp)
       /\ task' = [task EXCEPT ![s] =
            IF proposals[q].change[1] # Keep
              THEN [t EXCEPT !.ownerSubtype = parts[owner].subtype]
              ELSE [t EXCEPT !.cpSubtype = parts[cp].subtype]]
  /\ UNCHANGED <<parts, contracts, proposals>>

\* The other endpoint's subtype is read, and where the contract lands validated.
ReadOtherEnd(s) ==
  /\ task[s].op \in ShiftOps /\ ~BothRead(task[s])
  /\ LET t == IF task[s].ownerSubtype = Nothing
                THEN [task[s] EXCEPT !.ownerSubtype = parts[task[s].owner].subtype]
                ELSE [task[s] EXCEPT !.cpSubtype = parts[task[s].cp].subtype] IN
       Check(t) /\ task' = [task EXCEPT ![s] = t]
  /\ UNCHANGED <<parts, contracts, proposals>>

\* UPDATE and COMMIT.  The foreign key of an endpoint that changes shares the new
\* part, so it waits for a deletion of that one; the unique index has the last word.
LandShift(s) ==
  /\ task[s].op \in ShiftOps /\ BothRead(task[s])
  /\ LET t == task[s]
         c == t.target IN
       /\ t.owner # contracts[c].owner => ~Deleting(t.owner)
       /\ t.cp # contracts[c].cp => ~Deleting(t.cp)
       /\ IndexAdmits(t.owner, t.cp, t.shape, {c})
       /\ contracts' = [contracts EXCEPT ![c].owner = t.owner, ![c].cp = t.cp, ![c].shape = t.shape]
       /\ Stamp(t.proposal, t.actor, t.flag, FALSE)
  /\ task' = [task EXCEPT ![s] = NoTask]
  /\ UNCHANGED parts

ProposeContractDeletion(c, actor) ==
  /\ LocksContract(c)
  /\ File("contract_deletion", c, Nothing, actor)
  /\ UNCHANGED <<parts, contracts, task>>

AcceptContractDeletion(c, q, actor, override) ==
  /\ LocksContract(c)
  /\ Acceptable(q, "contract_deletion", c, actor, override)
  /\ contracts' = [contracts EXCEPT ![c] = Deleted(@, q, actor, override)]
  /\ Stamp(q, actor, override, FALSE)
  /\ UNCHANGED <<parts, task>>
-----------------------------------------------------------------------------
Open == {q \in ProposalIds : proposals[q].status = "open"}

NextPart ==
  \E name \in Names, a \in OptActor :
    \/ \E sub \in Subtypes : RegisterPart(name, sub) \/ ProposePartSubtypeShift(name, sub, a)
    \/ \E m \in Names : ProposePartNameShift(name, m, a)
    \/ ProposePartDeletion(name, a)
    \/ \E q \in Open, flag \in BOOLEAN :
         \/ AcceptPartSubtypeShift(name, q, a, flag)
         \/ AcceptPartNameShift(name, q, a, flag)
         \/ \E s \in Sessions : AcceptPartDeletion(s, name, q, a, flag)

NextContract ==
  \/ \E s \in Sessions, p \in PartIds, shape \in Shapes : RegisterContract(s, p, shape)
  \/ \E c \in ContractIds, a \in OptActor :
       \/ \E shape \in Shapes : ProposeContractSubtypeShift(c, shape, a)
       \/ \E p1, p2 \in PartIds \union {Keep} : ProposeContractEndpointShift(c, p1, p2, a)
       \/ ProposeContractDeletion(c, a)
       \/ \E q \in Open, flag \in BOOLEAN :
            \/ AcceptContractDeletion(c, q, a, flag)
            \/ \E s \in Sessions : \/ AcceptContractSubtypeShift(s, c, q, a, flag)
                                  \/ AcceptContractEndpointShift(s, c, q, a, flag)

\* A request that is under way goes on.
Proceed(s) ==
  \/ \E p \in PartIds : ResolveCounterparty(s, p)
  \/ ReadOtherEnd(s)
  \/ LandContract(s)
  \/ LandShift(s)
  \/ CommitPartDeletion(s)
  \/ Abandon(s)

Next == NextPart \/ NextContract \/ (\E s \in Sessions : Proceed(s))

Spec == Init /\ [][Next]_vars
-----------------------------------------------------------------------------
PartRow == [state : {"absent", "live", "deleted"}, name : Names \union {Nothing},
            subtype : Subtypes \union {Nothing}, cause : ProposalIds \union {Nothing},
            proposer : OptActor, acceptor : OptActor, override : BOOLEAN]

ContractRow == [state : {"absent", "live", "deleted"}, owner : PartIds \union {Nothing},
                cp : PartIds \union {Nothing}, shape : Shapes \union {Nothing},
                cause : ProposalIds \union {Nothing},
                proposer : OptActor, acceptor : OptActor, override : BOOLEAN]

\* A request under way that has loaded these contracts.
Task(loaded) ==
  [op : {"none", "register", "contract_subtype", "contract_endpoint", "part_deletion"},
   proposal : ProposalIds \union {Nothing},
   target : PartIds \union ContractIds \union {Nothing}, actor : OptActor, flag : BOOLEAN,
   owner : PartIds \union {Nothing}, cp : PartIds \union {Nothing},
   shape : Shapes \union {Nothing}, ownerSubtype : Subtypes \union {Nothing},
   cpSubtype : Subtypes \union {Nothing}, loaded : {loaded}]

End == PartIds \union {Keep}

\* A proposal is about a row, and asks for what rows of that kind can have.
Suits(row) ==
  \/ row.kind = "part_subtype" /\ row.target \in PartIds /\ row.change \in Subtypes
  \/ row.kind = "part_name" /\ row.target \in PartIds /\ row.change \in Names
  \/ row.kind = "contract_subtype" /\ row.target \in ContractIds /\ row.change \in Shapes
  \/ row.kind = "contract_endpoint" /\ row.target \in ContractIds /\ row.change \in End \X End
  \/ row.kind = "part_deletion" /\ row.target \in PartIds
  \/ row.kind = "contract_deletion" /\ row.target \in ContractIds

TypeOK ==
  /\ parts \in [PartIds -> PartRow]
  /\ contracts \in [ContractIds -> ContractRow]
  /\ DOMAIN task = Sessions
  /\ \A s \in Sessions :
       /\ task[s] \in Task(task[s].loaded)
       /\ DOMAIN task[s].loaded \subseteq ContractIds
       /\ \A c \in DOMAIN task[s].loaded : task[s].loaded[c] \in ContractRow
  /\ DOMAIN proposals = ProposalIds
  /\ \A q \in ProposalIds :
       /\ proposals[q].status \in {"none", "open", "accepted"}
       /\ proposals[q].status = "none" => proposals[q] = NoProposal
       /\ proposals[q].status # "none" => Suits(proposals[q])
       /\ {proposals[q].proposer, proposals[q].acceptor} \subseteq OptActor
       /\ {proposals[q].override, proposals[q].cascade} \subseteq BOOLEAN

\* Two live parts never share a slug, although a rename is decided twice (at
\* propose and at accept) and registrations and renames land in between.
LiveNamesUnique ==
  \A p, q \in PartIds : LivePart(p) /\ LivePart(q) /\ parts[p].name = parts[q].name => p = q

\* At most one live contract has given endpoints and shape, and none is of a part
\* with itself: registration, endpoint shifts, two one-sided ones too, and shape
\* shifts, each valid when it was proposed, never add up to that.
LiveShapesSound ==
  \A c \in ContractIds : LiveContract(c) =>
    /\ Unclaimed(contracts[c].owner, contracts[c].cp, contracts[c].shape, {c})
    /\ contracts[c].owner # contracts[c].cp

\* The accepted proposals that delete contract c: its own, and the cascading ones.
Takers(c) ==
  {q \in ProposalIds :
     /\ proposals[q].status = "accepted"
     /\ \/ proposals[q].kind = "contract_deletion" /\ proposals[q].target = c
        \/ proposals[q].kind = "part_deletion" /\ proposals[q].cascade}

\* Contract c was moved by an accepted endpoint shift.
WasMoved(c) ==
  \E q \in ProposalIds : /\ proposals[q].status = "accepted"
                         /\ proposals[q].kind = "contract_endpoint" /\ proposals[q].target = c

\* The columns of a deleted part are the copy of its own accepted proposal.  Those
\* of a deleted contract lead to the last acceptance that took it along and to who
\* accepted there: the acceptance of its own deletion, or of the cascading one of a
\* part at one of its ends, or of one that it was moved away from.  When two
\* acceptances wrote one row, the other may have left the proposer (where the last
\* has none) and the override, and nothing else has.
DeletionTraceable ==
  /\ \A p \in PartIds : parts[p].state = "deleted" =>
       LET cause == proposals[parts[p].cause] IN
         /\ cause.status = "accepted" /\ cause.kind = "part_deletion" /\ cause.target = p
         /\ cause.proposer = parts[p].proposer
         /\ cause.acceptor = parts[p].acceptor
         /\ cause.override = parts[p].override
  /\ \A c \in ContractIds : contracts[c].state = "deleted" =>
       LET row == contracts[c]
           cause == proposals[row.cause] IN
         /\ row.cause \in Takers(c)
         /\ cause.acceptor = row.acceptor
         /\ \/ cause.kind = "contract_deletion"
            \/ cause.target \in {row.owner, row.cp}
            \/ WasMoved(c)
         /\ \/ cause.proposer = row.proposer
            \/ /\ cause.proposer = NoActor
               /\ \E q \in Takers(c) : proposals[q].proposer = row.proposer
         /\ \E q \in Takers(c) : /\ proposals[q].override = row.override
                                 /\ q = row.cause \/ proposals[q].target = c

\* Nothing destructive happens without a human: what a part deletion took with it,
\* the part or the contracts swept along, names a known human who is not the one
\* that asked for it.  Only a contract's own deletion may be an agent's doing.
HumanInTheLoop ==
  LET human(row) == /\ row.acceptor \in Actors \ Agents
                    /\ row.acceptor # proposals[row.cause].proposer IN
    /\ \A p \in PartIds : parts[p].state = "deleted" => human(parts[p])
    /\ \A c \in ContractIds :
         contracts[c].state = "deleted" /\ proposals[contracts[c].cause].kind # "contract_deletion"
           => human(contracts[c])

\* Soft-deleted is gone: a deleted part and a settled proposal never change again.
\* A deleted contract never comes back, moves or takes another shape, whatever was
\* filed or under way, and who deleted it is written again by one thing only, a
\* cascade that read the contract while it still lived.
DeletedIsFinal ==
  [][/\ \A p \in PartIds : parts[p].state = "deleted" => parts'[p] = parts[p]
     /\ \A q \in ProposalIds :
          proposals[q].status = "accepted" => proposals'[q] = proposals[q]
     /\ \A c \in ContractIds : contracts[c].state = "deleted" =>
          /\ contracts'[c].state = "deleted"
          /\ contracts'[c].owner = contracts[c].owner
          /\ contracts'[c].cp = contracts[c].cp
          /\ contracts'[c].shape = contracts[c].shape
          /\ contracts'[c] # contracts[c] =>
               \E s \in Sessions :
                 /\ task'[s] # task[s]
                 /\ c \in DOMAIN task[s].loaded /\ task[s].loaded[c].state = "live"]_vars

\* The source/target rule holds of a contract wherever it lands: a proposal that was
\* valid when filed is validated again.  An endpoint whose subtype was shifted after
\* the handler that lands the contract read it is the one way out: then the rule
\* holds of the subtypes as they were read, for the very ends and shape that land.
RuleHoldsOnLanding ==
  [][\A c \in ContractIds :
       contracts'[c].state = "live" /\ contracts'[c] # contracts[c] =>
         LET row == contracts'[c]
             now == <<parts[row.owner].subtype, parts[row.cp].subtype>> IN
           \/ Admits(row.shape, now[1], now[2])
           \/ \E s \in Sessions :
                /\ task'[s] # task[s]
                /\ <<task[s].owner, task[s].cp, task[s].shape>> = <<row.owner, row.cp, row.shape>>
                /\ <<task[s].ownerSubtype, task[s].cpSubtype>> # now
                /\ Admits(row.shape, task[s].ownerSubtype, task[s].cpSubtype)]_vars

\* A part is deleted only together with every live contract that touches it.
DeletionLeavesNoContract ==
  [][\A p \in PartIds :
       LivePart(p) /\ parts'[p].state = "deleted"
         => \A c \in ContractIds : contracts'[c].state = "live"
                                     => p \notin {contracts'[c].owner, contracts'[c].cp}]_vars

\* docs/api.md on accepting an endpoint shift, "409 Conflict": "endpoint part
\* deleted since propose".  So no live contract is left pointing at a deleted part.
NoContractOnDeletedPart ==
  \A c \in ContractIds : LiveContract(c) => LivePart(contracts[c].owner) /\ LivePart(contracts[c].cp)

\* skills/accept-part-deletion/SKILL.md: "register a fresh part with the same name
\* [...], then re-stamp the body via /update-part".  So a live part's name leads
\* the write endpoints to it.
LiveNameAddressable == \A p \in PartIds : LivePart(p) => Addresses(parts[p].name, p)
=============================================================================
