-------------------------------- MODULE GraphTx --------------------------------
(***************************************************************************)
(* The handlers that relate parts and contracts, one SQL statement at a    *)
(* time: register_contract, accept_contract_endpoint_shift,                *)
(* accept_contract_deletion and accept_part_deletion with its cascade.     *)
(* The row locks they take (FOR UPDATE), those PostgreSQL takes for them   *)
(* (FOR KEY SHARE on the parts a foreign key names, the unique index's     *)
(* wait for an uncommitted twin) and its choice of a deadlock victim are   *)
(* all here; subtypes, shapes and names, which Graph and PartTx have, are  *)
(* not: contracts are of one shape and every pair of parts suits it.       *)
(***************************************************************************)
EXTENDS Naturals, FiniteSets

CONSTANTS
  Conns,        \* request slots, each with a session of its own
  PartIds,      \* the parts
  ContractIds,  \* contract ids, in the order of the primary key: the bound
  None          \* no request, part, or contract; an endpoint left alone

ASSUME GraphTxAssumption ==
  /\ ContractIds \subseteq Nat /\ IsFiniteSet(ContractIds)
  /\ None \notin Conns \union PartIds \union ContractIds

VARIABLES
  parts,      \* committed: "live" or "deleted"
  contracts,  \* committed contract rows
  partLock,   \* partLock[p]: who holds part p FOR UPDATE
  keyShare,   \* keyShare[p]: who holds it FOR KEY SHARE
  rowLock,    \* rowLock[c]: who holds the row of contract c
  pc,         \* pc[r]: the statement request r is about to run
  req,        \* req[r]: what it is about
  todo,       \* todo[r]: the rows its current statements still have to visit
  wrote       \* wrote[r]: the contract rows it has written and not committed

vars == <<parts, contracts, partLock, keyShare, rowLock, pc, req, todo, wrote>>

Optional(S) == S \union {None}
NoContract == [state |-> "absent", owner |-> None, cp |-> None, cause |-> None]
Between(p, q) == [NoContract EXCEPT !.state = "live", !.owner = p, !.cp = q]
NoRequest == [op |-> "none", part |-> None, contract |-> None,
              owner |-> None, cp |-> None, cascade |-> FALSE]
NoRows == [c \in {} |-> NoContract]

Live(row) == row.state = "live"
SamePlace(row, other) == row.owner = other.owner /\ row.cp = other.cp
Touches(row, p) == p \in {row.owner, row.cp}

\* Parts that are registered, and contracts registered between them one by one.
Init ==
  /\ parts = [p \in PartIds |-> "live"]
  /\ contracts \in [ContractIds -> {NoContract} \union
                     {Between(p, q) : p \in PartIds, q \in PartIds}]
  /\ \A c \in ContractIds : Live(contracts[c]) =>
       /\ contracts[c].owner # contracts[c].cp
       /\ \A d \in ContractIds \ {c} : ~SamePlace(contracts[c], contracts[d])
  /\ partLock = [p \in PartIds |-> None]
  /\ keyShare = [p \in PartIds |-> {}]
  /\ rowLock = [c \in ContractIds |-> None]
  /\ pc = [r \in Conns |-> "idle"]
  /\ req = [r \in Conns |-> NoRequest]
  /\ todo = [r \in Conns |-> {}]
  /\ wrote = [r \in Conns |-> NoRows]

\* Mutant: an early return leaves its transaction, and so its locks, behind.
EndLeaking(r) ==
  /\ pc' = [pc EXCEPT ![r] = "idle"]
  /\ req' = [req EXCEPT ![r] = NoRequest]
  /\ todo' = [todo EXCEPT ![r] = {}]
  /\ wrote' = [wrote EXCEPT ![r] = NoRows]
  /\ UNCHANGED <<partLock, keyShare, rowLock>>

\* The transaction of r is over, and with it every lock it took.
End(r) ==
  /\ pc' = [pc EXCEPT ![r] = "idle"]
  /\ req' = [req EXCEPT ![r] = NoRequest]
  /\ todo' = [todo EXCEPT ![r] = {}]
  /\ wrote' = [wrote EXCEPT ![r] = NoRows]
  /\ partLock' = [p \in PartIds |-> IF partLock[p] = r THEN None ELSE partLock[p]]
  /\ keyShare' = [p \in PartIds |-> keyShare[p] \ {r}]
  /\ rowLock' = [c \in ContractIds |-> IF rowLock[c] = r THEN None ELSE rowLock[c]]

\* An error response: nothing was committed.
Refuse(r) == End(r) /\ UNCHANGED <<parts, contracts>>

Goto(r, label) == pc' = [pc EXCEPT ![r] = label]

\* COMMIT of what r wrote, and the deletion of its part if that is what it is.
Commit(r) ==
  /\ pc[r] = "commit"
  /\ contracts' = [c \in ContractIds |-> IF c \in DOMAIN wrote[r] THEN wrote[r][c]
                                         ELSE contracts[c]]
  /\ parts' = [p \in PartIds |-> IF req[r].op = "delete_part" /\ p = req[r].part
                                 THEN "deleted" ELSE parts[p]]
  /\ End(r)
-----------------------------------------------------------------------------
\* A request arrives.  The parts of a registration are names until they are
\* resolved; the proposal of a shift named parts that were live when it was filed,
\* here just before it is accepted (Graph has the older ones).
Begin(r) ==
  /\ pc[r] = "idle"
  /\ \/ \E p, q \in PartIds :
          /\ p # q
          /\ Cardinality({s \in Conns : req[s].op = "register"})
               < Cardinality({c \in ContractIds : contracts[c] = NoContract})
          /\ req' = [req EXCEPT ![r] = [NoRequest EXCEPT !.op = "register",
                                                         !.owner = p, !.cp = q]]
          /\ Goto(r, "owner")
     \/ \E c \in ContractIds, p, q \in Optional(PartIds) :
          /\ {p, q} # {None}
          /\ \A e \in {p, q} \ {None} : parts[e] = "live"
          /\ req' = [req EXCEPT ![r] = [NoRequest EXCEPT !.op = "shift", !.contract = c,
                                                         !.owner = p, !.cp = q]]
          /\ Goto(r, "lock")
     \/ \E c \in ContractIds :
          /\ req' = [req EXCEPT ![r] = [NoRequest EXCEPT !.op = "delete", !.contract = c]]
          /\ Goto(r, "lock")
     \/ \E p \in PartIds, flag \in BOOLEAN :
          /\ req' = [req EXCEPT ![r] = [NoRequest EXCEPT !.op = "delete_part", !.part = p,
                                                         !.cascade = flag]]
          /\ Goto(r, "lock_part")
  /\ UNCHANGED <<parts, contracts, partLock, keyShare, rowLock, todo, wrote>>

\* register_contract: _resolve_part, which locks nothing, once for each endpoint.
ResolvePart(r) ==
  /\ pc[r] \in {"owner", "cp"}
  /\ LET p == IF pc[r] = "owner" THEN req[r].owner ELSE req[r].cp IN
       \/ parts[p] # "live" /\ Refuse(r)
       \/ /\ parts[p] = "live"
          /\ Goto(r, IF pc[r] = "owner" THEN "cp" ELSE "exists")
          /\ UNCHANGED <<parts, contracts, partLock, keyShare, rowLock, req, todo, wrote>>

\* Some committed live contract, not c itself, is where `row` is to go: 409.
Claimed(c, row) ==
  \E d \in ContractIds \ {c} : Live(contracts[d]) /\ SamePlace(contracts[d], row)

\* Requests whose uncommitted writes put a live contract where `row` is to go, or
\* take one from there: the unique index waits to see what becomes of them.
Contenders(r, c, row) ==
  {s \in Conns \ {r} : \E d \in DOMAIN wrote[s] \ {c} :
     \/ Live(wrote[s][d]) /\ SamePlace(wrote[s][d], row)
     \/ Live(contracts[d]) /\ SamePlace(contracts[d], row)}

\* The row that r is to write: the new contract, or the shifted one.
Target(r) ==
  LET old == IF req[r].contract = None THEN NoContract ELSE contracts[req[r].contract] IN
    [old EXCEPT !.state = "live",
                !.owner = IF req[r].owner = None THEN @ ELSE req[r].owner,
                !.cp = IF req[r].cp = None THEN @ ELSE req[r].cp]

\* The handlers' own look for a contract already there, which locks nothing; a
\* shift also refuses to stay where it is or to end in a self-loop.
CheckPlace(r) ==
  /\ pc[r] = "exists"
  /\ LET row == Target(r)
         c == req[r].contract IN
       IF \/ Claimed(c, row)
          \/ row.owner = row.cp
          \/ c # None /\ SamePlace(contracts[c], row)
         THEN Refuse(r)
         ELSE /\ Goto(r, "write")
              /\ UNCHANGED <<parts, contracts, partLock, keyShare, rowLock, req, todo, wrote>>

\* The parts in columns that a write changes.
NewEnds(old, new) == {p \in PartIds : \/ p = new.owner /\ p # old.owner
                                      \/ p = new.cp /\ p # old.cp}

\* The ids that an INSERT may draw, or the row of an UPDATE.
RowFor(r) == IF req[r].op = "register"
               THEN {c \in ContractIds : /\ contracts[c].state = "absent"
                                         /\ \A s \in Conns : c \notin DOMAIN wrote[s]}
               ELSE {req[r].contract}

\* INSERT or UPDATE of the contract: the unique index on live rows admits it,
\* refuses it (an IntegrityError), or waits.  The foreign keys of the columns that
\* changed are still to be checked.
Write(r) ==
  /\ pc[r] = "write"
  /\ LET row == Target(r) IN
       /\ Contenders(r, req[r].contract, row) = {}
       /\ \/ Claimed(req[r].contract, row) /\ Refuse(r)
          \/ /\ ~Claimed(req[r].contract, row)
             /\ \E c \in RowFor(r) :
                  /\ wrote' = [wrote EXCEPT ![r] = [d \in {c} |-> row]]
                  /\ todo' = [todo EXCEPT ![r] = NewEnds(contracts[c], row)]
             /\ Goto(r, "key")
             /\ UNCHANGED <<parts, contracts, partLock, keyShare, rowLock, req>>

\* The part whose key r has to share next: the owner's first.
NextKey(r) == IF Target(r).owner \in todo[r] THEN Target(r).owner ELSE Target(r).cp

\* The foreign key's SELECT ... FOR KEY SHARE: it waits for whoever has the part
\* FOR UPDATE, and then finds the row there, soft-deleted or not.
ShareKey(r) ==
  /\ pc[r] = "key"
  /\ partLock[NextKey(r)] = None
  /\ keyShare' = [keyShare EXCEPT ![NextKey(r)] = @ \union {r}]
  /\ todo' = [todo EXCEPT ![r] = @ \ {NextKey(r)}]
  /\ IF todo[r] = {NextKey(r)} THEN Goto(r, "commit") ELSE UNCHANGED pc
  /\ UNCHANGED <<parts, contracts, partLock, rowLock, req, wrote>>

\* Mutant: the contract is read without FOR UPDATE.
LockContractNot(r) ==
  /\ pc[r] = "lock"
  /\ LET c == req[r].contract IN
       \/ ~Live(contracts[c]) /\ Refuse(r)
       \/ /\ Live(contracts[c])
          /\ Goto(r, IF req[r].op = "shift" THEN "exists" ELSE "stamp")
          /\ UNCHANGED <<parts, contracts, partLock, keyShare, rowLock, req, todo, wrote>>

\* accept_contract_endpoint_shift, accept_contract_deletion: SELECT ... FOR UPDATE
\* on the contract; a deleted one is a 404.
LockContract(r) ==
  /\ pc[r] = "lock"
  /\ LET c == req[r].contract IN
       /\ rowLock[c] = None
       /\ \/ ~Live(contracts[c]) /\ Refuse(r)
          \/ /\ Live(contracts[c])
             /\ rowLock' = [rowLock EXCEPT ![c] = r]
             /\ Goto(r, IF req[r].op = "shift" THEN "exists" ELSE "stamp")
             /\ UNCHANGED <<parts, contracts, partLock, keyShare, req, todo, wrote>>

\* accept_contract_deletion: the UPDATE; no index and no foreign key is concerned.
StampContract(r) ==
  /\ pc[r] = "stamp"
  /\ LET c == req[r].contract IN
       wrote' = [wrote EXCEPT ![r] =
                  [d \in {c} |-> [contracts[c] EXCEPT !.state = "deleted", !.cause = c]]]
  /\ Goto(r, "commit")
  /\ UNCHANGED <<parts, contracts, partLock, keyShare, rowLock, req, todo>>
-----------------------------------------------------------------------------
\* accept_part_deletion: SELECT ... FOR UPDATE on the part, which also waits for
\* those who share its key.
LockPart(r) ==
  /\ pc[r] = "lock_part"
  /\ LET p == req[r].part IN
       /\ partLock[p] = None /\ keyShare[p] = {}
       /\ \/ parts[p] # "live" /\ Refuse(r)
          \/ /\ parts[p] = "live"
             /\ partLock' = [partLock EXCEPT ![p] = r]
             /\ Goto(r, "impact")
             /\ UNCHANGED <<parts, contracts, keyShare, rowLock, req, todo, wrote>>

\* _compute_part_deletion_impact: the live contracts that touch the part, read
\* without a lock; they block the deletion unless ?cascade=true.
ReadImpact(r) ==
  /\ pc[r] = "impact"
  /\ LET touching == {c \in ContractIds : Live(contracts[c])
                                            /\ Touches(contracts[c], req[r].part)} IN
       IF touching # {} /\ ~req[r].cascade
         THEN Refuse(r)
         ELSE /\ todo' = [todo EXCEPT ![r] = touching]
              /\ Goto(r, IF touching = {} THEN "commit" ELSE "cascade")
              /\ UNCHANGED <<parts, contracts, partLock, keyShare, rowLock, req, wrote>>

\* Mutant: the contracts that the part owns come first.
NextCascadedOwned(r) == CHOOSE c \in todo[r] :
  \A d \in todo[r] : contracts[d].owner = req[r].part => contracts[c].owner = req[r].part

\* The unit of work flushes UPDATEs in the order of the primary key.
NextCascaded(r) == CHOOSE c \in todo[r] : \A d \in todo[r] : c <= d

\* One UPDATE contracts SET deleted_at ... WHERE id = ...: it waits for the row's
\* lock and then stamps the row as it is by now.
Cascade(r) ==
  /\ pc[r] = "cascade"
  /\ LET c == NextCascaded(r) IN
       /\ rowLock[c] = None
       /\ rowLock' = [rowLock EXCEPT ![c] = r]
       /\ wrote' = [wrote EXCEPT ![r] =
            [d \in DOMAIN @ \union {c} |->
               IF d = c THEN [contracts[c] EXCEPT !.state = "deleted",
                                                  !.cause = req[r].part]
               ELSE @[d]]]
       /\ todo' = [todo EXCEPT ![r] = @ \ {c}]
       /\ IF todo[r] = {c} THEN Goto(r, "commit") ELSE UNCHANGED pc
  /\ UNCHANGED <<parts, contracts, partLock, keyShare, req>>
-----------------------------------------------------------------------------
\* Whom the statement that r is about to run has to wait for.
Blockers(r) ==
  CASE pc[r] = "lock"      -> {rowLock[req[r].contract]} \ {None}
    [] pc[r] = "lock_part" -> ({partLock[req[r].part]} \ {None}) \union keyShare[req[r].part]
    [] pc[r] = "write"     -> Contenders(r, req[r].contract, Target(r))
    [] pc[r] = "key"       -> {partLock[NextKey(r)]} \ {None}
    [] pc[r] = "cascade"   -> {rowLock[NextCascaded(r)]} \ {None}
    [] OTHER               -> {}

\* Everyone of R waits for someone of R, in the end for itself.
Deadlocked(R) == R # {} /\ \A r \in R : Blockers(r) \cap R # {}

\* r waits for itself through others.
InCycle(r) ==
  \A S \in SUBSET Conns :
    Blockers(r) \subseteq S /\ (\A s \in S : Blockers(s) \subseteq S) => r \in S

\* PostgreSQL breaks a cycle by failing one of the statements in it.
AbortVictim(r) == InCycle(r) /\ Refuse(r)

\* The connection or the server dies before the commit: PostgreSQL rolls back.
Die(r) == pc[r] # "idle" /\ Refuse(r)

\* The statements that never wait for another transaction, and those that may.
Statement(r) ==
  ResolvePart(r) \/ CheckPlace(r) \/ StampContract(r) \/ ReadImpact(r) \/ Commit(r)

Acquire(r) == LockContract(r) \/ LockPart(r) \/ Write(r) \/ ShareKey(r) \/ Cascade(r)

Next == \E r \in Conns : Begin(r) \/ Acquire(r) \/ Statement(r) \/ AbortVictim(r) \/ Die(r)

Spec == Init /\ [][Next]_vars

\* The event loop runs a session that can go on; PostgreSQL wakes whoever waits for
\* a transaction, in the order of arrival, when that one ends, before a later request
\* gets through its first statements; after deadlock_timeout it looks for cycles.
Fairness ==
  \A r \in Conns : /\ WF_vars(Statement(r))
                   /\ SF_vars(Acquire(r))
                   /\ WF_vars(AbortVictim(r))

LiveSpec == Spec /\ Fairness
-----------------------------------------------------------------------------
\* What is committed goes through the steps that GraphCommits promises: one contract
\* a commit unless a part takes its contracts along, and then all that it has, those
\* registered since the part was looked at too; no move of a contract that was deleted
\* meanwhile, no way back from deleted, no twins and no self-loops.
Commits == INSTANCE GraphCommits WITH
             partState <- parts,
             contractState <- [c \in ContractIds |-> contracts[c].state],
             ends <- [c \in ContractIds |-> <<contracts[c].owner, contracts[c].cp>>]

CommitsSoundly == Commits!Spec

\* A deadlock takes a part deletion whose cascade waits for a contract, and someone
\* else who holds that contract and waits for the part's key: neither kind of
\* request deadlocks among its own.
DeadlockNeedsBoth ==
  \A R \in SUBSET Conns : Deadlocked(R) =>
    /\ \E r \in R : pc[r] = "cascade"
    /\ \E r \in R : pc[r] \in {"write", "key"}

\* Every request ends, whoever it has to wait for.
Answered == \A r \in Conns : pc[r] # "idle" ~> pc[r] = "idle"
=============================================================================
