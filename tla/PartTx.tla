-------------------------------- MODULE PartTx --------------------------------
(***************************************************************************)
(* Part slugs and part versions, one SQL statement at a time: registration,*)
(* update and the two steps of a rename (routers/parts.py), with part      *)
(* deletions.  Handlers find their part by a slug that others can move or  *)
(* free while they wait for its row lock, and decide on another slug that  *)
(* no row lock covers.                                                     *)
(***************************************************************************)
EXTENDS Naturals, FiniteSets

CONSTANTS
  Conns,        \* request slots, each with a session of its own
  PartIds, ProposalIds,   \* row ids (uuids) to draw from: the bounds
  Names,        \* part slugs
  MaxVersion,   \* versions are ranks in the order of Versioning: the bound
  None          \* no request, row or slug

ASSUME PartTxAssumption ==
  /\ None \notin Conns \union PartIds \union ProposalIds \union Names
  /\ MaxVersion \in Nat

VARIABLES
  parts,      \* committed: state, name and versions of each part
  renames,    \* committed: the name proposals
  lock,       \* lock[p]: who holds the row lock of part p
  pc,         \* pc[c]: the statement request c is about to run
  req,        \* req[c]: the slug it was sent to, and what it writes
  found,      \* found[c]: the parts its SELECT ... FOR UPDATE is about
  res         \* res[c]: how it ends

vars == <<parts, renames, lock, pc, req, found, res>>

Versions == 1..MaxVersion

NoPart == [state |-> "absent", name |-> None, versions |-> {}]
NoRename == [status |-> "none", part |-> None, to |-> None]
NoRequest == [op |-> "none", name |-> None, version |-> 0, proposal |-> None]

Init ==
  /\ parts = [p \in PartIds |-> NoPart]
  /\ renames = [q \in ProposalIds |-> NoRename]
  /\ lock = [p \in PartIds |-> None]
  /\ pc = [c \in Conns |-> "idle"]
  /\ req = [c \in Conns |-> NoRequest]
  /\ found = [c \in Conns |-> {}]
  /\ res = [c \in Conns |-> "none"]

LivePart(p) == parts[p].state = "live"

\* Some live part, other than those in `own`, has the slug: both the existence
\* checks and the partial unique index on live rows.
Taken(name, own) == \E p \in PartIds \ own : LivePart(p) /\ parts[p].name = name

\* The part that c has locked.
Mine(c) == CHOOSE p \in PartIds : p \in found[c]

\* The transaction of c ends, by commit or rollback.
Finish(c, result) ==
  /\ pc' = [pc EXCEPT ![c] = "done"]
  /\ res' = [res EXCEPT ![c] = result]
  /\ req' = [req EXCEPT ![c] = NoRequest]
  /\ found' = [found EXCEPT ![c] = {}]
  /\ lock' = [p \in PartIds |-> IF lock[p] = c THEN None ELSE lock[p]]

Goto(c, label) ==
  /\ pc' = [pc EXCEPT ![c] = label]
  /\ UNCHANGED <<lock, found, res>>

\* A request arrives.  A registration starts with the existence check; the others
\* with SELECT ... WHERE name = ... FOR UPDATE, whose snapshot is taken here: live
\* and deleted rows alike.
Begin(c) ==
  /\ pc[c] = "idle"
  /\ \E name \in Names, op \in {"register", "update", "propose", "accept"} :
       /\ req' = [req EXCEPT ![c] = [NoRequest EXCEPT !.op = op, !.name = name]]
       /\ pc' = [pc EXCEPT ![c] = IF op = "register" THEN "check" ELSE "wait"]
       /\ found' = [found EXCEPT ![c] = IF op = "register" THEN {} ELSE
                      {p \in PartIds : parts[p].name = name}]
  /\ UNCHANGED <<parts, renames, lock, res>>

\* register_part: the existence check, which locks nothing.
CheckFree(c) ==
  /\ pc[c] = "check"
  /\ IF Taken(req[c].name, {})
       THEN Finish(c, "409")
       ELSE Goto(c, "insert") /\ UNCHANGED req
  /\ UNCHANGED <<parts, renames>>

\* The INSERTs and the COMMIT, or the unique index's refusal.
Register(c) ==
  /\ pc[c] = "insert"
  /\ \/ /\ Taken(req[c].name, {})
        /\ Finish(c, "IntegrityError")
        /\ UNCHANGED parts
     \/ /\ ~Taken(req[c].name, {})
        /\ \E p \in PartIds, v \in Versions :
             /\ parts[p].state = "absent"
             /\ parts' = [parts EXCEPT ![p] = [state |-> "live", name |-> req[c].name,
                                               versions |-> {v}]]
        /\ Finish(c, "201")
  /\ UNCHANGED renames

\* Mutant: a plain SELECT, which neither waits nor locks.
GrantUnlocked(c) ==
  /\ pc[c] = "wait"
  /\ LET matching == {p \in found[c] : parts[p].name = req[c].name} IN
       \/ matching = {} /\ Finish(c, "404")
       \/ Cardinality(matching) > 1 /\ Finish(c, "MultipleResultsFound")
       \/ \E p \in PartIds :
            /\ matching = {p}
            /\ \/ ~LivePart(p) /\ Finish(c, "404")
               \/ /\ LivePart(p)
                  /\ UNCHANGED lock
                  /\ pc' = [pc EXCEPT ![c] = req[c].op]
                  /\ found' = [found EXCEPT ![c] = {p}]
                  /\ UNCHANGED <<req, res>>
  /\ UNCHANGED <<parts, renames>>

\* Mutant: the id is looked up by slug, then the row is locked by id.
GrantById(c) ==
  /\ pc[c] = "wait"
  /\ \A p \in found[c] : lock[p] = None
  /\ LET matching == found[c] IN
       \/ matching = {} /\ Finish(c, "404")
       \/ Cardinality(matching) > 1 /\ Finish(c, "MultipleResultsFound")
       \/ \E p \in PartIds :
            /\ matching = {p}
            /\ \/ ~LivePart(p) /\ Finish(c, "404")
               \/ /\ LivePart(p)
                  /\ lock' = [lock EXCEPT ![p] = c]
                  /\ pc' = [pc EXCEPT ![c] = req[c].op]
                  /\ found' = [found EXCEPT ![c] = {p}]
                  /\ UNCHANGED <<req, res>>
  /\ UNCHANGED <<parts, renames>>

\* The row locks are granted.  READ COMMITTED evaluates WHERE again on the rows as
\* they are by now, so one that was renamed meanwhile drops out; one that took the
\* slug meanwhile was not in the snapshot.  scalar_one_or_none() raises on two rows.
Grant(c) ==
  /\ pc[c] = "wait"
  /\ \A p \in found[c] : lock[p] = None
  /\ LET matching == {p \in found[c] : parts[p].name = req[c].name} IN
       \/ matching = {} /\ Finish(c, "404")
       \/ Cardinality(matching) > 1 /\ Finish(c, "MultipleResultsFound")
       \/ \E p \in PartIds :
            /\ matching = {p}
            /\ \/ ~LivePart(p) /\ Finish(c, "404")
               \/ /\ LivePart(p)
                  /\ lock' = [lock EXCEPT ![p] = c]
                  /\ pc' = [pc EXCEPT ![c] = req[c].op]
                  /\ found' = [found EXCEPT ![c] = {p}]
                  /\ UNCHANGED <<req, res>>
  /\ UNCHANGED <<parts, renames>>
-----------------------------------------------------------------------------
\* update_part: the latest version and the strictly-greater check.
CheckLatest(c) ==
  /\ pc[c] = "update"
  /\ \E v \in Versions :
       IF \A w \in parts[Mine(c)].versions : v > w
         THEN /\ req' = [req EXCEPT ![c].version = v]
              /\ Goto(c, "append")
         ELSE Finish(c, "409")
  /\ UNCHANGED <<parts, renames>>

\* INSERT of the version and COMMIT; a version is unique within its part.
Append(c) ==
  /\ pc[c] = "append"
  /\ IF req[c].version \in parts[Mine(c)].versions
       THEN Finish(c, "IntegrityError") /\ UNCHANGED parts
       ELSE /\ parts' = [parts EXCEPT ![Mine(c)].versions = @ \union {req[c].version}]
            /\ Finish(c, "200")
  /\ UNCHANGED renames

\* propose_part_name_shift: the slug check, and the INSERT and COMMIT, which no
\* other request can tell from one statement.
ProposeRename(c) ==
  /\ pc[c] = "propose"
  /\ \E to \in Names :
       IF to = req[c].name \/ Taken(to, {})
         THEN Finish(c, "409") /\ UNCHANGED renames
         ELSE \E q \in ProposalIds :
                /\ renames[q].status = "none"
                /\ renames' = [renames EXCEPT ![q] = [status |-> "open", to |-> to,
                                                      part |-> Mine(c)]]
                /\ Finish(c, "201")
  /\ UNCHANGED parts

\* Mutant: a proposal that was accepted already is accepted again.
FindAnyRename(c) ==
  /\ pc[c] = "accept"
  /\ \/ /\ \E q \in ProposalIds : renames[q].part # Mine(c)
        /\ Finish(c, "404")
     \/ \E q \in ProposalIds :
          /\ renames[q].part = Mine(c)
          /\ IF renames[q].to # parts[Mine(c)].name
               THEN /\ req' = [req EXCEPT ![c].proposal = q]
                    /\ Goto(c, "clash")
               ELSE Finish(c, "409")
  /\ UNCHANGED <<parts, renames>>

\* accept_part_name_shift: the SELECT of the proposal and the checks on it.  (Who
\* may accept is Graph's.)
FindRename(c) ==
  /\ pc[c] = "accept"
  /\ \/ /\ \E q \in ProposalIds : renames[q].part # Mine(c)
        /\ Finish(c, "404")
     \/ \E q \in ProposalIds :
          /\ renames[q].part = Mine(c)
          /\ IF renames[q].status = "open" /\ renames[q].to # parts[Mine(c)].name
               THEN /\ req' = [req EXCEPT ![c].proposal = q]
                    /\ Goto(c, "clash")
               ELSE Finish(c, "409")
  /\ UNCHANGED <<parts, renames>>

\* Has another live part taken the slug since?
CheckClash(c) ==
  /\ pc[c] = "clash"
  /\ IF Taken(renames[req[c].proposal].to, {Mine(c)})
       THEN Finish(c, "409")
       ELSE Goto(c, "rename") /\ UNCHANGED req
  /\ UNCHANGED <<parts, renames>>

\* UPDATE of part and proposal and COMMIT, or the unique index's refusal.
Rename(c) ==
  /\ pc[c] = "rename"
  /\ LET q == req[c].proposal IN
       IF Taken(renames[q].to, {Mine(c)})
         THEN Finish(c, "IntegrityError") /\ UNCHANGED <<parts, renames>>
         ELSE /\ parts' = [parts EXCEPT ![Mine(c)].name = renames[q].to]
              /\ renames' = [renames EXCEPT ![q].status = "accepted"]
              /\ Finish(c, "200")

\* accept_part_deletion commits.  It holds the part's row lock from its first
\* statement on, so to the other handlers here it is one step.
Delete(p) ==
  /\ lock[p] = None
  /\ LivePart(p)
  /\ parts' = [parts EXCEPT ![p].state = "deleted"]
  /\ UNCHANGED <<renames, lock, pc, req, found, res>>

\* The response is sent, or lost: either way the slot is free again.
Reply(c) ==
  /\ pc[c] = "done"
  /\ pc' = [pc EXCEPT ![c] = "idle"]
  /\ res' = [res EXCEPT ![c] = "none"]
  /\ UNCHANGED <<parts, renames, lock, req, found>>

\* The connection or the server dies before the commit: PostgreSQL rolls back.
Die(c) ==
  /\ pc[c] \notin {"idle", "done"}
  /\ pc' = [pc EXCEPT ![c] = "idle"]
  /\ req' = [req EXCEPT ![c] = NoRequest]
  /\ found' = [found EXCEPT ![c] = {}]
  /\ lock' = [p \in PartIds |-> IF lock[p] = c THEN None ELSE lock[p]]
  /\ UNCHANGED <<parts, renames, res>>

Statement(c) ==
  \/ CheckFree(c) \/ Register(c)
  \/ CheckLatest(c) \/ Append(c)
  \/ ProposeRename(c) \/ FindRename(c) \/ CheckClash(c) \/ Rename(c)
  \/ Reply(c)

Next ==
  \/ \E c \in Conns : Begin(c) \/ Grant(c) \/ Statement(c) \/ Die(c)
  \/ \E p \in PartIds : Delete(p)

Spec == Init /\ [][Next]_vars
-----------------------------------------------------------------------------
Part == [state : {"absent", "live", "deleted"}, name : Names \union {None},
         versions : SUBSET Versions]
NameProposal == [status : {"none", "open", "accepted"}, part : PartIds \union {None},
                 to : Names \union {None}]
Request == [op : {"none", "register", "update", "propose", "accept"},
            name : Names \union {None}, version : Nat, proposal : ProposalIds \union {None}]
Labels == {"idle", "check", "insert", "wait", "update", "append", "propose", "accept",
           "clash", "rename", "done"}
Results == {"none", "200", "201", "404", "409", "IntegrityError", "MultipleResultsFound"}

TypeOK ==
  /\ parts \in [PartIds -> Part]
  /\ renames \in [ProposalIds -> NameProposal]
  /\ lock \in [PartIds -> Conns \union {None}]
  /\ pc \in [Conns -> Labels]
  /\ req \in [Conns -> Request]
  /\ found \in [Conns -> SUBSET PartIds]
  /\ res \in [Conns -> Results]

\* DESIGN.md: the row lock ensures that "the strictly greater check cannot race".  A
\* version that is added to a part is above every one it has by then.
VersionsAscend ==
  [][\A p \in PartIds : LivePart(p) =>
       /\ parts[p].versions \subseteq parts'[p].versions
       /\ \A v \in parts'[p].versions \ parts[p].versions :
            \A w \in parts[p].versions : v > w]_vars

\* A request writes to the part that has the slug it was sent to, and only while
\* that part is live: no update or rename, having waited for the row lock, lands on
\* a part that moved away or was deleted in the meantime.
WritesReachNamed ==
  [][\A p \in PartIds, c \in Conns :
       parts[p].state # "absent" /\ pc'[c] = "done" /\ pc[c] # "done"
         /\ <<parts'[p].name, parts'[p].versions>> # <<parts[p].name, parts[p].versions>>
         => LivePart(p) /\ parts[p].name = req[c].name]_vars

\* A part changes its name only by a proposal about it that was open until then and
\* is settled from then on: racing acceptances rename once.
RenamedOnce ==
  [][/\ \A p \in PartIds :
          parts[p].state # "absent" /\ parts'[p].name # parts[p].name
            => \E q \in ProposalIds : /\ renames[q] = [status |-> "open", part |-> p,
                                                       to |-> parts'[p].name]
                                      /\ renames'[q].status = "accepted"
     /\ \A q \in ProposalIds :
          renames[q].status = "accepted" => renames'[q] = renames[q]]_vars
=============================================================================
