------------------------------- MODULE AgentGate -------------------------------
(***************************************************************************)
(* The agent allowlist (routers/agent_actors.py) and those who consult it, *)
(* one SQL statement at a time: registering an agent, revoking one, and    *)
(* accepting a part deletion.  The list is read without a lock, and the    *)
(* list of one request is the target of another.                           *)
(***************************************************************************)
EXTENDS Handshake, FiniteSets

CONSTANTS
  Conns,       \* request slots, each with a session of its own
  RowIds,      \* row ids (uuids) to draw from: the bound
  Bots,        \* the actors that migration 0020 registered, or an operator has
  Free         \* the value of unused fields

ASSUME AgentGateAssumption ==
  /\ Bots \subseteq Actors
  /\ Free \notin OptActor

VARIABLES
  rows,       \* committed agent_actors rows
  pc,         \* pc[c]: the statement request c is about to run
  req,        \* req[c]: the operation, who asks (X-Actor), and about whom
  found,      \* found[c]: the rows its SELECT ... FOR UPDATE is about
  deleters    \* who confirmed a part deletion

gateVars == <<rows, pc, req, found, deleters>>

NoRow == [state |-> "absent", actor |-> Free, by |-> Free]
NoRequest == [op |-> "none", actor |-> NoActor, target |-> Free]

LiveRow(i) == rows[i].state = "live"
Registered(actor) == \E i \in RowIds : LiveRow(i) /\ rows[i].actor = actor

\* get_active_agent_actors
Allowlist == {rows[i].actor : i \in {j \in RowIds : LiveRow(j)}}

\* Every bot has a live row, no actor has two.
GateInit ==
  /\ rows \in [RowIds -> {NoRow} \union
                 {[NoRow EXCEPT !.state = "live", !.actor = b] : b \in Bots}]
  /\ \A b \in Bots : \E i \in RowIds : LiveRow(i) /\ rows[i].actor = b
  /\ \A i, j \in RowIds :
       LiveRow(i) /\ LiveRow(j) /\ rows[i].actor = rows[j].actor => i = j
  /\ pc = [c \in Conns |-> "idle"]
  /\ req = [c \in Conns |-> NoRequest]
  /\ found = [c \in Conns |-> {}]
  /\ deleters = {}

Begin(c) ==
  /\ pc[c] = "idle"
  /\ \E actor \in OptActor :
       \/ \E target \in Actors, op \in {"register", "revoke"} :
            req' = [req EXCEPT ![c] = [op |-> op, actor |-> actor, target |-> target]]
       \/ req' = [req EXCEPT ![c] = [NoRequest EXCEPT !.op = "delete_part", !.actor = actor]]
  /\ pc' = [pc EXCEPT ![c] = IF req'[c].op = "register" THEN "check" ELSE "gate"]
  /\ UNCHANGED <<rows, found, deleters>>

\* The request is over, by commit or by rollback.
EndRequest(c) ==
  /\ pc' = [pc EXCEPT ![c] = "idle"]
  /\ req' = [req EXCEPT ![c] = NoRequest]
  /\ found' = [found EXCEPT ![c] = {}]

Goto(c, label) == pc' = [pc EXCEPT ![c] = label] /\ UNCHANGED req

\* register_agent_actor: a live row of that actor is a 409.
CheckRegistered(c) ==
  /\ pc[c] = "check"
  /\ IF Registered(req[c].target)
       THEN EndRequest(c)
       ELSE Goto(c, "insert") /\ UNCHANGED found
  /\ UNCHANGED <<rows, deleters>>

\* The INSERT and COMMIT, or the refusal of the partial unique index.
Register(c) ==
  /\ pc[c] = "insert"
  /\ \/ Registered(req[c].target) /\ UNCHANGED rows
     \/ /\ ~Registered(req[c].target)
        /\ \E i \in RowIds :
             /\ rows[i].state = "absent"
             /\ rows' = [rows EXCEPT ![i] = [NoRow EXCEPT !.state = "live",
                                                          !.actor = req[c].target]]
  /\ EndRequest(c)
  /\ UNCHANGED deleters

\* Mutant: an agent may not revoke itself, but its peers.
PassGateForPeers(c) ==
  /\ pc[c] = "gate"
  /\ IF HumanConfirmed(req[c].actor, Allowlist \intersect {req[c].target})
       THEN Goto(c, IF req[c].op = "revoke" THEN "find" ELSE "delete_part") /\ UNCHANGED found
       ELSE EndRequest(c)
  /\ UNCHANGED <<rows, deleters>>

\* revoke_agent_actor and accept_part_deletion: the list is read and the gate passed
\* or not; what the list is afterwards is not looked at again.
PassGate(c) ==
  /\ pc[c] = "gate"
  /\ IF HumanConfirmed(req[c].actor, Allowlist)
       THEN Goto(c, IF req[c].op = "revoke" THEN "find" ELSE "delete_part") /\ UNCHANGED found
       ELSE EndRequest(c)
  /\ UNCHANGED <<rows, deleters>>

\* The snapshot of SELECT ... WHERE actor = ... AND revoked_at IS NULL FOR UPDATE.
FindRow(c) ==
  /\ pc[c] = "find"
  /\ found' = [found EXCEPT ![c] = {i \in RowIds : LiveRow(i) /\ rows[i].actor = req[c].target}]
  /\ Goto(c, "revoke")
  /\ UNCHANGED <<rows, deleters>>

\* Mutant: a plain SELECT, which takes the row as it was.
RevokeUnlocked(c) ==
  /\ pc[c] = "revoke"
  /\ rows' = [i \in RowIds |->
       IF i \in found[c]
         THEN [rows[i] EXCEPT !.state = "revoked", !.by = req[c].actor]
         ELSE rows[i]]
  /\ EndRequest(c)
  /\ UNCHANGED deleters

\* The row's lock is granted, WHERE is evaluated again (a row revoked meanwhile drops
\* out: 404), and UPDATE and COMMIT follow, which nobody can come between.
Revoke(c) ==
  /\ pc[c] = "revoke"
  /\ rows' = [i \in RowIds |->
       IF i \in found[c] /\ LiveRow(i)
         THEN [rows[i] EXCEPT !.state = "revoked", !.by = req[c].actor]
         ELSE rows[i]]
  /\ EndRequest(c)
  /\ UNCHANGED deleters

\* accept_part_deletion from its gate on.
DeletePart(c) ==
  /\ pc[c] = "delete_part"
  /\ deleters' = deleters \union {req[c].actor}
  /\ EndRequest(c)
  /\ UNCHANGED rows

\* The connection or the server dies before the commit: PostgreSQL rolls back.
Die(c) == pc[c] # "idle" /\ EndRequest(c) /\ UNCHANGED <<rows, deleters>>

GateNext ==
  \E c \in Conns :
    \/ Begin(c) \/ CheckRegistered(c) \/ Register(c)
    \/ PassGate(c) \/ FindRow(c) \/ Revoke(c) \/ DeletePart(c)
    \/ Die(c)

GateSpec == GateInit /\ [][GateNext]_gateVars
-----------------------------------------------------------------------------
Row == [state : {"absent", "live", "revoked"},
        actor : Actors \union {Free}, by : OptActor \union {Free}]
Request == [op : {"none", "register", "revoke", "delete_part"},
            actor : OptActor, target : Actors \union {Free}]

GateTypeOK ==
  /\ rows \in [RowIds -> Row]
  /\ pc \in [Conns -> {"idle", "check", "insert", "gate", "find", "revoke", "delete_part"}]
  /\ req \in [Conns -> Request]
  /\ found \in [Conns -> SUBSET RowIds]
  /\ deleters \subseteq OptActor

\* Who has done what takes a human: revoked an agent or confirmed a part deletion.
Doers == {rows[i].by : i \in {j \in RowIds : rows[j].state = "revoked"}} \union deleters

\* agent_actors.py: "an agent can register peers [...] but cannot revoke them", else
\* it "could quietly remove its peers from the allowlist and bypass
\* human-confirmation".  However agents act on each other and on themselves, alone or
\* in races, the first such deed is not theirs.
AgentsConfined == Doers # {} => Doers \ Bots # {}

\* A revocation is on record for good: a second one that waited for the first does
\* not put its name there, nor does it hit the actor's next registration.
RevokedIsFinal ==
  [][\A i \in RowIds : rows[i].state = "revoked" => rows'[i] = rows[i]]_gateVars
=============================================================================
