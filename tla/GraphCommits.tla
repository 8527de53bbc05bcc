----------------------------- MODULE GraphCommits -----------------------------
(***************************************************************************)
(* What PostgreSQL's committed rows of parts and contracts may go through, *)
(* one COMMIT a step: the promise that survives any interleaving of the    *)
(* handlers that GraphTx takes apart.                                      *)
(***************************************************************************)
CONSTANTS PartIds, ContractIds, None

VARIABLES partState, contractState, ends   \* ends[c]: <<owner, counterparty>>

vars == <<partState, contractState, ends>>

Live(c) == contractState[c] = "live"

\* Two live contracts never have the same endpoints in the same roles, and no
\* contract is between a part and itself.
Sound ==
  /\ \A c, d \in ContractIds : Live(c) /\ Live(d) /\ ends[c] = ends[d] => c = d
  /\ \A c \in ContractIds : Live(c) => ends[c][1] # ends[c][2]

Init ==
  /\ partState = [p \in PartIds |-> "live"]
  /\ contractState \in [ContractIds -> {"absent", "live"}]
  /\ ends \in [ContractIds -> (PartIds \union {None}) \X (PartIds \union {None})]
  /\ Sound

Register(c) ==
  /\ contractState[c] = "absent"
  /\ contractState' = [contractState EXCEPT ![c] = "live"]
  /\ \E e \in PartIds \X PartIds : ends' = [ends EXCEPT ![c] = e]
  /\ UNCHANGED partState

\* Only a live contract moves.
Move(c) ==
  /\ Live(c)
  /\ \E e \in PartIds \X PartIds : ends' = [ends EXCEPT ![c] = e]
  /\ UNCHANGED <<partState, contractState>>

Delete(c) ==
  /\ Live(c)
  /\ contractState' = [contractState EXCEPT ![c] = "deleted"]
  /\ UNCHANGED <<partState, ends>>

\* Every contract the part has by then goes in the same COMMIT; one that was moved
\* away from it meanwhile may go along.
DeletePart(p) ==
  /\ partState[p] = "live"
  /\ partState' = [partState EXCEPT ![p] = "deleted"]
  /\ \E S \in SUBSET {c \in ContractIds : Live(c)} :
       /\ \A c \in ContractIds : Live(c) /\ p \in {ends[c][1], ends[c][2]} => c \in S
       /\ contractState' = [c \in ContractIds |-> IF c \in S THEN "deleted" ELSE contractState[c]]
  /\ UNCHANGED ends

Commit ==
  \/ \E c \in ContractIds : Register(c) \/ Move(c) \/ Delete(c)
  \/ \E p \in PartIds : DeletePart(p)

Next == Commit /\ Sound'

Spec == Init /\ [][Next]_vars
=============================================================================
