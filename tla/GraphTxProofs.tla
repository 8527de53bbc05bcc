----------------------------- MODULE GraphTxProofs -----------------------------
(***************************************************************************)
(* GraphTx, for every number of requests, parts and contracts: what the    *)
(* row locks, the unique index and the foreign keys leave possible is what *)
(* GraphCommits promises, and a deadlock takes a cascade and a writer.     *)
(***************************************************************************)
EXTENDS GraphTx, FiniteSetTheorems, WellFoundedInduction, TLAPS

Labels == {"idle", "owner", "cp", "exists", "write", "key", "lock", "stamp",
           "lock_part", "impact", "cascade", "commit"}

\* A contract that has been registered: its ends are parts.
Contract == [state : {"live", "deleted"}, owner : PartIds, cp : PartIds,
             cause : PartIds \union ContractIds \union {None}]

Request == [op : {"none", "register", "shift", "delete", "delete_part"},
            part : Optional(PartIds), contract : Optional(ContractIds),
            owner : Optional(PartIds), cp : Optional(PartIds), cascade : BOOLEAN]

Rows == UNION {[S -> Contract] : S \in SUBSET ContractIds}

TypeOK ==
  /\ parts \in [PartIds -> {"live", "deleted"}]
  /\ contracts \in [ContractIds -> {NoContract} \union Contract]
  /\ partLock \in [PartIds -> Optional(Conns)]
  /\ keyShare \in [PartIds -> SUBSET Conns]
  /\ rowLock \in [ContractIds -> Optional(Conns)]
  /\ pc \in [Conns -> Labels]
  /\ req \in [Conns -> Request]
  /\ todo \in [Conns -> SUBSET (PartIds \union ContractIds)]
  /\ wrote \in [Conns -> Rows]

Places(r) == req[r].op \in {"register", "shift"}
LocksRow(r) == req[r].op \in {"shift", "delete"}
LocksPart(r) == req[r].op = "delete_part"

\* Which statements a request goes through, and what it names.
Course(r) ==
  \/ /\ pc[r] = "idle" /\ req[r].op = "none"
  \/ /\ pc[r] \in {"owner", "cp", "exists", "write", "key", "commit"}
     /\ req[r].op = "register" /\ req[r].contract = None
     /\ req[r].owner \in PartIds /\ req[r].cp \in PartIds
  \/ /\ pc[r] \in {"lock", "exists", "write", "key", "commit"}
     /\ req[r].op = "shift" /\ req[r].contract \in ContractIds
  \/ /\ pc[r] \in {"lock", "stamp", "commit"}
     /\ req[r].op = "delete" /\ req[r].contract \in ContractIds
  \/ /\ pc[r] \in {"lock_part", "impact", "cascade", "commit"}
     /\ req[r].op = "delete_part" /\ req[r].part \in PartIds

\* The locks it holds, and what cannot change while it does.
HoldsPart(r) ==
  \A p \in PartIds :
    /\ partLock[p] = r <=> LocksPart(r) /\ p = req[r].part /\ pc[r] # "lock_part"
    /\ partLock[p] = r => parts[p] = "live"

HoldsKeys(r) ==
  \A p \in PartIds : r \in keyShare[p] => Places(r) /\ pc[r] \in {"key", "commit"}

HoldsRows(r) ==
  \A c \in ContractIds :
    /\ rowLock[c] = r <=> \/ LocksRow(r) /\ c = req[r].contract /\ pc[r] # "lock"
                          \/ LocksPart(r) /\ c \in DOMAIN wrote[r]
    /\ rowLock[c] = r => contracts[c] # NoContract
    /\ rowLock[c] = r /\ LocksRow(r) => Live(contracts[c])

\* Only statements still under way have something left to visit, and only a
\* transaction that has written has something to commit.
Pends(r) ==
  /\ pc[r] \notin {"key", "cascade"} => todo[r] = {}
  /\ pc[r] \notin {"key", "cascade", "commit"} => DOMAIN wrote[r] = {}
  /\ pc[r] = "cascade" => todo[r] # {} /\ todo[r] \subseteq ContractIds
  /\ pc[r] = "key" => todo[r] \subseteq PartIds

\* Contract c is on its way to a place: no other committed contract is there, and the
\* key of every part that it newly names is shared or still to be.
Bound(r, c) ==
  /\ wrote[r] = [d \in {c} |-> Target(r)]
  /\ req[r].op = "shift" => c = req[r].contract
  /\ req[r].op = "register" => contracts[c] = NoContract
  /\ ~Claimed(c, Target(r))
  /\ \A p \in NewEnds(contracts[c], Target(r)) : p \in todo[r] \/ r \in keyShare[p]

Moves(r) ==
  Places(r) /\ pc[r] \in {"write", "key", "commit"}
    => /\ Target(r).owner # Target(r).cp
       /\ pc[r] # "write" => \E c \in ContractIds : Bound(r, c)

\* Contracts on their way out, one alone or with the others of its part: no live one
\* that touches the part is left out, and they are taken in the order of their ids.
Stamped(c, cause) == [contracts[c] EXCEPT !.state = "deleted", !.cause = cause]

Removes(r) ==
  req[r].op = "delete" /\ pc[r] = "commit"
    => wrote[r] = [d \in {req[r].contract} |-> Stamped(req[r].contract, req[r].contract)]

Cascades(r) ==
  LocksPart(r) /\ pc[r] \in {"cascade", "commit"}
    => /\ \A c \in DOMAIN wrote[r] : wrote[r][c] = Stamped(c, req[r].part)
       /\ \A c \in ContractIds : Live(contracts[c]) /\ Touches(contracts[c], req[r].part)
                                   => c \in DOMAIN wrote[r] \union todo[r]
       /\ \A c \in todo[r] : contracts[c] # NoContract
       /\ \A c \in DOMAIN wrote[r], d \in todo[r] : c < d

Local(r) ==
  /\ Course(r)
  /\ HoldsPart(r) /\ HoldsKeys(r) /\ HoldsRows(r)
  /\ Pends(r) /\ Moves(r) /\ Removes(r) /\ Cascades(r)

\* Two requests never write the same row, nor live rows at the same place.
Apart(r, s) ==
  \A c \in DOMAIN wrote[r], d \in DOMAIN wrote[s] :
    c # d /\ (Live(wrote[r][c]) /\ Live(wrote[s][d]) => ~SamePlace(wrote[r][c], wrote[s][d]))

\* Nobody has a part FOR UPDATE while its key is shared.
KeysFree == \A p \in PartIds : keyShare[p] # {} => partLock[p] = None

\* Committed contracts are between two parts, each at a place of its own.
Committed ==
  \A c \in ContractIds : Live(contracts[c]) =>
    contracts[c].owner # contracts[c].cp /\ ~Claimed(c, contracts[c])

Inv ==
  /\ TypeOK
  /\ \A r \in Conns : Local(r)
  /\ \A r \in Conns, s \in Conns : r # s => Apart(r, s)
  /\ KeysFree
  /\ Committed

\* What a step of r leaves alone: the requests and locks of everyone else.
Alone(r) ==
  \A s \in Conns \ {r} :
    /\ pc'[s] = pc[s] /\ req'[s] = req[s] /\ todo'[s] = todo[s] /\ wrote'[s] = wrote[s]
    /\ \A p \in PartIds : /\ partLock'[p] = s <=> partLock[p] = s
                          /\ s \in keyShare'[p] <=> s \in keyShare[p]
    /\ \A c \in ContractIds : rowLock'[c] = s <=> rowLock[c] = s

-----------------------------------------------------------------------------
\* The empty write, and the write of one row.
LEMMA RowsType ==
  /\ NoRows \in Rows
  /\ DOMAIN NoRows = {}
  /\ \A c \in ContractIds, row \in Contract : [d \in {c} |-> row] \in Rows
  /\ \A w \in Rows : /\ DOMAIN w \in SUBSET ContractIds
                     /\ \A c \in DOMAIN w : w[c] \in Contract
<1>1. [c \in {} |-> NoContract] \in [{} -> Contract]
  OBVIOUS
<1>2. NoRows \in Rows /\ DOMAIN NoRows = {}
  BY <1>1 DEF NoRows, Rows
<1>3. ASSUME NEW c \in ContractIds, NEW row \in Contract PROVE [d \in {c} |-> row] \in Rows
  <2>1. [d \in {c} |-> row] \in [{c} -> Contract]
    OBVIOUS
  <2>2. {c} \in SUBSET ContractIds
    OBVIOUS
  <2> QED BY <2>1, <2>2 DEF Rows
<1>4. ASSUME NEW w \in Rows
      PROVE  DOMAIN w \in SUBSET ContractIds /\ \A c \in DOMAIN w : w[c] \in Contract
  BY DEF Rows
<1> QED BY <1>2, <1>3, <1>4

LEMMA NoneApart == None \notin Conns /\ None \notin PartIds /\ None \notin ContractIds
BY GraphTxAssumption

LEMMA NoContractNotOne == NoContract \notin Contract /\ ~Live(NoContract)
BY DEF NoContract, Contract, Live

LEMMA NoRequestType == NoRequest \in Request /\ NoRequest.op = "none"
BY DEF NoRequest, Request, Optional

\* A deleted contract keeps its ends.
LEMMA StampedType ==
  ASSUME TypeOK, NEW c \in ContractIds, contracts[c] # NoContract,
         NEW cause \in PartIds \union ContractIds
  PROVE  /\ Stamped(c, cause) \in Contract
         /\ Stamped(c, cause).state = "deleted"
         /\ Stamped(c, cause).owner = contracts[c].owner
         /\ Stamped(c, cause).cp = contracts[c].cp
BY DEF TypeOK, Stamped, Contract

\* The row a registration or a shift is about to write is a live contract.
LEMMA TargetType ==
  ASSUME TypeOK, NEW r \in Conns, Local(r), Places(r), pc[r] # "lock"
  PROVE  Target(r) \in Contract /\ Live(Target(r))
<1>1. req[r] \in Request
  BY DEF TypeOK
<1>2. CASE req[r].op = "register"
  <2>1. /\ req[r].contract = None
        /\ req[r].owner \in PartIds /\ req[r].cp \in PartIds
    BY <1>2 DEF Local, Course
  <2> QED BY <1>1, <2>1, NoneApart DEF Target, NoContract, Contract, Live
<1>3. CASE req[r].op = "shift"
  <2>1. req[r].contract \in ContractIds
    BY <1>3 DEF Local, Course
  <2>2. rowLock[req[r].contract] = r
    BY <1>3, <2>1 DEF Local, HoldsRows, LocksRow
  <2>3. contracts[req[r].contract] \in Contract
    BY <1>3, <2>1, <2>2 DEF Local, HoldsRows, TypeOK
  <2> QED BY <1>1, <2>1, <2>3, NoneApart DEF Target, Contract, Live, Request, Optional
<1> QED BY <1>2, <1>3 DEF Places

\* Whoever writes a row holds its lock, or has just inserted it.
LEMMA WrittenHeld ==
  ASSUME TypeOK, NEW r \in Conns, Local(r), NEW c \in DOMAIN wrote[r]
  PROVE  /\ c \in ContractIds
         /\ \/ rowLock[c] = r
            \/ req[r].op = "register" /\ contracts[c] = NoContract /\ Bound(r, c)
<1>1. c \in ContractIds
  BY RowsType DEF TypeOK
<1>2. pc[r] \in {"key", "cascade", "commit"}
  BY DEF Local, Pends
<1>3. CASE Places(r)
  <2>1. PICK d \in ContractIds : Bound(r, d)
    BY <1>2, <1>3 DEF Local, Moves, Course, Places
  <2>2. c = d
    BY <2>1 DEF Bound
  <2> QED BY <1>1, <1>2, <1>3, <2>1, <2>2 DEF Bound, Places, Local, HoldsRows, LocksRow
<1>4. CASE req[r].op = "delete"
  <2>1. c = req[r].contract
    BY <1>2, <1>4 DEF Local, Removes, Course
  <2> QED BY <1>1, <1>2, <1>4, <2>1 DEF Local, HoldsRows, LocksRow
<1>5. CASE LocksPart(r)
  BY <1>1, <1>5 DEF Local, HoldsRows
<1> QED BY <1>2, <1>3, <1>4, <1>5 DEF Local, Course, Places, LocksPart
-----------------------------------------------------------------------------
\* A step of r that commits nothing keeps what holds of everyone else.
LEMMA OthersLocal ==
  ASSUME TypeOK, NEW r \in Conns, Alone(r), UNCHANGED <<parts, contracts>>,
         NEW s \in Conns \ {r}, Local(s)
  PROVE  Local(s)'
<1> USE DEF Alone
<1>1. Course(s)'
  BY DEF Local, Course
<1>2. HoldsPart(s)' /\ HoldsKeys(s)'
  BY DEF Local, HoldsPart, HoldsKeys, LocksPart, Places
<1>3. HoldsRows(s)'
  BY DEF Local, HoldsRows, LocksPart, LocksRow
<1>4. Pends(s)'
  BY DEF Local, Pends
<1>5. Target(s)' = Target(s)
  BY DEF Target
<1>6. ASSUME NEW c \in ContractIds, Bound(s, c) PROVE Bound(s, c)'
  BY <1>5, <1>6 DEF Bound, Claimed, NewEnds
<1>7. Moves(s)'
  BY <1>5, <1>6 DEF Local, Moves, Places
<1>8. \A c, cause : Stamped(c, cause)' = Stamped(c, cause)
  BY DEF Stamped
<1>9. Removes(s)'
  BY <1>8 DEF Local, Removes
<1>10. Cascades(s)'
  BY <1>8 DEF Local, Cascades, LocksPart
<1> QED BY <1>1, <1>2, <1>3, <1>4, <1>7, <1>9, <1>10 DEF Local

\* So it keeps the invariant if it does for r and the locks.
LEMMA StepKeeps ==
  ASSUME Inv, NEW r \in Conns, Alone(r), UNCHANGED <<parts, contracts>>,
         TypeOK', Local(r)', KeysFree',
         \A s \in Conns \ {r} : Apart(r, s)'
  PROVE  Inv'
<1>1. \A s \in Conns : Local(s)'
  BY OthersLocal DEF Inv
<1>2. ASSUME NEW s \in Conns, NEW t \in Conns, s # t PROVE Apart(s, t)'
  <2>1. CASE s = r
    BY <1>2, <2>1
  <2>2. CASE t = r
    <3>1. Apart(r, s)'
      BY <1>2, <2>2
    <3> QED BY <2>2, <3>1 DEF Apart, SamePlace
  <2>3. CASE s # r /\ t # r
    <3>1. wrote'[s] = wrote[s] /\ wrote'[t] = wrote[t] /\ Apart(s, t)
      BY <1>2, <2>3 DEF Alone, Inv
    <3> QED BY <3>1 DEF Apart
  <2> QED BY <2>1, <2>2, <2>3
<1>3. Committed'
  BY DEF Inv, Committed, Claimed
<1> QED BY <1>1, <1>2, <1>3 DEF Inv

\* Nothing to show about the rows of r when it writes none in the step.
LEMMA StillApart ==
  ASSUME Inv, NEW r \in Conns, Alone(r), wrote'[r] = wrote[r] \/ DOMAIN wrote'[r] = {}
  PROVE  \A s \in Conns \ {r} : Apart(r, s)'
BY DEF Inv, Alone, Apart
-----------------------------------------------------------------------------
\* A transaction that ends gives back all its locks and nobody else's.
LEMMA EndKeeps ==
  ASSUME Inv, NEW r \in Conns, End(r), parts' \in [PartIds -> {"live", "deleted"}],
         contracts' \in [ContractIds -> {NoContract} \union Contract]
  PROVE  /\ Alone(r) /\ TypeOK' /\ Local(r)' /\ KeysFree'
         /\ DOMAIN wrote'[r] = {}
         /\ \A s \in Conns \ {r} : Apart(r, s)'
<1>1. TypeOK
  BY DEF Inv
<1>2. TypeOK'
  <2>1. partLock' \in [PartIds -> Optional(Conns)] /\ rowLock' \in [ContractIds -> Optional(Conns)]
    BY <1>1 DEF TypeOK, End, Optional
  <2>2. keyShare' \in [PartIds -> SUBSET Conns]
    BY <1>1 DEF TypeOK, End
  <2>3. pc' \in [Conns -> Labels] /\ req' \in [Conns -> Request]
    BY <1>1, NoRequestType DEF TypeOK, End, Labels
  <2>4. todo' \in [Conns -> SUBSET (PartIds \union ContractIds)] /\ wrote' \in [Conns -> Rows]
    BY <1>1, RowsType DEF TypeOK, End
  <2> QED BY <2>1, <2>2, <2>3, <2>4 DEF TypeOK
<1>3. /\ pc'[r] = "idle" /\ req'[r] = NoRequest /\ todo'[r] = {} /\ wrote'[r] = NoRows
      /\ \A s \in Conns \ {r} : /\ pc'[s] = pc[s] /\ req'[s] = req[s]
                                /\ todo'[s] = todo[s] /\ wrote'[s] = wrote[s]
  BY <1>1 DEF TypeOK, End
<1>4. \A p \in PartIds :
        /\ partLock'[p] # r /\ r \notin keyShare'[p]
        /\ partLock'[p] \in {None, partLock[p]} /\ keyShare'[p] \subseteq keyShare[p]
        /\ \A s \in Conns \ {r} : /\ partLock'[p] = s <=> partLock[p] = s
                                  /\ s \in keyShare'[p] <=> s \in keyShare[p]
  BY NoneApart DEF End
<1>5. \A c \in ContractIds :
        /\ rowLock'[c] # r
        /\ \A s \in Conns \ {r} : rowLock'[c] = s <=> rowLock[c] = s
  BY NoneApart DEF End
<1>6. Alone(r)
  BY <1>3, <1>4, <1>5 DEF Alone
<1>7. DOMAIN wrote'[r] = {}
  BY <1>3, RowsType
<1>8. Local(r)'
  <2>1. Course(r)' /\ Pends(r)' /\ Moves(r)' /\ Removes(r)' /\ Cascades(r)'
    BY <1>3, <1>7, NoRequestType
       DEF Course, Pends, Moves, Places, Removes, Cascades, LocksPart
  <2>2. HoldsPart(r)' /\ HoldsKeys(r)' /\ HoldsRows(r)'
    BY <1>3, <1>4, <1>5, NoRequestType
       DEF HoldsPart, HoldsKeys, HoldsRows, LocksPart, LocksRow
  <2> QED BY <2>1, <2>2 DEF Local
<1>9. KeysFree'
  BY <1>4 DEF Inv, KeysFree
<1> QED BY <1>2, <1>6, <1>7, <1>8, <1>9, StillApart

LEMMA RefuseInv ==
  ASSUME Inv, NEW r \in Conns, Refuse(r)
  PROVE  Inv'
<1>1. End(r) /\ UNCHANGED <<parts, contracts>>
  BY DEF Refuse
<1>2. parts' \in [PartIds -> {"live", "deleted"}]
      /\ contracts' \in [ContractIds -> {NoContract} \union Contract]
  BY <1>1 DEF Inv, TypeOK
<1> QED BY <1>1, <1>2, EndKeeps, StepKeeps

\* A step to the next statement that changes nothing but the counter.
LEMMA GotoKeeps ==
  ASSUME Inv, NEW r \in Conns, NEW label \in Labels, Goto(r, label),
         UNCHANGED <<partLock, keyShare, rowLock, req, todo, wrote>>,
         UNCHANGED <<parts, contracts>>, Local(r)'
  PROVE  Inv'
<1>1. TypeOK' /\ Alone(r)
  BY DEF Inv, TypeOK, Goto, Alone
<1>2. KeysFree'
  BY DEF Inv, KeysFree
<1> QED BY <1>1, <1>2, StepKeeps, StillApart

LEMMA BeginInv ==
  ASSUME Inv, NEW r \in Conns, Begin(r)
  PROVE  Inv'
<1>1. TypeOK /\ Local(r) /\ pc[r] = "idle"
  BY DEF Inv, Begin
<1>2. PICK rec \in Request, label \in {"owner", "lock", "lock_part"} :
        /\ req' = [req EXCEPT ![r] = rec]
        /\ Goto(r, label)
        /\ \/ /\ label = "owner" /\ rec.op = "register" /\ rec.contract = None
              /\ rec.owner \in PartIds /\ rec.cp \in PartIds
           \/ label = "lock" /\ rec.op \in {"shift", "delete"} /\ rec.contract \in ContractIds
           \/ label = "lock_part" /\ rec.op = "delete_part" /\ rec.part \in PartIds
  <2>1. ASSUME NEW p \in PartIds, NEW q \in PartIds,
               req' = [req EXCEPT ![r] = [NoRequest EXCEPT !.op = "register",
                                                           !.owner = p, !.cp = q]]
        PROVE  \E rec \in Request :
                 /\ req' = [req EXCEPT ![r] = rec]
                 /\ rec.op = "register" /\ rec.contract = None
                 /\ rec.owner \in PartIds /\ rec.cp \in PartIds
    <3> DEFINE rec == [NoRequest EXCEPT !.op = "register", !.owner = p, !.cp = q]
    <3>1. rec \in Request /\ rec.op = "register" /\ rec.contract = None
          /\ rec.owner \in PartIds /\ rec.cp \in PartIds
      BY DEF NoRequest, Request, Optional
    <3> HIDE DEF rec
    <3> QED BY <2>1, <3>1 DEF rec
  <2>2. ASSUME NEW c \in ContractIds, NEW p \in Optional(PartIds), NEW q \in Optional(PartIds),
               req' = [req EXCEPT ![r] = [NoRequest EXCEPT !.op = "shift", !.contract = c,
                                                           !.owner = p, !.cp = q]]
        PROVE  \E rec \in Request :
                 /\ req' = [req EXCEPT ![r] = rec]
                 /\ rec.op \in {"shift", "delete"} /\ rec.contract \in ContractIds
    <3> DEFINE rec == [NoRequest EXCEPT !.op = "shift", !.contract = c, !.owner = p, !.cp = q]
    <3>1. rec \in Request /\ rec.op = "shift" /\ rec.contract = c
      BY DEF NoRequest, Request, Optional
    <3> HIDE DEF rec
    <3> QED BY <2>2, <3>1 DEF rec
  <2>3. ASSUME NEW c \in ContractIds,
               req' = [req EXCEPT ![r] = [NoRequest EXCEPT !.op = "delete", !.contract = c]]
        PROVE  \E rec \in Request :
                 /\ req' = [req EXCEPT ![r] = rec]
                 /\ rec.op \in {"shift", "delete"} /\ rec.contract \in ContractIds
    <3> DEFINE rec == [NoRequest EXCEPT !.op = "delete", !.contract = c]
    <3>1. rec \in Request /\ rec.op = "delete" /\ rec.contract = c
      BY DEF NoRequest, Request, Optional
    <3> HIDE DEF rec
    <3> QED BY <2>3, <3>1 DEF rec
  <2>4. ASSUME NEW p \in PartIds, NEW flag \in BOOLEAN,
               req' = [req EXCEPT ![r] = [NoRequest EXCEPT !.op = "delete_part", !.part = p,
                                                           !.cascade = flag]]
        PROVE  \E rec \in Request :
                 /\ req' = [req EXCEPT ![r] = rec]
                 /\ rec.op = "delete_part" /\ rec.part \in PartIds
    <3> DEFINE rec == [NoRequest EXCEPT !.op = "delete_part", !.part = p, !.cascade = flag]
    <3>1. rec \in Request /\ rec.op = "delete_part" /\ rec.part = p
      BY DEF NoRequest, Request, Optional
    <3> HIDE DEF rec
    <3> QED BY <2>4, <3>1 DEF rec
  <2> QED BY <2>1, <2>2, <2>3, <2>4 DEF Begin
<1>3. /\ pc' \in [Conns -> Labels] /\ pc'[r] = label
      /\ req' \in [Conns -> Request] /\ req'[r] = rec
      /\ \A s \in Conns \ {r} : pc'[s] = pc[s] /\ req'[s] = req[s]
  BY <1>1, <1>2 DEF TypeOK, Goto, Labels
<1>4. UNCHANGED <<parts, contracts, partLock, keyShare, rowLock, todo, wrote>>
  BY DEF Begin
<1>5. TypeOK' /\ Alone(r) /\ KeysFree'
  BY <1>1, <1>3, <1>4 DEF Inv, TypeOK, Alone, KeysFree
<1>6. /\ req[r].op = "none" /\ todo[r] = {} /\ DOMAIN wrote[r] = {}
      /\ \A p \in PartIds : partLock[p] # r /\ r \notin keyShare[p]
      /\ \A c \in ContractIds : rowLock[c] # r
  BY <1>1 DEF Local, Course, Pends, HoldsPart, HoldsKeys, HoldsRows, Places, LocksPart, LocksRow
<1>7. Course(r)' /\ Pends(r)' /\ Moves(r)' /\ Removes(r)' /\ Cascades(r)'
  BY <1>2, <1>3, <1>4, <1>6 DEF Course, Pends, Moves, Removes, Cascades
<1>8. HoldsPart(r)' /\ HoldsKeys(r)' /\ HoldsRows(r)'
  BY <1>2, <1>3, <1>4, <1>6 DEF HoldsPart, HoldsKeys, HoldsRows, LocksPart, LocksRow
<1> QED BY <1>4, <1>5, <1>7, <1>8, StepKeeps, StillApart DEF Local

LEMMA ResolvePartInv ==
  ASSUME Inv, NEW r \in Conns, ResolvePart(r)
  PROVE  Inv'
<1>1. PICK label \in {"cp", "exists"} :
        \/ Refuse(r)
        \/ /\ Goto(r, label)
           /\ UNCHANGED <<parts, contracts, partLock, keyShare, rowLock, req, todo, wrote>>
  BY DEF ResolvePart
<1>2. TypeOK /\ Local(r) /\ pc[r] \in {"owner", "cp"}
  BY DEF Inv, ResolvePart
<1>3. CASE ~Refuse(r)
  <2>1. pc'[r] = label /\ UNCHANGED <<parts, contracts, partLock, keyShare, rowLock, req, todo, wrote>>
    BY <1>1, <1>2, <1>3 DEF TypeOK, Goto
  <2>2. req[r].op = "register"
    BY <1>2 DEF Local, Course
  <2>3. Course(r)' /\ Pends(r)' /\ Moves(r)' /\ Removes(r)' /\ Cascades(r)'
    BY <1>2, <2>1, <2>2 DEF Local, Course, Pends, Moves, Removes, Cascades, LocksPart
  <2>4. HoldsPart(r)' /\ HoldsKeys(r)' /\ HoldsRows(r)'
    BY <1>2, <2>1, <2>2 DEF Local, HoldsPart, HoldsKeys, HoldsRows, LocksPart, LocksRow
  <2> QED BY <1>1, <1>3, <2>1, <2>3, <2>4, GotoKeeps DEF Local, Labels
<1> QED BY <1>3, RefuseInv

LEMMA CheckPlaceInv ==
  ASSUME Inv, NEW r \in Conns, CheckPlace(r)
  PROVE  Inv'
<1>1. TypeOK /\ Local(r) /\ pc[r] = "exists"
  BY DEF Inv, CheckPlace
<1>2. CASE ~Refuse(r)
  <2>1. /\ Goto(r, "write") /\ Target(r).owner # Target(r).cp
        /\ UNCHANGED <<parts, contracts, partLock, keyShare, rowLock, req, todo, wrote>>
    BY <1>2 DEF CheckPlace
  <2>2. pc'[r] = "write"
    BY <1>1, <2>1 DEF TypeOK, Goto
  <2>3. Target(r)' = Target(r)
    BY <2>1 DEF Target
  <2>4. req[r].op \in {"register", "shift"}
    BY <1>1 DEF Local, Course
  <2>5. Course(r)' /\ Pends(r)' /\ Moves(r)' /\ Removes(r)' /\ Cascades(r)'
    BY <1>1, <2>1, <2>2, <2>3, <2>4 DEF Local, Course, Pends, Moves, Removes, Cascades, LocksPart
  <2>6. HoldsPart(r)' /\ HoldsKeys(r)' /\ HoldsRows(r)'
    BY <1>1, <2>1, <2>2, <2>4 DEF Local, HoldsPart, HoldsKeys, HoldsRows, LocksPart, LocksRow
  <2> QED BY <2>1, <2>5, <2>6, GotoKeeps DEF Local, Labels
<1> QED BY <1>2, RefuseInv
\* The contract of a shift, or one that has no row yet, is in nobody else's write.
LEMMA WriteInv ==
  ASSUME Inv, NEW r \in Conns, Write(r)
  PROVE  Inv'
<1>1. TypeOK /\ Local(r) /\ pc[r] = "write"
  BY DEF Inv, Write
<1>2. /\ Places(r) /\ req[r].op \in {"register", "shift"} /\ ~LocksPart(r)
      /\ req[r].op = "shift" => req[r].contract \in ContractIds
      /\ req[r].op = "register" => req[r].contract = None
      /\ DOMAIN wrote[r] = {} /\ Target(r).owner # Target(r).cp
  BY <1>1 DEF Local, Course, Pends, Moves, Places, LocksPart
<1>3. Target(r) \in Contract /\ Live(Target(r))
  BY <1>1, <1>2, TargetType
<1>4. CASE ~Refuse(r)
  <2>1. /\ Contenders(r, req[r].contract, Target(r)) = {}
        /\ ~Claimed(req[r].contract, Target(r))
        /\ Goto(r, "key")
        /\ UNCHANGED <<parts, contracts, partLock, keyShare, rowLock, req>>
    BY <1>4 DEF Write
  <2>2. PICK c \in RowFor(r) :
          /\ wrote' = [wrote EXCEPT ![r] = [d \in {c} |-> Target(r)]]
          /\ todo' = [todo EXCEPT ![r] = NewEnds(contracts[c], Target(r))]
    BY <1>4 DEF Write
  <2>3. /\ c \in ContractIds
        /\ req[r].op = "shift" => c = req[r].contract
        /\ req[r].op = "register" => /\ contracts[c].state = "absent"
                                     /\ \A s \in Conns : c \notin DOMAIN wrote[s]
    BY <1>2, <2>2 DEF RowFor
  <2>4. req[r].op = "register" => contracts[c] = NoContract
    BY <1>1, <2>3 DEF TypeOK, Contract
  <2>5. NewEnds(contracts[c], Target(r)) \in SUBSET PartIds
    BY DEF NewEnds
  <2>6. [d \in {c} |-> Target(r)] \in Rows
    BY <1>3, <2>3, RowsType
  <2>7. /\ pc'[r] = "key" /\ todo'[r] = NewEnds(contracts[c], Target(r))
        /\ wrote'[r] = [d \in {c} |-> Target(r)]
        /\ \A s \in Conns \ {r} : /\ pc'[s] = pc[s] /\ req'[s] = req[s]
                                  /\ todo'[s] = todo[s] /\ wrote'[s] = wrote[s]
    BY <1>1, <2>1, <2>2 DEF TypeOK, Goto
  <2>8. TypeOK'
    <3>1. pc' \in [Conns -> Labels]
      BY <1>1, <2>1 DEF TypeOK, Goto, Labels
    <3>2. todo' \in [Conns -> SUBSET (PartIds \union ContractIds)]
      BY <1>1, <2>2, <2>5 DEF TypeOK
    <3>3. wrote' \in [Conns -> Rows]
      BY <1>1, <2>2, <2>6 DEF TypeOK
    <3> QED BY <1>1, <2>1, <3>1, <3>2, <3>3 DEF TypeOK
  <2>9. Alone(r) /\ KeysFree'
    BY <2>1, <2>7 DEF Alone, Inv, KeysFree
  <2>10. Target(r)' = Target(r)
    BY <2>1 DEF Target
  <2>11. ~Claimed(c, Target(r))
    BY <1>2, <2>1, <2>3, NoneApart DEF Claimed
  <2>12. Bound(r, c)'
    BY <2>1, <2>3, <2>4, <2>7, <2>10, <2>11 DEF Bound, Claimed, NewEnds
  <2>13. Local(r)'
    <3>1. Course(r)' /\ Pends(r)' /\ Removes(r)' /\ Cascades(r)'
      BY <1>1, <1>2, <2>1, <2>5, <2>7 DEF Local, Course, Pends, Removes, Cascades, LocksPart
    <3>2. Moves(r)'
      BY <1>2, <2>3, <2>7, <2>10, <2>12 DEF Moves
    <3>3. HoldsPart(r)' /\ HoldsKeys(r)' /\ HoldsRows(r)'
      BY <1>1, <1>2, <2>1, <2>7 DEF Local, HoldsPart, HoldsKeys, HoldsRows, LocksPart, LocksRow,
         Places
    <3> QED BY <3>1, <3>2, <3>3 DEF Local
  <2>14. ASSUME NEW s \in Conns \ {r} PROVE Apart(r, s)'
    <3>1. Local(s) /\ wrote'[s] = wrote[s]
      BY <2>7 DEF Inv
    <3>2. ASSUME NEW d \in DOMAIN wrote[s]
          PROVE  c # d /\ (Live(wrote[s][d]) => ~SamePlace(wrote[s][d], Target(r)))
      <4>1. CASE req[r].op = "register"
        <5>1. c # d /\ d # None
          BY <1>1, <2>3, <3>1, <3>2, <4>1, WrittenHeld, NoneApart
        <5>2. Live(wrote[s][d]) => ~SamePlace(wrote[s][d], Target(r))
          BY <1>2, <2>1, <3>2, <4>1, <5>1 DEF Contenders
        <5> QED BY <5>1, <5>2
      <4>2. CASE req[r].op = "shift"
        <5>1. rowLock[c] = r /\ contracts[c] # NoContract
          BY <1>1, <2>3, <4>2 DEF Local, HoldsRows, LocksRow
        <5>2. c # d
          BY <1>1, <3>1, <3>2, <5>1, WrittenHeld
        <5>3. Live(wrote[s][d]) => ~SamePlace(wrote[s][d], Target(r))
          BY <2>1, <2>3, <3>2, <4>2, <5>2 DEF Contenders
        <5> QED BY <5>2, <5>3
      <4> QED BY <1>2, <4>1, <4>2
    <3> QED BY <2>7, <3>1, <3>2 DEF Apart, SamePlace
  <2> QED BY <2>1, <2>8, <2>9, <2>13, <2>14, StepKeeps
<1> QED BY <1>4, RefuseInv

LEMMA ShareKeyInv ==
  ASSUME Inv, NEW r \in Conns, ShareKey(r)
  PROVE  Inv'
<1>1. TypeOK /\ Local(r) /\ pc[r] = "key"
  BY DEF Inv, ShareKey
<1>2. /\ Places(r) /\ req[r].op \in {"register", "shift"} /\ ~LocksPart(r)
      /\ Target(r).owner # Target(r).cp /\ todo[r] \subseteq PartIds
  BY <1>1 DEF Local, Course, Pends, Moves, Places, LocksPart
<1>3. PICK c \in ContractIds : Bound(r, c)
  BY <1>1, <1>2 DEF Local, Moves
<1>4. PICK n \in PartIds : n = NextKey(r)
  BY <1>1, <1>2, TargetType DEF NextKey, Contract
<1>5. /\ partLock[n] = None
      /\ keyShare' = [keyShare EXCEPT ![n] = @ \union {r}]
      /\ todo' = [todo EXCEPT ![r] = @ \ {n}]
      /\ UNCHANGED <<parts, contracts, partLock, rowLock, req, wrote>>
  BY <1>4 DEF ShareKey
<1>6. PICK label \in {"key", "commit"} :
        pc' = [pc EXCEPT ![r] = label] /\ (label = "commit" => todo[r] = {n})
  BY <1>1, <1>4 DEF ShareKey, Goto, TypeOK
<1>7. TypeOK'
  <2>1. pc' \in [Conns -> Labels]
    BY <1>1, <1>6 DEF TypeOK, Labels
  <2>2. todo' \in [Conns -> SUBSET (PartIds \union ContractIds)]
    BY <1>1, <1>5 DEF TypeOK
  <2>3. keyShare' \in [PartIds -> SUBSET Conns]
    BY <1>1, <1>5 DEF TypeOK
  <2> QED BY <1>1, <1>5, <2>1, <2>2, <2>3 DEF TypeOK
<1>8. /\ pc'[r] = label /\ todo'[r] = todo[r] \ {n} /\ wrote'[r] = wrote[r]
      /\ keyShare'[n] = keyShare[n] \union {r}
      /\ \A p \in PartIds \ {n} : keyShare'[p] = keyShare[p]
      /\ \A s \in Conns \ {r} : /\ pc'[s] = pc[s] /\ req'[s] = req[s]
                                /\ todo'[s] = todo[s] /\ wrote'[s] = wrote[s]
  BY <1>1, <1>5, <1>6 DEF TypeOK
<1>9. Alone(r)
  BY <1>5, <1>8 DEF Alone
<1>10. KeysFree'
  BY <1>5, <1>8 DEF Inv, KeysFree
<1>11. Target(r)' = Target(r)
  BY <1>5 DEF Target
<1>12. Bound(r, c)'
  BY <1>3, <1>5, <1>8, <1>11 DEF Bound, Claimed, NewEnds
<1>13. Local(r)'
  <2>1. Course(r)' /\ Pends(r)' /\ Removes(r)' /\ Cascades(r)'
    BY <1>1, <1>2, <1>5, <1>6, <1>8 DEF Local, Course, Pends, Removes, Cascades, LocksPart
  <2>2. Moves(r)'
    BY <1>2, <1>11, <1>12 DEF Moves
  <2>3. HoldsPart(r)' /\ HoldsKeys(r)' /\ HoldsRows(r)'
    BY <1>1, <1>2, <1>5, <1>8 DEF Local, HoldsPart, HoldsKeys, HoldsRows, LocksPart, LocksRow,
       Places
  <2> QED BY <2>1, <2>2, <2>3 DEF Local
<1> QED BY <1>5, <1>7, <1>8, <1>9, <1>10, <1>13, StepKeeps, StillApart

LEMMA LockContractInv ==
  ASSUME Inv, NEW r \in Conns, LockContract(r)
  PROVE  Inv'
<1>1. TypeOK /\ Local(r) /\ pc[r] = "lock"
  BY DEF Inv, LockContract
<1>2. PICK c \in ContractIds : c = req[r].contract
  BY <1>1 DEF Local, Course
<1>3. /\ req[r].op \in {"shift", "delete"} /\ LocksRow(r) /\ ~LocksPart(r)
      /\ DOMAIN wrote[r] = {} /\ todo[r] = {}
  BY <1>1 DEF Local, Course, Pends, LocksRow, LocksPart
<1>4. CASE ~Refuse(r)
  <2>1. PICK label \in {"exists", "stamp"} :
          /\ Goto(r, label) /\ (label = "exists" <=> req[r].op = "shift")
          /\ rowLock[c] = None /\ Live(contracts[c])
          /\ rowLock' = [rowLock EXCEPT ![c] = r]
          /\ UNCHANGED <<parts, contracts, partLock, keyShare, req, todo, wrote>>
    BY <1>2, <1>4 DEF LockContract
  <2>2. TypeOK'
    <3>1. rowLock' \in [ContractIds -> Optional(Conns)]
      BY <1>1, <2>1 DEF TypeOK, Optional
    <3> QED BY <1>1, <2>1, <3>1 DEF TypeOK, Goto, Labels
  <2>3. /\ pc'[r] = label /\ rowLock'[c] = r
        /\ \A d \in ContractIds \ {c} : rowLock'[d] = rowLock[d]
        /\ \A s \in Conns \ {r} : pc'[s] = pc[s]
    BY <1>1, <2>1 DEF TypeOK, Goto
  <2>4. Alone(r) /\ KeysFree'
    BY <2>1, <2>3, NoneApart DEF Alone, Inv, KeysFree
  <2>5. Course(r)' /\ Pends(r)' /\ Moves(r)' /\ Removes(r)' /\ Cascades(r)'
    BY <1>1, <1>3, <2>1, <2>3 DEF Local, Course, Pends, Moves, Removes, Cascades, LocksPart
  <2>6. HoldsPart(r)' /\ HoldsKeys(r)'
    BY <1>1, <1>3, <2>1, <2>3 DEF Local, HoldsPart, HoldsKeys, LocksPart, Places
  <2>7. HoldsRows(r)'
    BY <1>1, <1>2, <1>3, <2>1, <2>3, NoContractNotOne DEF Local, HoldsRows, LocksPart, LocksRow
  <2> QED BY <2>1, <2>2, <2>4, <2>5, <2>6, <2>7, StepKeeps, StillApart DEF Local
<1> QED BY <1>4, RefuseInv

LEMMA StampContractInv ==
  ASSUME Inv, NEW r \in Conns, StampContract(r)
  PROVE  Inv'
<1>1. TypeOK /\ Local(r) /\ pc[r] = "stamp"
  BY DEF Inv, StampContract
<1>2. PICK c \in ContractIds : c = req[r].contract
  BY <1>1 DEF Local, Course
<1>3. /\ req[r].op = "delete" /\ LocksRow(r) /\ ~LocksPart(r) /\ ~Places(r)
      /\ DOMAIN wrote[r] = {} /\ todo[r] = {}
  BY <1>1 DEF Local, Course, Pends, LocksRow, LocksPart, Places
<1>4. rowLock[c] = r /\ contracts[c] # NoContract
  BY <1>1, <1>2, <1>3 DEF Local, HoldsRows
<1>5. /\ wrote' = [wrote EXCEPT ![r] = [d \in {c} |-> Stamped(c, c)]]
      /\ Goto(r, "commit")
      /\ UNCHANGED <<parts, contracts, partLock, keyShare, rowLock, req, todo>>
  BY <1>2 DEF StampContract, Stamped
<1>6. Stamped(c, c) \in Contract /\ Stamped(c, c).state = "deleted"
  BY <1>1, <1>4, StampedType
<1>7. TypeOK'
  <2>1. [d \in {c} |-> Stamped(c, c)] \in Rows
    BY <1>6, RowsType
  <2>2. wrote' \in [Conns -> Rows]
    BY <1>1, <1>5, <2>1 DEF TypeOK
  <2> QED BY <1>1, <1>5, <2>2 DEF TypeOK, Goto, Labels
<1>8. /\ pc'[r] = "commit" /\ wrote'[r] = [d \in {c} |-> Stamped(c, c)]
      /\ \A s \in Conns \ {r} : pc'[s] = pc[s] /\ wrote'[s] = wrote[s]
  BY <1>1, <1>5 DEF TypeOK, Goto
<1>9. Alone(r) /\ KeysFree'
  BY <1>5, <1>8 DEF Alone, Inv, KeysFree
<1>10. Stamped(c, c)' = Stamped(c, c)
  BY <1>5 DEF Stamped
<1>11. Local(r)'
  <2>1. Course(r)' /\ Pends(r)' /\ Moves(r)' /\ Cascades(r)'
    BY <1>1, <1>3, <1>5, <1>8 DEF Local, Course, Pends, Moves, Cascades, LocksPart, Places
  <2>2. Removes(r)'
    BY <1>2, <1>5, <1>8, <1>10 DEF Removes
  <2>3. HoldsPart(r)' /\ HoldsKeys(r)' /\ HoldsRows(r)'
    BY <1>1, <1>3, <1>5, <1>8 DEF Local, HoldsPart, HoldsKeys, HoldsRows, LocksPart, LocksRow,
       Places
  <2> QED BY <2>1, <2>2, <2>3 DEF Local
<1>12. ASSUME NEW s \in Conns \ {r} PROVE Apart(r, s)'
  <2>1. Local(s) /\ wrote'[s] = wrote[s]
    BY <1>8 DEF Inv
  <2>2. c \notin DOMAIN wrote[s]
    BY <1>1, <1>4, <2>1, WrittenHeld
  <2> QED BY <1>6, <1>8, <2>1, <2>2 DEF Apart, Live
<1> QED BY <1>5, <1>7, <1>9, <1>11, <1>12, StepKeeps
-----------------------------------------------------------------------------
LEMMA LockPartInv ==
  ASSUME Inv, NEW r \in Conns, LockPart(r)
  PROVE  Inv'
<1>1. TypeOK /\ Local(r) /\ pc[r] = "lock_part"
  BY DEF Inv, LockPart
<1>2. PICK p \in PartIds : p = req[r].part
  BY <1>1 DEF Local, Course
<1>3. /\ req[r].op = "delete_part" /\ ~LocksRow(r) /\ LocksPart(r) /\ ~Places(r)
      /\ DOMAIN wrote[r] = {} /\ todo[r] = {}
  BY <1>1 DEF Local, Course, Pends, LocksRow, LocksPart, Places
<1>4. CASE ~Refuse(r)
  <2>1. /\ Goto(r, "impact")
        /\ partLock[p] = None /\ keyShare[p] = {} /\ parts[p] = "live"
        /\ partLock' = [partLock EXCEPT ![p] = r]
        /\ UNCHANGED <<parts, contracts, keyShare, rowLock, req, todo, wrote>>
    BY <1>2, <1>4 DEF LockPart
  <2>2. TypeOK'
    <3>1. partLock' \in [PartIds -> Optional(Conns)]
      BY <1>1, <2>1 DEF TypeOK, Optional
    <3> QED BY <1>1, <2>1, <3>1 DEF TypeOK, Goto, Labels
  <2>3. /\ pc'[r] = "impact" /\ partLock'[p] = r
        /\ \A q \in PartIds \ {p} : partLock'[q] = partLock[q]
        /\ \A s \in Conns \ {r} : pc'[s] = pc[s]
    BY <1>1, <2>1 DEF TypeOK, Goto
  <2>4. Alone(r) /\ KeysFree'
    BY <2>1, <2>3, NoneApart DEF Alone, Inv, KeysFree
  <2>5. Course(r)' /\ Pends(r)' /\ Moves(r)' /\ Removes(r)' /\ Cascades(r)'
    BY <1>1, <1>3, <2>1, <2>3 DEF Local, Course, Pends, Moves, Removes, Cascades, LocksPart
  <2>6. HoldsPart(r)'
    BY <1>1, <1>2, <1>3, <2>1, <2>3 DEF Local, HoldsPart, LocksPart
  <2>7. HoldsKeys(r)' /\ HoldsRows(r)'
    BY <1>1, <1>3, <2>1, <2>3 DEF Local, HoldsKeys, HoldsRows, LocksPart, LocksRow, Places
  <2> QED BY <2>1, <2>2, <2>4, <2>5, <2>6, <2>7, StepKeeps, StillApart DEF Local
<1> QED BY <1>4, RefuseInv

LEMMA ReadImpactInv ==
  ASSUME Inv, NEW r \in Conns, ReadImpact(r)
  PROVE  Inv'
<1> DEFINE touching == {c \in ContractIds : Live(contracts[c]) /\ Touches(contracts[c], req[r].part)}
<1>1. TypeOK /\ Local(r) /\ pc[r] = "impact"
  BY DEF Inv, ReadImpact
<1>2. /\ req[r].op = "delete_part" /\ ~LocksRow(r) /\ LocksPart(r) /\ ~Places(r)
      /\ DOMAIN wrote[r] = {} /\ todo[r] = {}
  BY <1>1 DEF Local, Course, Pends, LocksRow, LocksPart, Places
<1>3. CASE ~Refuse(r)
  <2>1. PICK label \in {"commit", "cascade"} :
          /\ Goto(r, label) /\ (label = "commit" <=> touching = {})
          /\ todo' = [todo EXCEPT ![r] = touching]
          /\ UNCHANGED <<parts, contracts, partLock, keyShare, rowLock, req, wrote>>
    BY <1>3 DEF ReadImpact
  <2>2. TypeOK'
    <3>1. todo' \in [Conns -> SUBSET (PartIds \union ContractIds)]
      BY <1>1, <2>1 DEF TypeOK
    <3> QED BY <1>1, <2>1, <3>1 DEF TypeOK, Goto, Labels
  <2>3. /\ pc'[r] = label /\ todo'[r] = touching
        /\ \A s \in Conns \ {r} : pc'[s] = pc[s] /\ todo'[s] = todo[s]
    BY <1>1, <2>1 DEF TypeOK, Goto
  <2>4. Alone(r) /\ KeysFree'
    BY <2>1, <2>3 DEF Alone, Inv, KeysFree
  <2>5. Course(r)' /\ Pends(r)' /\ Moves(r)' /\ Removes(r)'
    BY <1>1, <1>2, <2>1, <2>3 DEF Local, Course, Pends, Moves, Removes, Places
  <2>6. Cascades(r)'
    BY <1>2, <2>1, <2>3, NoContractNotOne DEF Cascades
  <2>7. HoldsPart(r)' /\ HoldsKeys(r)' /\ HoldsRows(r)'
    BY <1>1, <1>2, <2>1, <2>3 DEF Local, HoldsPart, HoldsKeys, HoldsRows, LocksPart, LocksRow,
       Places
  <2> QED BY <2>1, <2>2, <2>4, <2>5, <2>6, <2>7, StepKeeps, StillApart DEF Local
<1> QED BY <1>3, RefuseInv

\* The ids are natural numbers, so a cascade has a next contract.
LEMMA LeastNatural ==
  ASSUME NEW S \in SUBSET Nat, S # {}
  PROVE  \E m \in S : \A k \in S : m <= k
<1>1. PICK m \in S : \A k \in S : <<k, m>> \notin OpToRel(<, Nat)
  BY NatLessThanWellFounded, WFMin
<1>2. \A k \in S : ~(k < m)
  BY <1>1 DEF OpToRel
<1> QED BY <1>2

LEMMA NextCascadedIsLeast ==
  ASSUME TypeOK, NEW r \in Conns, Local(r), pc[r] = "cascade"
  PROVE  NextCascaded(r) \in todo[r] /\ \A d \in todo[r] : NextCascaded(r) <= d
<1>1. todo[r] # {} /\ todo[r] \in SUBSET Nat
  BY GraphTxAssumption DEF Local, Pends
<1>2. \E c \in todo[r] : \A d \in todo[r] : c <= d
  BY <1>1, LeastNatural
<1> QED BY <1>2 DEF NextCascaded

LEMMA CascadeInv ==
  ASSUME Inv, NEW r \in Conns, Cascade(r)
  PROVE  Inv'
<1>1. TypeOK /\ Local(r) /\ pc[r] = "cascade"
  BY DEF Inv, Cascade
<1>2. /\ req[r].op = "delete_part" /\ req[r].part \in PartIds
      /\ ~LocksRow(r) /\ LocksPart(r) /\ ~Places(r) /\ todo[r] \subseteq ContractIds
  BY <1>1 DEF Local, Course, Pends, LocksRow, LocksPart, Places
<1>3. PICK c \in todo[r] : c = NextCascaded(r) /\ \A d \in todo[r] : c <= d
  BY <1>1, NextCascadedIsLeast
<1>4. c \in ContractIds /\ contracts[c] # NoContract /\ c \notin DOMAIN wrote[r]
  <2>1. c \in ContractIds /\ c \in Nat
    BY <1>2, GraphTxAssumption
  <2>2. contracts[c] # NoContract /\ \A d \in DOMAIN wrote[r] : d < c
    BY <1>1, <1>2 DEF Local, Cascades
  <2> QED BY <2>1, <2>2
<1> DEFINE stamped == Stamped(c, req[r].part)
           row == [d \in DOMAIN wrote[r] \union {c} |-> IF d = c THEN stamped ELSE wrote[r][d]]
<1>5. /\ rowLock[c] = None
      /\ rowLock' = [rowLock EXCEPT ![c] = r]
      /\ todo' = [todo EXCEPT ![r] = @ \ {c}]
      /\ UNCHANGED <<parts, contracts, partLock, keyShare, req>>
  BY <1>3 DEF Cascade
<1>6. wrote' = [wrote EXCEPT ![r] = row]
  BY <1>1, <1>3 DEF Cascade, Stamped, TypeOK
<1>7. stamped \in Contract /\ stamped.state = "deleted"
  BY <1>1, <1>2, <1>4, StampedType
<1>8. row \in Rows
  <2>1. DOMAIN wrote[r] \in SUBSET ContractIds /\ \A d \in DOMAIN wrote[r] : wrote[r][d] \in Contract
    BY <1>1, RowsType DEF TypeOK
  <2>2. row \in [DOMAIN wrote[r] \union {c} -> Contract]
    BY <1>7, <2>1
  <2>3. DOMAIN wrote[r] \union {c} \in SUBSET ContractIds
    BY <1>4, <2>1
  <2> HIDE DEF row
  <2> QED BY <2>2, <2>3 DEF Rows
<1>9. PICK label \in {"cascade", "commit"} :
        pc' = [pc EXCEPT ![r] = label] /\ (label = "commit" <=> todo[r] = {c})
  BY <1>1, <1>3 DEF Cascade, Goto, TypeOK
<1>10. /\ DOMAIN row = DOMAIN wrote[r] \union {c} /\ row[c] = stamped
       /\ \A d \in DOMAIN wrote[r] : row[d] = wrote[r][d]
  BY <1>4
<1>11. stamped' = stamped
  BY <1>5 DEF Stamped
<1> HIDE DEF row
<1>12. TypeOK'
  <2>1. rowLock' \in [ContractIds -> Optional(Conns)]
    BY <1>1, <1>5 DEF TypeOK, Optional
  <2>2. todo' \in [Conns -> SUBSET (PartIds \union ContractIds)]
    BY <1>1, <1>5 DEF TypeOK
  <2>3. wrote' \in [Conns -> Rows]
    BY <1>1, <1>6, <1>8 DEF TypeOK
  <2>4. pc' \in [Conns -> Labels]
    BY <1>1, <1>9 DEF TypeOK, Labels
  <2> QED BY <1>1, <1>5, <2>1, <2>2, <2>3, <2>4 DEF TypeOK
<1>13. /\ pc'[r] = label /\ todo'[r] = todo[r] \ {c} /\ wrote'[r] = row /\ rowLock'[c] = r
       /\ \A d \in ContractIds \ {c} : rowLock'[d] = rowLock[d]
       /\ \A s \in Conns \ {r} : pc'[s] = pc[s] /\ todo'[s] = todo[s] /\ wrote'[s] = wrote[s]
  BY <1>1, <1>4, <1>5, <1>6, <1>9 DEF TypeOK
<1>14. Alone(r) /\ KeysFree'
  BY <1>5, <1>13, NoneApart DEF Alone, Inv, KeysFree
<1>15. Course(r)' /\ Moves(r)' /\ Removes(r)'
  BY <1>1, <1>2, <1>5, <1>9, <1>13 DEF Local, Course, Moves, Removes, Places
<1>16. Pends(r)'
  BY <1>1, <1>2, <1>3, <1>9, <1>13 DEF Local, Pends
<1>17. HoldsPart(r)' /\ HoldsKeys(r)'
  BY <1>1, <1>2, <1>5, <1>13 DEF Local, HoldsPart, HoldsKeys, LocksPart, Places
<1>18. HoldsRows(r)'
  BY <1>1, <1>2, <1>4, <1>5, <1>10, <1>13 DEF Local, HoldsRows, LocksPart, LocksRow
<1>19. Cascades(r)'
  <2>1. ASSUME NEW d \in DOMAIN row PROVE row[d] = Stamped(d, req[r].part)
    BY <1>1, <1>2, <1>10 DEF Local, Cascades
  <2>2. \A d, q : Stamped(d, q)' = Stamped(d, q)
    BY <1>5 DEF Stamped
  <2>3. ASSUME NEW d \in DOMAIN row, NEW e \in todo[r] \ {c} PROVE d < e
    <3>1. CASE d = c
      BY <1>2, <1>3, <1>4, <3>1, GraphTxAssumption
    <3>2. CASE d \in DOMAIN wrote[r]
      BY <1>1, <1>2, <3>2 DEF Local, Cascades
    <3> QED BY <1>10, <3>1, <3>2
  <2>4. ASSUME NEW d \in ContractIds, Live(contracts[d]), Touches(contracts[d], req[r].part)
        PROVE  d \in DOMAIN row \union (todo[r] \ {c})
    BY <1>1, <1>2, <1>10, <2>4 DEF Local, Cascades
  <2>5. \A d \in todo[r] : contracts[d] # NoContract
    BY <1>1, <1>2 DEF Local, Cascades
  <2> QED BY <1>5, <1>13, <2>1, <2>2, <2>3, <2>4, <2>5 DEF Cascades
<1>20. ASSUME NEW s \in Conns \ {r} PROVE Apart(r, s)'
  <2>1. Local(s) /\ wrote'[s] = wrote[s] /\ Apart(r, s)
    BY <1>13 DEF Inv
  <2>2. c \notin DOMAIN wrote[s]
    BY <1>1, <1>4, <1>5, <2>1, WrittenHeld, NoneApart
  <2>3. ~Live(stamped)
    BY <1>7 DEF Live
  <2> QED BY <1>10, <1>13, <2>1, <2>2, <2>3 DEF Apart
<1> QED BY <1>5, <1>12, <1>14, <1>15, <1>16, <1>17, <1>18, <1>19, <1>20, StepKeeps DEF Local
-----------------------------------------------------------------------------
\* A row that a commit leaves live is the one contract of a registration or a shift.
LEMMA LiveWrite ==
  ASSUME TypeOK, NEW r \in Conns, Local(r), NEW c \in DOMAIN wrote[r], Live(wrote[r][c])
  PROVE  /\ Places(r) /\ Bound(r, c) /\ c \in ContractIds
         /\ DOMAIN wrote[r] = {c} /\ wrote[r][c] = Target(r)
         /\ Target(r) \in Contract /\ Target(r).owner # Target(r).cp
         /\ req[r].op = "shift" => Live(contracts[c])
<1>1. c \in ContractIds
  BY RowsType DEF TypeOK
<1>2. pc[r] \in {"key", "cascade", "commit"}
  BY DEF Local, Pends
<1>3. Places(r)
  <2>1. CASE req[r].op = "delete"
    <3>1. c = req[r].contract /\ wrote[r][c] = Stamped(c, c)
      BY <1>2, <2>1 DEF Local, Removes, Course
    <3>2. rowLock[c] = r
      BY <1>1, <1>2, <2>1, <3>1 DEF Local, HoldsRows, LocksRow
    <3>3. contracts[c] # NoContract
      BY <1>1, <3>2 DEF Local, HoldsRows
    <3> QED BY <1>1, <3>1, <3>3, StampedType DEF Live
  <2>2. CASE LocksPart(r)
    <3>1. wrote[r][c] = Stamped(c, req[r].part) /\ req[r].part \in PartIds
      BY <1>2, <2>2 DEF Local, Cascades, Course, LocksPart
    <3>2. rowLock[c] = r
      BY <1>1, <2>2 DEF Local, HoldsRows
    <3>3. contracts[c] # NoContract
      BY <1>1, <3>2 DEF Local, HoldsRows
    <3> QED BY <1>1, <3>1, <3>3, StampedType DEF Live
  <2> QED BY <1>2, <2>1, <2>2 DEF Local, Course, Places, LocksPart
<1>4. PICK d \in ContractIds : Bound(r, d)
  BY <1>2, <1>3 DEF Local, Moves, Course, Places
<1>5. DOMAIN wrote[r] = {d} /\ c = d
  BY <1>4 DEF Bound
<1>6. wrote[r][c] = Target(r)
  BY <1>4, <1>5 DEF Bound
<1>7. Target(r) \in Contract
  BY <1>2, <1>3, TargetType
<1>8. Target(r).owner # Target(r).cp
  BY <1>2, <1>3 DEF Local, Moves, Course, Places
<1>9. ASSUME req[r].op = "shift" PROVE Live(contracts[c])
  <2>1. rowLock[c] = r
    BY <1>1, <1>2, <1>4, <1>5, <1>9 DEF Local, HoldsRows, LocksRow, Bound
  <2> QED BY <1>1, <1>9, <2>1 DEF Local, HoldsRows, LocksRow
<1> QED BY <1>1, <1>3, <1>4, <1>5, <1>6, <1>7, <1>8, <1>9

\* What a commit changes: the rows it wrote, and the part it has locked.
LEMMA CommitEffect ==
  ASSUME Inv, NEW r \in Conns, Commit(r)
  PROVE  /\ pc[r] = "commit" /\ todo[r] = {} /\ End(r)
         /\ DOMAIN wrote[r] \subseteq ContractIds
         /\ \A c \in DOMAIN wrote[r] : wrote[r][c] \in Contract /\ contracts'[c] = wrote[r][c]
         /\ \A c \in ContractIds \ DOMAIN wrote[r] : contracts'[c] = contracts[c]
         /\ \A p \in PartIds : parts'[p] = parts[p] \/ partLock[p] = r
         /\ parts' \in [PartIds -> {"live", "deleted"}]
         /\ contracts' \in [ContractIds -> {NoContract} \union Contract]
<1>1. TypeOK /\ Local(r) /\ pc[r] = "commit" /\ End(r)
  BY DEF Inv, Commit
<1>2. todo[r] = {}
  BY <1>1 DEF Local, Pends
<1>3. /\ DOMAIN wrote[r] \subseteq ContractIds
      /\ \A c \in DOMAIN wrote[r] : wrote[r][c] \in Contract
  BY <1>1, RowsType DEF TypeOK
<1>4. contracts' = [c \in ContractIds |-> IF c \in DOMAIN wrote[r] THEN wrote[r][c]
                                          ELSE contracts[c]]
  BY DEF Commit
<1>5. /\ \A c \in DOMAIN wrote[r] : contracts'[c] = wrote[r][c]
      /\ \A c \in ContractIds \ DOMAIN wrote[r] : contracts'[c] = contracts[c]
      /\ contracts' \in [ContractIds -> {NoContract} \union Contract]
  BY <1>1, <1>3, <1>4 DEF TypeOK
<1>6. parts' = [p \in PartIds |-> IF req[r].op = "delete_part" /\ p = req[r].part
                                  THEN "deleted" ELSE parts[p]]
  BY DEF Commit
<1>7. /\ parts' \in [PartIds -> {"live", "deleted"}]
      /\ \A p \in PartIds : parts'[p] = parts[p] \/ partLock[p] = r
  BY <1>1, <1>6 DEF TypeOK, Local, HoldsPart, LocksPart
<1> QED BY <1>1, <1>2, <1>3, <1>5, <1>7

\* A commit of r keeps what holds of everyone else: it changes no row and no part that
\* another has locked, puts no contract where another is about to, and gives a part
\* no contract while the part's deletion is under way.
LEMMA CommitOthers ==
  ASSUME Inv, NEW r \in Conns, Commit(r), NEW s \in Conns \ {r}
  PROVE  Local(s)'
<1>1. TypeOK /\ Local(r) /\ Local(s) /\ Apart(r, s)
  BY DEF Inv
<1>2. Alone(r)
  BY CommitEffect, EndKeeps
<1>3. \A c \in ContractIds \ DOMAIN wrote[r] : contracts'[c] = contracts[c]
  BY CommitEffect
<1>4. /\ pc'[s] = pc[s] /\ req'[s] = req[s] /\ todo'[s] = todo[s] /\ wrote'[s] = wrote[s]
      /\ \A p \in PartIds : /\ partLock'[p] = s <=> partLock[p] = s
                            /\ s \in keyShare'[p] <=> s \in keyShare[p]
      /\ \A c \in ContractIds : rowLock'[c] = s <=> rowLock[c] = s
  BY <1>2 DEF Alone
<1>5. ASSUME NEW c \in ContractIds, rowLock[c] = s PROVE contracts'[c] = contracts[c]
  <2>1. contracts[c] # NoContract
    BY <1>1, <1>5 DEF Local, HoldsRows
  <2>2. c \notin DOMAIN wrote[r]
    BY <1>1, <1>5, <2>1, WrittenHeld
  <2> QED BY <1>3, <2>2
<1>6. ASSUME NEW c \in DOMAIN wrote[s]
      PROVE  c \in ContractIds /\ c \notin DOMAIN wrote[r] /\ contracts'[c] = contracts[c]
  BY <1>1, <1>3, <1>6, WrittenHeld DEF Apart
<1>7. Course(s)' /\ Pends(s)' /\ HoldsKeys(s)'
  BY <1>1, <1>4 DEF Local, Course, Pends, HoldsKeys, Places
<1>8. HoldsPart(s)'
  BY <1>1, <1>4, CommitEffect DEF Local, HoldsPart, LocksPart
<1>9. HoldsRows(s)'
  BY <1>1, <1>4, <1>5 DEF Local, HoldsRows, LocksPart, LocksRow
<1>10. ASSUME Places(s), pc[s] \in {"write", "key", "commit"} PROVE Target(s)' = Target(s)
  <2>1. CASE req[s].op = "register"
    <3>1. req[s].contract = None
      BY <1>1, <2>1 DEF Local, Course
    <3> QED BY <1>4, <3>1 DEF Target
  <2>2. CASE req[s].op = "shift"
    <3>1. req[s].contract \in ContractIds
      BY <1>1, <2>2 DEF Local, Course
    <3>2. rowLock[req[s].contract] = s
      BY <1>1, <1>10, <2>2, <3>1 DEF Local, HoldsRows, LocksRow
    <3>3. contracts'[req[s].contract] = contracts[req[s].contract]
      BY <1>5, <3>1, <3>2
    <3> QED BY <1>4, <3>3 DEF Target
  <2> QED BY <1>10, <2>1, <2>2 DEF Places
<1>11. ASSUME Places(s), pc[s] \in {"key", "commit"}, NEW c \in ContractIds, Bound(s, c)
       PROVE  Bound(s, c)'
  <2>1. wrote[s] = [d \in {c} |-> Target(s)] /\ Target(s)' = Target(s)
    BY <1>10, <1>11 DEF Bound
  <2>2. c \in DOMAIN wrote[s] /\ wrote[s][c] = Target(s) /\ contracts'[c] = contracts[c]
    BY <1>6, <2>1
  <2>3. Target(s) \in Contract /\ Live(Target(s))
    BY <1>1, <1>11, TargetType
  <2>4. ASSUME NEW d \in ContractIds \ {c}, Live(contracts'[d]), SamePlace(contracts'[d], Target(s))
        PROVE  FALSE
    <3>1. CASE d \in DOMAIN wrote[r]
      <4>1. contracts'[d] = wrote[r][d]
        BY <3>1, CommitEffect
      <4>2. ~SamePlace(wrote[r][d], wrote[s][c])
        BY <1>1, <2>2, <2>3, <2>4, <3>1, <4>1 DEF Apart
      <4> QED BY <2>2, <2>4, <4>1, <4>2
    <3>2. CASE d \notin DOMAIN wrote[r]
      BY <1>3, <1>11, <2>4, <3>2 DEF Bound, Claimed
    <3> QED BY <3>1, <3>2
  <2>5. ~Claimed(c, Target(s))'
    BY <2>1, <2>4 DEF Claimed
  <2> QED BY <1>4, <1>11, <2>1, <2>2, <2>5 DEF Bound, NewEnds
<1>12. Moves(s)'
  BY <1>1, <1>4, <1>10, <1>11 DEF Local, Moves, Places
<1>13. Removes(s)'
  <2> SUFFICES ASSUME req[s].op = "delete", pc[s] = "commit"
               PROVE  wrote[s] = [d \in {req[s].contract} |->
                                    Stamped(req[s].contract, req[s].contract)']
    BY <1>4 DEF Removes
  <2>1. req[s].contract \in ContractIds
    BY <1>1 DEF Local, Course
  <2>2. rowLock[req[s].contract] = s
    BY <1>1, <2>1 DEF Local, HoldsRows, LocksRow
  <2>3. Stamped(req[s].contract, req[s].contract)' = Stamped(req[s].contract, req[s].contract)
    BY <1>4, <1>5, <2>1, <2>2 DEF Stamped
  <2> QED BY <1>1, <2>3 DEF Local, Removes
<1>14. Cascades(s)'
  <2> SUFFICES ASSUME LocksPart(s), pc[s] \in {"cascade", "commit"}
               PROVE  /\ \A c \in DOMAIN wrote[s] : wrote[s][c] = Stamped(c, req[s].part)'
                      /\ \A c \in ContractIds :
                           Live(contracts'[c]) /\ Touches(contracts'[c], req[s].part)
                             => c \in DOMAIN wrote[s] \union todo[s]
                      /\ \A c \in todo[s] : contracts'[c] # NoContract
                      /\ \A c \in DOMAIN wrote[s], d \in todo[s] : c < d
    BY <1>4 DEF Cascades, LocksPart
  <2> DEFINE p == req[s].part
  <2>1. p \in PartIds /\ partLock[p] = s
    BY <1>1 DEF Local, Course, HoldsPart, LocksPart
  <2>2. ASSUME NEW c \in DOMAIN wrote[s] PROVE wrote[s][c] = Stamped(c, req[s].part)'
    BY <1>1, <1>4, <1>6 DEF Local, Cascades, Stamped
  <2>3. ASSUME NEW c \in ContractIds, Live(contracts'[c]), Touches(contracts'[c], p)
        PROVE  c \in DOMAIN wrote[s] \union todo[s]
    <3>1. CASE c \notin DOMAIN wrote[r]
      BY <1>1, <1>3, <2>3, <3>1 DEF Local, Cascades
    <3>2. CASE c \in DOMAIN wrote[r]
      <4>1. contracts'[c] = wrote[r][c] /\ todo[r] = {}
        BY <3>2, CommitEffect
      <4>2. /\ Places(r) /\ Bound(r, c) /\ wrote[r][c] = Target(r)
            /\ req[r].op = "shift" => Live(contracts[c])
        BY <1>1, <2>3, <3>2, <4>1, LiveWrite
      <4>3. p \notin NewEnds(contracts[c], Target(r))
        <5>1. keyShare[p] = {}
          BY <2>1, NoneApart DEF Inv, KeysFree
        <5> QED BY <2>1, <4>1, <4>2, <5>1 DEF Bound
      <4>4. Touches(contracts[c], p)
        BY <2>1, <2>3, <4>1, <4>2, <4>3 DEF NewEnds, Touches
      <4>5. req[r].op # "register"
        BY <2>1, <4>2, <4>4, NoneApart DEF Bound, Touches, NoContract
      <4> QED BY <1>1, <4>2, <4>4, <4>5 DEF Places, Local, Cascades
    <3> QED BY <3>1, <3>2
  <2>4. ASSUME NEW c \in todo[s] PROVE contracts'[c] # NoContract
    <3>1. c \in ContractIds /\ contracts[c] # NoContract
      BY <1>1 DEF Local, Cascades, Pends
    <3> QED BY <1>3, <3>1, CommitEffect, NoContractNotOne
  <2> QED BY <1>1, <2>2, <2>3, <2>4 DEF Local, Cascades
<1> QED BY <1>7, <1>8, <1>9, <1>12, <1>13, <1>14 DEF Local

LEMMA CommitInv ==
  ASSUME Inv, NEW r \in Conns, Commit(r)
  PROVE  Inv'
<1>1. TypeOK /\ Local(r) /\ Committed
  BY DEF Inv
<1>2. /\ Alone(r) /\ TypeOK' /\ Local(r)' /\ KeysFree'
      /\ DOMAIN wrote'[r] = {} /\ \A s \in Conns \ {r} : Apart(r, s)'
  BY CommitEffect, EndKeeps
<1>3. \A s \in Conns : Local(s)'
  BY <1>2, CommitOthers
<1>4. ASSUME NEW s \in Conns, NEW t \in Conns, s # t PROVE Apart(s, t)'
  <2>1. CASE s = r \/ t = r
    BY <1>2, <2>1 DEF Apart
  <2>2. CASE s # r /\ t # r
    <3>1. wrote'[s] = wrote[s] /\ wrote'[t] = wrote[t] /\ Apart(s, t)
      BY <1>2, <1>4, <2>2 DEF Alone, Inv
    <3> QED BY <3>1 DEF Apart
  <2> QED BY <2>1, <2>2
<1>5. Committed'
  <2> SUFFICES ASSUME NEW c \in ContractIds, Live(contracts'[c])
               PROVE  /\ contracts'[c].owner # contracts'[c].cp
                      /\ \A d \in ContractIds \ {c} :
                           Live(contracts'[d]) => ~SamePlace(contracts'[d], contracts'[c])
    BY DEF Committed, Claimed
  <2>1. CASE c \in DOMAIN wrote[r]
    <3>1. /\ contracts'[c] = Target(r) /\ Bound(r, c) /\ DOMAIN wrote[r] = {c}
          /\ Target(r).owner # Target(r).cp
      BY <1>1, <2>1, CommitEffect, LiveWrite
    <3>2. \A d \in ContractIds \ {c} : contracts'[d] = contracts[d]
      BY <3>1, CommitEffect
    <3> QED BY <3>1, <3>2 DEF Bound, Claimed
  <2>2. CASE c \notin DOMAIN wrote[r]
    <3>1. contracts'[c] = contracts[c] /\ Live(contracts[c])
      BY <2>2, CommitEffect
    <3>2. contracts'[c].owner # contracts'[c].cp
      BY <1>1, <3>1 DEF Committed
    <3>3. ASSUME NEW d \in ContractIds \ {c}, Live(contracts'[d])
          PROVE  ~SamePlace(contracts'[d], contracts'[c])
      <4>1. CASE d \in DOMAIN wrote[r]
        <5>1. contracts'[d] = Target(r) /\ Bound(r, d)
          BY <1>1, <3>3, <4>1, CommitEffect, LiveWrite
        <5> QED BY <3>1, <5>1 DEF Bound, Claimed, SamePlace
      <4>2. CASE d \notin DOMAIN wrote[r]
        <5>1. contracts'[d] = contracts[d]
          BY <4>2, CommitEffect
        <5> QED BY <1>1, <3>1, <3>3, <5>1 DEF Committed, Claimed
      <4> QED BY <4>1, <4>2
    <3> QED BY <3>2, <3>3
  <2> QED BY <2>1, <2>2
<1> QED BY <1>2, <1>3, <1>4, <1>5 DEF Inv
-----------------------------------------------------------------------------
LEMMA InitInv == Init => Inv
<1> SUFFICES ASSUME Init PROVE Inv
  OBVIOUS
<1>1. TypeOK
  <2>1. ASSUME NEW p \in PartIds, NEW q \in PartIds
        PROVE  Between(p, q) \in Contract
    BY DEF Between, NoContract, Contract
  <2>2. contracts \in [ContractIds -> {NoContract} \union Contract]
    BY <2>1 DEF Init
  <2>3. NoRows \in Rows /\ NoRequest \in Request
    BY RowsType, NoRequestType
  <2> QED BY <2>2, <2>3 DEF Init, TypeOK, Labels, Optional
<1>2. ASSUME NEW r \in Conns PROVE Local(r)
  <2>1. /\ pc[r] = "idle" /\ req[r].op = "none" /\ todo[r] = {} /\ DOMAIN wrote[r] = {}
        /\ \A p \in PartIds : partLock[p] = None /\ keyShare[p] = {}
        /\ \A c \in ContractIds : rowLock[c] = None
    BY RowsType, NoRequestType DEF Init
  <2> QED BY <2>1, NoneApart DEF Local, Course, HoldsPart, HoldsKeys, HoldsRows, Pends, Moves,
        Removes, Cascades, Places, LocksPart, LocksRow
<1>3. ASSUME NEW r \in Conns, NEW s \in Conns PROVE Apart(r, s)
  BY RowsType DEF Init, Apart
<1>4. KeysFree
  BY DEF Init, KeysFree
<1>5. Committed
  <2> SUFFICES ASSUME NEW c \in ContractIds, Live(contracts[c])
               PROVE  /\ contracts[c].owner # contracts[c].cp
                      /\ \A d \in ContractIds \ {c} : ~SamePlace(contracts[d], contracts[c])
    BY DEF Committed, Claimed
  <2>1. /\ contracts[c].owner # contracts[c].cp
        /\ \A d \in ContractIds \ {c} : ~SamePlace(contracts[c], contracts[d])
    BY DEF Init
  <2> QED BY <2>1 DEF SamePlace
<1> QED BY <1>1, <1>2, <1>3, <1>4, <1>5 DEF Inv

LEMMA NextInv == Inv /\ [Next]_vars => Inv'
<1> SUFFICES ASSUME Inv, [Next]_vars PROVE Inv'
  OBVIOUS
<1>1. CASE UNCHANGED vars
  <2>1. TypeOK' /\ KeysFree'
    BY <1>1 DEF Inv, TypeOK, KeysFree, vars
  <2>2. Committed'
    BY <1>1 DEF Inv, Committed, Claimed, vars
  <2>3. ASSUME NEW r \in Conns, NEW s \in Conns, r # s PROVE Apart(r, s)'
    BY <1>1, <2>3 DEF Inv, Apart, vars
  <2>4. ASSUME NEW r \in Conns PROVE Local(r)'
    <3>1. Local(r)
      BY DEF Inv
    <3>2. Course(r)' /\ Pends(r)' /\ HoldsPart(r)' /\ HoldsKeys(r)' /\ HoldsRows(r)'
      BY <1>1, <3>1 DEF vars, Local, Course, Pends, HoldsPart, HoldsKeys, HoldsRows, Places,
         LocksPart, LocksRow
    <3>3. Target(r)' = Target(r) /\ \A c, q : Stamped(c, q)' = Stamped(c, q)
      BY <1>1 DEF vars, Target, Stamped
    <3>4. Moves(r)'
      <4>1. ASSUME NEW c \in ContractIds, Bound(r, c) PROVE Bound(r, c)'
        BY <1>1, <3>3, <4>1 DEF vars, Bound, Claimed, NewEnds
      <4> QED BY <1>1, <3>1, <3>3, <4>1 DEF vars, Local, Moves, Places
    <3>5. Removes(r)' /\ Cascades(r)'
      BY <1>1, <3>1, <3>3 DEF vars, Local, Removes, Cascades, LocksPart
    <3> QED BY <3>2, <3>4, <3>5 DEF Local
  <2> QED BY <2>1, <2>2, <2>3, <2>4 DEF Inv
<1>2. ASSUME NEW r \in Conns, Acquire(r) PROVE Inv'
  BY <1>2, LockContractInv, LockPartInv, WriteInv, ShareKeyInv, CascadeInv DEF Acquire
<1>3. ASSUME NEW r \in Conns, Statement(r) PROVE Inv'
  BY <1>3, ResolvePartInv, CheckPlaceInv, StampContractInv, ReadImpactInv, CommitInv
     DEF Statement
<1>4. ASSUME NEW r \in Conns, AbortVictim(r) \/ Die(r) PROVE Inv'
  BY <1>4, RefuseInv DEF AbortVictim, Die
<1> QED BY <1>1, <1>2, <1>3, <1>4, BeginInv DEF Next

\* The lock discipline and the state of every unfinished write, of any number of
\* requests and in any interleaving.
THEOREM InvAlways == Spec => []Inv
BY InitInv, NextInv, PTL DEF Spec
-----------------------------------------------------------------------------
\* Distinct places and no self-loops, in the words of GraphCommits.
LEMMA SoundNow == Committed => Commits!Sound
BY DEF Committed, Claimed, SamePlace, Live, Commits!Sound, Commits!Live

LEMMA SoundNext == Committed' => Commits!Sound'
BY DEF Committed, Claimed, SamePlace, Live, Commits!Sound, Commits!Live

LEMMA InitSound == Init => Commits!Init
<1> SUFFICES ASSUME Init PROVE Commits!Init
  OBVIOUS
<1>1. Inv
  BY InitInv
<1>2. ASSUME NEW p \in PartIds, NEW q \in PartIds
      PROVE  Between(p, q).state = "live" /\ Between(p, q).owner = p /\ Between(p, q).cp = q
  BY DEF Between, NoContract
<1>3. ASSUME NEW c \in ContractIds
      PROVE  /\ contracts[c].state \in {"absent", "live"}
             /\ contracts[c].owner \in PartIds \union {None}
             /\ contracts[c].cp \in PartIds \union {None}
  <2>1. \/ contracts[c] = NoContract
        \/ \E p \in PartIds, q \in PartIds : contracts[c] = Between(p, q)
    BY <1>3 DEF Init
  <2> QED BY <1>2, <2>1 DEF NoContract
<1>4. parts = [p \in PartIds |-> "live"]
  BY DEF Init
<1> QED BY <1>1, <1>3, <1>4, SoundNow DEF Inv, Commits!Init

\* A commit of a registration, or of a shift of a contract that is still live.
LEMMA CommitPlaces ==
  ASSUME Inv, NEW r \in Conns, Commit(r), Places(r)
  PROVE  \E c \in ContractIds : Commits!Register(c) \/ Commits!Move(c)
<1>1. TypeOK /\ Local(r) /\ pc[r] = "commit"
  BY DEF Inv, Commit
<1>2. PICK c \in ContractIds : Bound(r, c)
  BY <1>1 DEF Local, Moves
<1>3. DOMAIN wrote[r] = {c} /\ wrote[r][c] = Target(r)
  BY <1>2 DEF Bound
<1>4. Target(r) \in Contract /\ Live(Target(r))
  BY <1>1, TargetType
<1>5. contracts'[c] = Target(r) /\ \A d \in ContractIds \ {c} : contracts'[d] = contracts[d]
  BY <1>3, CommitEffect
<1>6. parts' = parts
  BY <1>1 DEF Commit, TypeOK, Places
<1> DEFINE state == [d \in ContractIds |-> contracts[d].state]
           ends == [d \in ContractIds |-> <<contracts[d].owner, contracts[d].cp>>]
           e == <<Target(r).owner, Target(r).cp>>
<1>7. e \in PartIds \X PartIds /\ ends' = [ends EXCEPT ![c] = e]
  BY <1>4, <1>5 DEF Contract
<1>8. CASE req[r].op = "register"
  <2>1. contracts[c].state = "absent"
    BY <1>2, <1>8 DEF Bound, NoContract
  <2>2. state' = [state EXCEPT ![c] = "live"]
    BY <1>4, <1>5 DEF Live
  <2>3. Commits!Register(c)
    BY <1>6, <1>7, <2>1, <2>2 DEF Commits!Register
  <2> QED BY <2>3
<1>9. CASE req[r].op = "shift"
  <2>1. Live(contracts[c])
    BY <1>1, <1>3, <1>4, <1>9, LiveWrite
  <2>2. state' = state
    BY <1>4, <1>5, <2>1 DEF Live
  <2>3. Commits!Move(c)
    BY <1>6, <1>7, <2>1, <2>2 DEF Commits!Move, Commits!Live, Live
  <2> QED BY <2>3
<1> QED BY <1>8, <1>9 DEF Places

\* A commit of the deletion of a contract, which is still live.
LEMMA CommitRemoves ==
  ASSUME Inv, NEW r \in Conns, Commit(r), req[r].op = "delete"
  PROVE  \E c \in ContractIds : Commits!Delete(c)
<1>1. TypeOK /\ Local(r) /\ pc[r] = "commit"
  BY DEF Inv, Commit
<1>2. PICK c \in ContractIds : c = req[r].contract
  BY <1>1 DEF Local, Course
<1>3. wrote[r] = [d \in {c} |-> Stamped(c, c)]
  BY <1>1, <1>2 DEF Local, Removes
<1>4. Live(contracts[c]) /\ contracts[c] # NoContract
  BY <1>1, <1>2 DEF Local, HoldsRows, LocksRow
<1>5. /\ contracts'[c] = Stamped(c, c)
      /\ \A d \in ContractIds \ {c} : contracts'[d] = contracts[d]
  BY <1>3, CommitEffect
<1>6. parts' = parts
  BY <1>1 DEF Commit, TypeOK
<1>7. /\ contracts'[c].state = "deleted" /\ contracts'[c].owner = contracts[c].owner
      /\ contracts'[c].cp = contracts[c].cp
  BY <1>1, <1>4, <1>5, StampedType
<1> DEFINE state == [d \in ContractIds |-> contracts[d].state]
           ends == [d \in ContractIds |-> <<contracts[d].owner, contracts[d].cp>>]
<1>8. ends' = ends /\ state' = [state EXCEPT ![c] = "deleted"]
  BY <1>5, <1>7
<1> QED BY <1>4, <1>6, <1>8 DEF Commits!Delete, Commits!Live, Live

\* A commit of the deletion of a part: with its cascade, all live contracts it has go.
LEMMA CommitCascades ==
  ASSUME Inv, NEW r \in Conns, Commit(r), LocksPart(r)
  PROVE  \E p \in PartIds : Commits!DeletePart(p)
<1>1. TypeOK /\ Local(r) /\ pc[r] = "commit" /\ todo[r] = {}
  BY CommitEffect DEF Inv
<1>2. PICK p \in PartIds : p = req[r].part
  BY <1>1 DEF Local, Course, LocksPart
<1>3. parts[p] = "live"
  BY <1>1, <1>2 DEF Local, HoldsPart
<1>4. parts' = [parts EXCEPT ![p] = "deleted"]
  BY <1>1, <1>2 DEF Commit, TypeOK, LocksPart
<1>5. ASSUME NEW c \in DOMAIN wrote[r]
      PROVE  /\ c \in ContractIds /\ contracts[c] # NoContract
             /\ contracts'[c].state = "deleted" /\ contracts'[c].owner = contracts[c].owner
             /\ contracts'[c].cp = contracts[c].cp
  <2>1. c \in ContractIds /\ rowLock[c] = r
    BY <1>1, WrittenHeld DEF LocksPart
  <2>2. contracts[c] # NoContract
    BY <1>1, <2>1 DEF Local, HoldsRows
  <2>3. contracts'[c] = Stamped(c, p)
    BY <1>1, <1>2, CommitEffect DEF Local, Cascades
  <2> QED BY <1>1, <2>1, <2>2, <2>3, StampedType
<1>6. \A c \in ContractIds \ DOMAIN wrote[r] : contracts'[c] = contracts[c]
  BY CommitEffect
<1> DEFINE state == [d \in ContractIds |-> contracts[d].state]
           ends == [d \in ContractIds |-> <<contracts[d].owner, contracts[d].cp>>]
           S == {c \in ContractIds : c \in DOMAIN wrote[r] /\ Live(contracts[c])}
<1>7. ends' = ends
  BY <1>5, <1>6
<1>8. ASSUME NEW c \in ContractIds
      PROVE  contracts'[c].state = IF c \in S THEN "deleted" ELSE contracts[c].state
  <2>1. CASE c \notin DOMAIN wrote[r]
    BY <1>6, <2>1
  <2>2. CASE c \in DOMAIN wrote[r]
    <3>1. contracts[c] \in Contract
      BY <1>1, <1>5, <2>2 DEF TypeOK
    <3> QED BY <1>5, <2>2, <3>1 DEF Contract, Live
  <2> QED BY <2>1, <2>2
<1>9. state' = [c \in ContractIds |-> IF c \in S THEN "deleted" ELSE state[c]]
  BY <1>8
<1>10. \A c \in ContractIds : Live(contracts[c]) /\ Touches(contracts[c], p) => c \in S
  BY <1>1, <1>2 DEF Local, Cascades
<1>11. S \in SUBSET {c \in ContractIds : Commits!Live(c)}
  BY DEF Commits!Live, Live
<1>12. \A c \in ContractIds : Commits!Live(c) /\ p \in {ends[c][1], ends[c][2]} => c \in S
  BY <1>10 DEF Commits!Live, Live, Touches
<1> HIDE DEF S
<1> QED BY <1>3, <1>4, <1>7, <1>9, <1>11, <1>12 DEF Commits!DeletePart

\* Every step is one of the commits GraphCommits promises, or changes nothing committed.
LEMMA NextSound == Inv /\ Inv' /\ [Next]_vars => [Commits!Next]_(Commits!vars)
<1> SUFFICES ASSUME Inv, Inv', [Next]_vars PROVE [Commits!Next]_(Commits!vars)
  OBVIOUS
<1>1. CASE UNCHANGED <<parts, contracts>>
  BY <1>1 DEF Commits!vars
<1>2. ASSUME NEW r \in Conns, Commit(r) PROVE Commits!Next
  <2>1. Local(r) /\ pc[r] = "commit"
    BY <1>2 DEF Inv, Commit
  <2>2. Places(r) \/ req[r].op = "delete" \/ LocksPart(r)
    BY <2>1 DEF Local, Course, Places, LocksPart
  <2>3. Commits!Commit
    BY <1>2, <2>2, CommitPlaces, CommitRemoves, CommitCascades DEF Commits!Commit
  <2>4. Commits!Sound'
    BY SoundNext DEF Inv
  <2> QED BY <2>3, <2>4 DEF Commits!Next
<1>3. ASSUME NEW r \in Conns, Begin(r) \/ Acquire(r) PROVE UNCHANGED <<parts, contracts>>
  BY <1>3 DEF Begin, Acquire, LockContract, LockPart, Write, ShareKey, Cascade, Refuse
<1>4. ASSUME NEW r \in Conns, Statement(r), ~Commit(r) PROVE UNCHANGED <<parts, contracts>>
  BY <1>4 DEF Statement, ResolvePart, CheckPlace, StampContract, ReadImpact, Refuse
<1>5. ASSUME NEW r \in Conns, AbortVictim(r) \/ Die(r) PROVE UNCHANGED <<parts, contracts>>
  BY <1>5 DEF AbortVictim, Die, Refuse
<1> QED BY <1>1, <1>2, <1>3, <1>4, <1>5 DEF Next, vars

\* The handlers, statement by statement and with PostgreSQL's locks, implement
\* GraphCommits: whatever the interleaving, a commit registers or moves one contract
\* to a place of its own, deletes a live one, or takes a part with all it has.
THEOREM CommitsSound == Spec => CommitsSoundly
<1>1. Init => Commits!Init
  BY InitSound
<1>2. Inv /\ Inv' /\ [Next]_vars => [Commits!Next]_(Commits!vars)
  BY NextSound
<1> QED BY <1>1, <1>2, InvAlways, PTL DEF Spec, CommitsSoundly, Commits!Spec

\* What GraphCommits says of one step, in the words of GraphTx.
DeletedStays ==
  [][/\ \A p \in PartIds : parts[p] = "deleted" => parts'[p] = "deleted"
     /\ \A c \in ContractIds : contracts[c].state = "deleted" =>
          contracts'[c].state = "deleted" /\ SamePlace(contracts'[c], contracts[c])]_vars

\* Whoever overtakes whom, no request revives a part or a contract that another has
\* deleted meanwhile, nor moves it.
THEOREM DeletedForGood == Spec => DeletedStays
<1> DEFINE Stays ==
      /\ \A p \in PartIds : parts[p] = "deleted" => parts'[p] = "deleted"
      /\ \A c \in ContractIds : contracts[c].state = "deleted" =>
           contracts'[c].state = "deleted" /\ SamePlace(contracts'[c], contracts[c])
<1>1. Inv /\ Inv' /\ [Next]_vars => [Stays]_vars
  <2> SUFFICES ASSUME Inv, Inv', [Next]_vars PROVE [Stays]_vars
    OBVIOUS
  <2> DEFINE state == [c \in ContractIds |-> contracts[c].state]
             ends == [c \in ContractIds |-> <<contracts[c].owner, contracts[c].cp>>]
             Kept(c) == state[c] = "deleted" => state'[c] = "deleted" /\ ends'[c] = ends[c]
             PartKept(p) == parts[p] = "deleted" => parts'[p] = "deleted"
  <2>1. Commits!Next \/ UNCHANGED Commits!vars
    BY NextSound
  <2>2. CASE UNCHANGED Commits!vars
    <3>1. state' = state /\ ends' = ends /\ parts' = parts
      BY <2>2 DEF Commits!vars
    <3>2. \A c \in ContractIds : Kept(c)
      BY <3>1
    <3> QED BY <3>1, <3>2 DEF SamePlace
  <2>3. ASSUME NEW d \in ContractIds, Commits!Register(d) \/ Commits!Move(d) \/ Commits!Delete(d)
        PROVE  Stays
    <3>1. parts' = parts /\ state[d] # "deleted"
      BY <2>3 DEF Commits!Register, Commits!Move, Commits!Delete, Commits!Live
    <3>2. ASSUME NEW c \in ContractIds \ {d} PROVE state'[c] = state[c] /\ ends'[c] = ends[c]
      BY <2>3 DEF Commits!Register, Commits!Move, Commits!Delete
    <3>3. \A c \in ContractIds : Kept(c)
      BY <3>1, <3>2
    <3> QED BY <3>1, <3>3 DEF SamePlace
  <2>4. ASSUME NEW p \in PartIds, Commits!DeletePart(p) PROVE Stays
    <3>1. PICK S \in SUBSET ContractIds :
            state' = [c \in ContractIds |-> IF c \in S THEN "deleted" ELSE state[c]]
      BY <2>4 DEF Commits!DeletePart
    <3>2. ends' = ends /\ parts' = [parts EXCEPT ![p] = "deleted"]
      BY <2>4 DEF Commits!DeletePart
    <3>3. \A q \in PartIds : PartKept(q)
      BY <3>2 DEF Inv, TypeOK
    <3>4. \A c \in ContractIds : Kept(c)
      BY <3>1, <3>2
    <3> QED BY <3>3, <3>4 DEF SamePlace
  <2> QED BY <2>1, <2>2, <2>3, <2>4 DEF Commits!Next, Commits!Commit
<1> QED BY <1>1, InvAlways, PTL DEF Spec, DeletedStays
-----------------------------------------------------------------------------
\* Finitely many naturals have a greatest: the smallest set without one would have
\* one as soon as an element is taken out.
LEMMA GreatestNatural ==
  ASSUME NEW S \in SUBSET Nat, IsFiniteSet(S), S # {}
  PROVE  \E m \in S : \A k \in S : k <= m
<1> DEFINE Greatest(T) == \E m \in T : \A k \in T : k <= m
           sizes == {Cardinality(T) : T \in {U \in SUBSET S : U # {} /\ ~Greatest(U)}}
<1> SUFFICES ASSUME ~Greatest(S) PROVE FALSE
  OBVIOUS
<1>1. \A T \in SUBSET S : IsFiniteSet(T) /\ Cardinality(T) \in Nat
  BY FS_Subset, FS_CardinalityType
<1>2. sizes \in SUBSET Nat /\ Cardinality(S) \in sizes
  <2> HIDE DEF Greatest
  <2> QED BY <1>1
<1>3. PICK n \in sizes : \A k \in sizes : n <= k
  <2> HIDE DEF sizes
  <2> QED BY <1>2, LeastNatural
<1>4. PICK T \in SUBSET S : T # {} /\ ~Greatest(T) /\ Cardinality(T) = n
  <2> HIDE DEF Greatest
  <2> QED BY <1>3
<1>5. PICK x \in T : TRUE
  BY <1>4
<1>6. Cardinality(T \ {x}) = n - 1 /\ n \in Nat
  BY <1>1, <1>4, <1>5, FS_RemoveElement
<1>7. T \ {x} \in SUBSET S /\ T \ {x} # {}
  BY <1>4, <1>5
<1>8. Greatest(T \ {x})
  <2>1. ~(n <= Cardinality(T \ {x}))
    BY <1>6
  <2>2. Cardinality(T \ {x}) \notin sizes
    <3> HIDE DEF sizes
    <3> QED BY <1>3, <2>1
  <2> HIDE DEF Greatest
  <2> QED BY <1>7, <2>2
<1>9. PICK m \in T \ {x} : \A k \in T \ {x} : k <= m
  BY <1>8
<1>10. x \in Nat /\ m \in Nat /\ m \in T /\ T \subseteq Nat
  BY <1>4, <1>5, <1>9
<1>11. CASE m <= x
  <2>1. \A k \in T : k <= x
    BY <1>9, <1>10, <1>11
  <2> QED BY <1>4, <1>5, <2>1
<1>12. CASE ~(m <= x)
  <2>1. \A k \in T : k <= m
    BY <1>9, <1>10, <1>12
  <2> QED BY <1>4, <1>10, <2>1
<1> QED BY <1>11, <1>12

\* Where a request can be that somebody waits for.
LEMMA PartHolderAt ==
  ASSUME NEW s \in Conns, Local(s), NEW p \in PartIds, partLock[p] = s
  PROVE  pc[s] \in {"impact", "cascade", "commit"}
BY DEF Local, HoldsPart, LocksPart, Course

LEMMA KeyHolderAt ==
  ASSUME NEW s \in Conns, Local(s), NEW p \in PartIds, s \in keyShare[p]
  PROVE  pc[s] \in {"key", "commit"}
BY DEF Local, HoldsKeys

LEMMA WriterAt ==
  ASSUME NEW s \in Conns, Local(s), DOMAIN wrote[s] # {}
  PROVE  pc[s] \in {"key", "cascade", "commit"}
BY DEF Local, Pends

LEMMA RowHolderAt ==
  ASSUME NEW s \in Conns, Local(s), NEW c \in ContractIds, rowLock[c] = s
  PROVE  \/ pc[s] \in {"exists", "write", "key", "stamp", "commit"}
         \/ pc[s] \in {"cascade", "commit"} /\ LocksPart(s) /\ c \in DOMAIN wrote[s]
<1>1. \/ LocksRow(s) /\ pc[s] # "lock"
      \/ LocksPart(s) /\ c \in DOMAIN wrote[s]
  BY DEF Local, HoldsRows
<1>2. CASE LocksRow(s) /\ pc[s] # "lock"
  BY <1>2 DEF Local, Course, LocksRow
<1>3. CASE LocksPart(s) /\ c \in DOMAIN wrote[s]
  <2>1. pc[s] \in {"key", "cascade", "commit"}
    BY <1>3, WriterAt
  <2> QED BY <1>3, <2>1 DEF Local, Course, LocksPart
<1> QED BY <1>1, <1>2, <1>3

LEMMA NextKeyIsPart ==
  ASSUME TypeOK, NEW r \in Conns, Local(r), pc[r] = "key"
  PROVE  NextKey(r) \in PartIds
<1>1. Places(r)
  BY DEF Local, Course, Places
<1>2. Target(r) \in Contract
  BY <1>1, TargetType
<1> QED BY <1>2 DEF NextKey, Contract

\* Whom each statement waits for, and where they are by then.
LEMMA WaitsFor ==
  ASSUME Inv, NEW r \in Conns, NEW s \in Conns, s \in Blockers(r)
  PROVE  /\ pc[r] \in {"lock", "lock_part", "write", "key", "cascade"}
         /\ pc[r] = "key" => pc[s] \in {"impact", "cascade", "commit"}
         /\ pc[r] = "write" => pc[s] \in {"key", "cascade", "commit"}
         /\ pc[r] = "lock" =>
              pc[s] \in {"exists", "write", "key", "stamp", "cascade", "commit"}
         /\ pc[r] = "lock_part" => pc[s] \in {"impact", "cascade", "key", "commit"}
         /\ pc[r] = "cascade" =>
              \/ pc[s] \in {"exists", "write", "key", "stamp", "commit"}
              \/ /\ pc[s] = "cascade" /\ LocksPart(s)
                 /\ NextCascaded(r) \in DOMAIN wrote[s]
<1>1. TypeOK /\ Local(r) /\ Local(s)
  BY DEF Inv
<1>2. pc[r] \in {"lock", "lock_part", "write", "key", "cascade"}
  BY DEF Blockers
<1>3. ASSUME pc[r] = "key" PROVE pc[s] \in {"impact", "cascade", "commit"}
  <2>1. partLock[NextKey(r)] = s
    BY <1>3 DEF Blockers
  <2> QED BY <1>1, <1>3, <2>1, NextKeyIsPart, PartHolderAt
<1>4. ASSUME pc[r] = "write" PROVE pc[s] \in {"key", "cascade", "commit"}
  <2>1. s \in Contenders(r, req[r].contract, Target(r))
    BY <1>4 DEF Blockers
  <2>2. DOMAIN wrote[s] # {}
    BY <2>1 DEF Contenders
  <2> QED BY <1>1, <2>2, WriterAt
<1>5. ASSUME pc[r] = "lock"
      PROVE  pc[s] \in {"exists", "write", "key", "stamp", "cascade", "commit"}
  <2>1. rowLock[req[r].contract] = s
    BY <1>5 DEF Blockers
  <2>2. req[r].contract \in ContractIds
    BY <1>1, <1>5 DEF Local, Course
  <2> QED BY <1>1, <2>1, <2>2, RowHolderAt
<1>6. ASSUME pc[r] = "lock_part" PROVE pc[s] \in {"impact", "cascade", "key", "commit"}
  <2>1. partLock[req[r].part] = s \/ s \in keyShare[req[r].part]
    BY <1>6 DEF Blockers
  <2>2. req[r].part \in PartIds
    BY <1>1, <1>6 DEF Local, Course
  <2> QED BY <1>1, <2>1, <2>2, PartHolderAt, KeyHolderAt
<1>7. ASSUME pc[r] = "cascade"
      PROVE  \/ pc[s] \in {"exists", "write", "key", "stamp", "commit"}
             \/ /\ pc[s] = "cascade" /\ LocksPart(s)
                /\ NextCascaded(r) \in DOMAIN wrote[s]
  <2>1. rowLock[NextCascaded(r)] = s
    BY <1>7 DEF Blockers
  <2>2. NextCascaded(r) \in ContractIds
    BY <1>1, <1>7, NextCascadedIsLeast DEF Local, Pends
  <2> QED BY <1>1, <2>1, <2>2, RowHolderAt
<1> QED BY <1>2, <1>3, <1>4, <1>5, <1>6, <1>7

\* Registrations, shifts and deletions of contracts wait for each other in one
\* direction only: the locks of rows before the index, the index before the keys.
LEMMA DeadlockNeedsCascade ==
  ASSUME Inv, NEW R \in SUBSET Conns, Deadlocked(R)
  PROVE  \E r \in R : pc[r] = "cascade"
<1> SUFFICES ASSUME \A r \in R : pc[r] # "cascade" PROVE FALSE
  OBVIOUS
<1>1. ASSUME NEW r \in R PROVE \E s \in R : s \in Blockers(r)
  BY DEF Deadlocked
<1>2. \A r \in R : pc[r] \in {"lock", "lock_part", "write", "key"}
  BY <1>1, WaitsFor
<1>3. \A r \in R : pc[r] # "key"
  BY <1>1, <1>2, WaitsFor
<1>4. \A r \in R : pc[r] # "write"
  BY <1>1, <1>2, <1>3, WaitsFor
<1>5. \A r \in R : pc[r] # "lock" /\ pc[r] # "lock_part"
  BY <1>1, <1>2, <1>3, <1>4, WaitsFor
<1> QED BY <1>2, <1>3, <1>4, <1>5 DEF Deadlocked

\* Cascades take contracts in the order of their ids: among themselves, whoever waits
\* for the greatest has nobody to wait for.
LEMMA DeadlockNeedsWriter ==
  ASSUME Inv, NEW R \in SUBSET Conns, Deadlocked(R)
  PROVE  \E r \in R : pc[r] \in {"write", "key"}
<1> SUFFICES ASSUME \A r \in R : pc[r] \notin {"write", "key"} PROVE FALSE
  OBVIOUS
<1> DEFINE C == {r \in R : pc[r] = "cascade"}
           S == {NextCascaded(r) : r \in C}
<1>1. ASSUME NEW r \in R PROVE \E s \in R : s \in Blockers(r)
  BY DEF Deadlocked
<1>2. \A r \in R : pc[r] \in {"lock", "lock_part", "cascade"}
  BY <1>1, WaitsFor
<1>3. ASSUME NEW r \in C
      PROVE  /\ NextCascaded(r) \in todo[r] /\ NextCascaded(r) \in ContractIds
             /\ NextCascaded(r) \in Nat
  <2>1. TypeOK /\ Local(r) /\ pc[r] = "cascade"
    BY DEF Inv
  <2> QED BY <2>1, NextCascadedIsLeast, GraphTxAssumption DEF Local, Pends
<1>4. ASSUME NEW r \in C PROVE \E s \in C : NextCascaded(r) < NextCascaded(s)
  <2>1. PICK s \in R : s \in Blockers(r)
    BY <1>1
  <2>2. s \in C /\ LocksPart(s) /\ NextCascaded(r) \in DOMAIN wrote[s]
    BY <1>2, <2>1, WaitsFor
  <2>3. NextCascaded(s) \in todo[s]
    BY <1>3, <2>2
  <2>4. Local(s)
    BY <2>2 DEF Inv
  <2> QED BY <2>2, <2>3, <2>4 DEF Local, Cascades
<1>5. C # {}
  BY DeadlockNeedsCascade
<1>6. S \in SUBSET Nat /\ S \subseteq ContractIds /\ S # {}
  BY <1>3, <1>5
<1>7. IsFiniteSet(S)
  BY <1>6, FS_Subset, GraphTxAssumption
<1>8. PICK m \in S : \A k \in S : k <= m
  <2> HIDE DEF S
  <2> QED BY <1>6, <1>7, GreatestNatural
<1>9. PICK r \in C : m = NextCascaded(r)
  BY <1>8
<1>10. PICK s \in C : NextCascaded(r) < NextCascaded(s)
  BY <1>4
<1>11. NextCascaded(s) \in S /\ NextCascaded(s) \in Nat /\ m \in Nat
  BY <1>3, <1>6, <1>8
<1> QED BY <1>8, <1>9, <1>10, <1>11

\* A deadlock takes a cascade and a request that holds a contract, or is about to
\* write one, and waits: with any number of requests, parts and contracts.
THEOREM DeadlockTakesBoth == Spec => []DeadlockNeedsBoth
<1>1. Inv => DeadlockNeedsBoth
  BY DeadlockNeedsCascade, DeadlockNeedsWriter DEF DeadlockNeedsBoth
<1> QED BY <1>1, InvAlways, PTL
=============================================================================
