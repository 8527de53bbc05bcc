----------------------------- MODULE PartTxProofs -----------------------------
(***************************************************************************)
(* PartTx, for every number of parts, slugs, proposals, versions and       *)
(* concurrent requests: a request that is past its SELECT ... FOR UPDATE   *)
(* holds one live part by the slug it was sent to, and what it has read of *)
(* that part is still so.                                                  *)
(***************************************************************************)
EXTENDS PartTx, TLAPS

\* The statements that follow the row lock.
Granted == {"update", "append", "propose", "accept", "clash", "rename"}

Holds(c, p) ==
  found[c] = {p} /\ lock[p] = c /\ LivePart(p) /\ parts[p].name = req[c].name

\* The version to append is above all that the part has.
Above(c, p) ==
  /\ req[c].version \in Versions
  /\ \A w \in parts[p].versions : req[c].version > w

\* The proposal to accept is open and about the part.
Open(c, p) ==
  LET q == req[c].proposal IN
    q \in ProposalIds /\ renames[q].part = p /\ renames[q].status = "open"

Sound(c) ==
  /\ pc[c] = "wait" => req[c].op \in {"update", "propose", "accept"}
  /\ pc[c] \in Granted =>
       \E p \in PartIds : /\ Holds(c, p)
                          /\ pc[c] = "append" => Above(c, p)
                          /\ pc[c] \in {"clash", "rename"} => Open(c, p)

LockInv == TypeOK /\ \A c \in Conns : Sound(c)

-----------------------------------------------------------------------------
LEMMA NoRequestType == NoRequest \in Request
BY DEF NoRequest, Request

LEMMA MineIsFound ==
  ASSUME NEW c, NEW p \in PartIds, found[c] = {p}
  PROVE  Mine(c) = p
BY DEF Mine

LEMMA FinishType ==
  ASSUME TypeOK, NEW c \in Conns, NEW code \in Results, Finish(c, code)
  PROVE  /\ pc' \in [Conns -> Labels] /\ pc'[c] = "done"
         /\ req' \in [Conns -> Request] /\ found' \in [Conns -> SUBSET PartIds]
         /\ res' \in [Conns -> Results] /\ lock' \in [PartIds -> Conns \union {None}]
BY NoRequestType DEF TypeOK, Finish, Labels

\* A step of c, or of a deletion, that leaves d, what d has locked and the proposals
\* about it alone.
LEMMA OthersSound ==
  ASSUME NEW d \in Conns, Sound(d),
         pc'[d] = pc[d], req'[d] = req[d], found'[d] = found[d],
         \A p \in PartIds : lock[p] = d /\ LivePart(p) =>
           /\ lock'[p] = d /\ parts'[p] = parts[p]
           /\ \A q \in ProposalIds :
                renames[q].part = p /\ renames[q].status = "open" => renames'[q] = renames[q]
  PROVE  Sound(d)'
<1>1. CASE pc[d] \notin Granted
  BY <1>1 DEF Sound
<1>2. CASE pc[d] \in Granted
  <2>1. PICK p \in PartIds : /\ Holds(d, p)
                             /\ pc[d] = "append" => Above(d, p)
                             /\ pc[d] \in {"clash", "rename"} => Open(d, p)
    BY <1>2 DEF Sound
  <2>2. Holds(d, p)'
    BY <2>1 DEF Holds, LivePart
  <2>3. pc'[d] = "append" => Above(d, p)'
    BY <2>1 DEF Above, Holds
  <2>4. pc'[d] \in {"clash", "rename"} => Open(d, p)'
    BY <2>1 DEF Open, Holds
  <2>5. QED BY <2>2, <2>3, <2>4 DEF Sound
<1>3. QED BY <1>1, <1>2

\* A request that ends leaves the others' locks, and is past its statements.
LEMMA FinishSound ==
  ASSUME LockInv, NEW c \in Conns, NEW code \in Results, Finish(c, code),
         parts' \in [PartIds -> Part], renames' \in [ProposalIds -> NameProposal],
         \A d \in Conns \ {c} : \A p \in PartIds : lock[p] = d /\ LivePart(p) =>
           /\ parts'[p] = parts[p]
           /\ \A q \in ProposalIds :
                renames[q].part = p /\ renames[q].status = "open" => renames'[q] = renames[q]
  PROVE  LockInv'
<1>1. TypeOK'
  BY FinishType DEF LockInv, TypeOK
<1>2. Sound(c)'
  BY FinishType DEF LockInv, Sound, Granted
<1>3. ASSUME NEW d \in Conns \ {c} PROVE Sound(d)'
  <2>1. pc'[d] = pc[d] /\ req'[d] = req[d] /\ found'[d] = found[d]
    BY DEF Finish, LockInv, TypeOK
  <2>2. \A p \in PartIds : lock[p] = d => lock'[p] = d
    BY DEF Finish, LockInv, TypeOK
  <2>3. QED BY <2>1, <2>2, OthersSound DEF LockInv
<1>4. QED BY <1>1, <1>2, <1>3 DEF LockInv

\* A request that ends and has changed nothing.
LEMMA QuietFinish ==
  ASSUME LockInv, NEW c \in Conns, NEW code \in Results, Finish(c, code),
         parts' = parts, renames' = renames
  PROVE  LockInv'
BY FinishSound DEF LockInv, TypeOK

\* A request that goes on by itself.
LEMMA GoesOn ==
  ASSUME LockInv, NEW c \in Conns, parts' = parts, renames' = renames, res' = res,
         NEW label \in Labels, NEW r \in Request, NEW f \in SUBSET PartIds,
         lock' \in [PartIds -> Conns \union {None}],
         \A p \in PartIds : lock[p] \in Conns \ {c} => lock'[p] = lock[p],
         pc' = [pc EXCEPT ![c] = label], req' = [req EXCEPT ![c] = r],
         found' = [found EXCEPT ![c] = f], Sound(c)'
  PROVE  LockInv'
<1>1. TypeOK'
  BY DEF LockInv, TypeOK
<1>2. ASSUME NEW d \in Conns, d # c PROVE Sound(d)'
  <2>1. pc'[d] = pc[d] /\ req'[d] = req[d] /\ found'[d] = found[d]
    BY <1>2 DEF LockInv, TypeOK
  <2>2. \A p \in PartIds : lock[p] = d => lock'[p] = d
    BY <1>2
  <2>3. QED BY <2>1, <2>2, OthersSound DEF LockInv
<1>3. QED BY <1>1, <1>2 DEF LockInv

-----------------------------------------------------------------------------
LEMMA InitOK == Init => LockInv
BY NoRequestType
DEF Init, LockInv, TypeOK, Sound, Granted, NoPart, NoRename, Part, NameProposal, Labels, Results

LEMMA BeginOK ==
  ASSUME LockInv, NEW c \in Conns, Begin(c) PROVE LockInv'
<1>1. PICK name \in Names, op \in {"register", "update", "propose", "accept"} :
        /\ req' = [req EXCEPT ![c] = [NoRequest EXCEPT !.op = op, !.name = name]]
        /\ pc' = [pc EXCEPT ![c] = IF op = "register" THEN "check" ELSE "wait"]
        /\ found' = [found EXCEPT ![c] = IF op = "register" THEN {} ELSE
                       {p \in PartIds : parts[p].name = name}]
  BY DEF Begin
<1>2. [NoRequest EXCEPT !.op = op, !.name = name] \in Request
  BY DEF NoRequest, Request
<1>3. /\ (IF op = "register" THEN "check" ELSE "wait") \in Labels
      /\ (IF op = "register" THEN "check" ELSE "wait") \notin Granted
  BY DEF Labels, Granted
<1>4. Sound(c)'
  <2>1. pc'[c] \notin Granted /\ pc'[c] = IF op = "register" THEN "check" ELSE "wait"
    BY <1>1, <1>3 DEF LockInv, TypeOK
  <2>2. req'[c].op = op
    BY <1>1 DEF LockInv, TypeOK, NoRequest
  <2>3. QED BY <2>1, <2>2 DEF Sound
<1>5. (IF op = "register" THEN {} ELSE {p \in PartIds : parts[p].name = name}) \in SUBSET PartIds
  OBVIOUS
<1>6. QED
  BY <1>1, <1>2, <1>3, <1>4, <1>5, GoesOn DEF Begin, LockInv, TypeOK

LEMMA CheckFreeOK ==
  ASSUME LockInv, NEW c \in Conns, CheckFree(c) PROVE LockInv'
<1>1. CASE Taken(req[c].name, {})
  BY <1>1, QuietFinish DEF CheckFree, Results
<1>2. CASE ~Taken(req[c].name, {})
  <2>1. /\ pc' = [pc EXCEPT ![c] = "insert"] /\ req' = [req EXCEPT ![c] = req[c]]
        /\ found' = [found EXCEPT ![c] = found[c]]
        /\ UNCHANGED <<parts, renames, lock, res>>
    BY <1>2 DEF CheckFree, Goto, LockInv, TypeOK
  <2>2. Sound(c)'
    BY <2>1 DEF Sound, Granted, LockInv, TypeOK
  <2>3. req[c] \in Request /\ found[c] \in SUBSET PartIds /\ "insert" \in Labels
    BY DEF LockInv, TypeOK, Labels
  <2>4. QED BY <2>1, <2>2, <2>3, GoesOn DEF LockInv, TypeOK
<1>3. QED BY <1>1, <1>2

LEMMA RegisterOK ==
  ASSUME LockInv, NEW c \in Conns, Register(c) PROVE LockInv'
<1>1. CASE parts' = parts /\ Finish(c, "IntegrityError")
  BY <1>1, QuietFinish DEF Register, Results
<1>2. CASE ~(parts' = parts /\ Finish(c, "IntegrityError"))
  <2>1. PICK p \in PartIds, v \in Versions :
          /\ parts[p].state = "absent"
          /\ parts' = [parts EXCEPT ![p] = [state |-> "live", name |-> req[c].name,
                                            versions |-> {v}]]
    BY <1>2 DEF Register
  <2>2. Finish(c, "201") /\ renames' = renames
    BY <1>2 DEF Register
  <2>3. [state |-> "live", name |-> req[c].name, versions |-> {v}] \in Part
    BY DEF Part, LockInv, TypeOK, Request
  <2>4. parts' \in [PartIds -> Part] /\ \A o \in PartIds : LivePart(o) => parts'[o] = parts[o]
    BY <2>1, <2>3 DEF LivePart, LockInv, TypeOK
  <2>5. "201" \in Results
    BY DEF Results
  <2>6. QED BY <2>2, <2>4, <2>5, FinishSound DEF LockInv, TypeOK
<1>3. QED BY <1>1, <1>2

LEMMA GrantOK ==
  ASSUME LockInv, NEW c \in Conns, Grant(c) PROVE LockInv'
<1> DEFINE matching == {p \in found[c] : parts[p].name = req[c].name}
<1>1. CASE Finish(c, "404") \/ Finish(c, "MultipleResultsFound")
  BY <1>1, QuietFinish DEF Grant, Results
<1>2. CASE ~(Finish(c, "404") \/ Finish(c, "MultipleResultsFound"))
  <2>1. PICK p \in PartIds :
          /\ matching = {p} /\ LivePart(p)
          /\ lock' = [lock EXCEPT ![p] = c] /\ pc' = [pc EXCEPT ![c] = req[c].op]
          /\ found' = [found EXCEPT ![c] = {p}]
          /\ UNCHANGED <<req, res>>
    BY <1>2 DEF Grant
  <2>2. p \in found[c] /\ parts[p].name = req[c].name
    BY <2>1
  <2>3. lock[p] = None /\ UNCHANGED <<parts, renames>> /\ pc[c] = "wait"
    BY <2>2 DEF Grant
  <2>4. Holds(c, p)'
    BY <2>1, <2>2, <2>3 DEF Holds, LivePart, LockInv, TypeOK
  <2>5. req[c].op \in {"update", "propose", "accept"} /\ req[c].op \in Labels
    BY <2>3 DEF LockInv, Sound, Labels
  <2>6. Sound(c)'
    BY <2>1, <2>4, <2>5 DEF Sound, LockInv, TypeOK
  <2>7. /\ lock' \in [PartIds -> Conns \union {None}] /\ req' = [req EXCEPT ![c] = req[c]]
        /\ \A o \in PartIds : lock[o] \in Conns \ {c} => lock'[o] = lock[o]
    BY <2>1, <2>3, PartTxAssumption DEF LockInv, TypeOK
  <2>8. req[c] \in Request /\ {p} \in SUBSET PartIds
    BY DEF LockInv, TypeOK
  <2>9. /\ parts' = parts /\ renames' = renames /\ res' = res
        /\ pc' = [pc EXCEPT ![c] = req[c].op] /\ found' = [found EXCEPT ![c] = {p}]
    BY <2>1, <2>3
  <2>10. QED
    BY <2>5, <2>6, <2>7, <2>8, <2>9, GoesOn
<1>3. QED BY <1>1, <1>2

-----------------------------------------------------------------------------
(* The statements under the row lock *)

\* What c has locked, and knows of it.
LEMMA Held ==
  ASSUME LockInv, NEW c \in Conns, pc[c] \in Granted
  PROVE  /\ Mine(c) \in PartIds /\ Holds(c, Mine(c))
         /\ pc[c] = "append" => Above(c, Mine(c))
         /\ pc[c] \in {"clash", "rename"} => Open(c, Mine(c))
<1>1. PICK p \in PartIds : /\ Holds(c, p)
                           /\ pc[c] = "append" => Above(c, p)
                           /\ pc[c] \in {"clash", "rename"} => Open(c, p)
  BY DEF LockInv, Sound
<1>2. Mine(c) = p
  BY <1>1, MineIsFound DEF Holds
<1>3. QED BY <1>1, <1>2

\* The next statement of a request that keeps its lock and what it has read.
LEMMA NextStatement ==
  ASSUME LockInv, NEW c \in Conns, pc[c] \in Granted,
         NEW label \in {"append", "clash", "rename"}, Goto(c, label),
         parts' = parts, renames' = renames,
         NEW r \in Request, req' = [req EXCEPT ![c] = r], r.name = req[c].name,
         label = "append" => r.version \in Versions
                             /\ \A w \in parts[Mine(c)].versions : r.version > w,
         label \in {"clash", "rename"} =>
           /\ r.proposal \in ProposalIds
           /\ renames[r.proposal].part = Mine(c) /\ renames[r.proposal].status = "open"
  PROVE  LockInv'
<1>1. PICK p \in PartIds : p = Mine(c) /\ Holds(c, p)
  BY Held
<1>2. /\ pc'[c] = label /\ req'[c] = r /\ UNCHANGED <<lock, found, res>>
      /\ pc' = [pc EXCEPT ![c] = label]
  BY DEF Goto, LockInv, TypeOK
<1>3. Holds(c, p)'
  BY <1>1, <1>2 DEF Holds, LivePart
<1>4. (label = "append" => Above(c, p)') /\ (label \in {"clash", "rename"} => Open(c, p)')
  BY <1>1, <1>2 DEF Above, Open
<1>5. Sound(c)'
  BY <1>2, <1>3, <1>4 DEF Sound
<1>6. /\ found' = [found EXCEPT ![c] = found[c]] /\ found[c] \in SUBSET PartIds
      /\ label \in Labels /\ lock' \in [PartIds -> Conns \union {None}]
  BY <1>2 DEF LockInv, TypeOK, Labels
<1>7. QED BY <1>2, <1>5, <1>6, GoesOn

LEMMA CheckLatestOK ==
  ASSUME LockInv, NEW c \in Conns, CheckLatest(c) PROVE LockInv'
<1>1. PICK v \in Versions :
        IF \A w \in parts[Mine(c)].versions : v > w
          THEN /\ req' = [req EXCEPT ![c].version = v]
               /\ Goto(c, "append")
          ELSE Finish(c, "409")
  BY DEF CheckLatest
<1>2. CASE \A w \in parts[Mine(c)].versions : v > w
  <2>1. PICK r \in Request : /\ req' = [req EXCEPT ![c] = r]
                             /\ r.name = req[c].name /\ r.version = v
    <3>1. [req[c] EXCEPT !.version = v] \in Request
      BY PartTxAssumption DEF LockInv, TypeOK, Request, Versions
    <3>2. QED BY <1>1, <1>2, <3>1 DEF LockInv, TypeOK, Request
  <2>2. pc[c] \in Granted
    BY DEF CheckLatest, Granted
  <2>3. QED BY <1>1, <1>2, <2>1, <2>2, NextStatement DEF CheckLatest
<1>3. CASE ~\A w \in parts[Mine(c)].versions : v > w
  BY <1>1, <1>3, QuietFinish DEF CheckLatest, Results
<1>4. QED BY <1>2, <1>3

LEMMA FindRenameOK ==
  ASSUME LockInv, NEW c \in Conns, FindRename(c) PROVE LockInv'
<1>1. CASE Finish(c, "404") \/ Finish(c, "409")
  BY <1>1, QuietFinish DEF FindRename, Results
<1>2. CASE ~(Finish(c, "404") \/ Finish(c, "409"))
  <2>1. PICK q \in ProposalIds :
          /\ renames[q].part = Mine(c) /\ renames[q].status = "open"
          /\ req' = [req EXCEPT ![c].proposal = q]
          /\ Goto(c, "clash")
    BY <1>2 DEF FindRename
  <2>2. PICK r \in Request : /\ req' = [req EXCEPT ![c] = r]
                             /\ r.name = req[c].name /\ r.proposal = q
    <3>1. [req[c] EXCEPT !.proposal = q] \in Request
      BY DEF LockInv, TypeOK, Request
    <3>2. QED BY <2>1, <3>1 DEF LockInv, TypeOK, Request
  <2>3. pc[c] \in Granted
    BY DEF FindRename, Granted
  <2>4. QED BY <2>1, <2>2, <2>3, NextStatement DEF FindRename
<1>3. QED BY <1>1, <1>2

LEMMA CheckClashOK ==
  ASSUME LockInv, NEW c \in Conns, CheckClash(c) PROVE LockInv'
<1>1. pc[c] = "clash" /\ pc[c] \in Granted /\ parts' = parts /\ renames' = renames
  BY DEF CheckClash, Granted
<1>2. CASE Taken(renames[req[c].proposal].to, {Mine(c)})
  BY <1>1, <1>2, QuietFinish DEF CheckClash, Results
<1>3. CASE ~Taken(renames[req[c].proposal].to, {Mine(c)})
  <2>1. Goto(c, "rename") /\ req' = [req EXCEPT ![c] = req[c]] /\ req[c] \in Request
    BY <1>3 DEF CheckClash, LockInv, TypeOK
  <2>2. Open(c, Mine(c))
    BY <1>1, Held
  <2>3. QED BY <1>1, <2>1, <2>2, NextStatement DEF Open
<1>4. QED BY <1>2, <1>3

\* What c writes under its lock touches nothing that another request has locked.
LEMMA WritesOwn ==
  ASSUME LockInv, NEW c \in Conns, pc[c] \in Granted, NEW d \in Conns \ {c},
         NEW p \in PartIds, lock[p] = d
  PROVE  p # Mine(c)
BY Held DEF Holds

LEMMA AppendOK ==
  ASSUME LockInv, NEW c \in Conns, Append(c) PROVE LockInv'
<1>1. pc[c] = "append" /\ pc[c] \in Granted
  BY DEF Append, Granted
<1>2. CASE req[c].version \in parts[Mine(c)].versions
  BY <1>2, QuietFinish DEF Append, Results
<1>3. CASE req[c].version \notin parts[Mine(c)].versions
  <2>1. /\ parts' = [parts EXCEPT ![Mine(c)].versions = @ \union {req[c].version}]
        /\ Finish(c, "200") /\ renames' = renames
    BY <1>3 DEF Append
  <2>2. Mine(c) \in PartIds /\ req[c].version \in Versions
    BY <1>1, Held DEF Above
  <2>3. parts' \in [PartIds -> Part] /\ \A p \in PartIds : p # Mine(c) => parts'[p] = parts[p]
    BY <2>1, <2>2 DEF LockInv, TypeOK, Part
  <2>4. "200" \in Results
    BY DEF Results
  <2>5. QED BY <1>1, <2>1, <2>3, <2>4, WritesOwn, FinishSound DEF LockInv, TypeOK
<1>4. QED BY <1>2, <1>3

LEMMA ProposeRenameOK ==
  ASSUME LockInv, NEW c \in Conns, ProposeRename(c) PROVE LockInv'
<1>1. CASE Finish(c, "409") /\ renames' = renames
  BY <1>1, QuietFinish DEF ProposeRename, Results
<1>2. CASE ~(Finish(c, "409") /\ renames' = renames)
  <2>1. PICK to \in Names, q \in ProposalIds :
          /\ renames[q].status = "none"
          /\ renames' = [renames EXCEPT ![q] = [status |-> "open", to |-> to, part |-> Mine(c)]]
    BY <1>2 DEF ProposeRename
  <2>2. Finish(c, "201") /\ parts' = parts /\ pc[c] \in Granted
    BY <1>2 DEF ProposeRename, Granted
  <2>3. [status |-> "open", to |-> to, part |-> Mine(c)] \in NameProposal
    BY <2>2, Held DEF NameProposal
  <2>4. /\ renames' \in [ProposalIds -> NameProposal]
        /\ \A o \in ProposalIds : renames[o].status = "open" => renames'[o] = renames[o]
    BY <2>1, <2>3 DEF LockInv, TypeOK
  <2>5. "201" \in Results
    BY DEF Results
  <2>6. QED BY <2>2, <2>4, <2>5, FinishSound DEF LockInv, TypeOK
<1>3. QED BY <1>1, <1>2

LEMMA RenameOK ==
  ASSUME LockInv, NEW c \in Conns, Rename(c) PROVE LockInv'
<1> DEFINE q == req[c].proposal
<1>1. pc[c] = "rename" /\ pc[c] \in Granted
  BY DEF Rename, Granted
<1>2. CASE Taken(renames[q].to, {Mine(c)})
  BY <1>2, QuietFinish DEF Rename, Results
<1>3. CASE ~Taken(renames[q].to, {Mine(c)})
  <2>1. /\ parts' = [parts EXCEPT ![Mine(c)].name = renames[q].to]
        /\ renames' = [renames EXCEPT ![q].status = "accepted"]
        /\ Finish(c, "200")
    BY <1>3 DEF Rename
  <2>2. Mine(c) \in PartIds /\ q \in ProposalIds /\ renames[q].part = Mine(c)
    BY <1>1, Held DEF Open
  <2>3. parts' \in [PartIds -> Part] /\ \A p \in PartIds : p # Mine(c) => parts'[p] = parts[p]
    BY <2>1, <2>2 DEF LockInv, TypeOK, Part, NameProposal
  <2>4. /\ renames' \in [ProposalIds -> NameProposal]
        /\ \A o \in ProposalIds : o # q => renames'[o] = renames[o]
    BY <2>1, <2>2 DEF LockInv, TypeOK, NameProposal
  <2>5. ASSUME NEW d \in Conns \ {c}, NEW p \in PartIds, lock[p] = d
        PROVE  /\ parts'[p] = parts[p]
               /\ \A o \in ProposalIds : renames[o].part = p => renames'[o] = renames[o]
    BY <1>1, <2>2, <2>3, <2>4, <2>5, WritesOwn
  <2>6. "200" \in Results
    BY DEF Results
  <2>7. QED BY <2>1, <2>3, <2>4, <2>5, <2>6, FinishSound
<1>4. QED BY <1>2, <1>3

LEMMA DeleteOK ==
  ASSUME LockInv, NEW p \in PartIds, Delete(p) PROVE LockInv'
<1>1. /\ lock[p] = None /\ parts' = [parts EXCEPT ![p].state = "deleted"]
      /\ UNCHANGED <<renames, lock, pc, req, found, res>>
  BY DEF Delete
<1>2. parts' \in [PartIds -> Part] /\ \A o \in PartIds : o # p => parts'[o] = parts[o]
  BY <1>1 DEF LockInv, TypeOK, Part
<1>3. \A d \in Conns : Sound(d)'
  BY <1>1, <1>2, OthersSound, PartTxAssumption DEF LockInv
<1>4. QED BY <1>1, <1>2, <1>3 DEF LockInv, TypeOK

LEMMA ReplyOK ==
  ASSUME LockInv, NEW c \in Conns, Reply(c) PROVE LockInv'
<1>1. TypeOK'
  BY DEF Reply, LockInv, TypeOK, Labels, Results
<1>2. Sound(c)'
  BY DEF Reply, LockInv, TypeOK, Sound, Granted
<1>3. ASSUME NEW d \in Conns, d # c PROVE Sound(d)'
  BY <1>3, OthersSound DEF Reply, LockInv, TypeOK
<1>4. QED BY <1>1, <1>2, <1>3 DEF LockInv

LEMMA DieOK ==
  ASSUME LockInv, NEW c \in Conns, Die(c) PROVE LockInv'
<1>1. TypeOK'
  BY NoRequestType DEF Die, LockInv, TypeOK, Labels
<1>2. Sound(c)'
  BY DEF Die, LockInv, TypeOK, Sound, Granted
<1>3. ASSUME NEW d \in Conns, d # c PROVE Sound(d)'
  <2>1. pc'[d] = pc[d] /\ req'[d] = req[d] /\ found'[d] = found[d]
    BY <1>3 DEF Die, LockInv, TypeOK
  <2>2. /\ \A p \in PartIds : lock[p] = d => lock'[p] = d
        /\ UNCHANGED <<parts, renames>>
    BY <1>3 DEF Die
  <2>3. QED BY <2>1, <2>2, OthersSound DEF LockInv
<1>4. QED BY <1>1, <1>2, <1>3 DEF LockInv

LEMMA NextOK == LockInv /\ [Next]_vars => LockInv'
<1> SUFFICES ASSUME LockInv, [Next]_vars PROVE LockInv'
  OBVIOUS
<1>1. CASE UNCHANGED vars
  BY <1>1, OthersSound DEF LockInv, TypeOK, vars
<1>2. CASE Next
  BY <1>2, BeginOK, CheckFreeOK, RegisterOK, GrantOK, CheckLatestOK, AppendOK,
     ProposeRenameOK, FindRenameOK, CheckClashOK, RenameOK, DeleteOK, ReplyOK, DieOK
  DEF Next, Statement
<1>3. QED BY <1>1, <1>2

-----------------------------------------------------------------------------
(* Who writes what *)

\* Every step that is neither an append nor a rename leaves names and versions, but
\* for a row that was not there.
LEMMA Unwritten ==
  ASSUME LockInv, [Next]_vars, \A c \in Conns : ~Append(c) /\ ~Rename(c),
         NEW p \in PartIds, parts[p].state # "absent"
  PROVE  parts'[p].name = parts[p].name /\ parts'[p].versions = parts[p].versions
<1>1. ASSUME NEW c \in Conns, Register(c)
      PROVE  parts'[p] = parts[p]
  BY <1>1 DEF Register, LockInv, TypeOK
<1>2. ASSUME NEW o \in PartIds, Delete(o)
      PROVE  parts'[p].name = parts[p].name /\ parts'[p].versions = parts[p].versions
  BY <1>2 DEF Delete, LockInv, TypeOK, Part
<1>3. ASSUME parts' = parts
      PROVE  parts'[p] = parts[p]
  BY <1>3
<1>4. QED
  BY <1>1, <1>2, <1>3 DEF Next, Statement, Begin, CheckFree, Grant, CheckLatest,
     ProposeRename, FindRename, CheckClash, Reply, Die, vars

\* An append adds the one version that is above all.
LEMMA AppendWrites ==
  ASSUME LockInv, NEW c \in Conns, Append(c), NEW p \in PartIds
  PROVE  /\ parts'[p].name = parts[p].name
         /\ parts'[p] # parts[p] => /\ p = Mine(c)
                                    /\ parts'[p].versions = parts[p].versions \union {req[c].version}
                                    /\ \A w \in parts[p].versions : req[c].version > w
<1>1. Above(c, Mine(c)) /\ Mine(c) \in PartIds
  BY Held DEF Append, Granted
<1>2. CASE parts' = parts
  BY <1>2
<1>3. CASE parts' = [parts EXCEPT ![Mine(c)].versions = @ \union {req[c].version}]
  BY <1>1, <1>3 DEF LockInv, TypeOK, Part, Above
<1>4. QED BY <1>2, <1>3 DEF Append

\* A rename sets the name of the one part and settles its proposal.
LEMMA RenameWrites ==
  ASSUME LockInv, NEW c \in Conns, Rename(c), NEW p \in PartIds
  PROVE  /\ parts'[p].versions = parts[p].versions
         /\ parts'[p] # parts[p] =>
              /\ p = Mine(c)
              /\ renames[req[c].proposal] = [status |-> "open", part |-> p, to |-> parts'[p].name]
              /\ renames'[req[c].proposal].status = "accepted"
<1> DEFINE q == req[c].proposal
<1>1. Open(c, Mine(c)) /\ Mine(c) \in PartIds
  BY Held DEF Rename, Granted
<1>2. CASE parts' = parts
  BY <1>2
<1>3. CASE /\ parts' = [parts EXCEPT ![Mine(c)].name = renames[q].to]
           /\ renames' = [renames EXCEPT ![q].status = "accepted"]
  <2>1. q \in ProposalIds /\ renames[q].part = Mine(c) /\ renames[q].status = "open"
    BY <1>1 DEF Open
  <2>2. renames[q] = [status |-> "open", part |-> Mine(c), to |-> renames[q].to]
    BY <2>1 DEF LockInv, TypeOK, NameProposal
  <2>3. renames'[q].status = "accepted"
    BY <1>3, <2>1 DEF LockInv, TypeOK, NameProposal
  <2>4. /\ parts'[p].versions = parts[p].versions
        /\ p = Mine(c) => parts'[p].name = renames[q].to
        /\ p # Mine(c) => parts'[p] = parts[p]
    BY <1>1, <1>3 DEF LockInv, TypeOK, Part
  <2>5. QED BY <2>2, <2>3, <2>4
<1>4. QED BY <1>2, <1>3 DEF Rename

\* A request that ends in this step is the one that takes it.
LEMMA OnlyOneEnds ==
  ASSUME LockInv, NEW c \in Conns, Append(c) \/ Rename(c), NEW d \in Conns,
         pc'[d] = "done", pc[d] # "done"
  PROVE  d = c
BY DEF Append, Rename, Finish, LockInv, TypeOK

-----------------------------------------------------------------------------
\* The rows and requests of parts.py are well-typed throughout.
THEOREM TypeCorrect == Spec => []TypeOK
<1>1. LockInv => TypeOK
  BY DEF LockInv
<1>2. QED
  BY InitOK, NextOK, <1>1, PTL DEF Spec

\* update_part's strictly-greater check does not race, whatever renames, deletions
\* and other updates interleave with it.
THEOREM VersionsAlwaysAscend == Spec => VersionsAscend
<1>1. LockInv /\ [Next]_vars =>
        [\A p \in PartIds : LivePart(p) =>
           /\ parts[p].versions \subseteq parts'[p].versions
           /\ \A v \in parts'[p].versions \ parts[p].versions :
                \A w \in parts[p].versions : v > w]_vars
  <2> SUFFICES ASSUME LockInv, [Next]_vars, NEW p \in PartIds, LivePart(p)
               PROVE  /\ parts[p].versions \subseteq parts'[p].versions
                      /\ \A v \in parts'[p].versions \ parts[p].versions :
                           \A w \in parts[p].versions : v > w
    OBVIOUS
  <2>1. CASE \E c \in Conns : Append(c)
    BY <2>1, AppendWrites
  <2>2. CASE \E c \in Conns : Rename(c)
    BY <2>2, RenameWrites
  <2>3. CASE \A c \in Conns : ~Append(c) /\ ~Rename(c)
    BY <2>3, Unwritten DEF LivePart
  <2>4. QED BY <2>1, <2>2, <2>3
<1>2. QED
  BY InitOK, NextOK, <1>1, PTL DEF Spec, VersionsAscend

\* A part's row is written only by a request whose slug it has, and only while it
\* lives: the row lock and READ COMMITTED's second look at WHERE see to it.
THEOREM WritesAlwaysReachNamed == Spec => WritesReachNamed
<1>1. LockInv /\ [Next]_vars =>
        [\A p \in PartIds, c \in Conns :
           parts[p].state # "absent" /\ pc'[c] = "done" /\ pc[c] # "done"
             /\ <<parts'[p].name, parts'[p].versions>> # <<parts[p].name, parts[p].versions>>
             => LivePart(p) /\ parts[p].name = req[c].name]_vars
  <2> SUFFICES ASSUME LockInv, [Next]_vars, NEW p \in PartIds, NEW c \in Conns,
                      parts[p].state # "absent", pc'[c] = "done", pc[c] # "done",
                      <<parts'[p].name, parts'[p].versions>> # <<parts[p].name, parts[p].versions>>
               PROVE  LivePart(p) /\ parts[p].name = req[c].name
    OBVIOUS
  <2>1. PICK d \in Conns : Append(d) \/ Rename(d)
    BY Unwritten
  <2>2. d = c
    BY <2>1, OnlyOneEnds
  <2>3. p = Mine(c)
    BY <2>1, <2>2, AppendWrites, RenameWrites
  <2>4. Holds(c, Mine(c))
    BY <2>1, <2>2, Held DEF Append, Rename, Granted
  <2>5. QED BY <2>3, <2>4 DEF Holds
<1>2. QED
  BY InitOK, NextOK, <1>1, PTL DEF Spec, WritesReachNamed

\* accept_part_name_shift renames once for each proposal, and only the part it is
\* about.
THEOREM AlwaysRenamedOnce == Spec => RenamedOnce
<1>1. LockInv /\ [Next]_vars =>
        [/\ \A p \in PartIds :
              parts[p].state # "absent" /\ parts'[p].name # parts[p].name
                => \E q \in ProposalIds : /\ renames[q] = [status |-> "open", part |-> p,
                                                           to |-> parts'[p].name]
                                          /\ renames'[q].status = "accepted"
         /\ \A q \in ProposalIds :
              renames[q].status = "accepted" => renames'[q] = renames[q]]_vars
  <2> SUFFICES ASSUME LockInv, [Next]_vars
               PROVE  /\ \A p \in PartIds :
                           parts[p].state # "absent" /\ parts'[p].name # parts[p].name
                             => \E q \in ProposalIds :
                                  /\ renames[q] = [status |-> "open", part |-> p,
                                                   to |-> parts'[p].name]
                                  /\ renames'[q].status = "accepted"
                      /\ \A q \in ProposalIds :
                           renames[q].status = "accepted" => renames'[q] = renames[q]
    OBVIOUS
  <2>1. ASSUME NEW p \in PartIds, parts[p].state # "absent", parts'[p].name # parts[p].name
        PROVE  \E q \in ProposalIds : /\ renames[q] = [status |-> "open", part |-> p,
                                                       to |-> parts'[p].name]
                                      /\ renames'[q].status = "accepted"
    <3>1. PICK c \in Conns : Rename(c)
      BY <2>1, Unwritten, AppendWrites
    <3>2. req[c].proposal \in ProposalIds
      BY <3>1, Held DEF Rename, Granted, Open
    <3>3. QED BY <2>1, <3>1, <3>2, RenameWrites
  <2>2. ASSUME NEW q \in ProposalIds, renames[q].status = "accepted"
        PROVE  renames'[q] = renames[q]
    <3>1. ASSUME NEW c \in Conns, ProposeRename(c) PROVE renames'[q] = renames[q]
      BY <2>2, <3>1 DEF ProposeRename, LockInv, TypeOK
    <3>2. ASSUME NEW c \in Conns, Rename(c) PROVE renames'[q] = renames[q]
      <4>1. renames[req[c].proposal].status = "open"
        BY <3>2, Held DEF Rename, Granted, Open
      <4>2. QED BY <2>2, <3>2, <4>1 DEF Rename, LockInv, TypeOK
    <3>3. ASSUME renames' = renames PROVE renames'[q] = renames[q]
      BY <3>3
    <3>4. QED
      BY <3>1, <3>2, <3>3 DEF Next, Statement, Begin, CheckFree, Register, Grant,
         CheckLatest, Append, FindRename, CheckClash, Delete, Reply, Die, vars
  <2>3. QED BY <2>1, <2>2
<1>2. QED
  BY InitOK, NextOK, <1>1, PTL DEF Spec, RenamedOnce
=============================================================================
