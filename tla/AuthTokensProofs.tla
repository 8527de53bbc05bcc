--------------------------- MODULE AuthTokensProofs ---------------------------
(***************************************************************************)
(* AuthTokens, for every number of tokens and concurrent requests: what a  *)
(* request may do never exceeds what the operator gave to the token that   *)
(* its bearer descends from, because nothing but `state`, `expired` and    *)
(* `by` of a row ever changes.                                             *)
(***************************************************************************)
EXTENDS AuthTokens, TLAPS

Issued(t) == rows[t].state # "absent"

\* A bearer that was handed out: the shared one, or that of a row.
Known(b) == b = Legacy \/ (b \in TokenIds /\ Issued(b))

\* Every row descends from a root that was made by hand, or from the shared bearer.
Rooted(t) ==
  /\ Known(rows[t].root)
  /\ Effective(t) \subseteq Authority(rows[t].root)

\* The authority a bearer descends from.
Origin(b) == Authority(IF b = Legacy THEN Legacy ELSE rows[b].root)

RowsInv ==
  \A t \in TokenIds :
    /\ Issued(t) => Rooted(t)
    /\ rows[t].state = "revoked" => Known(rows[t].by) /\ "revoke-agent" \in Origin(rows[t].by)

\* A request that was looked up has no scope that its bearer's origin has not, and
\* one about to revoke has the scope for it.
Bounded(c) ==
  /\ pc[c] # "idle" => Known(req[c].bearer)
  /\ pc[c] \in {"touch", "issue", "find", "revoke"} => req[c].scopes \subseteq Origin(req[c].bearer)
  /\ pc[c] = "lookup" => req[c].op \in {"issue", "revoke"}
  /\ pc[c] = "touch" => req[c].bearer \in TokenIds
  /\ pc[c] = "revoke" => "revoke-agent" \in req[c].scopes
  /\ req[c].op = "revoke" => req[c].target \in TokenIds
  /\ pc[c] \in {"find", "revoke"} => req[c].op = "revoke"
  /\ pc[c] = "touch" => req[c].op \in {"issue", "revoke"}

AuthInv == TypeOK /\ RowsInv /\ \A c \in Conns : Bounded(c)

-----------------------------------------------------------------------------
\* expand_scopes yields scopes.
LEMMA ExpandType ==
  ASSUME NEW granted \in SUBSET Scopes
  PROVE  Expand(granted) \in SUBSET Scopes
BY DEF Expand, Implied, Scopes

LEMMA NoRowType == NoRow \in Row /\ NoRow.state = "absent"
BY DEF NoRow, Row

LEMMA NoRequestType == NoRequest \in Request /\ NoRequest.op = "none" /\ ~NoRequest.dead
BY DEF NoRequest, Request

\* The row that a hand or a handler inserts.
LEMMA NewRowFields ==
  ASSUME NEW grant \in SUBSET Scopes, NEW root \in Bearers
  PROVE  LET row == [NoRow EXCEPT !.state = "live", !.scopes = grant, !.root = root]
         IN  row \in Row /\ row.state = "live" /\ row.scopes = grant /\ row.root = root
BY DEF NoRow, Row

LEMMA GrantsType == \A grant \in Grants : grant \in SUBSET Scopes
BY AuthTokensAssumption

\* What an insertion does to the table.
LEMMA NewRowStep ==
  ASSUME TypeOK, NEW t \in TokenIds, NEW grant \in SUBSET Scopes, NEW root \in Bearers,
         NewRow(t, grant, root)
  PROVE  /\ rows' \in [TokenIds -> Row]
         /\ rows[t].state = "absent"
         /\ rows'[t].state = "live" /\ rows'[t].scopes = grant /\ rows'[t].root = root
         /\ \A u \in TokenIds : u # t => rows'[u] = rows[u]
<1> DEFINE row == [NoRow EXCEPT !.state = "live", !.scopes = grant, !.root = root]
<1>1. row \in Row /\ row.state = "live" /\ row.scopes = grant /\ row.root = root
  BY NewRowFields
<1>2. rows[t].state = "absent" /\ rows' = [rows EXCEPT ![t] = row]
  BY DEF NewRow
<1> HIDE DEF row
<1>3. QED
  BY <1>1, <1>2 DEF TypeOK

-----------------------------------------------------------------------------
(* Rows *)

\* A step keeps what was issued: its scopes and its root are never written again.
Persists == \A t \in TokenIds : Issued(t) =>
              /\ Issued(t)'
              /\ rows'[t].scopes = rows[t].scopes
              /\ rows'[t].root = rows[t].root

\* So bearers stay known, and descend from what they descended from.
LEMMA KnownPersists ==
  ASSUME RowsInv, Persists
  PROVE  \A b : Known(b) => Known(b)' /\ Authority(b)' = Authority(b) /\ Origin(b)' = Origin(b)
<1>1. \A t \in TokenIds : Issued(t) => Issued(t)' /\ Effective(t)' = Effective(t)
  BY DEF Persists, Effective
<1>2. \A b : Known(b) => Known(b)' /\ Authority(b)' = Authority(b)
  BY <1>1 DEF Known, Authority
<1>3. \A t \in TokenIds : Issued(t) => Known(rows[t].root) /\ rows'[t].root = rows[t].root
  BY DEF RowsInv, Rooted, Persists
<1>4. ASSUME NEW b, Known(b) PROVE Origin(b)' = Origin(b)
  <2>1. CASE b = Legacy
    BY <2>1, <1>2, <1>4 DEF Origin
  <2>2. CASE b # Legacy
    <3>1. b \in TokenIds /\ Issued(b)
      BY <2>2, <1>4 DEF Known
    <3>2. Authority(rows[b].root)' = Authority(rows[b].root)
      BY <1>2, <1>3, <3>1
    <3>3. QED BY <2>2, <3>2 DEF Origin
  <2>3. QED BY <2>1, <2>2
<1>5. QED
  BY <1>2, <1>4

\* A row that was issued stays rooted.
LEMMA RootedPersists ==
  ASSUME RowsInv, Persists, NEW t \in TokenIds, Issued(t)
  PROVE  Rooted(t)'
<1>1. Known(rows[t].root) /\ Effective(t) \subseteq Authority(rows[t].root)
  BY DEF RowsInv, Rooted
<1>2. rows'[t].root = rows[t].root /\ Effective(t)' = Effective(t)
  BY DEF Persists, Effective
<1>3. Known(rows[t].root)' /\ Authority(rows[t].root)' = Authority(rows[t].root)
  BY <1>1, <1>2, KnownPersists
<1>4. QED
  BY <1>1, <1>2, <1>3 DEF Rooted

\* A bearer that is known is let in with no more than its origin has.
LEMMA KnownBounded ==
  ASSUME RowsInv, NEW t \in TokenIds, Issued(t), Legacy \notin TokenIds
  PROVE  Effective(t) \subseteq Origin(t)
BY DEF RowsInv, Rooted, Origin

\* A row is inserted, by hand or by a handler, with an origin that covers it.
LEMMA InsertKeepsRows ==
  ASSUME TypeOK, RowsInv, NEW t \in TokenIds, NEW grant \in SUBSET Scopes, NEW root \in Bearers,
         NewRow(t, grant, root),
         Known(root)', Expand(grant) \subseteq Authority(root)'
  PROVE  RowsInv' /\ Persists
<1>1. /\ rows[t].state = "absent"
      /\ rows'[t].state = "live" /\ rows'[t].scopes = grant /\ rows'[t].root = root
      /\ \A u \in TokenIds : u # t => rows'[u] = rows[u]
  BY NewRowStep
<1>2. Persists
  BY <1>1 DEF Persists, Issued
<1>3. ASSUME NEW u \in TokenIds, Issued(u)' PROVE Rooted(u)'
  <2>1. CASE u = t
    <3>1. Effective(t)' = Expand(grant)
      BY <1>1 DEF Effective
    <3>2. QED BY <1>1, <2>1, <3>1 DEF Rooted
  <2>2. CASE u # t
    BY <1>1, <1>2, <1>3, <2>2, RootedPersists DEF Issued
  <2>3. QED BY <2>1, <2>2
<1>4. ASSUME NEW u \in TokenIds, rows'[u].state = "revoked"
      PROVE  Known(rows[u].by)' /\ "revoke-agent" \in Origin(rows[u].by)'
  <2>1. rows'[u] = rows[u]
    BY <1>1, <1>4
  <2>2. Known(rows[u].by) /\ "revoke-agent" \in Origin(rows[u].by)
    BY <1>4, <2>1 DEF RowsInv
  <2>3. Known(rows[u].by)' /\ Origin(rows[u].by)' = Origin(rows[u].by)
    BY <1>2, <2>1, <2>2, KnownPersists
  <2>4. QED BY <2>2, <2>3
<1>5. QED
  BY <1>2, <1>3, <1>4 DEF RowsInv

\* A token expires, or nothing becomes of the table.
LEMMA SameKeepsRows ==
  ASSUME TypeOK, RowsInv,
         \A t \in TokenIds : /\ rows'[t].state = rows[t].state /\ rows'[t].by = rows[t].by
                             /\ rows'[t].scopes = rows[t].scopes /\ rows'[t].root = rows[t].root
  PROVE  RowsInv' /\ Persists
<1>1. Persists
  BY DEF Persists, Issued
<1>2. ASSUME NEW u \in TokenIds, Issued(u)' PROVE Rooted(u)'
  BY <1>1, <1>2, RootedPersists DEF Issued
<1>3. ASSUME NEW u \in TokenIds, rows'[u].state = "revoked"
      PROVE  Known(rows[u].by)' /\ "revoke-agent" \in Origin(rows[u].by)'
  <2>1. rows[u].state = "revoked" /\ rows'[u].by = rows[u].by
    BY <1>3
  <2>2. Known(rows[u].by) /\ "revoke-agent" \in Origin(rows[u].by)
    BY <2>1 DEF RowsInv
  <2>3. Known(rows[u].by)' /\ Origin(rows[u].by)' = Origin(rows[u].by)
    BY <1>1, <2>1, <2>2, KnownPersists
  <2>4. QED BY <2>2, <2>3
<1>4. QED
  BY <1>1, <1>2, <1>3 DEF RowsInv

\* A row is revoked by a bearer whose origin has the scope.
LEMMA RevokeKeepsRows ==
  ASSUME TypeOK, RowsInv, NEW t \in TokenIds, NEW by, Known(by),
         "revoke-agent" \in Origin(by), Live(t),
         rows' = [rows EXCEPT ![t].state = "revoked", ![t].by = by]
  PROVE  RowsInv' /\ Persists
<1>1. /\ rows'[t].state = "revoked" /\ rows'[t].by = by
      /\ rows'[t].scopes = rows[t].scopes /\ rows'[t].root = rows[t].root
      /\ \A u \in TokenIds : u # t => rows'[u] = rows[u]
  BY DEF TypeOK, Row
<1>2. Issued(t)
  BY DEF Live, Issued
<1>3. Persists
  BY <1>1 DEF Persists, Issued
<1>4. ASSUME NEW u \in TokenIds, Issued(u)' PROVE Rooted(u)'
  BY <1>1, <1>2, <1>3, <1>4, RootedPersists DEF Issued
<1>5. Known(by)' /\ Origin(by)' = Origin(by)
  BY <1>3, KnownPersists
<1>6. ASSUME NEW u \in TokenIds, rows'[u].state = "revoked"
      PROVE  Known(rows[u].by)' /\ "revoke-agent" \in Origin(rows[u].by)'
  <2>1. CASE u = t
    BY <1>1, <1>5, <2>1
  <2>2. CASE u # t
    <3>1. rows'[u] = rows[u]
      BY <1>1, <2>2
    <3>2. Known(rows[u].by) /\ "revoke-agent" \in Origin(rows[u].by)
      BY <1>6, <3>1 DEF RowsInv
    <3>3. Known(rows[u].by)' /\ Origin(rows[u].by)' = Origin(rows[u].by)
      BY <1>3, <3>1, <3>2, KnownPersists
    <3>4. QED BY <3>2, <3>3
  <2>3. QED BY <2>1, <2>2
<1>7. QED
  BY <1>3, <1>4, <1>6 DEF RowsInv
-----------------------------------------------------------------------------
(* Requests *)

LEMMA EndType ==
  ASSUME TypeOK, NEW c \in Conns, End(c)
  PROVE  /\ pc' \in [Conns -> {"idle", "lookup", "touch", "issue", "find", "revoke"}]
         /\ req' \in [Conns -> Request]
         /\ legacyOn' \in BOOLEAN
BY NoRequestType DEF TypeOK, End

\* Requests that do not move stay within their bearers' origins.
LEMMA OthersBounded ==
  ASSUME RowsInv, Persists, NEW d \in Conns, Bounded(d),
         pc'[d] = pc[d], req'[d] = req[d]
  PROVE  Bounded(d)'
<1>1. CASE pc[d] = "idle"
  BY <1>1 DEF Bounded
<1>2. CASE pc[d] # "idle"
  <2>1. Known(req[d].bearer)
    BY <1>2 DEF Bounded
  <2>2. Known(req[d].bearer)' /\ Origin(req[d].bearer)' = Origin(req[d].bearer)
    BY <2>1, KnownPersists
  <2>3. QED BY <2>1, <2>2 DEF Bounded
<1>3. QED BY <1>1, <1>2

\* A request that ends asks for nothing any more.
LEMMA EndBounded ==
  ASSUME TypeOK, RowsInv, Persists, \A d \in Conns : Bounded(d), NEW c \in Conns, End(c)
  PROVE  \A d \in Conns : Bounded(d)'
<1>1. Bounded(c)'
  BY NoRequestType DEF TypeOK, End, Bounded
<1>2. ASSUME NEW d \in Conns, d # c PROVE Bounded(d)'
  <2>1. pc'[d] = pc[d] /\ req'[d] = req[d]
    BY <1>2 DEF TypeOK, End
  <2>2. QED BY <2>1, OthersBounded
<1>3. QED BY <1>1, <1>2

LEMMA SameRows == rows' = rows => \A t \in TokenIds :
         /\ rows'[t].state = rows[t].state /\ rows'[t].by = rows[t].by
         /\ rows'[t].scopes = rows[t].scopes /\ rows'[t].root = rows[t].root
OBVIOUS

\* A request that goes on with the rows as they are, its own fields sound.
LEMMA GoesOn ==
  ASSUME AuthInv, TypeOK', rows' = rows, NEW c \in Conns, Bounded(c)',
         \A d \in Conns : d # c => pc'[d] = pc[d] /\ req'[d] = req[d]
  PROVE  AuthInv'
<1>1. RowsInv' /\ Persists
  BY SameRows, SameKeepsRows DEF AuthInv
<1>2. \A d \in Conns : Bounded(d)'
  BY <1>1, OthersBounded DEF AuthInv
<1>3. QED BY <1>1, <1>2 DEF AuthInv

LEMMA Ends ==
  ASSUME AuthInv, rows' \in [TokenIds -> Row], RowsInv', Persists, NEW c \in Conns, End(c)
  PROVE  AuthInv'
<1>1. TypeOK'
  BY EndType DEF AuthInv, TypeOK
<1>2. \A d \in Conns : Bounded(d)'
  BY EndBounded DEF AuthInv
<1>3. QED BY <1>1, <1>2 DEF AuthInv

LEMMA EndsQuietly ==
  ASSUME AuthInv, rows' = rows, NEW c \in Conns, End(c)
  PROVE  AuthInv'
<1>1. RowsInv' /\ Persists
  BY SameRows, SameKeepsRows DEF AuthInv
<1>2. rows' \in [TokenIds -> Row]
  BY DEF AuthInv, TypeOK
<1>3. QED BY <1>1, <1>2, Ends

LEMMA InitInv == Init => AuthInv
<1> SUFFICES ASSUME Init PROVE AuthInv
  OBVIOUS
<1>1. TypeOK
  BY NoRowType, NoRequestType DEF Init, TypeOK
<1>2. RowsInv
  BY NoRowType DEF Init, RowsInv, Issued
<1>3. \A c \in Conns : Bounded(c)
  BY NoRequestType DEF Init, Bounded
<1>4. QED BY <1>1, <1>2, <1>3 DEF AuthInv

LEMMA BootstrapInv ==
  ASSUME AuthInv, NEW t \in TokenIds, Bootstrap(t)
  PROVE  AuthInv'
<1>1. PICK grant \in Grants : NewRow(t, grant, t)
  BY DEF Bootstrap
<1>2. grant \in SUBSET Scopes /\ t \in Bearers /\ t # Legacy
  BY GrantsType, AuthTokensAssumption DEF Bearers
<1>3. rows' \in [TokenIds -> Row] /\ rows'[t].state = "live" /\ rows'[t].scopes = grant
  BY <1>1, <1>2, NewRowStep DEF AuthInv
<1>4. Known(t)' /\ Expand(grant) \subseteq Authority(t)'
  BY <1>2, <1>3 DEF Known, Issued, Authority, Effective
<1>5. RowsInv' /\ Persists
  BY <1>1, <1>2, <1>4, InsertKeepsRows DEF AuthInv
<1>6. pc' = pc /\ req' = req /\ legacyOn' = legacyOn
  BY DEF Bootstrap
<1>7. \A d \in Conns : Bounded(d)'
  BY <1>5, <1>6, OthersBounded DEF AuthInv
<1>8. QED
  BY <1>3, <1>5, <1>6, <1>7 DEF AuthInv, TypeOK

LEMMA ExpireInv ==
  ASSUME AuthInv, NEW t \in TokenIds, Expire(t)
  PROVE  AuthInv'
<1>1. /\ rows' \in [TokenIds -> Row]
      /\ \A u \in TokenIds :
           /\ rows'[u].state = rows[u].state /\ rows'[u].by = rows[u].by
           /\ rows'[u].scopes = rows[u].scopes /\ rows'[u].root = rows[u].root
  BY DEF AuthInv, TypeOK, Expire, Row
<1>2. RowsInv' /\ Persists
  BY <1>1, SameKeepsRows DEF AuthInv
<1>3. pc' = pc /\ req' = req /\ legacyOn' = legacyOn
  BY DEF Expire
<1>4. \A d \in Conns : Bounded(d)'
  BY <1>2, <1>3, OthersBounded DEF AuthInv
<1>5. QED
  BY <1>1, <1>2, <1>3, <1>4 DEF AuthInv, TypeOK

LEMMA EndLegacyInv == AuthInv /\ EndLegacy => AuthInv'
<1> SUFFICES ASSUME AuthInv, EndLegacy PROVE AuthInv'
  OBVIOUS
<1>1. TypeOK'
  BY NoRequestType DEF AuthInv, TypeOK, EndLegacy
<1>2. RowsInv'
  BY SameRows, SameKeepsRows DEF AuthInv, EndLegacy
<1>3. \A c \in Conns : Bounded(c)'
  BY NoRequestType DEF EndLegacy, Bounded
<1>4. QED BY <1>1, <1>2, <1>3 DEF AuthInv

\* What a request arrives with: a bearer that was handed out, and a mark if it is dead.
LEMMA Arrival ==
  ASSUME AuthInv, NEW c \in Conns, Begin(c)
  PROVE  \E r \in Request : /\ req' = [req EXCEPT ![c] = r]
                            /\ Known(r.bearer)
                            /\ r.op \in {"issue", "revoke"}
                            /\ r.op = "revoke" => r.target \in TokenIds
                            /\ r.dead = ~Accepted(r.bearer)
<1>1. PICK b \in {Legacy} \union {t \in TokenIds : rows[t].state # "absent"} :
        \/ \E grant \in Grants :
             req' = [req EXCEPT ![c] = [NoRequest EXCEPT !.op = "issue", !.bearer = b,
                                          !.grant = grant, !.dead = ~Accepted(b)]]
        \/ \E t \in TokenIds :
             req' = [req EXCEPT ![c] = [NoRequest EXCEPT !.op = "revoke", !.bearer = b,
                                          !.target = t, !.dead = ~Accepted(b)]]
  BY DEF Begin
<1>2. Known(b) /\ b \in Bearers
  BY <1>1 DEF Known, Issued, Bearers
<1>3. Accepted(b) \in BOOLEAN
  BY DEF Accepted, Live, AuthInv, TypeOK
<1>4. ASSUME NEW grant \in Grants
      PROVE  LET r == [NoRequest EXCEPT !.op = "issue", !.bearer = b,
                                        !.grant = grant, !.dead = ~Accepted(b)]
             IN  r \in Request /\ r.bearer = b /\ r.op = "issue" /\ r.dead = ~Accepted(b)
  BY <1>2, GrantsType DEF NoRequest, Request
<1>5. ASSUME NEW t \in TokenIds
      PROVE  LET r == [NoRequest EXCEPT !.op = "revoke", !.bearer = b,
                                        !.target = t, !.dead = ~Accepted(b)]
             IN  r \in Request /\ r.bearer = b /\ r.op = "revoke" /\ r.target = t /\ r.dead = ~Accepted(b)
  BY <1>2 DEF NoRequest, Request
<1>6. CASE \E grant \in Grants :
             req' = [req EXCEPT ![c] = [NoRequest EXCEPT !.op = "issue", !.bearer = b,
                                          !.grant = grant, !.dead = ~Accepted(b)]]
  <2>1. PICK grant \in Grants :
          req' = [req EXCEPT ![c] = [NoRequest EXCEPT !.op = "issue", !.bearer = b,
                                       !.grant = grant, !.dead = ~Accepted(b)]]
    BY <1>6
  <2> DEFINE q == [NoRequest EXCEPT !.op = "issue", !.bearer = b,
                                    !.grant = grant, !.dead = ~Accepted(b)]
  <2>2. q \in Request /\ q.bearer = b /\ q.op = "issue" /\ q.dead = ~Accepted(b)
    BY <1>4
  <2>3. req' = [req EXCEPT ![c] = q]
    BY <2>1
  <2> HIDE DEF q
  <2>4. QED BY <1>2, <2>2, <2>3
<1>7. CASE \E t \in TokenIds :
             req' = [req EXCEPT ![c] = [NoRequest EXCEPT !.op = "revoke", !.bearer = b,
                                          !.target = t, !.dead = ~Accepted(b)]]
  <2>1. PICK t \in TokenIds :
          req' = [req EXCEPT ![c] = [NoRequest EXCEPT !.op = "revoke", !.bearer = b,
                                       !.target = t, !.dead = ~Accepted(b)]]
    BY <1>7
  <2> DEFINE q == [NoRequest EXCEPT !.op = "revoke", !.bearer = b,
                                    !.target = t, !.dead = ~Accepted(b)]
  <2>2. q \in Request /\ q.bearer = b /\ q.op = "revoke" /\ q.target = t /\ q.dead = ~Accepted(b)
    BY <1>5
  <2>3. req' = [req EXCEPT ![c] = q]
    BY <2>1
  <2> HIDE DEF q
  <2>4. QED BY <1>2, <2>2, <2>3
<1>8. QED BY <1>1, <1>6, <1>7

LEMMA BeginInv ==
  ASSUME AuthInv, NEW c \in Conns, Begin(c)
  PROVE  AuthInv'
<1>1. PICK r \in Request : /\ req' = [req EXCEPT ![c] = r]
                           /\ Known(r.bearer)
                           /\ r.op \in {"issue", "revoke"}
                           /\ r.op = "revoke" => r.target \in TokenIds
  BY Arrival
<1>2. pc' = [pc EXCEPT ![c] = "lookup"] /\ rows' = rows /\ legacyOn' = legacyOn
  BY DEF Begin
<1>3. TypeOK'
  BY <1>1, <1>2 DEF AuthInv, TypeOK
<1>4. Known(r.bearer)'
  BY <1>1, <1>2 DEF Known, Issued
<1>5. Bounded(c)'
  BY <1>1, <1>2, <1>4 DEF AuthInv, TypeOK, Bounded
<1>6. \A d \in Conns : d # c => pc'[d] = pc[d] /\ req'[d] = req[d]
  BY <1>1, <1>2 DEF AuthInv, TypeOK
<1>7. QED BY <1>2, <1>3, <1>5, <1>6, GoesOn

LEMMA LookupInv ==
  ASSUME AuthInv, NEW c \in Conns, Lookup(c)
  PROVE  AuthInv'
<1> DEFINE b == req[c].bearer
<1>1. /\ pc[c] = "lookup" /\ rows' = rows
      /\ Known(b) /\ req[c].op \in {"issue", "revoke"}
      /\ req[c].op = "revoke" => req[c].target \in TokenIds
  BY DEF Lookup, AuthInv, Bounded
<1>2. CASE ~Accepted(b)
  BY <1>1, <1>2, EndsQuietly DEF Lookup
<1>3. CASE Accepted(b)
  <2>1. PICK S \in SUBSET Scopes :
          /\ req' = [req EXCEPT ![c].scopes = S]
          /\ S \subseteq Origin(b)
          /\ \/ Goto(c, Entry(c))
             \/ Goto(c, "touch") /\ b \in TokenIds
    <3>1. CASE b = Legacy
      <4>1. Scopes \subseteq Origin(b)
        BY <3>1 DEF Origin, Authority
      <4>2. QED BY <1>3, <3>1, <4>1 DEF Lookup
    <3>2. CASE b # Legacy
      <4>1. b \in TokenIds /\ Issued(b)
        BY <1>1, <3>2 DEF Known
      <4>2. Effective(b) \subseteq Origin(b)
        BY <4>1, KnownBounded, AuthTokensAssumption DEF AuthInv
      <4>3. Effective(b) \in SUBSET Scopes
        BY <4>1, ExpandType DEF Effective, AuthInv, TypeOK, Row
      <4>4. QED BY <1>3, <3>2, <4>1, <4>2, <4>3 DEF Lookup
    <3>3. QED BY <3>1, <3>2
  <2>2. /\ pc' = [pc EXCEPT ![c] = pc'[c]]
        /\ pc'[c] \in {"touch", "issue", "find"}
        /\ pc'[c] = "touch" => b \in TokenIds
        /\ pc'[c] = "find" => req[c].op = "revoke"
        /\ legacyOn' = legacyOn
    BY <1>1, <2>1 DEF Goto, Entry, AuthInv, TypeOK
  <2>3. /\ req' \in [Conns -> Request]
        /\ req'[c].scopes = S /\ req'[c].bearer = b
        /\ req'[c].op = req[c].op /\ req'[c].target = req[c].target
        /\ \A d \in Conns : d # c => req'[d] = req[d]
    BY <2>1 DEF AuthInv, TypeOK, Request
  <2>4. TypeOK' /\ \A d \in Conns : d # c => pc'[d] = pc[d]
    BY <1>1, <2>2, <2>3 DEF AuthInv, TypeOK
  <2>5. Known(b)' /\ Origin(b)' = Origin(b)
    <3>1. Persists
      BY <1>1, SameRows, SameKeepsRows DEF AuthInv
    <3>2. QED BY <1>1, <2>3, <3>1, KnownPersists DEF AuthInv
  <2>6. Bounded(c)'
    BY <1>1, <2>1, <2>2, <2>3, <2>5 DEF Bounded
  <2>7. QED BY <1>1, <2>3, <2>4, <2>6, GoesOn
<1>4. QED BY <1>2, <1>3

\* What a step needs that changes neither the rows nor what c has asked for.
LEMMA Advances ==
  ASSUME AuthInv, NEW c \in Conns, rows' = rows, legacyOn' = legacyOn, req' = req,
         NEW label \in {"issue", "find", "revoke"},
         pc' = [pc EXCEPT ![c] = label],
         pc[c] \in {"touch", "issue", "find"},
         label \in {"find", "revoke"} => req[c].op = "revoke",
         label = "revoke" => "revoke-agent" \in req[c].scopes
  PROVE  AuthInv'
<1>1. /\ TypeOK' /\ pc'[c] = label
      /\ \A d \in Conns : d # c => pc'[d] = pc[d] /\ req'[d] = req[d]
  BY DEF AuthInv, TypeOK
<1>2. Persists
  BY SameRows, SameKeepsRows DEF AuthInv
<1>3. /\ Known(req[c].bearer) /\ req[c].scopes \subseteq Origin(req[c].bearer)
      /\ req[c].op = "revoke" => req[c].target \in TokenIds
  BY DEF AuthInv, Bounded
<1>4. Known(req[c].bearer)' /\ Origin(req[c].bearer)' = Origin(req[c].bearer)
  BY <1>2, <1>3, KnownPersists DEF AuthInv
<1>5. Bounded(c)'
  BY <1>1, <1>3, <1>4 DEF Bounded
<1>6. QED BY <1>1, <1>5, GoesOn

LEMMA TouchInv ==
  ASSUME AuthInv, NEW c \in Conns, Touch(c)
  PROVE  AuthInv'
<1>1. req[c].op \in {"issue", "revoke"}
  BY DEF Touch, AuthInv, Bounded
<1>2. Entry(c) \in {"issue", "find"} /\ (Entry(c) = "find" => req[c].op = "revoke")
  BY <1>1 DEF Entry
<1>3. QED
  BY <1>2, Advances DEF Touch, Goto

LEMMA FindRowInv ==
  ASSUME AuthInv, NEW c \in Conns, FindRow(c)
  PROVE  AuthInv'
<1>1. pc[c] = "find" /\ rows' = rows /\ req[c].op = "revoke"
  BY DEF FindRow, AuthInv, Bounded
<1>2. CASE "revoke-agent" \in req[c].scopes /\ Live(req[c].target)
  BY <1>1, <1>2, Advances DEF FindRow, Goto
<1>3. CASE ~("revoke-agent" \in req[c].scopes /\ Live(req[c].target))
  BY <1>1, <1>3, EndsQuietly DEF FindRow
<1>4. QED BY <1>2, <1>3

LEMMA IssueInv ==
  ASSUME AuthInv, NEW c \in Conns, Issue(c)
  PROVE  AuthInv'
<1> DEFINE b == req[c].bearer
           grant == req[c].grant
           root == IF b = Legacy THEN Legacy ELSE rows[b].root
<1>1. CASE rows' = rows
  BY <1>1, EndsQuietly DEF Issue
<1>2. CASE rows' # rows
  <2>1. /\ Expand(grant) \subseteq req[c].scopes
        /\ \E t \in TokenIds : NewRow(t, grant, root)
    BY <1>2 DEF Issue
  <2>2. PICK t \in TokenIds : NewRow(t, grant, root)
    BY <2>1
  <2>3. Known(b) /\ req[c].scopes \subseteq Origin(b)
    BY DEF Issue, AuthInv, Bounded
  <2>4. Known(root)
    BY <2>3 DEF Known, AuthInv, RowsInv, Rooted
  <2>5. Expand(grant) \subseteq Authority(root)
    BY <2>1, <2>3 DEF Origin
  <2>6. grant \in SUBSET Scopes /\ root \in Bearers
    BY <2>4 DEF AuthInv, TypeOK, Request, Known, Bearers
  <2>7. /\ rows' \in [TokenIds -> Row] /\ rows[t].state = "absent"
        /\ \A u \in TokenIds : u # t => rows'[u] = rows[u]
    BY <2>2, <2>6, NewRowStep DEF AuthInv
  <2>8. PICK r \in Bearers : r = root
    BY <2>6
  <2>9. PICK g \in SUBSET Scopes : g = grant
    BY <2>6
  <2> HIDE DEF root, grant
  <2>10. r # t
    BY <2>4, <2>7, <2>8, AuthTokensAssumption DEF Known, Issued
  <2>11. Known(r)' /\ Authority(r)' = Authority(r)
    BY <2>4, <2>7, <2>8, <2>10 DEF Known, Issued, Authority, Effective
  <2>12. NewRow(t, g, r) /\ Expand(g) \subseteq Authority(r)'
    BY <2>2, <2>5, <2>8, <2>9, <2>11
  <2>13. RowsInv' /\ Persists
    BY <2>11, <2>12, InsertKeepsRows DEF AuthInv
  <2>14. QED
    BY <2>7, <2>13, Ends DEF Issue
<1>3. QED BY <1>1, <1>2

LEMMA RevokeInv ==
  ASSUME AuthInv, NEW c \in Conns, Revoke(c)
  PROVE  AuthInv'
<1> DEFINE b == req[c].bearer
           t == req[c].target
<1>1. CASE ~Live(t)
  BY <1>1, EndsQuietly DEF Revoke
<1>2. CASE Live(t)
  <2>1. /\ rows' = [rows EXCEPT ![t].state = "revoked", ![t].by = b]
        /\ End(c) /\ pc[c] = "revoke"
    BY <1>2 DEF Revoke
  <2>2. /\ Known(b) /\ "revoke-agent" \in Origin(b) /\ t \in TokenIds
    BY <2>1 DEF AuthInv, Bounded
  <2>3. rows' \in [TokenIds -> Row]
    BY <2>1, <2>2 DEF AuthInv, TypeOK, Row, Known, Bearers
  <2> HIDE DEF b, t
  <2>4. RowsInv' /\ Persists
    BY <1>2, <2>1, <2>2, RevokeKeepsRows DEF AuthInv
  <2>5. QED BY <2>1, <2>3, <2>4, Ends
<1>3. QED BY <1>1, <1>2

LEMMA DieInv ==
  ASSUME AuthInv, NEW c \in Conns, Die(c)
  PROVE  AuthInv'
BY EndsQuietly DEF Die

LEMMA NextInv == AuthInv /\ [Next]_vars => AuthInv'
<1> SUFFICES ASSUME AuthInv, [Next]_vars PROVE AuthInv'
  OBVIOUS
<1>1. CASE UNCHANGED vars
  <2>1. TypeOK'
    BY <1>1 DEF AuthInv, TypeOK, vars
  <2>2. RowsInv' /\ Persists
    BY <1>1, SameRows, SameKeepsRows DEF AuthInv, vars
  <2>3. \A d \in Conns : Bounded(d)'
    BY <1>1, <2>2, OthersBounded DEF AuthInv, vars
  <2>4. QED BY <2>1, <2>2, <2>3 DEF AuthInv
<1>2. CASE Next
  BY <1>2, BootstrapInv, ExpireInv, EndLegacyInv, BeginInv, LookupInv, TouchInv,
     IssueInv, FindRowInv, RevokeInv, DieInv DEF Next
<1>3. QED BY <1>1, <1>2

-----------------------------------------------------------------------------
\* The records of requests and tokens are well-typed throughout.
THEOREM TypeCorrect == Spec => []TypeOK
<1>1. AuthInv => TypeOK
  BY DEF AuthInv
<1>2. QED
  BY InitInv, NextInv, <1>1, PTL DEF Spec

\* issue_auth_token never lets a scope in that the operator did not give: down chains
\* of any length, with issuers expiring and being revoked as requests run.
THEOREM NeverEscalates == Spec => []NoEscalation
<1>1. AuthInv => NoEscalation
  BY DEF AuthInv, RowsInv, Rooted, Issued, NoEscalation
<1>2. QED
  BY InitInv, NextInv, <1>1, PTL DEF Spec

\* revoke_auth_token's caller always got revoke-agent, along some chain, by hand.
THEOREM RevokersAlwaysTraceable == Spec => []RevokersTraceable
<1>1. AuthInv => RevokersTraceable
  BY DEF AuthInv, RowsInv, Origin, RevokersTraceable
<1>2. QED
  BY InitInv, NextInv, <1>1, PTL DEF Spec

-----------------------------------------------------------------------------
\* A bearer that was handed out and is not let in never will be again.
LEMMA DeadStaysDead ==
  ASSUME TypeOK, [Next]_vars, NEW b, Known(b), ~Accepted(b)
  PROVE  ~Accepted(b)'
<1>1. legacyOn' => legacyOn
  BY DEF Next, Bootstrap, Expire, EndLegacy, Begin, Lookup, Touch, Issue, FindRow, Revoke,
         Die, End, Goto, vars
<1>2. CASE b = Legacy
  BY <1>1, <1>2 DEF Accepted
<1>3. CASE b # Legacy
  <2> SUFFICES ASSUME NEW t \in TokenIds, Issued(t), ~(Live(t) /\ ~rows[t].expired)
               PROVE  ~(rows'[t].state = "live" /\ ~rows'[t].expired)
    BY <1>3 DEF Known, Accepted, Live
  <2>1. ASSUME NEW u \in TokenIds, NEW grant, NEW root, NewRow(u, grant, root)
        PROVE  rows'[t] = rows[t]
    BY <2>1 DEF NewRow, TypeOK, Issued
  <2>2. ASSUME NEW u \in TokenIds, Expire(u)
        PROVE  ~(rows'[t].state = "live" /\ ~rows'[t].expired)
    <3>1. CASE u = t
      BY <2>2, <3>1 DEF Expire, TypeOK, Row
    <3>2. CASE u # t
      BY <2>2, <3>2 DEF Expire, TypeOK, Live
    <3>3. QED BY <3>1, <3>2
  <2>3. ASSUME NEW c \in Conns, Revoke(c)
        PROVE  ~(rows'[t].state = "live" /\ ~rows'[t].expired)
    <3>1. CASE req[c].target = t
      BY <2>3, <3>1 DEF Revoke, TypeOK, Row, Live
    <3>2. CASE req[c].target # t
      BY <2>3, <3>2 DEF Revoke, TypeOK, Live
    <3>3. QED BY <3>1, <3>2
  <2>4. ASSUME NEW c \in Conns, Issue(c)
        PROVE  ~(rows'[t].state = "live" /\ ~rows'[t].expired)
    BY <2>1, <2>4 DEF Issue, Live
  <2>5. ASSUME NEW u \in TokenIds, Bootstrap(u)
        PROVE  ~(rows'[t].state = "live" /\ ~rows'[t].expired)
    BY <2>1, <2>5 DEF Bootstrap, Live
  <2>6. ASSUME rows' = rows
        PROVE  ~(rows'[t].state = "live" /\ ~rows'[t].expired)
    BY <2>6 DEF Live
  <2>7. QED
    BY <2>2, <2>3, <2>4, <2>5, <2>6
    DEF Next, EndLegacy, Begin, Lookup, Touch, FindRow, Die, vars
<1>4. QED BY <1>2, <1>3

\* A request whose bearer was dead when it came has not got past its look-up, and its
\* bearer is dead still.
DeadInv == \A c \in Conns : req[c].dead =>
             pc[c] = "lookup" /\ Known(req[c].bearer) /\ ~Accepted(req[c].bearer)

LEMMA NextDead == AuthInv /\ AuthInv' /\ DeadInv /\ [Next]_vars => DeadInv'
<1> SUFFICES ASSUME AuthInv, AuthInv', DeadInv, [Next]_vars, NEW d \in Conns, req'[d].dead
             PROVE  pc'[d] = "lookup" /\ Known(req[d].bearer)' /\ ~Accepted(req[d].bearer)'
  BY DEF DeadInv
<1>1. ASSUME pc'[d] = pc[d], req'[d] = req[d]
      PROVE  pc'[d] = "lookup" /\ Known(req[d].bearer)' /\ ~Accepted(req[d].bearer)'
  <2>1. Known(req[d].bearer) /\ ~Accepted(req[d].bearer) /\ pc'[d] = "lookup"
    BY <1>1 DEF DeadInv
  <2>2. Known(req[d].bearer)'
    BY <2>1, <1>1 DEF AuthInv, Bounded
  <2>3. PICK b : b = req[d].bearer
    OBVIOUS
  <2>4. ~Accepted(b)'
    BY <2>1, <2>3, DeadStaysDead DEF AuthInv
  <2>5. req'[d].bearer = b
    BY <1>1, <2>3
  <2>6. QED BY <2>1, <2>2, <2>4, <2>5
<1>2. ASSUME NEW c \in Conns, End(c)
      PROVE  pc'[d] = "lookup" /\ Known(req[d].bearer)' /\ ~Accepted(req[d].bearer)'
  <2>1. d # c
    BY <1>2, NoRequestType DEF End, AuthInv, TypeOK
  <2>2. QED BY <1>1, <1>2, <2>1 DEF End, AuthInv, TypeOK
<1>3. ASSUME NEW c \in Conns, Begin(c)
      PROVE  pc'[d] = "lookup" /\ Known(req[d].bearer)' /\ ~Accepted(req[d].bearer)'
  <2>1. CASE d = c
    <3>1. PICK r \in Request : /\ req' = [req EXCEPT ![c] = r]
                               /\ Known(r.bearer) /\ r.dead = ~Accepted(r.bearer)
      BY <1>3, Arrival
    <3>2. req'[c] = r
      BY <3>1 DEF AuthInv, TypeOK
    <3>3. pc'[c] = "lookup" /\ rows' = rows /\ legacyOn' = legacyOn
      BY <1>3 DEF Begin, AuthInv, TypeOK
    <3>4. ~Accepted(r.bearer)' /\ Known(r.bearer)'
      BY <2>1, <3>1, <3>2, <3>3 DEF Accepted, Live, Known, Issued
    <3>5. QED BY <2>1, <3>2, <3>3, <3>4
  <2>2. CASE d # c
    BY <1>1, <1>3, <2>2 DEF Begin, AuthInv, TypeOK
  <2>3. QED BY <2>1, <2>2
<1>4. ASSUME NEW c \in Conns, Lookup(c)
      PROVE  pc'[d] = "lookup" /\ Known(req[d].bearer)' /\ ~Accepted(req[d].bearer)'
  <2>1. CASE Accepted(req[c].bearer) /\ d = c
    <3>1. ~req[c].dead
      BY <2>1 DEF DeadInv
    <3>2. req'[c].dead = req[c].dead
      BY <1>4, <2>1 DEF Lookup, AuthInv, TypeOK, Request
    <3>3. QED BY <2>1, <3>1, <3>2
  <2>2. CASE Accepted(req[c].bearer) /\ d # c
    BY <1>1, <1>4, <2>2 DEF Lookup, Goto, AuthInv, TypeOK
  <2>3. CASE ~Accepted(req[c].bearer)
    BY <1>2, <1>4, <2>3 DEF Lookup
  <2>4. QED BY <2>1, <2>2, <2>3
<1>5. ASSUME NEW c \in Conns, NEW label, pc[c] # "lookup",
             pc' = [pc EXCEPT ![c] = label], req' = req
      PROVE  pc'[d] = "lookup" /\ Known(req[d].bearer)' /\ ~Accepted(req[d].bearer)'
  <2>1. d # c
    BY <1>5 DEF DeadInv
  <2>2. QED BY <1>1, <1>5, <2>1 DEF AuthInv, TypeOK
<1>6. ASSUME NEW c \in Conns, Touch(c)
      PROVE  pc'[d] = "lookup" /\ Known(req[d].bearer)' /\ ~Accepted(req[d].bearer)'
  BY <1>5, <1>6 DEF Touch, Goto
<1>7. ASSUME NEW c \in Conns, FindRow(c)
      PROVE  pc'[d] = "lookup" /\ Known(req[d].bearer)' /\ ~Accepted(req[d].bearer)'
  <2>1. CASE End(c)
    BY <1>2, <2>1
  <2>2. CASE Goto(c, "revoke") /\ UNCHANGED req
    BY <1>5, <1>7, <2>2 DEF FindRow, Goto
  <2>3. QED BY <1>7, <2>1, <2>2 DEF FindRow
<1>8. ASSUME EndLegacy
      PROVE  pc'[d] = "lookup" /\ Known(req[d].bearer)' /\ ~Accepted(req[d].bearer)'
  BY <1>8, NoRequestType DEF EndLegacy
<1>9. ASSUME UNCHANGED <<pc, req>>
      PROVE  pc'[d] = "lookup" /\ Known(req[d].bearer)' /\ ~Accepted(req[d].bearer)'
  BY <1>1, <1>9
<1>10. QED
  BY <1>2, <1>3, <1>4, <1>6, <1>7, <1>8, <1>9
  DEF Next, Bootstrap, Expire, Issue, Revoke, Die, vars

\* A revocation, an expiry or the end of the shared bearer takes effect on the next
\* request, whatever requests are under way.
THEOREM AlwaysEffectiveOnNextRequest == Spec => []EffectiveOnNextRequest
<1>1. Init => DeadInv
  BY NoRequestType DEF Init, DeadInv
<1>2. DeadInv => EffectiveOnNextRequest
  BY DEF DeadInv, EffectiveOnNextRequest
<1>3. QED
  BY InitInv, NextInv, NextDead, <1>1, <1>2, PTL DEF Spec

\* A revoked row stays as it is: every write of a row wants it absent or live.
LEMMA RevokedStays ==
  ASSUME TypeOK, [Next]_vars, NEW t \in TokenIds, rows[t].state = "revoked"
  PROVE  rows'[t] = rows[t]
<1>1. ASSUME NEW u \in TokenIds, NEW grant, NEW root, NewRow(u, grant, root)
      PROVE  rows'[t] = rows[t]
  BY <1>1 DEF NewRow, TypeOK
<1>2. ASSUME NEW u \in TokenIds, Expire(u) PROVE rows'[t] = rows[t]
  BY <1>2 DEF Expire, Live, TypeOK
<1>3. ASSUME NEW c \in Conns, Revoke(c) PROVE rows'[t] = rows[t]
  BY <1>3 DEF Revoke, Live, TypeOK
<1>4. ASSUME NEW c \in Conns, Issue(c) PROVE rows'[t] = rows[t]
  BY <1>1, <1>4 DEF Issue
<1>5. QED
  BY <1>1, <1>2, <1>3, <1>4 DEF Next, Bootstrap, EndLegacy, Begin, Lookup, Touch, FindRow, Die, vars

\* No racing request rewrites a revocation, or revives a token it has looked up.
THEOREM RevokedAlwaysFinal == Spec => RevokedIsFinal
<1>1. TypeOK /\ [Next]_vars =>
        [\A t \in TokenIds : rows[t].state = "revoked" => rows'[t] = rows[t]]_vars
  BY RevokedStays
<1>2. QED
  BY TypeCorrect, <1>1, PTL DEF Spec, RevokedIsFinal
=============================================================================
