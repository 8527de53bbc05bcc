------------------------------ MODULE AuthTokens ------------------------------
(***************************************************************************)
(* Bearer tokens and their scopes: require_token and require_scope of      *)
(* auth.py, the issue and revoke handlers of routers/auth_tokens.py and    *)
(* the bootstrap command of cli.py, one SQL statement at a time.  What a   *)
(* request may do is what its token said when it was looked up; the token  *)
(* may be revoked, expire or be touched by others before the request is    *)
(* over.  A token stands for the actor it speaks for.                      *)
(***************************************************************************)
EXTENDS FiniteSets

CONSTANTS
  Conns,      \* request slots, each with a session of its own
  TokenIds,   \* auth_tokens rows: the bound
  Grants,     \* the scope lists that are asked for
  Legacy,     \* the shared bearer of the environment
  None        \* no bearer, no revoker, no target

Scopes == {"read", "write", "revoke-agent"}

ASSUME AuthTokensAssumption ==
  /\ Grants \subseteq SUBSET Scopes
  /\ Legacy \notin TokenIds
  /\ None \notin TokenIds \union {Legacy}

VARIABLES
  rows,      \* committed auth_tokens rows
  legacyOn,  \* TITAN_TYR_BEARER_PASSWORD is set on the running server
  pc,        \* pc[c]: the step request c is about to take
  req        \* req[c]: what it asks, and what require_token stamped on it

vars == <<rows, legacyOn, pc, req>>

Bearers == TokenIds \union {Legacy}

\* root: the token made by hand, or the shared bearer, its authority comes from.
NoRow == [state |-> "absent", scopes |-> {}, expired |-> FALSE,
          root |-> None, by |-> None]
NoRequest == [op |-> "none", bearer |-> None, grant |-> {}, target |-> None,
              scopes |-> {}, dead |-> FALSE]

\* _SCOPE_IMPLIES
Implied(s) ==
  CASE s = "read"  -> {"read"}
    [] s = "write" -> {"read", "write"}
    [] OTHER       -> {"read", "write", "revoke-agent"}

\* expand_scopes
Expand(granted) == UNION {Implied(s) : s \in granted}

Live(t) == rows[t].state = "live"
Effective(t) == Expand(rows[t].scopes)

\* Would a request with this bearer be let in now?
Accepted(b) ==
  IF b = Legacy THEN legacyOn
  ELSE Live(b) /\ ~rows[b].expired

Init ==
  /\ rows = [t \in TokenIds |-> NoRow]
  /\ legacyOn \in BOOLEAN
  /\ pc = [c \in Conns |-> "idle"]
  /\ req = [c \in Conns |-> NoRequest]

NewRow(t, grant, root) ==
  /\ rows[t].state = "absent"
  /\ rows' = [rows EXCEPT ![t] = [NoRow EXCEPT !.state = "live", !.scopes = grant,
                                               !.root = root]]

\* cli.py issue-token, on the server's host: any scopes, straight into the table.
Bootstrap(t) ==
  /\ \E grant \in Grants : NewRow(t, grant, t)
  /\ UNCHANGED <<legacyOn, pc, req>>

\* The clock passes a token's expires_at.
Expire(t) ==
  /\ Live(t) /\ ~rows[t].expired
  /\ rows' = [rows EXCEPT ![t].expired = TRUE]
  /\ UNCHANGED <<legacyOn, pc, req>>

\* Step 4 of the cutover: the server restarts without the shared bearer.
EndLegacy ==
  /\ legacyOn
  /\ legacyOn' = FALSE
  /\ pc' = [c \in Conns |-> "idle"]
  /\ req' = [c \in Conns |-> NoRequest]
  /\ UNCHANGED rows

\* A request arrives, with a bearer that was handed out at some time; `dead` remembers
\* whether it was still good.
Begin(c) ==
  /\ pc[c] = "idle"
  /\ \E b \in {Legacy} \union {t \in TokenIds : rows[t].state # "absent"} :
       \/ \E grant \in Grants :
            req' = [req EXCEPT ![c] = [NoRequest EXCEPT !.op = "issue", !.bearer = b,
                                         !.grant = grant, !.dead = ~Accepted(b)]]
       \/ \E t \in TokenIds :
            req' = [req EXCEPT ![c] = [NoRequest EXCEPT !.op = "revoke", !.bearer = b,
                                         !.target = t, !.dead = ~Accepted(b)]]
  /\ pc' = [pc EXCEPT ![c] = "lookup"]
  /\ UNCHANGED <<rows, legacyOn>>

End(c) ==
  /\ pc' = [pc EXCEPT ![c] = "idle"]
  /\ req' = [req EXCEPT ![c] = NoRequest]
  /\ UNCHANGED legacyOn

Goto(c, label) == pc' = [pc EXCEPT ![c] = label] /\ UNCHANGED legacyOn

\* The handler's first step, once require_token is through.
Entry(c) == IF req[c].op = "issue" THEN "issue" ELSE "find"

\* Mutant: the lookup is by hash alone.
LookupByHash(c) ==
  /\ pc[c] = "lookup"
  /\ LET b == req[c].bearer IN
       IF b \in TokenIds /\ rows[b].state # "absent" /\ ~rows[b].expired
         THEN /\ req' = [req EXCEPT ![c].scopes = Effective(b)]
              /\ Goto(c, "touch")
         ELSE End(c)
  /\ UNCHANGED rows

\* require_token: the SELECT of a row that is not revoked, the expiry, and the scopes
\* stamped on the request; else the shared bearer; else 401.
Lookup(c) ==
  /\ pc[c] = "lookup"
  /\ LET b == req[c].bearer IN
       IF ~Accepted(b) THEN End(c)
       ELSE IF b = Legacy
         THEN /\ req' = [req EXCEPT ![c].scopes = Scopes]
              /\ Goto(c, Entry(c))
         ELSE /\ req' = [req EXCEPT ![c].scopes = Effective(b)]
              /\ Goto(c, "touch")
  /\ UNCHANGED rows

\* Mutant: the whole row is written back, as it was when it was looked up.
TouchRow(c) ==
  /\ pc[c] = "touch"
  /\ rows' = [rows EXCEPT ![req[c].bearer].state = "live"]
  /\ Goto(c, Entry(c))
  /\ UNCHANGED req

\* require_token: last_used_at, which is not modelled, is set by id, whatever has
\* become of the row, and committed; or that fails and is rolled back.  Nothing else
\* of the row changes, nothing of it is looked at again, and the request goes on.
Touch(c) ==
  /\ pc[c] = "touch"
  /\ Goto(c, Entry(c))
  /\ UNCHANGED <<rows, req>>

\* Mutant: whoever may issue may issue anything.
IssueUnbounded(c) ==
  /\ pc[c] = "issue"
  /\ IF "write" \in req[c].scopes
       THEN \E t \in TokenIds :
              NewRow(t, req[c].grant, IF req[c].bearer = Legacy THEN Legacy
                                      ELSE rows[req[c].bearer].root)
       ELSE UNCHANGED rows
  /\ End(c)

\* issue_auth_token: write scope, and no scope the request does not have itself.
Issue(c) ==
  /\ pc[c] = "issue"
  /\ IF "write" \in req[c].scopes /\ Expand(req[c].grant) \subseteq req[c].scopes
       THEN \E t \in TokenIds :
              NewRow(t, req[c].grant, IF req[c].bearer = Legacy THEN Legacy
                                      ELSE rows[req[c].bearer].root)
       ELSE UNCHANGED rows
  /\ End(c)

\* Mutant: revoking takes what issuing takes.
FindRowByWriter(c) ==
  /\ pc[c] = "find"
  /\ IF "write" \in req[c].scopes /\ Live(req[c].target)
       THEN Goto(c, "revoke") /\ UNCHANGED req
       ELSE End(c)
  /\ UNCHANGED rows

\* revoke_auth_token: revoke-agent scope, and the snapshot of SELECT ... WHERE
\* revoked_at IS NULL FOR UPDATE, which has the row or a 404.
FindRow(c) ==
  /\ pc[c] = "find"
  /\ IF "revoke-agent" \in req[c].scopes /\ Live(req[c].target)
       THEN Goto(c, "revoke") /\ UNCHANGED req
       ELSE End(c)
  /\ UNCHANGED rows

\* The row's lock is granted and WHERE evaluated again; UPDATE and COMMIT follow.
Revoke(c) ==
  /\ pc[c] = "revoke"
  /\ IF Live(req[c].target)
       THEN rows' = [rows EXCEPT ![req[c].target].state = "revoked",
                                 ![req[c].target].by = req[c].bearer]
       ELSE UNCHANGED rows
  /\ End(c)

\* The connection or the server dies: what is not committed is rolled back.
Die(c) == pc[c] # "idle" /\ End(c) /\ UNCHANGED rows

Next ==
  \/ \E t \in TokenIds : Bootstrap(t) \/ Expire(t)
  \/ EndLegacy
  \/ \E c \in Conns :
       \/ Begin(c) \/ Lookup(c) \/ Touch(c) \/ Issue(c)
       \/ FindRow(c) \/ Revoke(c) \/ Die(c)

Spec == Init /\ [][Next]_vars
-----------------------------------------------------------------------------
Row == [state : {"absent", "live", "revoked"}, scopes : SUBSET Scopes,
        expired : BOOLEAN, root : Bearers \union {None}, by : Bearers \union {None}]
Request == [op : {"none", "issue", "revoke"}, bearer : Bearers \union {None},
            grant : SUBSET Scopes, target : TokenIds \union {None},
            scopes : SUBSET Scopes, dead : BOOLEAN]

TypeOK ==
  /\ rows \in [TokenIds -> Row]
  /\ legacyOn \in BOOLEAN
  /\ pc \in [Conns -> {"idle", "lookup", "touch", "issue", "find", "revoke"}]
  /\ req \in [Conns -> Request]

\* What a bearer's authority amounts to in the end.
Authority(b) == IF b = Legacy THEN Scopes ELSE Effective(b)

\* auth_tokens.py: an issuer "cannot mint a token whose effective scope set exceeds
\* their own".  So down any chain of issuers, some of them revoked since, no token
\* has a scope that the one its chain began with, which an operator made, has not.
NoEscalation ==
  \A t \in TokenIds : rows[t].state # "absent" =>
    Effective(t) \subseteq Authority(rows[t].root)

\* Who revoked a token did so on the authority of somebody who was given
\* revoke-agent by hand, however many issuers, revocations and expiries are between.
RevokersTraceable ==
  \A t \in TokenIds : rows[t].state = "revoked" =>
    LET by == rows[t].by IN
      "revoke-agent" \in Authority(IF by = Legacy THEN Legacy ELSE rows[by].root)

\* docs/auth.md: a revocation is "effective on the next request -- no propagation
\* delay".  A request that arrives with a bearer revoked, expired or withdrawn before
\* never gets to a handler; one that was looked up before may still finish.
EffectiveOnNextRequest ==
  \A c \in Conns : req[c].dead => pc[c] = "lookup"

\* A revoked token never works again, and its record says who revoked it first: neither
\* a request it let in before, which touches its row, nor a second revocation undoes that.
RevokedIsFinal ==
  [][\A t \in TokenIds : rows[t].state = "revoked" =>
       rows'[t] = rows[t]]_vars
=============================================================================
