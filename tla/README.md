# titan-tyr in TLA+

titan-tyr is a registry of *parts* (software, images, pods, charts, ...) and of
*contracts* between two parts.  It is a FastAPI service on PostgreSQL, driven by
people and by agents who name themselves in `X-Actor`.  Changes that matter are
made in two steps, *propose* and *accept*, by two actors.  Each HTTP request runs
in one READ COMMITTED transaction on a session of its own (`src/src/db.py`); a
handler that raises, or a connection that dies, rolls back.  There is no
background work: all concurrency is between requests, and all of it goes through
the database, but for the cache of signing keys, which the requests of one process
share.  Around the service are Alembic, which takes the database from revision to
revision, and an init container that gets each pod of the UI its token.

## Inventory

| component | source | state | operations |
|---|---|---|---|
| version order | `versioning.py` | none | parse, compare, `stable()` |
| contract ledger | `routers/proposals.py` | `contract_versions` | create, list, accept proposals |
| template ledger | `routers/templates.py` | `template_versions` | the same, on templates |
| gates | `routers/_subtype_helpers.py` | none | two-party, human confirmation, reading the allowlist |
| connection rules | `routers/_rules.py` | none | `is_pair_allowed` and its projections |
| parts | `routers/parts.py` | `parts`, `part_versions`, three proposal tables | register, update, reassign; propose/accept a subtype, a name, a deletion |
| contracts | `routers/contracts.py` | `contracts`, three proposal tables | register, update, reassign; propose/accept a subtype, endpoints, a deletion |
| agent allowlist | `routers/agent_actors.py` | `agent_actors` | register, revoke, list |
| tokens | `auth.py`, `auth_tokens.py`, `routers/auth_tokens.py` | `auth_tokens` | issue, authenticate, expire, revoke |
| OIDC keys | `oidc.py` | `JWKSCache` in memory | fetch, refresh, validate |
| projects and row ownership | `routers/projects.py`, `routers/_projects.py` | `projects`, single columns | create, update, assign |
| migrations | `alembic/` | the schema, and every row | upgrade, downgrade, one revision at a time |
| init container | `cli.py` | a Kubernetes Secret, a mount, a handoff file | probe, mint, save, hand off |
| HTTP surface | `main.py`, `schemas.py`, `config.py` | none | wiring, validation |

How they interact: every write on a part starts with `SELECT ... FOR UPDATE` on the
part's row, every write on a contract or its ledger with one on the contract's
row; the cascade of a part deletion is the one handler that writes rows of both
tables, and it does not lock the contracts first.  Contract handlers read their
endpoint parts without a lock.  Partial unique indexes on live rows (slug;
endpoints and shape) stand behind the handlers' own existence checks.  The gates
are called by every accept; the rules by every handler that gives a contract a
shape or endpoints.

What is hard here: (1) handlers that check and then write, with only a row lock in
between; (2) proposals, which are decided on twice, the second time against a state
that may have moved on; (3) the promotion of a release candidate, which keeps one
row and inserts another; (4) deletions that must take everything with them and
that nothing may touch afterwards; (5) two-row lock orders; (6) checks that read
another table without a lock: endpoints, the contracts of a part, the allowlist;
(7) authority that ends while it is in use: a revoked token, a withdrawn key;
(8) schema changes whose constraint names and rows depend on the way there; (9) an
init container that may die after each of its three remote calls.  `PROJECT.json` lists
each hazard with the line where it bites.

## Modules

| module | models |
|---|---|
| `Versioning` | the order of versions, as `_sort_key` builds it |
| `Handshake` | the two gates |
| `Rules` | the table of `_rules.py` and the source/target check |
| `LedgerRows` | a contract's version rows, what the handlers write into them, what is listed |
| `Ledger` | the abstract ledger: each request takes effect at one instant or not at all |
| `LedgerTx` | the handlers of `proposals.py` (and `templates.py`) one SQL statement at a time |
| `PartTx` | slugs and versions of parts: registration, update and rename one SQL statement at a time |
| `ListTx` | `list_proposals`, in two statements, beside the writers of `LedgerTx` |
| `Graph` | parts, contracts and the six propose/accept families: one action a handler, or one for each unlocked read and the COMMIT |
| `GraphCommits` | abstract: what committed parts and contracts may go through, one COMMIT a step |
| `GraphTx` | the handlers that relate parts and contracts, one SQL statement at a time; implements `GraphCommits` |
| `AgentGate` | the allowlist of agents and the human-confirmation gate that reads it |
| `AuthTokens` | bearer tokens: look-up, touch, issue, revoke, bootstrap, expiry, the shared bearer's end |
| `JwksCache` | the OIDC key cache, its asyncio lock, and Keycloak's rotations |
| `Schema` | what Alembic's and PostgreSQL's DDL statements do to objects and rows (external) |
| `Revisions` | the 25 revisions, up and down, as sequences of those statements |
| `Migrations` | a database taken up and down the revisions while rows are written |
| `RowFacts` | what can be told of a revision's run without the rows: an abstract interpretation of `Schema`'s statements |
| `RevisionPaths` | the revisions and schemas Alembic can reach, and what `RowFacts` tells of the runs between them |
| `TokenInit` | the init container, its Secret and mount, and Kubernetes' restarts |
| `MC...` | the instances that TLC checks |
| `LedgerTxProofs`, `PartTxProofs`, `GraphProofs` (with `AgentGate`), `GraphTxProofs`, `AuthTokensProofs`, `JwksCacheProofs`, `MigrationsProofs`, `TokenInitProofs` | theorems |

**LedgerTx.** `rows[v]` is the committed row of version `v`; a contract's unique
index makes a function of it.  `pc[c]` is the statement that request `c` is about to
run, `req[c]` its parameters, `seen[c]` the row its SELECT returned, `holder` who has
the row lock.  `Lock` is the first SELECT with the `deleted_at` check;
`CheckLatest`, `Insert` are the rest of `create_proposal`; `FindProposal`, `Flip`,
`CheckStable`, `Promote` the rest of `accept_proposal`.  A write and its COMMIT are
one step, since nothing is visible before the COMMIT; the lock goes with it.
`Finish` ends the transaction on every path, `Die` breaks it off.  `Delete` is
`accept_contract_deletion` as the ledger sees it.  Parameters are drawn when the
lock is granted, since no earlier statement depends on them.  With
`Deletable = FALSE` this is `templates.py`, whose statements are the same.  Invalid
version strings (422) change nothing and are left out, as is the text of a
proposal: `body` names the version it was submitted with.

**PartTx.** `parts` and `renames` are committed rows, `lock[p]` is who has part `p`'s row
lock, `pc`, `req` and `found` are what a request is about to run, what it was sent
and the parts its first SELECT is about.  The wait for a row lock takes two actions,
because READ COMMITTED does: `Begin` takes the snapshot of `SELECT ... WHERE name =
... FOR UPDATE`, and `Grant` evaluates the WHERE again on the rows as they are when the
lock comes free, so that a part renamed meanwhile drops out and one that took the
slug meanwhile is not seen.  Two matching rows always end in `MultipleResultsFound`,
so their locks are taken in one step.  A transaction writes one slug, so waiting
for the unique index cannot deadlock, and the write and its COMMIT are one step:
either the index has no such live row, or the request ends in `IntegrityError`.
Propose's check and insert are one step too, since a proposal is visible to
nobody that cares before it is accepted.  `Delete` is `accept_part_deletion` as
slugs see it; who may accept is `Graph`'s and `Handshake`'s.

**Graph.** A refusal leaves no trace, so an action is enabled exactly when its handler
goes on.  Five handlers decide on rows that they do not lock, and are several actions:
`task[s]` is what the request of session `s` is about and what it has read.
`register_contract` is `RegisterContract` (the owner), `ResolveCounterparty` (with the
rule, and the look for a contract that is there already) and `LandContract`; the
acceptance of a contract's subtype or endpoint shift is `AcceptContract...Shift` (the
lock, the gates, one endpoint's subtype), `ReadOtherEnd` (the other's, and the rule) and
`LandShift`; `accept_part_deletion` is `AcceptPartDeletion` (the lock, the gates, the
contracts that touch the part) and `CommitPartDeletion` (the stamps).  Anything may
commit in between that the locks (`LocksPart`, `LocksContract`), the foreign keys' share
of a part and the unique index (`IndexAdmits`) let through.  `Swept` is what the
cascade's UPDATE makes of a contract: the id is all its WHERE has, and a column whose
new value is the one that was read stays as it is by then (`Written`, the unit of work
of SQLAlchemy).  `Abandon` is the ROLLBACK of a request that is refused, dies or is the
victim of a deadlock.  The other handlers are one action: they decide on the row they
lock, and what else they look at the index decides again.  A propose handler's unlocked
looks at other rows do not matter, since an acceptance takes nothing of them for
granted: it is one action too.

`Addresses` is the lookup by name of the write handlers (live and deleted rows, at most
one), `Resolves` that of `_resolve_part` (live rows).  A proposal keeps ids, as in the
tables, so it survives renames.  `Deleted` is the copy of the proposal's columns onto
the row; `cause` stands for the rationale.  Audit columns such as
`subtype_shifted_from`, versions, owners and projects are left out.

**ListTx** adds one reader to `LedgerTx`: `ReadActive` and `ReadProposals` are its two
SELECTs, `Meanwhile` any step of a writer.  `always` and `ever` remember what was
open at every, at some moment of the request; the list need be no snapshot, but
lies between the two.

**GraphTx** has the rows that are committed, the rows each request has written and not
committed (`wrote`), and the locks: `partLock` and `rowLock` for `FOR UPDATE` and
`UPDATE`, `keyShare` for the `FOR KEY SHARE` that a foreign key takes on the part it
names.  A foreign key is checked when a column changes, the owner's before the
counterparty's; the unique index on live contracts waits for whoever has written a
row with the same key (`Contenders`).  `Cascade` is one UPDATE of the cascade, which
waits for the contract's row and then stamps the row as it is by then, since its
WHERE has only the id.  A cycle of waiting requests loses a member to
`AbortVictim`.  Contracts are of one shape, which every pair of parts suits: shapes,
their shifts, subtypes and rules are `Graph`'s, slugs `PartTx`'s.  `Commits` is the refinement:
COMMITs are `GraphCommits`' steps, all else stutters.  A deletion's step there takes
along every contract that touches the part when it commits, those registered since
the cascade looked included: they are in the way of the foreign key's share of the
part, so the one that comes second waits and sees the other.

**AgentGate.** `rows` are agent_actors rows; the gate (`PassGate`) reads `Allowlist` and
lets the request go on or not; `FindRow` and `Revoke` are the two halves of `SELECT ...
FOR UPDATE`.  `DeletePart` stands for the rest of `accept_part_deletion`.

**AuthTokens.** `req[c]` is what `require_token` stamped on a request: the scopes as they
were then.  `Touch` is the best-effort UPDATE of `last_used_at` and its COMMIT, after
which the handler runs in a new transaction.  `root` records which hand-made token, or
the shared bearer, a token's authority comes from.

**JwksCache.** Requests are coroutines: `running` is the one the event loop runs, and
the others are at an `await` (the lock, the GET).  Time advances in ticks while the
loop is idle; an answer is taken from Keycloak at one moment and arrives up to
`Timeout` later.

**Schema, Revisions, Migrations.** A database is its schema objects and its rows.  Every
statement of a revision demands or refuses names, and `Add` of a constraint and
`UPDATE` are refused by rows that do not fit.  `Run` is a revision, in one
transaction: the first failure leaves the database as it was.  Names are the real ones,
with the convention's double prefix where `create_table` adds it, since dropping by
name is what can fail.  Rows are written by the releases of the API that ran on each
revision, which the repository does not have: they are whatever the schema of that
revision admits.

**RowFacts, RevisionPaths.** A *view* is a database without rows, the facts known of the
rows that are missing (what a CHECK or a unique key, in force or just dropped, says
of them), and where the rows of each table came from and what was done to them.
`Foresee` is what a statement does to a view, and whether it can fail.  `Known` are the
points, a revision and a schema without rows, that Alembic's commands lead to from the
empty database; a revision has more than one, since a downgrade may leave a check under
another name.

**TokenInit.** `Start`, `Probe`, `Issue`, `Patch`, `Handoff` are the steps of one run of the
container.  `_http_request` gives `urlopen` no timeout, so a call that gets lost
(`CallLost`) or whose answer does (`IssueUnanswered`, `PatchUnanswered`) leaves the run
`hung`: it neither goes on nor exits, and Kubernetes sees nothing to restart, unless the
connection breaks after all (`HangEnds`).  `Crash` is a run that ends with an error.
`token` is the table of tokens, `secret` the Secret, `mount[p]` what pod `p` sees of it,
which `Sync` brings up to date at any later time.

## Runs

| run | question | bounds |
|---|---|---|
| `ledger` | do the statements of concurrent requests amount to atomic operations (`Linearizable`), is what they record sound, does a list in two statements miss or invent a proposal, and is every request answered? | 2 requests at a time, any number in sequence; two scenarios, below |
| `part_tx` | does a request that waited for a part's lock still write to the right part, in order, once? | 2 requests at a time, 2 parts, 2 slugs, 2 rename proposals, 3 versions |
| `graph` | what can proposals filed early and accepted late, and handlers that act on what they read without a lock, do to shapes, endpoints, slugs, rules and deletions? | at most 2 requests under way; six scenarios, below |
| `graph_deleted_endpoint` | does a live contract have live endpoints? **No** | as `graph`, one request at a time |
| `graph_name_twin` | can a live part be addressed by its name? **No** | as `graph`, one request at a time |
| `graph_tx` | do interleaved registrations, shifts and deletions commit only what `GraphCommits` allows, when do they deadlock, and is each answered? | 2 requests at a time, 2 parts, 2 contracts |
| `agent_gate` | can agents free themselves by races or by acting on each other? | 2 requests, 1 agent and 2 others who may become agents, 3 rows |
| `auth_tokens` | does a dead token stay dead and reach no handler, and does authority stay within what was given by hand? | 2 requests with 2 tokens, or 1 request with a chain of 3; 2 grants |
| `jwks_cache` | for how long are the cached keys wrong, is there one fetch at a time and none that nobody needs, and does every request end? | 2 requests, 3 keys of 2 kids, 3 sets of them, TTL 2, an answer's delay 1 |
| `migrations` | do upgrades apply, and downgrades but for rows, wherever a database has been; is a revision one schema, and the head the API's? | 25 revisions, 2 parts, 2 contracts and proposals together |
| `migrated_rows` | do upgrades keep parts and contracts, and do they undo what downgrades that drop none of their columns do to them? | as `migrations` |
| `token_init` | is what a pod gets saved and live, do tokens not pile up, and does every pod whose calls are answered get one? | 2 pods, 5 tokens, 1 fault, 1 revocation |

The scenarios of `ledger` (the variable `scenario` of `MCListTx`, which never changes):
`write`, two actors and anonymous who work on the registered version, two candidates and
their stable version; `list`, two anonymous writers beside a reader, on the registered
version, a candidate, its stable version and one above both.  In `write` each
request slot has actors of its own, so that behaviours which differ in the slots only are
not all explored; every pair of a proposer and an acceptor occurs.

The scenarios of `graph` (the variable `scenario` of `MCGraph`, which never changes) share
one set of rows and differ in what clients do, with two proposals each: `ends`, 3 parts
and 2 contracts with stale endpoint shifts; `shapes`, 2 parts and 2 contracts whose
shapes and endpoints are shifted by two requests that overlap; `rules`, 2 parts and 2
contracts with one such request, while the parts' subtypes are shifted as well; `names`,
3 parts that compete for 2 slugs with renames or deletions; `deletions`, 2 parts and 2
contracts with the cascades of two part deletions, or one and a contract's own, that
overlap; `cascades`, 3 parts and a contract that an endpoint shift moves while a
cascade, by a human, an agent or nobody, is under way.  Rows are numbered and used in
that order, and the two sessions are interchangeable (`Symmetry`).
`WithinBounds` in `MCListTx`, `MCGraph`, `MCAuthTokens` and `MCMigrations` cuts the combinations no
scenario needs; `MCJwksCache` names the sets of keys that Keycloak publishes.

The bounds: every property of the ledger is about at most two requests that
overlap on one row (the lock admits one) and at most three rows (a candidate,
another, their stable version).  A stale shift needs one proposal that waits and
one that moves the state away; a read that has gone stale, one request under way and one
that commits meanwhile, which is at once or is under way itself.  Two contracts and
three parts are what a collision of endpoint shifts takes.  A slug that changes hands
while a request waits takes two parts, two slugs and one request that waits for
another; two proposals let a part be renamed away and back.  Who acts matters to
deletions and renames only, so `ends`, `shapes` and `rules` have anonymous requests,
which the two-party gate always lets through: the most permissive case.  Ids are used
once, so the graph runs stop when they run out (`CHECK_DEADLOCK FALSE`).

Two requests are enough for `graph_tx` too: a cascade, a shift or a registration
waits for, or overtakes, one other; a cycle of locks has a holder of a part and a
holder of a contract.  `MaxTokens`, `MaxFaults` and `MaxDeaths` cap what would grow without
end; `token_init` is given as many tokens as its faults, deaths and pods can use up.
The contracts of `migrations` take the labels that 0024 turns, and subtypes from before
and after it; its proposals take the lists that 0022 to 0024 widen.  `migrated_rows` is the
same instance, and has TLC evaluate `PathsAssumption` besides, on which the proofs of
`Migrations` rest.  TTL 2 and delay 1
make a key's window longer than one rotation.  Where a property is also proved, the
bounds matter to the mutants and the actions only.

Fairness.  `ledger`: a session keeps executing its handler (weak fairness of each
statement); PostgreSQL queues waiters on a row lock in the order of arrival, hence
strong fairness of `Lock`.  `graph_tx`: the same, weak for `Statement`, strong for
`Acquire`, which is whatever waits for somebody else's transaction (`LockContract`,
`LockPart`, `Write`, `ShareKey`, `Cascade`); and PostgreSQL looks for cycles after
`deadlock_timeout` (weak fairness of `AbortVictim`).  `jwks_cache`: the event loop runs
what can run, the lock's waiters are served in order, and a GET is answered or times
out.  (The GET has `timeout=10.0`, which httpx applies to the connection and to each read
in turn: an answer that trickles may take longer.  `Timeout` stands for the time that a
whole answer takes.)  `token_init`: the container runs, and Kubernetes runs it again when
it has failed (weak fairness of `Run`).  Nothing makes a call return that has no timeout,
so there is no fairness of `HangEnds`, and `Ready` promises a pod its token unless its run
hangs for ever.  Faults and revocations are bounded, since a pod that is interrupted for
ever is not promised a token.  No fairness is assumed of clients, of crashes, of Keycloak's
rotations or of time.

What the violated runs show is in `PROJECT.json`, "findings", with the line of the
documentation that says otherwise.

## Divergences without a run of their own

Met while modelling.  The models do what the code does here, and the properties that are
about these places say what the code keeps to in spite of them.

- Two registrations, or two renames, of one slug race between the look-up and the
  unique index: the loser gets `IntegrityError`, 500, where a slug that was taken
  earlier gets 409 (`parts.py:283`).  No row is harmed (`WritesReachNamed`).
- `accept_proposal` does not compare a stable proposal with the active version, so one
  that was superseded since can still be accepted (`proposals.py:189`); it is then
  active, but not the latest.
- Accepting a candidate records the acceptor on the stable row it inserts, and only the
  override on the candidate's own row (`proposals.py:228`).
- A contract may be registered on a part that is deleted between the look-up and the
  INSERT, and an endpoint shift land on one: the foreign key still finds the row
  (`contracts.py:173`).
- The cascade reads the contracts of its part without a lock (`parts.py:1467`) and stamps
  them by id only (`parts.py:1754`).  A contract that an endpoint shift has moved to other
  parts meanwhile is deleted with a part that it no longer touches, and one that was
  deleted meanwhile, by its own proposal or another part's cascade, has the columns of its
  deletion written again; `DeletedIsFinal` says that nothing else has.
- The second of two such deletions need not write every column, although "Contracts get
  the same proposer / acceptor" (`parts.py:1444`): the proposer of the first stays when the
  second has none, and so does `deletion_single_operator_override`, since SQLAlchemy sends
  only what differs from what it read.  A row can then name the acceptor of one deletion
  and the proposer of another, even one person as both.  `DeletionTraceable` says how much
  of the row can be trusted.
- The subtypes of the endpoints are read without a lock where a contract is registered or
  shifted (`contracts.py:173`, `1096`, `1549`).  A part's subtype shift that commits before
  the contract does lands a contract that the rule no longer admits.  (A part that is
  shifted last leaves such a contract too, but then the impact block of the shift's
  proposal has named it, `related_rows_potentially_affected`; in the race it need not.)
  `RuleHoldsOnLanding` says that this is the one way.
- `revoke_agent_actor` decides who may revoke before it waits for the row, so a
  revoker who becomes an agent meanwhile still revokes (`agent_actors.py:172`).
- A key id that is not cached, or a signature that does not verify, does not lead to a
  fetch while the cache is fresh: `_refresh` looks at the age only, `force_refresh` or not
  (`oidc.py:56`).  The docstring has a miss refresh the cache (`oidc.py:9`), and so do the
  comments on the two forced refreshes (`oidc.py:127`, `143`).  The delay is what
  `KeysWithinWindow` bounds; `NoRedundantFetch` asks of unforced refreshes only that they
  are needed, and would hold of a cache that does fetch when forced.
- `_probe` takes a 5xx answer for a refusal, and the pod replaces a good token
  (`cli.py:159`); `MintsAccountedFor` counts these as faults.
- `urlopen` is called without a timeout (`cli.py:147`): a call that is never answered keeps
  the init container, and its pod, waiting for ever (`Ready`).
- The downgrade of 0024 turns every `composes` contract into a `member-of` one the
  other way round, and succeeds, where its comment says that it refuses while the
  label is in use for pairs it cannot represent
  (`0024_chart_subtype_and_composes.py:429-432`): the older CHECK admits every
  `member-of`, whichever parts it is between.  The downgrade of 0019 drops the
  `deleted_at` columns, so deleted rows that do not collide are live again.
- Downgrades lose what their revision introduced.  `RoundTripKeepsRows` is about the
  columns that `Migrations` has of parts, contracts and subtype proposals only, and not
  about the revisions that drop one of those (`LossyForRows`).  0002, 0003, 0004, 0012,
  0013, 0015, 0016, 0020 and 0021 drop templates, attribution, projects, proposals of names
  and endpoints, agents and tokens without a look at whether there are any.

## Proofs

`LedgerTxProofs`, about `Versioning`, `LedgerTx` and `ListTx`, for every set of versions,
actors and concurrent requests:

| theorem | what |
|---|---|
| `TypeCorrect` | `Spec => []TypeOK` |
| `Refinement` | `Spec => Linearizable`: the statements implement `Ledger` |
| `TwoPartyAlways` | `Spec => []TwoPartyRecorded` |
| `ProvenanceAlways` | `Spec => []PromotedFromCandidate` |
| `HistoryAlwaysFinal` | `Spec => HistoryIsFinal` |
| `NeverIntegrityError` | `Spec => []NoIntegrityError` |
| `PromotedNeverListed` | `Spec => []PromotedNotListed` |
| `ListingBetween` | `ListSpec => []ListedBetween` |
| `StableIsNextTriple` | a candidate's stable version is above it and below every later triple |

The argument: none of these is inductive by itself, because a request acts on what
it read some statements ago.  `LockInv` says that only the holder of the row lock
is past its first statement and that the contract is not deleted under it;
`SeenInv` says that whatever the holder found (nothing newer than its version, a
proposal it may accept, no stable row) is still so.  `OthersUpToDate` is the heart
of it: a step of another request either changes no row or belongs to the holder,
and then nobody else has found anything.  From these two, each write is an action
of `Ledger` (`StepsAreAtomic`), and what is recorded follows from `Ledger`'s actions
alone (`AtomicSteps`, `SoundNext`), with `RowInv` (active versions are stable, a
proposal is its own text) as the strengthening.  TLC agreed with the conjunction
of `TypeOK`, `LockInv`, `SeenInv`, `Sound` and `NoIntegrityError` before it was proved.

What is listed depends on the latest active version, a maximum that only exists if
there is an active version.  `LatestAlways` carries it along: there is one from `Init`
on, and each insertion of an active version leaves the greater of two
(`OneMoreHasLatest`), so no induction over sets is needed; `Newer` is a strict total
order (`NewerTotal` and its neighbours).  `PromotedIsOlder` then puts a promoted
candidate below the latest for good.  For `ListTx`, `WhileReading` says
of the moments between the two SELECTs that the version the first one read is active
still, that what was open throughout would be listed now, and that whatever would be
listed now was open at some moment; the latest version can only grow (`LatestGrows`), so
a row that passes the filter of the earlier one was open when it was inserted.

The other proof modules show the type invariant (`TypeCorrect`) and these, for every
value of their constants:

| module | theorems | inductive invariant |
|---|---|---|
| `PartTxProofs` | `VersionsAlwaysAscend`, `WritesAlwaysReachNamed`, `AlwaysRenamedOnce` | `LockInv`: a request past `Grant` holds the lock of one live part, which has the slug it was sent; a version about to be appended is above all of the part's, a proposal about to be accepted is open and about it |
| `GraphProofs`, of `Graph` | `LiveNamesAlwaysUnique`, `LiveShapesAlwaysSound`, `DeletionsAlwaysTraceable`, `HumansAlwaysInTheLoop`, `DeletedAlwaysFinal`, `RuleAlwaysHoldsOnLanding`, `DeletionAlwaysLeavesNoContract` | `GraphInv`: types, unique slugs and sound shapes, and `Traced`, where each deleted row's columns come from, and `TasksOK`, what a request under way has read; below |
| `GraphTxProofs` | `InvAlways`, `CommitsSound`, `DeletedForGood`, `DeadlockTakesBoth` | `Inv`, below |
| `GraphProofs`, of `AgentGate` | `GateTypeCorrect`, `AgentsAlwaysConfined`, `RevokedAlwaysFinal` | `GateInv`: somebody who is no agent has acted, or nothing was revoked yet, every agent is on the list and none is past the gate |
| `AuthTokensProofs` | `NeverEscalates`, `RevokersAlwaysTraceable`, `AlwaysEffectiveOnNextRequest`, `RevokedAlwaysFinal` | `AuthInv`: a token's scopes, and those stamped on a request, are within those of the token or bearer its chain starts from; `DeadInv`: a request whose bearer was dead when it came is still at its look-up, and the bearer still dead |
| `JwksCacheProofs` | `NeverRedundantFetch`, `KeysAlwaysWithinWindow` | `JwksInv`: whoever is past the lock holds it; `CacheLags` and `AnswerLags`: where cache or answer differ from what Keycloak publishes, that changed since the answer was given |
| `MigrationsProofs` | `UpgradesAlwaysApply`, `DowngradesAlwaysRefusedForRows`, `OneSchemaAlways`, `HeadAlwaysMatchesModels`, `RoundTripAlwaysKeepsRows`, `UpgradeAlwaysKeepsRows` | `Surveyed`, below |
| `TokenInitProofs` | `AlwaysSavedBeforeHandoff`, `HandoffAlwaysLive`, `MintsAlwaysAccountedFor` | `InitInv`: the Secret, and so every mount, was saved; a run that has patched in or probed a token knows it to have been live; `Account` and `OwnPatch`, below |

None of the properties is inductive alone, for the same reason as in the ledger: what a
request does now rests on what it saw some statements ago, or on what a row's origin
was.  TLC agreed with every type
invariant before it was proved.

**`GraphInv`.**  A live contract has no deletion columns (`LiveRows`), so a cascade that
writes over a row which it read alive leaves a column alone only where its own value is
nobody or no override (`SweptContract`); accepted part deletions have no override
(`Unforced`), so an override in a row that was written twice is that of the contract's own
deletion.  `TasksOK` says of a request under way: the proposal that it is about is open
still (`Holds`, by the row lock that `Exclusive` says nobody else has); a shift's contract
is live; if both subtypes are read, the rule admits them (`Ruled`); every live contract
that touches a part being deleted was read, since whatever would land on the part waits
for it, and every contract that was read still touches it or was moved (`ReadOK`).  A
step keeps what holds of the others because it touches neither what they hold nor what
they have read (`TaskStays`).  `Good` adds what a step may do; each action has a lemma.

**`GraphTxProofs`.**  `Inv` has a part for each request (`Local`): the statements it goes
through (`Course`), which locks it holds at which of them (`HoldsPart`, `HoldsKeys`,
`HoldsRows`), what it has still to visit or to commit (`Pends`), and what is true of its
uncommitted rows: `Moves`, a registration or shift goes to a place no committed contract
has, and the key of each part it newly names is shared or about to be; `Removes`; and
`Cascades`, no live contract of the part is neither stamped nor still to be.  Beside
these, `Apart`: no two requests write one row or one place; `KeysFree`: nobody has a
part `FOR UPDATE` while its key is shared; `Committed`: committed contracts have places
of their own.  A step that commits nothing keeps what holds of the others because it
touches only what is its own (`OthersLocal`); a commit does because of the locks
(`CommitOthers`): a contract that a commit puts on a part being deleted would need that
part's key.  From `Inv`, each COMMIT is a step of `GraphCommits` and the rest stutters
(`CommitsSound`), and `DeletedForGood` follows from `GraphCommits`' steps alone.  For
`DeadlockTakesBoth`, `WaitsFor` lists whom each statement can wait for, and where those
are: without a cascade the waits go in one direction; among cascades, each waits for one
whose next contract is greater, and finitely many ids have a greatest
(`GreatestNatural`, from the well-foundedness of `<`).

**`Account`** makes `MintsAccountedFor` inductive.  A pod *owes* a mint when its run is at
the request for one, or what it runs on, or finds in the Secret once it is replaced, is no
token or a dead one; a run that is at its patch has paid.  Mints and debts together
stay within one a pod, one a pod for each dead token that was in the Secret (`Spent`), and
one a fault.  A death, or the patch of a token that died on the way, makes at most
every pod owe and adds one to `Spent`; a fault makes one pod owe; a mint pays a debt;
nothing else adds to either side.  `OwnPatch` is why a token enters `Spent` only once:
what a run is about to patch in was never in the Secret.

**`MigrationsProofs`.**  A schema alone would not do as the invariant: whether an UPDATE or a
new CHECK is refused depends on the rows, and they are what the checks of earlier
revisions let in.  `Surveyed` (`AlwaysSurveyed`) is therefore about both: the database
without its rows is a `Known` point; each table's rows have its columns (`Typed`) and
meet the checks and unique keys in force, and are NULL where there is no column yet
(`Hold`); only connections have labels (`Paired`), and contracts are between parts that
exist (`Linked`).  The argument has two halves.

One is computed.  There are finitely many points whatever the rows are, and
`PathsAssumption` says of each: it is the schema and the templates of its revision (and,
at head, those of the models); the upgrade from it, if there is one, fails for no rows
that the facts are true of, and the downgrade not for the schema; both end at a known
point, with the facts of that point; the upgrade undoes the downgrade, unless that
drops a column that rows here have (`LossyForRows`).  It is an assumption in form only: no CONSTANT and no variable of the
specification is in it, and TLC, which evaluates it in `migrated_rows`, finds it true.

The other is proved: what is told of a database without its rows is true of the database
with them.  `StepTold` says so of each of the 14 statements (a fact that follows from
those known is true of the rows, a statement that is `Sure` is not refused, what a CHECK
or a key says of rows survives `FactsAfter`), `RunTold` of a sequence of them, by the
least statement where it would go wrong, and `CommandTold` of the two commands.  The
rows that the API writes meet the checks of the point by `Fits` and the rest by their
shape.  Then `UpgradesAlwaysApply`, `DowngradesAlwaysRefusedForRows`, `OneSchemaAlways` and
`HeadAlwaysMatchesModels` follow from `Surveyed`.  `RoundTripAlwaysKeepsRows` takes
`Undoes`: of each table whose rows the downgrade changed, the upgrade makes the opposite
change, and no row had the value it starts from (`UndoneRows`).  `UpgradeAlwaysKeepsRows`
takes `KeepsRows`: an upgrade fills subtypes where there were none, or turns `member-of`
contracts, and both leave admitted what the rules admitted (`TurnedAdmitted`).

Assumed there: the values that stand for nobody and nothing differ from those they
stand beside, the sets are of the kinds the modules say, `Ttl` is positive.  The ids of
contracts, in `GraphTx`, and the pods of a deployment, in `TokenInit`, are finitely many.
`Graph`'s theorems hold for whatever `Admits` is and for whichever subtypes and shapes are
in use.  TLC agreed with `GraphInv` on the scenarios of `graph`, with `Inv` on two and on
three requests, with `Account` on two
pods and two deaths, and with `Surveyed` on two parts and a contract, before they were
proved.

Only model-checked: liveness (`Answered`, `Ready`), since fairness and ENABLED are beyond
the prover.  Every other property of a passing run is a theorem; of those of `Migrations`,
the half that computes with the 25 revisions is TLC's, as said above.

## Not modelled

Reads, search, pagination and histories other than `list_proposals` (single SELECTs
that change nothing); the HTTP surface; the text of documents and templates; projects
and owner columns, which no handler but their own looks at (one column, one locked
row); `update_contract`, which stores a document.  Pool limits, statement timeouts and
the isolation of other clients of the database are the deployment's.  Of tokens,
hashing and randomness; of OIDC, the claims other than the signature; of the
migrations, columns and comments that no later statement depends on, and open
endpoint-shift proposals, which 0024 does not turn although it turns their contracts.

## Plan

Done: all the modules above, and the proof of every safety property, action property
and refinement that a run checks.  To come, in this order:

1. An abstract specification of parts, one COMMIT a step as in `GraphCommits`, and
   `PartTx` shown to implement it.
2. Projects and the reassignment of owners.
