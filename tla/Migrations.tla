----------------------------- MODULE Migrations -----------------------------
(***************************************************************************)
(* A database that alembic takes up and down the revisions while, between  *)
(* two commands, the API writes rows to it.                                *)
(*                                                                         *)
(* alembic/env.py runs a command in one transaction, so a revision either  *)
(* applies whole or leaves no trace, and a longer command is a sequence of *)
(* the steps below with no row written in between.  The releases that ran  *)
(* on the older revisions are not in the repository: a row of any revision *)
(* is whatever the columns, checks and unique keys of that revision admit. *)
(***************************************************************************)
EXTENDS Revisions, Rules

CONSTANTS PartIds, ContractIds, ProposalIds, PartNames,
          UsedSubtypes, UsedTypes        \* the part subtypes and labels rows take

ASSUME UsesAssumption == NoValue \notin UsedSubtypes \union UsedTypes

VARIABLES rev, objects, rows

vars == <<rev, objects, rows>>

LastRev == Len(Upgrades)

Database == [objects |-> objects, rows |-> rows, error |-> NoValue]
PartTable == IF "parts" \in DOMAIN rows THEN "parts" ELSE "software"
HasColumn(t, column) == \E o \in objects : o.table = t /\ o.name = column

Init == rev = 0 /\ objects = EmptyDatabase.objects /\ rows = EmptyDatabase.rows

-----------------------------------------------------------------------------
(* alembic upgrade +1 and downgrade -1 *)

Commit(db, r) ==
  /\ db.error = NoValue
  /\ rev' = r /\ objects' = db.objects /\ rows' = db.rows

Upgrade == rev < LastRev /\ Commit(Run(Database, Upgrades[rev + 1]), rev + 1)
Downgrade == rev > 0 /\ Commit(Run(Database, Downgrades[rev]), rev - 1)

-----------------------------------------------------------------------------
(* Rows.  A column that does not exist yet reads as NULL (FALSE, for       *)
(* deleted_at).                                                            *)

Write(new) ==
  /\ \A o \in objects : Fits(new, o)
  /\ rows' = new /\ UNCHANGED <<rev, objects>>

Insert(t, id, row) ==
  t \in DOMAIN rows /\ id \notin DOMAIN rows[t] /\ Write([rows EXCEPT ![t] = Put(@, id, row)])

RegisterPart(i) ==
  \E n \in PartNames, s \in IF HasColumn(PartTable, "subtype") THEN UsedSubtypes ELSE {NoValue} :
    Insert(PartTable, i, [name |-> n, subtype |-> s, deleted_at |-> FALSE])

Shapes ==
  IF ~HasColumn("contracts", "subtype") THEN {<<NoValue, NoValue>>}
  ELSE ({"interaction", "binding"} \X {NoValue})
       \union (IF HasColumn("contracts", "connection_type") THEN {"connection"} \X UsedTypes ELSE {})

RegisterContract(i) ==
  \E a, b \in {p \in DOMAIN rows[PartTable] : ~rows[PartTable][p].deleted_at}, s \in Shapes :
    /\ a # b
    /\ Insert("contracts", i, [owner |-> a, counterparty |-> b, subtype |-> s[1],
                               connection_type |-> s[2], deleted_at |-> FALSE])

ProposeSubtype(i) ==
  \E s \in UsedSubtypes : Insert("part_subtype_proposals", i, [new_subtype |-> s])

ProposeType(i) ==
  \E t \in UsedTypes : Insert("contract_subtype_proposals", i, [new_connection_type |-> t])

\* A part goes when no live contract touches it.
Delete(t, i) ==
  /\ HasColumn(t, "deleted_at") /\ i \in DOMAIN rows[t]
  /\ t = "parts" =>
       \A c \in DOMAIN rows["contracts"] : LET r == rows["contracts"][c] IN
         i \in {r.owner, r.counterparty} => r.deleted_at
  /\ Write([rows EXCEPT ![t][i].deleted_at = TRUE])

Next ==
  \/ Upgrade
  \/ Downgrade
  \/ \E i \in PartIds : RegisterPart(i)
  \/ rev > 0 /\ \E i \in ContractIds : RegisterContract(i)
  \/ \E i \in ProposalIds : ProposeSubtype(i) \/ ProposeType(i)
  \/ \E t \in {"parts", "contracts"}, i \in PartIds \union ContractIds : Delete(t, i)

Spec == Init /\ [][Next]_vars

-----------------------------------------------------------------------------
(* Properties *)

\* Every upgrade applies, whatever rows the database holds and however it came
\* to its revision: DESIGN.md's upgrade, downgrade, upgrade, for every revision
\* and every sequence of them.
UpgradesApply == rev < LastRev => Run(Database, Upgrades[rev + 1]).error = NoValue

\* A downgrade is refused for the rows it finds, and for nothing else: each
\* downgrade() names the objects its upgrade() left, also after the upgrades
\* that replace a name (0005, 0017, 0022) and the downgrades that do not put it
\* back (0017, 0022).
DowngradesRefusedForRows == rev > 0 => Run(Database, Downgrades[rev]).error # "schema"

\* What a CHECK admits counts, not the name it has.
Meaning(o) == IF o.is[1] = "allows" THEN <<o.table, o.is>> ELSE <<o.table, o.name, o.is>>
SchemaUpTo(r) == Run(EmptyDatabase, FlattenSeq(SubSeq(Upgrades, 1, r)))
MeaningAt == [r \in 0..LastRev |-> {Meaning(o) : o \in SchemaUpTo(r).objects}]
KindsAt == [r \in 2..LastRev |-> Values(SchemaUpTo(r).rows["templates"], "kind")]

\* A revision is one schema and one set of templates: a database that was
\* downgraded to it has the tables, columns, indexes, checks and templates of
\* one that was upgraded to it, up to the names of the checks.
SchemaOfRevision ==
  /\ {Meaning(o) : o \in objects} = MeaningAt[rev]
  /\ rev >= 2 => Values(rows["templates"], "kind") = KindsAt[rev]

\* The closed lists of models.py and schemas.py: the rule table of the routers
\* is written for the subtypes and labels the database admits.
ModelLists ==
  { <<"parts", "subtype", PartSubtypes>>,
    <<"part_subtype_proposals", "new_subtype", PartSubtypes>>,
    <<"contracts", "subtype", {s[1] : s \in ContractShape}>>,
    <<"contracts", "connection_type", {s[2] : s \in ContractShape} \ {NoType}>>,
    <<"contract_subtype_proposals", "new_connection_type",
      {s[2] : s \in ContractShape} \ {NoType}>>,
    <<"templates", "kind", PartSubtypes \union {s[1] : s \in ContractShape}>> }

\* At head the database admits exactly what the API's models admit, in every
\* table that repeats a list.
HeadMatchesModels ==
  rev = LastRev =>
    {<<o.table, o.is[2], o.is[3]>> : o \in {c \in objects : c.is[1] = "allows"}} = ModelLists

\* The rule a live contract was registered under: member-of, the label of the
\* revisions before 0024, went from a container to its compose stack.
Admitted(t, rs, c) ==
  LET r == rs["contracts"][c]
      owner == rs[t][r.owner].subtype
      cp == rs[t][r.counterparty].subtype
  IN  IF r.connection_type = "member-of"
      THEN <<owner, cp>> = <<"container", "compose">>
      ELSE r.subtype = NoValue \/ Admits(<<r.subtype, r.connection_type>>, owner, cp)

\* An upgrade loses nothing: every part and every contract is still there, as
\* live or as deleted as it was, between the same parts, and a contract the
\* connection rules admitted is one they still admit.
UpgradeKeepsRows ==
  [][rev' = rev + 1 /\ rev > 0 =>
       LET t == PartTable
           u == PartTable'
       IN  /\ \A p \in DOMAIN rows[t] :
                /\ p \in DOMAIN rows'[u]
                /\ rows'[u][p].name = rows[t][p].name
                /\ rows'[u][p].deleted_at = rows[t][p].deleted_at
                /\ rows'[u][p].subtype = rows[t][p].subtype \/ rows[t][p].subtype = NoValue
           /\ \A c \in DOMAIN rows["contracts"] :
                /\ c \in DOMAIN rows'["contracts"]
                /\ LET r == rows["contracts"][c]
                       s == rows'["contracts"][c]
                   IN  /\ s.deleted_at = r.deleted_at
                       /\ {s.owner, s.counterparty} = {r.owner, r.counterparty}
                /\ Admitted(t, rows, c) => Admitted(u, rows', c)]_vars

\* The revisions whose downgrade drops a table or a column of the rows above: of a
\* part its slug, subtype and deletion, of a contract its ends, shape and deletion, of
\* a subtype proposal what it asks for.  That is not all that downgrades lose.  0002,
\* 0003, 0004, 0012, 0013, 0015, 0016, 0020 and 0021 drop tables and columns that no
\* row here has (templates, attribution, projects, proposals of names and endpoints,
\* agents, tokens), and so do 0011, 0018 and 0019 besides; 0005 to 0010, 0022 and 0024
\* drop the templates they seeded, and what was published on those.
LossyForRows == {1, 5, 6, 11, 18, 19}

\* These rows come back from any other downgrade that is not refused, by its upgrade:
\* the narrower lists of 0007 to 0010, 0017 and 0022 to 0024 are refused while a row
\* needs the wider one, 0024 turns back what it turned, and the downgrades that drop
\* something else leave parts, contracts and subtype proposals alone.
RoundTripKeepsRows ==
  rev > 0 /\ rev \notin LossyForRows =>
    LET down == Run(Database, Downgrades[rev])
    IN  down.error = NoValue => Run(down, Upgrades[rev]).rows = rows
=============================================================================
