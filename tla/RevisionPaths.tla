---------------------------- MODULE RevisionPaths ----------------------------
(***************************************************************************)
(* The revisions and schemas alembic can reach, and what RowFacts tells of *)
(* the runs between them.  No definition here has a CONSTANT in it: the    *)
(* assumption at the end is one closed formula about the 25 revisions,     *)
(* which TLC evaluates.                                                    *)
(***************************************************************************)
EXTENDS Migrations, RowFacts

\* A point <<revision, database without rows>>, and the runs from it.
Ahead(p) == Outlook(AtRest(p[2]), Upgrades[p[1] + 1])
Back(p) == Outlook(AtRest(p[2]), Downgrades[p[1]])

Above(p) == <<p[1] + 1, Ahead(p).db>>
Below(p) == <<p[1] - 1, Back(p).db>>

Neighbours(p) ==
  {Above(q) : q \in {r \in {p} : r[1] < LastRev}}
  \union {Below(q) : q \in {r \in {p} : r[1] > 0}}

\* The points within n commands of the empty database.
Explored[n \in Nat] ==
  IF n = 0 THEN [all |-> {<<0, EmptyDatabase>>}, new |-> {<<0, EmptyDatabase>>}]
  ELSE LET e == Explored[n - 1]
           found == UNION {Neighbours(p) : p \in e.new}
       IN  [all |-> e.all \union found, new |-> found \ e.all]

\* Bound: alembic needs no more commands than this to get anywhere.
MaxCommands == 2 * LastRev
Known == Explored[MaxCommands].all

-----------------------------------------------------------------------------
\* The table of the parts, which 0005 renames.
PartsIn(tables) == IF "parts" \in tables THEN "parts" ELSE "software"

PointIsRight(p) ==
  /\ p[1] \in 0..LastRev
  /\ {Meaning(o) : o \in p[2].objects} = MeaningAt[p[1]]
  /\ p[1] >= 2 =>
       "templates" \in DOMAIN p[2].rows /\ Values(p[2].rows["templates"], "kind") = KindsAt[p[1]]
  /\ p[1] = LastRev =>
       {<<o.table, o.is[2], o.is[3]>> : o \in {c \in p[2].objects : c.is[1] = "allows"}} = ModelLists
  /\ "nowhere" \notin DOMAIN p[2].rows /\ \A o \in p[2].objects : o.table \in DOMAIN p[2].rows
  /\ \A f \in AtRest(p[2]).facts : InRow(f[1], f[2])

\* A run that does not fail for the schema ends with what is known of a database at rest.
Arrives(v) ==
  /\ v.clear /\ v.db.error = NoValue
  /\ \A f \in AtRest(v.db).facts : Follows(f, v.facts)

\* A contract with a label is a connection, whatever the run does to contracts.
KeepsPaired(p, v) ==
  "contracts" \in DOMAIN v.came =>
    LET o == v.came["contracts"]
        unlabelled == Null("contracts", "connection_type") \in AtRest(p[2]).facts
    IN  \/ o.table = "nowhere"
        \/ /\ o.table = "contracts"
           /\ \/ o.change = Nothing
              \/ o.change.do = "fill" /\ o.change.column = "subtype" /\ unlabelled
              \/ o.change.do = "turn" /\ o.change.old # NoValue
              \/ /\ o.change.do = "drop"
                 /\ "subtype" \in o.change.names => unlabelled

\* The parts keep their ids, and the contracts the parts they name.
KeepsLinked(p, v) ==
  "contracts" \in DOMAIN v.came =>
    LET o == v.came["contracts"]
        parts == v.came[PartsIn(DOMAIN v.came)]
    IN  \/ o.table = "nowhere"
        \/ /\ o.table = "contracts"
           /\ \/ o.change.do \in {"nothing", "turn"}
              \/ o.change.do = "fill" /\ o.change.column \notin {"owner", "counterparty"}
              \/ o.change.do = "drop" /\ {"owner", "counterparty"} \intersect o.change.names = {}
           /\ PartsIn(DOMAIN v.came) \in DOMAIN v.came
           /\ parts.table = PartsIn(DOMAIN p[2].rows) /\ parts.change # TooMuch

\* What an upgrade does to parts and contracts: the subtypes of 0005 and 0006, where
\* there were none, and the turn of 0024.
KeepsRows(p, v) ==
  LET facts == AtRest(p[2]).facts
      parts == v.came[PartsIn(DOMAIN v.came)]
      contracts == v.came["contracts"]
      fresh(t, column) == Null(t, column) \in facts
  IN  /\ {"contracts", PartsIn(DOMAIN v.came)} \subseteq DOMAIN v.came
      /\ parts.table = PartsIn(DOMAIN p[2].rows)
      /\ contracts.table = "contracts"
      /\ \/ parts.change = Nothing /\ contracts.change = Nothing
         \/ /\ parts.change.do = "fill" /\ parts.change.column = "subtype"
            /\ fresh(parts.table, "subtype") /\ contracts.change = Nothing
            /\ fresh("contracts", "subtype") /\ fresh("contracts", "connection_type")
         \/ /\ parts.change = Nothing
            /\ contracts.change = Fill("contracts", "subtype", "interaction")
            /\ fresh("contracts", "connection_type")
         \/ parts.change = Nothing /\ contracts.change = Turn("member-of", "composes")

\* The upgrade undoes what the downgrade did to the rows of t.
Undoes(t, p, down, up) ==
  LET s == down.came[t].change
      lacks(facts, column, value) == \E vs \in Lists(facts, t, column) : value \notin vs
  IN  /\ t \in DOMAIN down.came /\ t \in DOMAIN up.came
      /\ down.came[t].table = t /\ up.came[t].table = t
      /\ \/ s = Nothing /\ up.came[t].change = Nothing
         \/ /\ t = "contracts" /\ s.do = "drop" /\ s.names = {"connection_type"}
            /\ up.came[t].change = Nothing
            /\ lacks(down.facts, "subtype", "connection")
         \/ /\ t = "contracts" /\ s.do = "turn" /\ NoValue \notin {s.old, s.new}
            /\ up.came[t].change = Turn(s.new, s.old)
            /\ lacks(AtRest(p[2]).facts, "connection_type", s.new)
         \/ /\ s.do = "relabel" /\ NoValue \notin {s.old, s.new}
            /\ up.came[t].change = Relabel(t, s.column, s.new, s.old)
            /\ lacks(AtRest(p[2]).facts, s.column, s.new)

ComesBack(p) ==
  LET up == Ahead(Below(p))
  IN  /\ up.db.rows = p[2].rows
      /\ \A t \in DOMAIN p[2].rows : Fields(t) # {} => Undoes(t, p, Back(p), up)

ASSUME PathsAssumption ==
  /\ LastRev \in Nat
  /\ \A r \in 1..LastRev : Len(Upgrades[r]) \in Nat /\ Len(Downgrades[r]) \in Nat
  /\ <<0, EmptyDatabase>> \in Known
  /\ \A p \in Known :
       /\ PointIsRight(p)
       /\ p[1] < LastRev =>
            /\ Above(p) \in Known
            /\ Arrives(Ahead(p)) /\ Ahead(p).sure
            /\ KeepsPaired(p, Ahead(p)) /\ KeepsLinked(p, Ahead(p))
            /\ p[1] > 0 => KeepsRows(p, Ahead(p))
       /\ p[1] > 0 =>
            /\ Below(p) \in Known
            /\ Arrives(Back(p)) /\ KeepsPaired(p, Back(p)) /\ KeepsLinked(p, Back(p))
            /\ p[1] \notin LossyForRows => ComesBack(p)

-----------------------------------------------------------------------------
\* A labelled contract is a connection.
Paired(rs) ==
  "contracts" \in DOMAIN rs =>
    \A c \in DOMAIN rs["contracts"] :
      rs["contracts"][c].connection_type # NoValue => rs["contracts"][c].subtype = "connection"

\* A contract is between parts that exist.
Linked(rs) ==
  "contracts" \in DOMAIN rs =>
    \A c \in DOMAIN rs["contracts"] :
      {rs["contracts"][c].owner, rs["contracts"][c].counterparty}
        \subseteq DOMAIN rs[PartsIn(DOMAIN rs)]

Rested(r, db) ==
  /\ IsDb(db) /\ db.error = NoValue /\ <<r, Emptied(db)>> \in Known
  /\ Typed(db.rows) /\ Hold(db.rows, AtRest(Emptied(db)).facts)
  /\ Paired(db.rows) /\ Linked(db.rows)

\* Whatever the commands and the writes, the database is at a known point, its rows
\* have the columns and meet the checks and unique keys of that point, only
\* connections have labels, and contracts are between parts that exist: the inductive
\* invariant of the migrations.
Surveyed == Rested(rev, Database)
=============================================================================
