------------------------------ MODULE RowFacts ------------------------------
(***************************************************************************)
(* What can be told of a revision's run without the rows of the database:  *)
(* which statements fail for the schema, which cannot fail for any rows    *)
(* the checks and unique keys admit, and what becomes of each table.       *)
(*                                                                         *)
(* A view is a database without rows (but for the templates, which the     *)
(* revisions themselves write), the facts known of the missing rows, and   *)
(* where the rows of each table came from.  The proofs show that a view    *)
(* which starts out true of a database stays true of it.                   *)
(***************************************************************************)
EXTENDS Schema

\* The fields of a row; the other tables get no rows but the templates.
Fields(t) ==
  CASE t \in {"software", "parts"} -> {"name", "subtype", "deleted_at"}
    [] t = "contracts" -> {"owner", "counterparty", "subtype", "connection_type", "deleted_at"}
    [] t = "part_subtype_proposals" -> {"new_subtype"}
    [] t = "contract_subtype_proposals" -> {"new_connection_type"}
    [] OTHER -> {}

\* The fields whose columns come and go; without a column they are NULL.
Nullable(t) == Fields(t) \intersect {"subtype", "connection_type"}

Bare(rows) == [t \in DOMAIN rows |-> IF t = "templates" THEN rows[t] ELSE << >>]
Emptied(db) == [db EXCEPT !.rows = Bare(@)]

-----------------------------------------------------------------------------
(* Facts <<table, is>>: the rows of the table meet what a check or a unique  *)
(* key, in force or dropped a statement ago, says of them.                   *)

RowFact(is) == is[1] \in {"allows", "unique"}
Null(t, column) == <<t, Allows(column, {})>>

FactsOf(objects) ==
  {<<o.table, o.is>> : o \in {p \in objects : RowFact(p.is) /\ p.table # "templates"}}

Implies(f, g) ==
  /\ f[1] = g[1] /\ f[2][1] = g[2][1]
  /\ \/ f[2][1] = "allows" /\ f[2][2] = g[2][2] /\ f[2][3] \subseteq g[2][3]
     \/ f[2][1] = "unique" /\ f[2][2] \subseteq g[2][2] /\ f[2][3] \in {"all", g[2][3]}

Follows(g, facts) == \E f \in facts : Implies(f, g)

Mentioned(is) ==
  IF is[1] = "allows" THEN {is[2]}
  ELSE is[2] \union (IF is[3] = "live" THEN {"deleted_at"} ELSE {})

\* It is about columns the rows have.
InRow(t, is) == Fields(t) = {} \/ Mentioned(is) \subseteq Fields(t)

\* The facts that say nothing of these columns.
Spared(facts, t, columns) ==
  {f \in facts : f[1] = t => Mentioned(f[2]) \intersect columns = {}}

\* The lists the values of a column are known to be in.
Lists(facts, t, column) ==
  {f[2][3] : f \in {g \in facts : g[1] = t /\ g[2][1] = "allows" /\ g[2][2] = column}}

Relabelled(facts, t, column, old, new) ==
  {<<t, Allows(column, {IF v = old THEN new ELSE v : v \in vs})>> : vs \in Lists(facts, t, column)}

\* A key over all three columns outlives the turn if no row has the new label yet.
TurnedColumns == {"owner", "counterparty", "connection_type"}
KeysOverTurn(facts, new) ==
  {f \in facts : /\ f[1] = "contracts" /\ f[2][1] = "unique" /\ TurnedColumns \subseteq f[2][2]
                 /\ \E vs \in Lists(facts, "contracts", "connection_type") : new \notin vs}

FactsAfter(facts, s) ==
  CASE s.do = "create_table" ->
         facts \union FactsOf(s.objects) \union {Null(s.table, c) : c \in Nullable(s.table)}
    [] s.do = "drop_table" -> {f \in facts : f[1] # s.table}
    [] s.do = "rename_table" -> {<<IF f[1] = s.table THEN s.new ELSE f[1], f[2]>> : f \in facts}
    [] s.do = "add" -> facts \union FactsOf(s.objects)
    [] s.do = "drop" ->
         Spared(facts, s.table, s.names)
         \union {Null(s.table, c) : c \in Nullable(s.table) \intersect s.names}
    [] s.do = "fill" ->
         Spared(facts, s.table, {s.column}) \union {<<s.table, Allows(s.column, {s.value})>>}
    [] s.do = "relabel" ->
         Spared(facts, s.table, {s.column})
         \union Relabelled(facts, s.table, s.column, s.old, s.new)
    [] s.do = "turn" ->
         Spared(facts, "contracts", TurnedColumns) \union KeysOverTurn(facts, s.new)
         \union Relabelled(facts, "contracts", "connection_type", s.old, s.new)
    [] s.do = "guard" -> facts \union {<<s.table, Unique(s.columns, "all", "index")>>}
    [] OTHER -> facts

\* Rows of which the facts are true fit o: exactly, for the templates.
Foreseen(db, facts, o) ==
  \/ ~RowFact(o.is)
  \/ o.table = "templates" /\ "templates" \in DOMAIN db.rows /\ Fits(db.rows, o)
  \/ o.table # "templates" /\ Follows(<<o.table, o.is>>, facts)

\* No rows of which the facts are true make s fail.
Sure(db, facts, s) ==
  CASE s.do = "add" -> \A o \in s.objects : Foreseen(db, facts, o)
    [] s.do \in {"fill", "relabel", "turn", "seed"} ->
         \A o \in db.objects : Foreseen(Do(db, s), FactsAfter(facts, s), o)
    [] s.do = "guard" -> Follows(<<s.table, Unique(s.columns, "all", "index")>>, facts)
    [] OTHER -> TRUE

-----------------------------------------------------------------------------
(* Where the rows of a table came from: the table that had them before the  *)
(* run, and the statement, if there was one, that has changed them since.   *)

Nothing == [do |-> "nothing"]
TooMuch == [do |-> "too_much"]
Origin(t, change) == [table |-> t, change |-> change]
Nowhere == Origin("nowhere", Nothing)

ChangedRow(r, s) ==
  CASE s.do = "nothing" -> r
    [] s.do = "drop" -> WithoutRow(r, s.names)
    [] s.do = "fill" -> FillRow(r, s)
    [] s.do = "relabel" -> RelabelRow(r, s)
    [] s.do = "turn" -> TurnRow(r, s)

Changed(came, t, s) ==
  [came EXCEPT ![t] = Origin(@.table, IF @.change = Nothing THEN s ELSE TooMuch)]

CameAfter(came, s) ==
  CASE s.do = "create_table" -> Put(came, s.table, Nowhere)
    [] s.do = "drop_table" -> [t \in DOMAIN came \ {s.table} |-> came[t]]
    [] s.do = "rename_table" ->
         Put([t \in DOMAIN came \ {s.table} |-> came[t]], s.new, came[s.table])
    [] s.do = "drop" /\ s.names \intersect Fields(s.table) # {} -> Changed(came, s.table, s)
    [] s.do \in {"fill", "relabel"} -> Changed(came, s.table, s)
    [] s.do = "turn" -> Changed(came, "contracts", s)
    [] OTHER -> came

-----------------------------------------------------------------------------
\* The statements the facts are right about.
Clear(db, s) ==
  CASE s.do = "create_table" ->
         \A o \in s.objects : o.table = s.table /\ (RowFact(o.is) => InRow(o.table, o.is))
    [] s.do = "add" -> \A o \in s.objects : RowFact(o.is) => InRow(o.table, o.is)
    [] s.do = "rename_table" ->
         "templates" \notin {s.table, s.new} /\ Fields(s.table) = Fields(s.new)
    [] s.do = "drop" -> s.table \in DOMAIN db.rows
    [] s.do = "guard" ->
         /\ s.table \in DOMAIN db.rows \ {"templates"}
         /\ InRow(s.table, Unique(s.columns, "all", "index"))
    [] s.do = "fill" -> s.table \in DOMAIN db.rows /\ s.column \in Fields(s.table)
    [] s.do = "relabel" ->
         /\ s.table \in DOMAIN db.rows /\ NoValue \notin {s.old, s.new}
         /\ s.table = "templates" \/ s.column \in Fields(s.table)
    [] s.do = "turn" -> "contracts" \in DOMAIN db.rows /\ NoValue \notin {s.old, s.new}
    [] s.do \in {"seed", "unseed"} -> "templates" \in DOMAIN db.rows
    [] OTHER -> s.do \in {"drop_table", "drop_unique", "drop_check", "rename"}

View(db, facts, came, clear, sure) ==
  [db |-> db, facts |-> facts, came |-> came, clear |-> clear, sure |-> sure]

\* What is known of a database between two commands.
AtRest(db) ==
  View(db,
       FactsOf(db.objects)
         \union UNION {{Null(t, c) : c \in {d \in Nullable(t) :
                                        ~\E o \in db.objects : o.table = t /\ o.name = d}}
                       : t \in DOMAIN db.rows},
       [t \in DOMAIN db.rows |-> Origin(t, Nothing)], TRUE, TRUE)

Foresee(v, s) ==
  View(Do(v.db, s), FactsAfter(v.facts, s), CameAfter(v.came, s),
       v.clear /\ Clear(v.db, s), v.sure /\ Sure(v.db, v.facts, s))

Outlook(v, steps) ==
  LET after[i \in 0..Len(steps)] == IF i = 0 THEN v ELSE Foresee(after[i - 1], steps[i])
  IN  after[Len(steps)]

-----------------------------------------------------------------------------
(* What a view says of a database.  A function is compared with others by   *)
(* its values (IsFcn), a database by its fields.                            *)

IsFcn(f) == f = [x \in DOMAIN f |-> f[x]]
IsDb(db) == db = [objects |-> db.objects, rows |-> db.rows, error |-> db.error]

TypedTable(t, rs) ==
  IF Fields(t) = {} THEN rs = << >>
  ELSE IsFcn(rs) /\ \A i \in DOMAIN rs : IsFcn(rs[i]) /\ DOMAIN rs[i] = Fields(t)

Typed(rs) == IsFcn(rs) /\ \A t \in DOMAIN rs \ {"templates"} : TypedTable(t, rs[t])

Hold(rs, facts) ==
  \A f \in facts :
    /\ f = <<f[1], f[2]>> /\ RowFact(f[2])
    /\ f[1] \in DOMAIN rs \ {"templates"} /\ InRow(f[1], f[2]) /\ Meets(rs[f[1]], f[2])

\* The rows now, of a table whose origin is o, from those before the run.
Stems(was, now, o) ==
  IF o.table = "nowhere" THEN DOMAIN now = {}
  ELSE /\ o.table \in DOMAIN was
       /\ o.change # TooMuch =>
            /\ DOMAIN now = DOMAIN was[o.table]
            /\ \A i \in DOMAIN now : now[i] = ChangedRow(was[o.table][i], o.change)

CameTrue(was, rs, came) ==
  /\ DOMAIN came = DOMAIN rs
  /\ \A t \in DOMAIN rs \ {"templates"} : Stems(was, rs[t], came[t])

Seen(was, db, v) ==
  /\ IsDb(db) /\ v.db = Emptied(db)
  /\ Typed(db.rows) /\ Hold(db.rows, v.facts) /\ CameTrue(was, db.rows, v.came)
=============================================================================
