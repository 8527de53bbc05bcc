------------------------------- MODULE Schema -------------------------------
(***************************************************************************)
(* The statements the Alembic revisions of src/alembic/versions are made   *)
(* of, and what PostgreSQL does with each: the names it demands or refuses *)
(* and the rows it rewrites or rejects.  (External: Alembic's op.* and     *)
(* PostgreSQL's ALTER TABLE, modelled from how the revisions use them.)    *)
(*                                                                         *)
(* A database is [objects, rows, error].  An object is a column, an index  *)
(* or a constraint of a table.  rows maps each existing table to its rows, *)
(* by id; a row is a record.  The first statement that fails sets error,   *)
(* and the statements after it do nothing.                                 *)
(***************************************************************************)
EXTENDS Integers, FiniteSets, SequencesExt

NoValue == "none"                                         \* SQL's NULL

Plain == <<"object">>                    \* a column, an index, a key
Refers(table) == <<"refers", table>>     \* a column with a foreign key
Allows(column, values) == <<"allows", column, values>>    \* CHECK (column IN ...)
\* A unique key over the columns, as a constraint or as an index; "live": WHERE
\* deleted_at IS NULL.
Unique(columns, scope, form) == <<"unique", columns, scope, form>>

Object(table, name, is) == [table |-> table, name |-> name, is |-> is]

\* f, and x mapped to v.
Put(f, x, v) == [y \in DOMAIN f \union {x} |-> IF y = x THEN v ELSE f[y]]

EmptyDatabase == [objects |-> {}, rows |-> << >>, error |-> NoValue]

-----------------------------------------------------------------------------
(* Statements *)

CreateTable(t, os) == [do |-> "create_table", table |-> t, objects |-> os]
DropTable(t) == [do |-> "drop_table", table |-> t]
RenameTable(t, u) == [do |-> "rename_table", table |-> t, new |-> u]
Add(t, name, is) == [do |-> "add", objects |-> {Object(t, name, is)}]
AddColumns(t, names) == [do |-> "add", objects |-> {Object(t, n, Plain) : n \in names}]
Drop(t, names) == [do |-> "drop", table |-> t, names |-> names]
DropIndex(t, name) == [do |-> "drop_unique", table |-> t, name |-> name, form |-> "index"]
DropUnique(t, name) == [do |-> "drop_unique", table |-> t, name |-> name, form |-> "constraint"]
DropCheckOn(t, column, values) ==
  [do |-> "drop_check", table |-> t, column |-> column, values |-> values]
Rename(t, old, new) == [do |-> "rename", table |-> t, old |-> old, new |-> new]
Fill(t, column, value) ==
  [do |-> "fill", table |-> t, column |-> column, value |-> value]
Relabel(t, column, old, new) ==
  [do |-> "relabel", table |-> t, column |-> column, old |-> old, new |-> new]
Turn(old, new) == [do |-> "turn", old |-> old, new |-> new]
Seed(kinds) == [do |-> "seed", kinds |-> kinds]
Unseed(kinds) == [do |-> "unseed", kinds |-> kinds]
Guard(t, columns) == [do |-> "guard", table |-> t, columns |-> columns]

\* A CHECK of a closed list is replaced: dropped by name, created again.
Recheck(t, name, column, values) ==
  << Drop(t, {name}), Add(t, name, Allows(column, values)) >>

-----------------------------------------------------------------------------
(* What a statement does *)

Values(rs, column) == {rs[i][column] : i \in DOMAIN rs}

Distinct(rs, columns, scope) ==
  LET counted == {i \in DOMAIN rs : scope = "live" => ~rs[i].deleted_at}
  IN  \A i, j \in counted : i # j => \E c \in columns : rs[i][c] # rs[j][c]

\* NULL passes a CHECK; the unique keys are NULLS NOT DISTINCT.
Meets(rs, is) ==
  CASE is[1] = "allows" -> Values(rs, is[2]) \ {NoValue} \subseteq is[3]
    [] is[1] = "unique" -> Distinct(rs, is[2], is[3])
    [] OTHER -> TRUE

Fits(rows, o) == Meets(rows[o.table], o.is)

Update(rows, t, change(_)) == [rows EXCEPT ![t] = [i \in DOMAIN @ |-> change(@[i])]]

\* A row that loses columns: their values are gone, and a row whose deleted_at is
\* gone is a live row again.
WithoutRow(r, names) ==
  [f \in DOMAIN r |-> IF f \notin names THEN r[f]
                      ELSE IF f = "deleted_at" THEN FALSE ELSE NoValue]

FillRow(r, s) == [r EXCEPT ![s.column] = s.value]
RelabelRow(r, s) == IF r[s.column] = s.old THEN [r EXCEPT ![s.column] = s.new] ELSE r

\* Mutant: the label changes, the direction does not.
TurnRowLabel(r, s) ==
  IF r.connection_type = s.old THEN [r EXCEPT !.connection_type = s.new] ELSE r

\* Mutant: owner and counterparty change places on the way up only.
TurnRowUp(r, s) ==
  IF r.connection_type = s.old
  THEN [r EXCEPT !.connection_type = s.new,
                 !.owner = IF s.new = "composes" THEN r.counterparty ELSE r.owner,
                 !.counterparty = IF s.new = "composes" THEN r.owner ELSE @]
  ELSE r

\* The label changes and owner and counterparty change places, in one UPDATE.
TurnRow(r, s) ==
  IF r.connection_type = s.old
  THEN [r EXCEPT !.connection_type = s.new, !.owner = r.counterparty, !.counterparty = r.owner]
  ELSE r

Failed(db, e) == [db EXCEPT !.error = e]

DoCreateTable(db, s) ==
  IF s.table \in DOMAIN db.rows
  THEN Failed(db, "schema")
  ELSE [db EXCEPT !.objects = @ \union s.objects, !.rows = Put(@, s.table, << >>)]

\* A table another one refers to is not dropped.
DoDropTable(db, s) ==
  IF \/ s.table \notin DOMAIN db.rows
     \/ \E o \in db.objects : o.table # s.table /\ o.is = Refers(s.table)
  THEN Failed(db, "schema")
  ELSE [db EXCEPT !.objects = {o \in @ : o.table # s.table},
                  !.rows = [t \in DOMAIN @ \ {s.table} |-> @[t]]]

DoRenameTable(db, s) ==
  LET new(t) == IF t = s.table THEN s.new ELSE t
      is(o) == IF o.is = Refers(s.table) THEN Refers(s.new) ELSE o.is
  IN  IF s.table \notin DOMAIN db.rows \/ s.new \in DOMAIN db.rows
      THEN Failed(db, "schema")
      ELSE [db EXCEPT !.objects = {Object(new(o.table), o.name, is(o)) : o \in @},
                      !.rows = Put([t \in DOMAIN @ \ {s.table} |-> @[t]], s.new, @[s.table])]

Names(db, t) == {o.name : o \in {p \in db.objects : p.table = t}}

DoAdd(db, s) ==
  IF \E o \in s.objects : o.table \notin DOMAIN db.rows \/ o.name \in Names(db, o.table)
  THEN Failed(db, "schema")
  ELSE IF \A o \in s.objects : Fits(db.rows, o)
       THEN [db EXCEPT !.objects = @ \union s.objects]
       ELSE Failed(db, "rows")

DoDrop(db, s) ==
  IF ~(s.names \subseteq Names(db, s.table))
  THEN Failed(db, "schema")
  ELSE [db EXCEPT !.objects = {o \in @ : ~(o.table = s.table /\ o.name \in s.names)},
                  !.rows = Update(@, s.table, LAMBDA r : WithoutRow(r, s.names))]

\* DROP INDEX refuses the index behind a constraint, DROP CONSTRAINT an index.
DoDropUnique(db, s) ==
  LET found == {o \in db.objects : /\ o.table = s.table /\ o.name = s.name
                                   /\ o.is[1] = "unique" /\ o.is[4] = s.form}
  IN  IF found = {} THEN Failed(db, "schema") ELSE [db EXCEPT !.objects = @ \ found]

\* pg_constraint searched by definition: scalar_one() wants exactly one match.
DoDropCheckOn(db, s) ==
  LET found == {o \in db.objects : /\ o.table = s.table /\ o.is[1] = "allows"
                                   /\ o.is[2] = s.column /\ s.values \subseteq o.is[3]}
  IN  IF Cardinality(found) # 1
      THEN Failed(db, "schema")
      ELSE [db EXCEPT !.objects = @ \ found]

DoRename(db, s) ==
  IF s.old \notin Names(db, s.table) \/ s.new \in Names(db, s.table)
  THEN Failed(db, "schema")
  ELSE [db EXCEPT !.objects =
          {IF o.table = s.table /\ o.name = s.old THEN [o EXCEPT !.name = s.new] ELSE o : o \in @}]

\* An UPDATE is refused by a CHECK or a unique key its new rows break.
DoUpdate(db, rows) ==
  IF \A o \in db.objects : Fits(rows, o)
  THEN [db EXCEPT !.rows = rows]
  ELSE Failed(db, "rows")

DoFill(db, s) == DoUpdate(db, Update(db.rows, s.table, LAMBDA r : FillRow(r, s)))
DoRelabel(db, s) == DoUpdate(db, Update(db.rows, s.table, LAMBDA r : RelabelRow(r, s)))
DoTurn(db, s) == DoUpdate(db, Update(db.rows, "contracts", LAMBDA r : TurnRow(r, s)))

DoSeed(db, s) ==
  IF s.kinds \intersect Values(db.rows["templates"], "kind") # {}
  THEN Failed(db, "rows")
  ELSE DoUpdate(db, [db.rows EXCEPT !["templates"] =
         [i \in DOMAIN @ \union s.kinds |-> IF i \in DOMAIN @ THEN @[i] ELSE [kind |-> i]]])

DoUnseed(db, s) ==
  [db EXCEPT !.rows["templates"] =
    [i \in {j \in DOMAIN @ : @[j].kind \notin s.kinds} |-> @[i]]]

DoGuard(db, s) ==
  IF Distinct(db.rows[s.table], s.columns, "all") THEN db ELSE Failed(db, "rows")

Do(db, s) ==
  IF db.error # NoValue THEN db
  ELSE CASE s.do = "create_table" -> DoCreateTable(db, s)
         [] s.do = "drop_table" -> DoDropTable(db, s)
         [] s.do = "rename_table" -> DoRenameTable(db, s)
         [] s.do = "add" -> DoAdd(db, s)
         [] s.do = "drop" -> DoDrop(db, s)
         [] s.do = "drop_unique" -> DoDropUnique(db, s)
         [] s.do = "drop_check" -> DoDropCheckOn(db, s)
         [] s.do = "rename" -> DoRename(db, s)
         [] s.do = "fill" -> DoFill(db, s)
         [] s.do = "relabel" -> DoRelabel(db, s)
         [] s.do = "turn" -> DoTurn(db, s)
         [] s.do = "seed" -> DoSeed(db, s)
         [] s.do = "unseed" -> DoUnseed(db, s)
         [] s.do = "guard" -> DoGuard(db, s)

\* A revision's statements run in order, in one transaction.
Run(db, steps) ==
  LET after[i \in 0..Len(steps)] == IF i = 0 THEN db ELSE Do(after[i - 1], steps[i])
  IN  after[Len(steps)]
=============================================================================
