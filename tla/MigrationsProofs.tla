---------------------------- MODULE MigrationsProofs ----------------------------
(***************************************************************************)
(* Migrations, for every set of rows.                                      *)
(*                                                                         *)
(* PathsAssumption says what the revisions do to views, databases without  *)
(* rows; it is one closed formula, and TLC's run decides it.  What is      *)
(* proved first is that views are right about databases, statement by      *)
(* statement and run by run (StepTold, RunTold, CommandTold): a view that  *)
(* is Seen of a database stays so.  The rows that the API writes keep what *)
(* is known at rest (Surveyed).  The properties follow from the two, with  *)
(* what the runs do to parts and contracts (KeepsRows, Undoes).            *)
(***************************************************************************)
EXTENDS RevisionPaths, WellFoundedInduction, TLAPS

-----------------------------------------------------------------------------
(* Runs.  The library's induction takes an operator; a set of naturals, with *)
(* a least element, does as well.                                            *)

LEMMA LeastNatural ==
  ASSUME NEW S \in SUBSET Nat, S # {}
  PROVE  \E m \in S : \A k \in S : m <= k
<1>1. PICK m \in S : \A k \in S : <<k, m>> \notin OpToRel(<, Nat)
  BY NatLessThanWellFounded, WFMin
<1>2. \A k \in S : ~(k < m)
  BY <1>1 DEF OpToRel
<1> QED BY <1>2

LEMMA SetInduction ==
  ASSUME NEW n \in Nat, NEW S, 0 \in S, \A i \in 1..n : i - 1 \in S => i \in S
  PROVE  0..n \subseteq S
<1> SUFFICES ASSUME (0..n) \ S # {} PROVE FALSE
  OBVIOUS
<1> DEFINE missing == (0..n) \ S
<1>1. PICK m \in missing : \A k \in missing : m <= k
  <2>1. missing \in SUBSET Nat /\ missing # {}
    OBVIOUS
  <2> HIDE DEF missing
  <2> QED BY <2>1, LeastNatural
<1>2. m \in 1..n /\ m - 1 \in 0..n
  BY <1>1
<1>3. m - 1 \in S
  BY <1>1, <1>2
<1> QED BY <1>1, <1>2, <1>3

RunOf(db, steps, f, n) == f = [i \in 0..n |-> IF i = 0 THEN db ELSE Do(f[i - 1], steps[i])]

\* The databases a run goes through.
LEMMA RunUnfolds ==
  ASSUME NEW db, NEW steps, Len(steps) \in Nat
  PROVE  \E f : /\ f[0] = db /\ \A i \in 1..Len(steps) : f[i] = Do(f[i - 1], steps[i])
                /\ Run(db, steps) = f[Len(steps)]
<1> DEFINE n == Len(steps)
           S == {i \in 0..n : \E f : RunOf(db, steps, f, i)}
<1>1. 0 \in S
  <2>1. RunOf(db, steps, [i \in 0..0 |-> db], 0)
    BY DEF RunOf
  <2> QED BY <2>1
<1>2. ASSUME NEW i \in 1..n, i - 1 \in S PROVE i \in S
  <2>1. PICK f : RunOf(db, steps, f, i - 1)
    BY <1>2
  <2> DEFINE g == [j \in 0..i |-> IF j = i THEN Do(f[i - 1], steps[i]) ELSE f[j]]
  <2>2. \A j \in 0..i : g[j] = IF j = 0 THEN db ELSE Do(g[j - 1], steps[j])
    <3> TAKE j \in 0..i
    <3>1. CASE j = i
      BY <3>1
    <3>2. CASE j # i
      <4>1. f[j] = IF j = 0 THEN db ELSE Do(f[j - 1], steps[j])
        <5>1. j \in 0..(i - 1)
          BY <3>2
        <5> QED BY <5>1, <2>1 DEF RunOf
      <4>2. j # 0 => g[j - 1] = f[j - 1]
        BY <3>2
      <4> QED BY <3>2, <4>1, <4>2
    <3> QED BY <3>1, <3>2
  <2>3. RunOf(db, steps, g, i)
    BY <2>2 DEF RunOf
  <2> QED BY <2>3
<1>3. n \in S
  <2> HIDE DEF S
  <2>1. 0..n \subseteq S
    BY <1>1, <1>2, SetInduction
  <2> QED BY <2>1
<1>4. \E f : RunOf(db, steps, f, n)
  BY <1>3
<1> DEFINE after == CHOOSE f : RunOf(db, steps, f, n)
<1>5. RunOf(db, steps, after, n)
  BY <1>4
<1>6. Run(db, steps) = after[n]
  BY DEF Run, RunOf
<1> HIDE DEF after
<1>7. after[0] = db /\ \A i \in 1..n : after[i] = Do(after[i - 1], steps[i])
  BY <1>5 DEF RunOf
<1> QED BY <1>6, <1>7
OutlookOf(v, steps, f, n) == f = [i \in 0..n |-> IF i = 0 THEN v ELSE Foresee(f[i - 1], steps[i])]

\* The views an outlook goes through.
LEMMA OutlookUnfolds ==
  ASSUME NEW v, NEW steps, Len(steps) \in Nat
  PROVE  \E f : /\ f[0] = v /\ \A i \in 1..Len(steps) : f[i] = Foresee(f[i - 1], steps[i])
                /\ Outlook(v, steps) = f[Len(steps)]
<1> DEFINE n == Len(steps)
           S == {i \in 0..n : \E f : OutlookOf(v, steps, f, i)}
<1>1. 0 \in S
  <2>1. OutlookOf(v, steps, [i \in 0..0 |-> v], 0)
    BY DEF OutlookOf
  <2> QED BY <2>1
<1>2. ASSUME NEW i \in 1..n, i - 1 \in S PROVE i \in S
  <2>1. PICK f : OutlookOf(v, steps, f, i - 1)
    BY <1>2
  <2> DEFINE g == [j \in 0..i |-> IF j = i THEN Foresee(f[i - 1], steps[i]) ELSE f[j]]
  <2>2. \A j \in 0..i : g[j] = IF j = 0 THEN v ELSE Foresee(g[j - 1], steps[j])
    <3> TAKE j \in 0..i
    <3>1. CASE j = i
      BY <3>1
    <3>2. CASE j # i
      <4>1. f[j] = IF j = 0 THEN v ELSE Foresee(f[j - 1], steps[j])
        <5>1. j \in 0..(i - 1)
          BY <3>2
        <5> QED BY <5>1, <2>1 DEF OutlookOf
      <4>2. j # 0 => g[j - 1] = f[j - 1]
        BY <3>2
      <4> QED BY <3>2, <4>1, <4>2
    <3> QED BY <3>1, <3>2
  <2>3. OutlookOf(v, steps, g, i)
    BY <2>2 DEF OutlookOf
  <2> QED BY <2>3
<1>3. n \in S
  <2> HIDE DEF S
  <2>1. 0..n \subseteq S
    BY <1>1, <1>2, SetInduction
  <2> QED BY <2>1
<1>4. \E f : OutlookOf(v, steps, f, n)
  BY <1>3
<1> DEFINE after == CHOOSE f : OutlookOf(v, steps, f, n)
<1>5. OutlookOf(v, steps, after, n)
  BY <1>4
<1>6. Outlook(v, steps) = after[n]
  BY DEF Outlook, OutlookOf
<1> HIDE DEF after
<1>7. after[0] = v /\ \A i \in 1..n : after[i] = Foresee(after[i - 1], steps[i])
  BY <1>5 DEF OutlookOf
<1> QED BY <1>6, <1>7

-----------------------------------------------------------------------------
(* The run of a statement, and what the view tells of it.                   *)

\* A statement that the view finds nothing wrong with.
Expected(was, db, v, s) ==
  Seen(was, db, v) /\ db.error = NoValue /\ Clear(v.db, s) /\ Do(v.db, s).error = NoValue

Followed(was, db, v, s) ==
  /\ Do(db, s).error # "schema"
  /\ Sure(v.db, v.facts, s) => Do(db, s).error = NoValue
  /\ Do(db, s).error = NoValue => Seen(was, Do(db, s), Foresee(v, s))

-----------------------------------------------------------------------------
LEMMA DoIs ==
  ASSUME NEW db, NEW s, db.error = NoValue
  PROVE  /\ s.do = "create_table" => Do(db, s) = DoCreateTable(db, s)
         /\ s.do = "drop_table" => Do(db, s) = DoDropTable(db, s)
         /\ s.do = "rename_table" => Do(db, s) = DoRenameTable(db, s)
         /\ s.do = "add" => Do(db, s) = DoAdd(db, s)
         /\ s.do = "drop" => Do(db, s) = DoDrop(db, s)
         /\ s.do = "drop_unique" => Do(db, s) = DoDropUnique(db, s)
         /\ s.do = "drop_check" => Do(db, s) = DoDropCheckOn(db, s)
         /\ s.do = "rename" => Do(db, s) = DoRename(db, s)
         /\ s.do = "fill" => Do(db, s) = DoFill(db, s)
         /\ s.do = "relabel" => Do(db, s) = DoRelabel(db, s)
         /\ s.do = "turn" => Do(db, s) = DoTurn(db, s)
         /\ s.do = "seed" => Do(db, s) = DoSeed(db, s)
         /\ s.do = "unseed" => Do(db, s) = DoUnseed(db, s)
         /\ s.do = "guard" => Do(db, s) = DoGuard(db, s)
BY DEF Do

LEMMA EmptiedIs ==
  ASSUME NEW db, IsDb(db)
  PROVE  /\ Emptied(db) = [objects |-> db.objects, rows |-> Bare(db.rows), error |-> db.error]
         /\ Emptied(db).objects = db.objects
         /\ Emptied(db).rows = Bare(db.rows)
         /\ Emptied(db).error = db.error
         /\ DOMAIN Emptied(db).rows = DOMAIN db.rows
<1> DEFINE o == db.objects
           r == db.rows
           e == db.error
<1>1. db = [objects |-> o, rows |-> r, error |-> e]
  BY DEF IsDb
<1> HIDE DEF o, r, e
<1>2. Emptied(db) = [objects |-> o, rows |-> Bare(r), error |-> e]
  BY <1>1 DEF Emptied
<1>3. DOMAIN Bare(r) = DOMAIN r
  BY DEF Bare
<1> QED BY <1>2, <1>3 DEF o, r, e

LEMMA MeetsAllows ==
  ASSUME NEW rs, NEW is, is[1] = "allows"
  PROVE  Meets(rs, is) <=> \A i \in DOMAIN rs : rs[i][is[2]] \in is[3] \union {NoValue}
BY DEF Meets, Values

LEMMA MeetsUnique ==
  ASSUME NEW rs, NEW is, is[1] = "unique"
  PROVE  Meets(rs, is) <=>
           \A i, j \in DOMAIN rs :
             /\ i # j
             /\ is[3] = "live" => ~rs[i].deleted_at
             /\ is[3] = "live" => ~rs[j].deleted_at
             => \E c \in is[2] : rs[i][c] # rs[j][c]
BY DEF Meets, Distinct

LEMMA ImpliedMeets ==
  ASSUME NEW rs, NEW f, NEW g, Meets(rs, f[2]), Implies(f, g)
  PROVE  Meets(rs, g[2])
<1>1. CASE f[2][1] = "allows"
  BY <1>1, MeetsAllows DEF Implies
<1>2. CASE f[2][1] = "unique"
  <2>1. /\ g[2][1] = "unique" /\ f[2][2] \subseteq g[2][2]
        /\ f[2][3] = "all" \/ f[2][3] = g[2][3]
    BY <1>2 DEF Implies
  <2>2. \A i, j \in DOMAIN rs :
             /\ i # j
             /\ f[2][3] = "live" => ~rs[i].deleted_at
             /\ f[2][3] = "live" => ~rs[j].deleted_at
             => \E c \in f[2][2] : rs[i][c] # rs[j][c]
    BY <1>2, MeetsUnique
  <2> QED BY <2>1, <2>2, MeetsUnique
<1> QED BY <1>1, <1>2 DEF Implies

\* No rows, no exceptions.
LEMMA EmptyMeets ==
  ASSUME NEW rs, DOMAIN rs = {}, NEW is
  PROVE  Meets(rs, is)
BY DEF Meets, Values, Distinct

LEMMA ForeseenFits ==
  ASSUME NEW db, NEW rs, NEW facts, Hold(rs, facts), NEW o, Foreseen(db, facts, o),
         db.rows = Bare(rs)
  PROVE  Fits(rs, o)
<1>1. CASE ~RowFact(o.is)
  BY <1>1 DEF Fits, Meets, RowFact
<1>2. CASE o.table = "templates" /\ "templates" \in DOMAIN db.rows /\ Fits(db.rows, o)
  BY <1>2 DEF Fits, Bare
<1>3. CASE Follows(<<o.table, o.is>>, facts)
  <2>1. PICK f \in facts : Implies(f, <<o.table, o.is>>)
    BY <1>3 DEF Follows
  <2>2. Meets(rs[f[1]], f[2]) /\ f[1] = o.table
    BY <2>1 DEF Hold, Implies
  <2>3. Meets(rs[f[1]], <<o.table, o.is>>[2])
    BY <2>1, <2>2, ImpliedMeets
  <2> QED BY <2>2, <2>3 DEF Fits
<1> QED BY <1>1, <1>2, <1>3 DEF Foreseen

-----------------------------------------------------------------------------
(* The statements, one by one.  First those that change no row.             *)

LEMMA SameRows ==
  ASSUME NEW was, NEW db, NEW v, NEW s, NEW os, Seen(was, db, v),
         Do(db, s) = [db EXCEPT !.objects = os],
         Do(v.db, s) = [v.db EXCEPT !.objects = os],
         Hold(db.rows, FactsAfter(v.facts, s)), CameAfter(v.came, s) = v.came
  PROVE  Seen(was, Do(db, s), Foresee(v, s))
<1> DEFINE r == db.rows
           e == db.error
           o == db.objects
           new == [objects |-> os, rows |-> r, error |-> e]
<1>1. db = [objects |-> o, rows |-> r, error |-> e]
  BY DEF Seen, IsDb
<1>2. v.db = [objects |-> o, rows |-> Bare(r), error |-> e]
  BY EmptiedIs DEF Seen
<1> HIDE DEF r, e, o
<1>3. Do(db, s) = new
  BY <1>1
<1>4. Do(v.db, s) = [objects |-> os, rows |-> Bare(r), error |-> e]
  BY <1>2
<1>5. IsDb(new) /\ new.rows = r
  BY DEF IsDb
<1>6. Emptied(new) = [objects |-> os, rows |-> Bare(r), error |-> e]
  BY <1>5, EmptiedIs
<1>7. /\ Foresee(v, s).db = Do(v.db, s) /\ Foresee(v, s).facts = FactsAfter(v.facts, s)
      /\ Foresee(v, s).came = v.came
  BY DEF Foresee, View
<1>8. Typed(r) /\ CameTrue(was, r, v.came)
  BY DEF Seen, r
<1> QED BY <1>3, <1>4, <1>5, <1>6, <1>7, <1>8 DEF Seen, r

LEMMA FailedIs ==
  ASSUME NEW db, NEW e, IsDb(db)
  PROVE  Failed(db, e).error = e
<1> DEFINE o == db.objects
           r == db.rows
           x == db.error
<1>1. db = [objects |-> o, rows |-> r, error |-> x]
  BY DEF IsDb
<1> HIDE DEF o, r, x
<1> QED BY <1>1 DEF Failed

LEMMA Ground ==
  ASSUME NEW was, NEW db, NEW v, NEW s, Expected(was, db, v, s)
  PROVE  /\ Seen(was, db, v) /\ IsDb(db) /\ IsDb(v.db)
         /\ db.error = NoValue /\ v.db.error = NoValue
         /\ v.db.objects = db.objects /\ v.db.rows = Bare(db.rows)
         /\ DOMAIN v.db.rows = DOMAIN db.rows
         /\ Typed(db.rows) /\ Hold(db.rows, v.facts) /\ CameTrue(was, db.rows, v.came)
         /\ Do(v.db, s).error = NoValue /\ Clear(v.db, s)
<1>1. Seen(was, db, v) /\ IsDb(db) /\ v.db = Emptied(db)
  BY DEF Expected, Seen
<1>2. IsDb(v.db)
  BY <1>1, EmptiedIs DEF IsDb
<1> QED BY <1>1, <1>2, EmptiedIs DEF Expected, Seen

LEMMA Failures ==
  ASSUME NEW was, NEW db, NEW v, NEW s, Expected(was, db, v, s)
  PROVE  /\ Failed(db, "schema").error = "schema" /\ Failed(v.db, "schema").error = "schema"
         /\ Failed(db, "rows").error = "rows" /\ Failed(v.db, "rows").error = "rows"
         /\ db.error = "none" /\ v.db.error = "none" /\ Do(v.db, s).error = "none"
BY Ground, FailedIs DEF NoValue

LEMMA SameNames ==
  ASSUME NEW was, NEW db, NEW v, NEW s, Expected(was, db, v, s), NEW t
  PROVE  Names(v.db, t) = Names(db, t)
BY Ground DEF Names

LEMMA DoBoth ==
  ASSUME NEW was, NEW db, NEW v, NEW s, Expected(was, db, v, s)
  PROVE  db.error = NoValue /\ v.db.error = NoValue
BY Ground

LEMMA SameObjects ==
  ASSUME NEW was, NEW db, NEW v, NEW s, Expected(was, db, v, s)
  PROVE  v.db.objects = db.objects
BY Ground

LEMMA ViewOf ==
  ASSUME NEW was, NEW db, NEW v, NEW s, Expected(was, db, v, s)
  PROVE  /\ v.db.objects = db.objects /\ v.db.rows = Bare(db.rows)
         /\ DOMAIN v.db.rows = DOMAIN db.rows
BY Ground

LEMMA Fine ==
  ASSUME NEW was, NEW db, NEW v, NEW s, Expected(was, db, v, s)
  PROVE  /\ IsDb(db) /\ IsDb(v.db) /\ db.error = NoValue /\ v.db.error = NoValue
         /\ Do(v.db, s).error = NoValue
BY Ground

LEMMA TrueBefore ==
  ASSUME NEW was, NEW db, NEW v, NEW s, Expected(was, db, v, s)
  PROVE  Typed(db.rows) /\ Hold(db.rows, v.facts) /\ CameTrue(was, db.rows, v.came)
BY Ground

LEMMA NoElements == DOMAIN << >> = {} /\ IsFcn(<< >>)
BY DEF IsFcn

\* A statement that succeeds leaves no error.
LEMMA NoError ==
  ASSUME NEW db, IsDb(db), NEW os
  PROVE  [db EXCEPT !.objects = os].error = db.error
<1> DEFINE o == db.objects
           r == db.rows
           x == db.error
<1>1. db = [objects |-> o, rows |-> r, error |-> x]
  BY DEF IsDb
<1> HIDE DEF o, r, x
<1>2. [db EXCEPT !.objects = os].error = x
  BY <1>1
<1> QED BY <1>2 DEF x

LEMMA AddFollowed ==
  ASSUME NEW was, NEW db, NEW v, NEW s, Expected(was, db, v, s), s.do = "add"
  PROVE  Followed(was, db, v, s)
<1>1. Do(db, s) = DoAdd(db, s) /\ Do(v.db, s) = DoAdd(v.db, s)
  <2>1. db.error = NoValue /\ v.db.error = NoValue
    BY DoBoth
  <2> QED BY <2>1, DoIs
<1>2. ~\E o \in s.objects : o.table \notin DOMAIN db.rows \/ o.name \in Names(db, o.table)
  <2>1. DOMAIN v.db.rows = DOMAIN db.rows /\ \A t : Names(v.db, t) = Names(db, t)
    BY Ground, SameNames
  <2> QED BY <1>1, <2>1, Failures DEF DoAdd
<1>3. Do(v.db, s) = [v.db EXCEPT !.objects = db.objects \union s.objects]
  <2>1. /\ v.db.objects = db.objects /\ DoAdd(v.db, s).error = "none"
        /\ Failed(v.db, "schema").error = "schema" /\ Failed(v.db, "rows").error = "rows"
    BY <1>1, Ground, Failures
  <2> QED BY <1>1, <2>1 DEF DoAdd
<1>4. /\ Do(db, s).error # "schema"
      /\ Do(db, s).error = NoValue => \A o \in s.objects : Fits(db.rows, o)
  BY <1>1, <1>2, Failures DEF DoAdd, NoValue
<1>5. Sure(v.db, v.facts, s) => Do(db, s).error = NoValue
  <2> SUFFICES ASSUME Sure(v.db, v.facts, s) PROVE Do(db, s).error = NoValue
    OBVIOUS
  <2>1. \A o \in s.objects : Fits(db.rows, o)
    BY Ground, ForeseenFits DEF Sure
  <2> QED BY <1>1, <1>2, <2>1, DoBoth DEF DoAdd
<1>6. ASSUME Do(db, s).error = NoValue PROVE Seen(was, Do(db, s), Foresee(v, s))
  <2>1. \A o \in s.objects : o.table \in DOMAIN db.rows /\ Fits(db.rows, o)
    BY <1>2, <1>4, <1>6
  <2>2. Do(db, s) = [db EXCEPT !.objects = db.objects \union s.objects]
    BY <1>1, <1>2, <2>1 DEF DoAdd
  <2>3. Hold(db.rows, FactsAfter(v.facts, s))
    <3>1. FactsAfter(v.facts, s) = v.facts \union FactsOf(s.objects)
      BY DEF FactsAfter
    <3>2. \A o \in s.objects : RowFact(o.is) => InRow(o.table, o.is)
      BY Ground DEF Clear
    <3>3. Hold(db.rows, FactsOf(s.objects))
      BY <2>1, <3>2 DEF Hold, FactsOf, Fits
    <3> QED BY <3>1, <3>3, Ground DEF Hold
  <2>4. CameAfter(v.came, s) = v.came
    BY DEF CameAfter
  <2> QED BY <1>3, <2>2, <2>3, <2>4, Ground, SameRows
<1> QED BY <1>4, <1>5, <1>6 DEF Followed

\* The facts outlive the key or check that is dropped, and its name.
LEMMA DropUniqueFollowed ==
  ASSUME NEW was, NEW db, NEW v, NEW s, Expected(was, db, v, s), s.do = "drop_unique"
  PROVE  Followed(was, db, v, s)
<1> DEFINE found == {o \in db.objects : /\ o.table = s.table /\ o.name = s.name
                                        /\ o.is[1] = "unique" /\ o.is[4] = s.form}
<1>1. Do(db, s) = DoDropUnique(db, s) /\ Do(v.db, s) = DoDropUnique(v.db, s)
  <2>1. db.error = NoValue /\ v.db.error = NoValue
    BY DoBoth
  <2> QED BY <2>1, DoIs
<1>2. /\ v.db.objects = db.objects /\ DoDropUnique(v.db, s).error = "none"
      /\ Failed(v.db, "schema").error = "schema"
  <2>1. v.db.objects = db.objects
    BY SameObjects
  <2> HIDE DEF found
  <2>2. Do(v.db, s).error = "none"
    BY Failures
  <2>3. Failed(v.db, "schema").error = "schema"
    <3>1. IsDb(v.db)
      BY Ground
    <3> QED BY <3>1, FailedIs
  <2> QED BY <1>1, <2>1, <2>2, <2>3
<1>3. found # {} /\ Do(v.db, s) = [v.db EXCEPT !.objects = db.objects \ found]
  BY <1>1, <1>2 DEF DoDropUnique
<1>4. Do(db, s) = [db EXCEPT !.objects = db.objects \ found]
  BY <1>1, <1>3 DEF DoDropUnique
<1>5. Hold(db.rows, FactsAfter(v.facts, s)) /\ CameAfter(v.came, s) = v.came
  BY Ground DEF FactsAfter, CameAfter
<1>6. Seen(was, Do(db, s), Foresee(v, s))
  <2> HIDE DEF found
  <2> QED BY <1>3, <1>4, <1>5, Ground, SameRows
<1>7. Do(db, s).error = NoValue
  <2> HIDE DEF found
  <2>1. IsDb(db) /\ db.error = NoValue
    BY Ground
  <2>2. [db EXCEPT !.objects = db.objects \ found].error = db.error
    BY <2>1, NoError
  <2> QED BY <1>4, <2>1, <2>2
<1> QED BY <1>6, <1>7 DEF Followed, NoValue

LEMMA DropCheckFollowed ==
  ASSUME NEW was, NEW db, NEW v, NEW s, Expected(was, db, v, s), s.do = "drop_check"
  PROVE  Followed(was, db, v, s)
<1> DEFINE found == {o \in db.objects : /\ o.table = s.table /\ o.is[1] = "allows"
                                        /\ o.is[2] = s.column /\ s.values \subseteq o.is[3]}
<1>1. Do(db, s) = DoDropCheckOn(db, s) /\ Do(v.db, s) = DoDropCheckOn(v.db, s)
  <2>1. db.error = NoValue /\ v.db.error = NoValue
    BY DoBoth
  <2> QED BY <2>1, DoIs
<1>2. /\ v.db.objects = db.objects /\ DoDropCheckOn(v.db, s).error = "none"
      /\ Failed(v.db, "schema").error = "schema"
  <2>1. v.db.objects = db.objects
    BY SameObjects
  <2> HIDE DEF found
  <2>2. Do(v.db, s).error = "none"
    BY Failures
  <2>3. Failed(v.db, "schema").error = "schema"
    <3>1. IsDb(v.db)
      BY Ground
    <3> QED BY <3>1, FailedIs
  <2> QED BY <1>1, <2>1, <2>2, <2>3
<1>3. Cardinality(found) = 1 /\ Do(v.db, s) = [v.db EXCEPT !.objects = db.objects \ found]
  BY <1>1, <1>2 DEF DoDropCheckOn
<1>4. Do(db, s) = [db EXCEPT !.objects = db.objects \ found]
  BY <1>1, <1>3 DEF DoDropCheckOn
<1>5. Hold(db.rows, FactsAfter(v.facts, s)) /\ CameAfter(v.came, s) = v.came
  BY Ground DEF FactsAfter, CameAfter
<1>6. Seen(was, Do(db, s), Foresee(v, s))
  <2> HIDE DEF found
  <2> QED BY <1>3, <1>4, <1>5, Ground, SameRows
<1>7. Do(db, s).error = NoValue
  <2> HIDE DEF found
  <2>1. IsDb(db) /\ db.error = NoValue
    BY Ground
  <2>2. [db EXCEPT !.objects = db.objects \ found].error = db.error
    BY <2>1, NoError
  <2> QED BY <1>4, <2>1, <2>2
<1> QED BY <1>6, <1>7 DEF Followed, NoValue

LEMMA RenameFollowed ==
  ASSUME NEW was, NEW db, NEW v, NEW s, Expected(was, db, v, s), s.do = "rename"
  PROVE  Followed(was, db, v, s)
<1> DEFINE os == {IF o.table = s.table /\ o.name = s.old THEN [o EXCEPT !.name = s.new] ELSE o :
                    o \in db.objects}
<1>1. Do(db, s) = DoRename(db, s) /\ Do(v.db, s) = DoRename(v.db, s)
  <2>1. db.error = NoValue /\ v.db.error = NoValue
    BY DoBoth
  <2> QED BY <2>1, DoIs
<1>2. /\ v.db.objects = db.objects /\ DoRename(v.db, s).error = "none"
      /\ Failed(v.db, "schema").error = "schema"
      /\ Names(v.db, s.table) = Names(db, s.table)
  BY <1>1, Ground, Failures, SameNames
<1>3. s.old \in Names(db, s.table) /\ s.new \notin Names(db, s.table)
  BY <1>2 DEF DoRename
<1>4. Do(db, s) = [db EXCEPT !.objects = os] /\ Do(v.db, s) = [v.db EXCEPT !.objects = os]
  BY <1>1, <1>2, <1>3 DEF DoRename
<1>5. Hold(db.rows, FactsAfter(v.facts, s)) /\ CameAfter(v.came, s) = v.came
  BY Ground DEF FactsAfter, CameAfter
<1> HIDE DEF os
<1>6. Seen(was, Do(db, s), Foresee(v, s))
  BY <1>4, <1>5, Ground, SameRows
<1>7. Do(db, s).error = NoValue
  <2>1. IsDb(db) /\ db.error = NoValue
    BY Ground
  <2>2. [db EXCEPT !.objects = os].error = db.error
    BY <2>1, NoError
  <2> QED BY <1>4, <2>1, <2>2
<1> QED BY <1>6, <1>7 DEF Followed, NoValue

LEMMA GuardFollowed ==
  ASSUME NEW was, NEW db, NEW v, NEW s, Expected(was, db, v, s), s.do = "guard"
  PROVE  Followed(was, db, v, s)
<1> DEFINE key == Unique(s.columns, "all", "index")
<1>1. Do(db, s) = DoGuard(db, s) /\ Do(v.db, s) = DoGuard(v.db, s)
  <2>1. db.error = NoValue /\ v.db.error = NoValue
    BY DoBoth
  <2> QED BY <2>1, DoIs
<1>2. /\ s.table \in DOMAIN db.rows \ {"templates"}
      /\ DoGuard(v.db, s).error = "none" /\ db.error = "none"
      /\ Failed(v.db, "rows").error = "rows" /\ Failed(db, "rows").error = "rows"
  <2>1. s.table \in DOMAIN v.db.rows \ {"templates"}
    BY Ground DEF Clear
  <2>2. Do(v.db, s).error = "none" /\ db.error = "none"
    BY Failures
  <2>3. Failed(v.db, "rows").error = "rows" /\ Failed(db, "rows").error = "rows"
    BY Failures
  <2> QED BY <1>1, <2>1, <2>2, <2>3, Ground
<1>3. /\ RowFact(key) /\ key[1] = "unique"
      /\ \A rs : Meets(rs, key) <=> Distinct(rs, s.columns, "all")
  BY DEF Unique, RowFact, Meets
<1>4. Do(v.db, s) = v.db
  BY <1>1, <1>2 DEF DoGuard
<1>5. Do(db, s).error # "schema"
  BY <1>1, <1>2 DEF DoGuard
<1>6. Sure(v.db, v.facts, s) => Do(db, s).error = NoValue
  <2> SUFFICES ASSUME Follows(<<s.table, key>>, v.facts) PROVE Do(db, s).error = NoValue
    BY DEF Sure
  <2>1. PICK f \in v.facts : Implies(f, <<s.table, key>>)
    BY DEF Follows
  <2>2. Meets(db.rows[f[1]], f[2]) /\ f[1] = s.table
    BY <2>1, Ground DEF Hold, Implies
  <2>3. Meets(db.rows[s.table], <<s.table, key>>[2])
    <3> HIDE DEF key
    <3> QED BY <2>1, <2>2, ImpliedMeets
  <2>4. Distinct(db.rows[s.table], s.columns, "all")
    BY <1>3, <2>3
  <2> QED BY <1>1, <1>2, <2>4 DEF DoGuard, NoValue
<1>7. ASSUME Do(db, s).error = NoValue PROVE Seen(was, Do(db, s), Foresee(v, s))
  <2>1. Distinct(db.rows[s.table], s.columns, "all") /\ Do(db, s) = db
    BY <1>1, <1>2, <1>7 DEF DoGuard, NoValue
  <2>2. FactsAfter(v.facts, s) = v.facts \union {<<s.table, key>>} /\ CameAfter(v.came, s) = v.came
    BY DEF FactsAfter, CameAfter
  <2>3. Meets(db.rows[s.table], key)
    BY <1>3, <2>1
  <2>4. Hold(db.rows, FactsAfter(v.facts, s))
    <3>1. InRow(s.table, key)
      BY Ground DEF Clear
    <3> HIDE DEF key
    <3> QED BY <1>2, <1>3, <2>2, <2>3, <3>1, Ground DEF Hold
  <2>5. /\ Foresee(v, s).db = v.db /\ Foresee(v, s).facts = FactsAfter(v.facts, s)
        /\ Foresee(v, s).came = v.came
    BY <1>4, <2>2 DEF Foresee, View
  <2> QED BY <2>1, <2>4, <2>5, Ground DEF Seen
<1> QED BY <1>5, <1>6, <1>7 DEF Followed

-----------------------------------------------------------------------------
(* The statements that make, drop and rename tables.                        *)

LEMMA NewRows ==
  ASSUME NEW was, NEW db, NEW v, NEW s, NEW os, NEW rs,
         Do(db, s) = [objects |-> os, rows |-> rs, error |-> NoValue],
         Do(v.db, s) = [objects |-> os, rows |-> Bare(rs), error |-> NoValue],
         Typed(rs), Hold(rs, FactsAfter(v.facts, s)), CameTrue(was, rs, CameAfter(v.came, s))
  PROVE  Seen(was, Do(db, s), Foresee(v, s))
<1> DEFINE new == [objects |-> os, rows |-> rs, error |-> NoValue]
<1>1. IsDb(new) /\ new.rows = rs
  BY DEF IsDb
<1>2. Emptied(new) = [objects |-> os, rows |-> Bare(rs), error |-> NoValue]
  BY <1>1, EmptiedIs
<1>3. /\ Foresee(v, s).db = Do(v.db, s) /\ Foresee(v, s).facts = FactsAfter(v.facts, s)
      /\ Foresee(v, s).came = CameAfter(v.came, s)
  BY DEF Foresee, View
<1> QED BY <1>1, <1>2, <1>3 DEF Seen

LEMMA WithRows ==
  ASSUME NEW db, IsDb(db), db.error = NoValue, NEW rs
  PROVE  [db EXCEPT !.rows = rs] = [objects |-> db.objects, rows |-> rs, error |-> NoValue]
<1> DEFINE o == db.objects
           r == db.rows
           x == db.error
<1>1. db = [objects |-> o, rows |-> r, error |-> x]
  BY DEF IsDb
<1>2. x = NoValue
  OBVIOUS
<1> HIDE DEF o, r, x
<1>3. [db EXCEPT !.rows = rs] = [objects |-> o, rows |-> rs, error |-> x]
  BY <1>1
<1> QED BY <1>2, <1>3 DEF o

LEMMA WithBoth ==
  ASSUME NEW db, IsDb(db), db.error = NoValue, NEW os, NEW rs
  PROVE  [db EXCEPT !.objects = os, !.rows = rs]
            = [objects |-> os, rows |-> rs, error |-> NoValue]
<1> DEFINE half == [db EXCEPT !.objects = os]
           both == [half EXCEPT !.rows = rs]
           o == db.objects
           r == db.rows
<1>1. db = [objects |-> o, rows |-> r, error |-> NoValue]
  BY DEF IsDb
<1> HIDE DEF o, r
<1>2. [db EXCEPT !.objects = os, !.rows = rs] = both
  OBVIOUS
<1>3. half = [objects |-> os, rows |-> r, error |-> NoValue]
  BY <1>1
<1>4. both = [objects |-> os, rows |-> rs, error |-> NoValue]
  <2> HIDE DEF half
  <2> QED BY <1>3
<1> QED BY <1>2, <1>4

\* The database with these objects and rows.
Now(db, new, os, rs) == new = [db EXCEPT !.objects = os, !.rows = rs]
Updated(db, new, rs) == new = [db EXCEPT !.rows = rs]

LEMMA BothSet ==
  ASSUME NEW db, IsDb(db), db.error = NoValue, NEW os, NEW rs, NEW new, Now(db, new, os, rs)
  PROVE  new = [objects |-> os, rows |-> rs, error |-> NoValue] /\ new.error = NoValue
<1>1. new = [objects |-> os, rows |-> rs, error |-> NoValue]
  BY WithBoth DEF Now
<1> QED BY <1>1

LEMMA RowsSet ==
  ASSUME NEW db, IsDb(db), db.error = NoValue, NEW rs, NEW new, Updated(db, new, rs)
  PROVE  new = [objects |-> db.objects, rows |-> rs, error |-> NoValue] /\ new.error = NoValue
<1>1. new = [objects |-> db.objects, rows |-> rs, error |-> NoValue]
  BY WithRows DEF Updated
<1>2. new.error = NoValue
  BY <1>1
<1> QED BY <1>1, <1>2

\* What is left to show of a statement that changes the tables.
LEMMA TablesFollowed ==
  ASSUME NEW was, NEW db, NEW v, NEW s, Expected(was, db, v, s), NEW os, NEW rs, NEW bare,
         Now(db, Do(db, s), os, rs),
         Now(v.db, Do(v.db, s), os, bare), bare = Bare(rs),
         Typed(rs), Hold(rs, FactsAfter(v.facts, s)), CameTrue(was, rs, CameAfter(v.came, s))
  PROVE  Followed(was, db, v, s)
<1>1. IsDb(db) /\ IsDb(v.db) /\ db.error = NoValue /\ v.db.error = NoValue
  BY Fine
<1>2. /\ Do(db, s) = [objects |-> os, rows |-> rs, error |-> NoValue]
      /\ Do(db, s).error = NoValue
  BY <1>1, BothSet
<1>3. Do(v.db, s) = [objects |-> os, rows |-> bare, error |-> NoValue]
  BY <1>1, BothSet
<1>4. Seen(was, Do(db, s), Foresee(v, s))
  BY <1>2, <1>3, NewRows
<1> QED BY <1>2, <1>4 DEF Followed, NoValue

LEMMA CreateTableFollowed ==
  ASSUME NEW was, NEW db, NEW v, NEW s, Expected(was, db, v, s), s.do = "create_table"
  PROVE  Followed(was, db, v, s)
<1>1. Do(db, s) = DoCreateTable(db, s) /\ Do(v.db, s) = DoCreateTable(v.db, s)
  <2>1. db.error = NoValue /\ v.db.error = NoValue
    BY DoBoth
  <2> QED BY <2>1, DoIs
<1>2. IsDb(db) /\ IsDb(v.db) /\ db.error = NoValue /\ v.db.error = NoValue
  BY Fine
<1>3. s.table \notin DOMAIN db.rows
  <2>1. DOMAIN v.db.rows = DOMAIN db.rows
    BY ViewOf
  <2>2. Do(v.db, s).error = "none"
    BY Fine DEF NoValue
  <2>3. Failed(v.db, "schema").error = "schema"
    BY <1>2, FailedIs
  <2> QED BY <1>1, <2>1, <2>2, <2>3 DEF DoCreateTable
<1> DEFINE os == db.objects \union s.objects
           rs == Put(db.rows, s.table, << >>)
           bare == Put(Bare(db.rows), s.table, << >>)
<1>4. /\ DoCreateTable(db, s) = [db EXCEPT !.objects = os, !.rows = rs]
      /\ DoCreateTable(v.db, s) = [v.db EXCEPT !.objects = os, !.rows = bare]
  <2>1. /\ v.db.objects = db.objects /\ v.db.rows = Bare(db.rows)
        /\ DOMAIN v.db.rows = DOMAIN db.rows
    BY ViewOf
  <2>2. DoCreateTable(db, s) = [db EXCEPT !.objects = os, !.rows = rs]
    BY <1>3 DEF DoCreateTable
  <2>3. DoCreateTable(v.db, s) = [v.db EXCEPT !.objects = os, !.rows = bare]
    BY <1>3, <2>1 DEF DoCreateTable
  <2> QED BY <2>2, <2>3
<1>5. bare = Bare(rs)
  BY DEF Bare, Put
<1>6. /\ DOMAIN rs = DOMAIN db.rows \union {s.table} /\ rs[s.table] = << >>
      /\ \A t \in DOMAIN db.rows : rs[t] = db.rows[t]
  BY <1>3 DEF Put
<1>7. IsFcn(rs)
  BY DEF IsFcn, Put
<1> HIDE DEF os, rs, bare
<1>8. Typed(db.rows) /\ Hold(db.rows, v.facts) /\ CameTrue(was, db.rows, v.came)
  BY TrueBefore
<1>9. Typed(rs)
  BY <1>6, <1>7, <1>8, NoElements DEF Typed, TypedTable
<1>10. Hold(rs, FactsAfter(v.facts, s))
  <2>1. \A is : Meets(rs[s.table], is)
    BY <1>6, EmptyMeets, NoElements
  <2>2. Hold(rs, v.facts)
    BY <1>6, <1>8 DEF Hold
  <2>3. Hold(rs, FactsOf(s.objects))
    <3>1. \A o \in s.objects : o.table = s.table /\ (RowFact(o.is) => InRow(o.table, o.is))
      BY Ground DEF Clear
    <3>2. ASSUME NEW o \in s.objects, RowFact(o.is)
          PROVE  s.table \in DOMAIN rs /\ o.table = s.table /\ InRow(s.table, o.is) /\ Meets(rs[s.table], o.is)
      BY <1>6, <2>1, <3>1, <3>2
    <3> QED BY <3>2 DEF Hold, FactsOf
  <2>4. Hold(rs, {Null(s.table, c) : c \in Nullable(s.table)})
    <3>1. ASSUME NEW c \in Nullable(s.table)
          PROVE  /\ RowFact(Allows(c, {})) /\ InRow(s.table, Allows(c, {}))
                 /\ s.table # "templates" /\ s.table \in DOMAIN rs
                 /\ Meets(rs[s.table], Allows(c, {}))
      BY <1>6, <2>1 DEF RowFact, Allows, InRow, Mentioned, Nullable, Fields
    <3> QED BY <3>1 DEF Hold, Null
  <2> QED BY <2>2, <2>3, <2>4 DEF Hold, FactsAfter
<1>11. CameTrue(was, rs, CameAfter(v.came, s))
  <2>1. CameAfter(v.came, s) = Put(v.came, s.table, Nowhere)
    BY DEF CameAfter
  <2>2. Stems(was, << >>, Nowhere)
    BY NoElements DEF Stems, Nowhere, Origin
  <2> QED BY <1>3, <1>6, <1>8, <2>1, <2>2 DEF CameTrue, Put
<1>12. Now(db, Do(db, s), os, rs)
  BY <1>1, <1>4 DEF Now
<1>13. Now(v.db, Do(v.db, s), os, bare)
  BY <1>1, <1>4 DEF Now
<1> QED BY <1>5, <1>9, <1>10, <1>11, <1>12, <1>13, TablesFollowed

LEMMA DropTableFollowed ==
  ASSUME NEW was, NEW db, NEW v, NEW s, Expected(was, db, v, s), s.do = "drop_table"
  PROVE  Followed(was, db, v, s)
<1>1. Do(db, s) = DoDropTable(db, s) /\ Do(v.db, s) = DoDropTable(v.db, s)
  <2>1. db.error = NoValue /\ v.db.error = NoValue
    BY DoBoth
  <2> QED BY <2>1, DoIs
<1>2. IsDb(db) /\ IsDb(v.db) /\ db.error = NoValue /\ v.db.error = NoValue
  BY Fine
<1>3. /\ v.db.objects = db.objects /\ v.db.rows = Bare(db.rows)
      /\ DOMAIN v.db.rows = DOMAIN db.rows
  BY ViewOf
<1> DEFINE stays == ~(\/ s.table \notin DOMAIN db.rows
                      \/ \E o \in db.objects : o.table # s.table /\ o.is = Refers(s.table))
<1>4. stays
  <2>1. Do(v.db, s).error = "none"
    BY Fine DEF NoValue
  <2>2. Failed(v.db, "schema").error = "schema"
    BY <1>2, FailedIs
  <2> QED BY <1>1, <1>3, <2>1, <2>2 DEF DoDropTable
<1> DEFINE left == DOMAIN db.rows \ {s.table}
           os == {o \in db.objects : o.table # s.table}
           rs == [t \in left |-> db.rows[t]]
           bare == [t \in left |-> Bare(db.rows)[t]]
<1>5. DoDropTable(db, s) = [db EXCEPT !.objects = os, !.rows = rs]
  BY <1>4 DEF DoDropTable
<1>6. DoDropTable(v.db, s) = [v.db EXCEPT !.objects = os, !.rows = bare]
  BY <1>3, <1>4 DEF DoDropTable
<1>7. bare = Bare(rs)
  BY DEF Bare
<1>8. DOMAIN rs = left /\ \A t \in left : rs[t] = db.rows[t]
  OBVIOUS
<1>9. IsFcn(rs)
  BY DEF IsFcn
<1> HIDE DEF os, rs, bare, stays
<1>10. Typed(db.rows) /\ Hold(db.rows, v.facts) /\ CameTrue(was, db.rows, v.came)
  BY TrueBefore
<1>11. Typed(rs)
  BY <1>8, <1>9, <1>10 DEF Typed
<1>12. Hold(rs, FactsAfter(v.facts, s))
  <2>1. FactsAfter(v.facts, s) = {f \in v.facts : f[1] # s.table}
    BY DEF FactsAfter
  <2> QED BY <1>8, <1>10, <2>1 DEF Hold
<1>13. CameTrue(was, rs, CameAfter(v.came, s))
  <2>1. CameAfter(v.came, s) = [t \in DOMAIN v.came \ {s.table} |-> v.came[t]]
    BY DEF CameAfter
  <2> QED BY <1>8, <1>10, <2>1 DEF CameTrue
<1>14. Now(db, Do(db, s), os, rs)
  BY <1>1, <1>5 DEF Now
<1>15. Now(v.db, Do(v.db, s), os, bare)
  BY <1>1, <1>6 DEF Now
<1> QED BY <1>7, <1>11, <1>12, <1>13, <1>14, <1>15, TablesFollowed

LEMMA RenameTableFollowed ==
  ASSUME NEW was, NEW db, NEW v, NEW s, Expected(was, db, v, s), s.do = "rename_table"
  PROVE  Followed(was, db, v, s)
<1>1. Do(db, s) = DoRenameTable(db, s) /\ Do(v.db, s) = DoRenameTable(v.db, s)
  <2>1. db.error = NoValue /\ v.db.error = NoValue
    BY DoBoth
  <2> QED BY <2>1, DoIs
<1>2. IsDb(db) /\ IsDb(v.db) /\ db.error = NoValue /\ v.db.error = NoValue
  BY Fine
<1>3. /\ v.db.objects = db.objects /\ v.db.rows = Bare(db.rows)
      /\ DOMAIN v.db.rows = DOMAIN db.rows
  BY ViewOf
<1>4. s.table \in DOMAIN db.rows /\ s.new \notin DOMAIN db.rows
  <2>1. Do(v.db, s).error = "none"
    BY Fine DEF NoValue
  <2>2. Failed(v.db, "schema").error = "schema"
    BY <1>2, FailedIs
  <2> QED BY <1>1, <1>3, <2>1, <2>2 DEF DoRenameTable
<1>5. "templates" \notin {s.table, s.new} /\ Fields(s.table) = Fields(s.new)
  BY Ground DEF Clear
<1> DEFINE left == DOMAIN db.rows \ {s.table}
           new(t) == IF t = s.table THEN s.new ELSE t
           is(o) == IF o.is = Refers(s.table) THEN Refers(s.new) ELSE o.is
           os == {Object(new(o.table), o.name, is(o)) : o \in db.objects}
           rs == Put([t \in left |-> db.rows[t]], s.new, db.rows[s.table])
           bare == Put([t \in left |-> Bare(db.rows)[t]], s.new, Bare(db.rows)[s.table])
<1>6. DoRenameTable(db, s) = [db EXCEPT !.objects = os, !.rows = rs]
  BY <1>4 DEF DoRenameTable
<1>7. DoRenameTable(v.db, s) = [v.db EXCEPT !.objects = os, !.rows = bare]
  BY <1>3, <1>4 DEF DoRenameTable
<1>8. bare = Bare(rs)
  BY <1>4, <1>5 DEF Bare, Put
<1>9. /\ DOMAIN rs = left \union {s.new} /\ rs[s.new] = db.rows[s.table]
      /\ \A t \in left : rs[t] = db.rows[t]
  BY <1>4 DEF Put
<1>10. IsFcn(rs)
  BY DEF IsFcn, Put
<1> HIDE DEF os, rs, bare
<1>11. Typed(db.rows) /\ Hold(db.rows, v.facts) /\ CameTrue(was, db.rows, v.came)
  BY TrueBefore
<1>12. Typed(rs)
  BY <1>4, <1>5, <1>9, <1>10, <1>11 DEF Typed, TypedTable
<1>13. Hold(rs, FactsAfter(v.facts, s))
  <2>1. FactsAfter(v.facts, s) = {<<IF f[1] = s.table THEN s.new ELSE f[1], f[2]>> : f \in v.facts}
    BY DEF FactsAfter
  <2>2. ASSUME NEW f \in v.facts
        PROVE  LET g == <<IF f[1] = s.table THEN s.new ELSE f[1], f[2]>>
               IN  /\ g = <<g[1], g[2]>> /\ RowFact(g[2])
                   /\ g[1] \in DOMAIN rs \ {"templates"} /\ InRow(g[1], g[2])
                   /\ Meets(rs[g[1]], g[2])
    <3>1. /\ RowFact(f[2]) /\ f[1] \in DOMAIN db.rows \ {"templates"} /\ InRow(f[1], f[2])
          /\ Meets(db.rows[f[1]], f[2])
      BY <1>11 DEF Hold
    <3>2. CASE f[1] = s.table
      BY <1>5, <1>9, <3>1, <3>2 DEF InRow
    <3>3. CASE f[1] # s.table
      BY <1>9, <3>1, <3>3
    <3> QED BY <3>2, <3>3
  <2> QED BY <2>1, <2>2 DEF Hold
<1>14. CameTrue(was, rs, CameAfter(v.came, s))
  <2>1. CameAfter(v.came, s)
          = Put([t \in DOMAIN v.came \ {s.table} |-> v.came[t]], s.new, v.came[s.table])
    BY DEF CameAfter
  <2> QED BY <1>4, <1>5, <1>9, <1>11, <2>1 DEF CameTrue, Put
<1>15. Now(db, Do(db, s), os, rs)
  BY <1>1, <1>6 DEF Now
<1>16. Now(v.db, Do(v.db, s), os, bare)
  BY <1>1, <1>7 DEF Now
<1> QED BY <1>8, <1>12, <1>13, <1>14, <1>15, <1>16, TablesFollowed

-----------------------------------------------------------------------------
(* The statements that change rows of a table.                              *)

LEMMA UpdatedSeen ==
  ASSUME NEW was, NEW db, NEW v, NEW s, Expected(was, db, v, s), NEW rs, NEW bare,
         Updated(db, Do(db, s), rs), Updated(v.db, Do(v.db, s), bare), bare = Bare(rs),
         Typed(rs), Hold(rs, FactsAfter(v.facts, s)), CameTrue(was, rs, CameAfter(v.came, s))
  PROVE  Seen(was, Do(db, s), Foresee(v, s)) /\ Do(db, s).error = NoValue
<1>1. IsDb(db) /\ IsDb(v.db) /\ db.error = NoValue /\ v.db.error = NoValue
  BY Fine
<1>2. v.db.objects = db.objects
  BY ViewOf
<1>3. /\ Do(db, s) = [objects |-> db.objects, rows |-> rs, error |-> NoValue]
      /\ Do(db, s).error = NoValue
  BY <1>1, RowsSet
<1>4. Do(v.db, s) = [objects |-> v.db.objects, rows |-> bare, error |-> NoValue]
  BY <1>1, RowsSet
<1>5. Seen(was, Do(db, s), Foresee(v, s))
  <2> DEFINE os == db.objects
  <2>1. Do(db, s) = [objects |-> os, rows |-> rs, error |-> NoValue]
    BY <1>3
  <2>2. Do(v.db, s) = [objects |-> os, rows |-> bare, error |-> NoValue]
    BY <1>2, <1>4
  <2> HIDE DEF os
  <2> QED BY <2>1, <2>2, NewRows
<1> QED BY <1>3, <1>5

\* What is left to show of an UPDATE: PostgreSQL has the last word on its rows.
LEMMA UpdateFollowed ==
  ASSUME NEW was, NEW db, NEW v, NEW s, Expected(was, db, v, s), NEW rs, NEW bare,
         Do(db, s) = DoUpdate(db, rs), Do(v.db, s) = DoUpdate(v.db, bare), bare = Bare(rs),
         Sure(v.db, v.facts, s) =>
           \A o \in v.db.objects : Foreseen(Do(v.db, s), FactsAfter(v.facts, s), o),
         Typed(rs), Hold(rs, FactsAfter(v.facts, s)), CameTrue(was, rs, CameAfter(v.came, s))
  PROVE  Followed(was, db, v, s)
<1>1. IsDb(db) /\ IsDb(v.db) /\ db.error = NoValue /\ v.db.error = NoValue
  BY Fine
<1>2. Updated(v.db, Do(v.db, s), bare)
  <2>1. Do(v.db, s).error = "none"
    BY Fine DEF NoValue
  <2>2. Failed(v.db, "rows").error = "rows"
    BY <1>1, FailedIs
  <2> QED BY <2>1, <2>2 DEF DoUpdate, Updated
<1>3. Do(v.db, s).rows = bare
  <2> DEFINE new == Do(v.db, s)
             view == v.db
  <2>1. IsDb(view) /\ view.error = NoValue /\ Updated(view, new, bare)
    BY <1>1, <1>2
  <2> HIDE DEF new, view
  <2>2. new = [objects |-> view.objects, rows |-> bare, error |-> NoValue]
    BY <2>1, RowsSet
  <2>3. new.rows = bare
    BY <2>2
  <2> QED BY <2>3 DEF new
<1>4. CASE \A o \in db.objects : Fits(rs, o)
  <2>1. Updated(db, Do(db, s), rs)
    BY <1>4 DEF DoUpdate, Updated
  <2>2. Seen(was, Do(db, s), Foresee(v, s)) /\ Do(db, s).error = NoValue
    BY <1>2, <2>1, UpdatedSeen
  <2> QED BY <2>2 DEF Followed, NoValue
<1>5. CASE ~\A o \in db.objects : Fits(rs, o)
  <2>1. Do(db, s) = Failed(db, "rows")
    BY <1>5 DEF DoUpdate
  <2>2. Do(db, s).error = "rows"
    BY <1>1, <2>1, FailedIs
  <2>3. ~Sure(v.db, v.facts, s)
    <3> SUFFICES ASSUME Sure(v.db, v.facts, s) PROVE FALSE
      OBVIOUS
    <3>1. \A o \in db.objects : Foreseen(Do(v.db, s), FactsAfter(v.facts, s), o)
      BY ViewOf
    <3>2. \A o \in db.objects : Fits(rs, o)
      BY <1>3, <3>1, ForeseenFits
    <3> QED BY <1>5, <3>2
  <2> QED BY <2>2, <2>3 DEF Followed, NoValue
<1> QED BY <1>4, <1>5

WithTable(rs, t, new) == [rs EXCEPT ![t] = new]

LEMMA WithTableIs ==
  ASSUME NEW rs, NEW t \in DOMAIN rs, NEW new
  PROVE  /\ DOMAIN WithTable(rs, t, new) = DOMAIN rs
         /\ WithTable(rs, t, new)[t] = new
         /\ \A u \in DOMAIN rs : u # t => WithTable(rs, t, new)[u] = rs[u]
         /\ IsFcn(WithTable(rs, t, new))
BY DEF WithTable, IsFcn

LEMMA BareWith ==
  ASSUME NEW rs, NEW t \in DOMAIN rs, NEW new
  PROVE  /\ t # "templates" => Bare(WithTable(rs, t, new)) = Bare(rs)
         /\ t = "templates" => Bare(WithTable(rs, t, new)) = WithTable(Bare(rs), t, new)
BY DEF Bare, WithTable

LEMMA BareEmpty ==
  ASSUME NEW rs, NEW t \in DOMAIN rs, t # "templates"
  PROVE  WithTable(Bare(rs), t, << >>) = Bare(rs)
BY DEF Bare, WithTable

LEMMA TypedWith ==
  ASSUME NEW rs, Typed(rs), NEW t \in DOMAIN rs, NEW new,
         t = "templates" \/ TypedTable(t, new)
  PROVE  Typed(WithTable(rs, t, new))
BY WithTableIs DEF Typed

\* The facts of the other tables are still true.
LEMMA HoldWith ==
  ASSUME NEW rs, NEW facts, Hold(rs, facts), NEW t \in DOMAIN rs, NEW new, NEW next,
         \A f \in next :
           \/ f \in facts /\ f[1] # t
           \/ f = <<t, f[2]>> /\ t # "templates" /\ RowFact(f[2]) /\ InRow(t, f[2]) /\ Meets(new, f[2])
  PROVE  Hold(WithTable(rs, t, new), next)
<1>1. ASSUME NEW f \in next
      PROVE  /\ f = <<f[1], f[2]>> /\ RowFact(f[2])
             /\ f[1] \in DOMAIN rs \ {"templates"} /\ InRow(f[1], f[2])
             /\ Meets(WithTable(rs, t, new)[f[1]], f[2])
  <2>1. CASE f \in facts /\ f[1] # t
    BY <2>1, WithTableIs DEF Hold
  <2>2. CASE f = <<t, f[2]>> /\ t # "templates" /\ RowFact(f[2]) /\ InRow(t, f[2]) /\ Meets(new, f[2])
    <3>1. f[1] = t
      BY <2>2
    <3> QED BY <2>2, <3>1, WithTableIs
  <2> QED BY <2>1, <2>2
<1> QED BY <1>1, WithTableIs DEF Hold

\* The rows of one table, each changed by s.
LEMMA CameWith ==
  ASSUME NEW was, NEW rs, NEW came, CameTrue(was, rs, came), NEW t \in DOMAIN rs, NEW new, NEW s,
         t # "templates" =>
           /\ s # Nothing /\ s # TooMuch /\ DOMAIN new = DOMAIN rs[t]
           /\ \A i \in DOMAIN new : new[i] = ChangedRow(rs[t][i], s)
  PROVE  CameTrue(was, WithTable(rs, t, new), Changed(came, t, s))
<1> DEFINE R == WithTable(rs, t, new)
           C == Changed(came, t, s)
<1>1. DOMAIN R = DOMAIN rs /\ R[t] = new /\ \A u \in DOMAIN rs : u # t => R[u] = rs[u]
  BY WithTableIs
<1>2. DOMAIN C = DOMAIN came /\ \A u \in DOMAIN came : u # t => C[u] = came[u]
  BY DEF Changed
<1>3. DOMAIN came = DOMAIN rs
  BY DEF CameTrue
<1>4. C[t] = Origin(came[t].table, IF came[t].change = Nothing THEN s ELSE TooMuch)
  BY <1>3 DEF Changed
<1>5. t # "templates" => Stems(was, new, C[t])
  <2> SUFFICES ASSUME t # "templates" PROVE Stems(was, new, C[t])
    OBVIOUS
  <2>1. Stems(was, rs[t], came[t])
    BY DEF CameTrue
  <2>2. /\ C[t].table = came[t].table
        /\ C[t].change = IF came[t].change = Nothing THEN s ELSE TooMuch
    BY <1>4 DEF Origin
  <2>3. CASE came[t].table = "nowhere"
    BY <2>1, <2>2, <2>3 DEF Stems
  <2>4. CASE came[t].table # "nowhere" /\ came[t].change = Nothing
    <3>1. Nothing # TooMuch /\ \A r : ChangedRow(r, Nothing) = r
      BY DEF Nothing, TooMuch, ChangedRow
    <3>2. /\ came[t].table \in DOMAIN was /\ DOMAIN rs[t] = DOMAIN was[came[t].table]
          /\ \A i \in DOMAIN rs[t] : rs[t][i] = was[came[t].table][i]
      BY <2>1, <2>4, <3>1 DEF Stems
    <3> HIDE DEF C, R
    <3> QED BY <2>2, <2>4, <3>2 DEF Stems
  <2>5. CASE came[t].table # "nowhere" /\ came[t].change # Nothing
    <3> HIDE DEF C, R
    <3> QED BY <2>1, <2>2, <2>5 DEF Stems
  <2> QED BY <2>3, <2>4, <2>5
<1> HIDE DEF C, R
<1>6. CameTrue(was, R, C)
  BY <1>1, <1>2, <1>3, <1>5 DEF CameTrue
<1> QED BY <1>6 DEF C, R

LEMMA TemplatesSeen ==
  ASSUME NEW was, NEW rs, Typed(rs), NEW facts, Hold(rs, facts), NEW came, CameTrue(was, rs, came),
         "templates" \in DOMAIN rs, NEW new
  PROVE  LET next == WithTable(rs, "templates", new) IN
         Typed(next) /\ Hold(next, facts) /\ CameTrue(was, next, came)
<1> DEFINE next == WithTable(rs, "templates", new)
<1>1. Typed(next)
  BY TypedWith
<1>2. DOMAIN next = DOMAIN rs /\ \A t \in DOMAIN rs \ {"templates"} : next[t] = rs[t]
  BY WithTableIs
<1> HIDE DEF next
<1>3. Hold(next, facts)
  BY <1>2 DEF Hold
<1>4. CameTrue(was, next, came)
  BY <1>2 DEF CameTrue
<1> QED BY <1>1, <1>3, <1>4 DEF next

LEMMA UnseedFollowed ==
  ASSUME NEW was, NEW db, NEW v, NEW s, Expected(was, db, v, s), s.do = "unseed"
  PROVE  Followed(was, db, v, s)
<1> DEFINE old == db.rows["templates"]
           new == [i \in {j \in DOMAIN old : old[j].kind \notin s.kinds} |-> old[i]]
           rs == WithTable(db.rows, "templates", new)
           bare == WithTable(Bare(db.rows), "templates", new)
<1>1. Do(db, s) = DoUnseed(db, s) /\ Do(v.db, s) = DoUnseed(v.db, s)
  <2>1. db.error = NoValue /\ v.db.error = NoValue
    BY DoBoth
  <2> QED BY <2>1, DoIs
<1>2. "templates" \in DOMAIN db.rows
  <2>1. "templates" \in DOMAIN v.db.rows
    BY Ground DEF Clear
  <2> QED BY <2>1, ViewOf
<1>3. v.db.rows = Bare(db.rows) /\ Bare(db.rows)["templates"] = old
  BY <1>2, ViewOf DEF Bare
<1>4. Updated(db, Do(db, s), rs)
  BY <1>1 DEF DoUnseed, Updated, WithTable
<1>5. Updated(v.db, Do(v.db, s), bare)
  BY <1>1, <1>3 DEF DoUnseed, Updated, WithTable
<1>6. bare = Bare(rs)
  <2> HIDE DEF new
  <2> QED BY <1>2, BareWith
<1>7. Typed(db.rows) /\ Hold(db.rows, v.facts) /\ CameTrue(was, db.rows, v.came)
  BY TrueBefore
<1>8. Typed(rs) /\ Hold(rs, v.facts) /\ CameTrue(was, rs, v.came)
  <2> HIDE DEF new
  <2> QED BY <1>2, <1>7, TemplatesSeen
<1>9. FactsAfter(v.facts, s) = v.facts /\ CameAfter(v.came, s) = v.came
  BY DEF FactsAfter, CameAfter
<1> HIDE DEF new, rs, bare
<1>10. Seen(was, Do(db, s), Foresee(v, s)) /\ Do(db, s).error = NoValue
  BY <1>4, <1>5, <1>6, <1>8, <1>9, UpdatedSeen
<1> QED BY <1>10 DEF Followed, NoValue

LEMMA SeedFollowed ==
  ASSUME NEW was, NEW db, NEW v, NEW s, Expected(was, db, v, s), s.do = "seed"
  PROVE  Followed(was, db, v, s)
<1> DEFINE old == db.rows["templates"]
           new == [i \in DOMAIN old \union s.kinds |-> IF i \in DOMAIN old THEN old[i] ELSE [kind |-> i]]
           rs == WithTable(db.rows, "templates", new)
           bare == WithTable(Bare(db.rows), "templates", new)
           clash == s.kinds \intersect Values(old, "kind") # {}
<1>1. Do(db, s) = DoSeed(db, s) /\ Do(v.db, s) = DoSeed(v.db, s)
  <2>1. db.error = NoValue /\ v.db.error = NoValue
    BY DoBoth
  <2> QED BY <2>1, DoIs
<1>2. "templates" \in DOMAIN db.rows
  <2>1. "templates" \in DOMAIN v.db.rows
    BY Ground DEF Clear
  <2> QED BY <2>1, ViewOf
<1>3. v.db.rows = Bare(db.rows) /\ Bare(db.rows)["templates"] = old
  BY <1>2, ViewOf DEF Bare
<1>4. ~clash
  <2>1. Do(v.db, s).error = "none" /\ IsDb(v.db)
    BY Fine DEF NoValue
  <2>2. Failed(v.db, "rows").error = "rows"
    BY <2>1, FailedIs
  <2> HIDE DEF new, rs, bare
  <2> QED BY <1>1, <1>3, <2>1, <2>2 DEF DoSeed
<1>5. Do(db, s) = DoUpdate(db, rs)
  BY <1>1, <1>4 DEF DoSeed, WithTable
<1>6. Do(v.db, s) = DoUpdate(v.db, bare)
  BY <1>1, <1>3, <1>4 DEF DoSeed, WithTable
<1> HIDE DEF new
<1>7. bare = Bare(rs)
  BY <1>2, BareWith
<1>8. Typed(db.rows) /\ Hold(db.rows, v.facts) /\ CameTrue(was, db.rows, v.came)
  BY TrueBefore
<1>9. Typed(rs) /\ Hold(rs, v.facts) /\ CameTrue(was, rs, v.came)
  BY <1>2, <1>8, TemplatesSeen
<1>10. FactsAfter(v.facts, s) = v.facts /\ CameAfter(v.came, s) = v.came
  BY DEF FactsAfter, CameAfter
<1>11. Sure(v.db, v.facts, s) =>
         \A o \in v.db.objects : Foreseen(Do(v.db, s), FactsAfter(v.facts, s), o)
  BY DEF Sure
<1> HIDE DEF rs, bare
<1> QED BY <1>5, <1>6, <1>7, <1>9, <1>10, <1>11, UpdateFollowed

LEMMA FieldsIsNotTemplates == Fields("templates") = {}
BY DEF Fields

\* What a fact says of the columns that keep their values is still true.
LEMMA SparedMeets ==
  ASSUME NEW t, NEW old, NEW new, NEW columns, TypedTable(t, old), DOMAIN new = DOMAIN old,
         \A i \in DOMAIN old : \A c \in Fields(t) \ columns : new[i][c] = old[i][c],
         NEW is, RowFact(is), InRow(t, is), Mentioned(is) \intersect columns = {}, Meets(old, is)
  PROVE  Meets(new, is)
<1>1. CASE Fields(t) = {}
  <2>1. DOMAIN new = {}
    BY <1>1, NoElements DEF TypedTable
  <2> QED BY <2>1, EmptyMeets
<1>2. CASE Fields(t) # {} /\ is[1] = "allows"
  <2>1. is[2] \in Fields(t) \ columns
    BY <1>2 DEF InRow, Mentioned
  <2>2. \A i \in DOMAIN old : old[i][is[2]] \in is[3] \union {NoValue}
    BY <1>2, MeetsAllows
  <2>3. \A i \in DOMAIN new : new[i][is[2]] \in is[3] \union {NoValue}
    BY <2>1, <2>2
  <2> QED BY <1>2, <2>3, MeetsAllows
<1>3. CASE Fields(t) # {} /\ is[1] = "unique"
  <2>1. is[2] \subseteq Fields(t) \ columns
    BY <1>3 DEF InRow, Mentioned
  <2>2. is[3] = "live" => "deleted_at" \in Fields(t) \ columns
    BY <1>3 DEF InRow, Mentioned
  <2>3. \A i, j \in DOMAIN old :
             /\ i # j
             /\ is[3] = "live" => ~old[i].deleted_at
             /\ is[3] = "live" => ~old[j].deleted_at
             => \E c \in is[2] : old[i][c] # old[j][c]
    BY <1>3, MeetsUnique
  <2>4. \A i, j \in DOMAIN new :
             /\ i # j
             /\ is[3] = "live" => ~new[i].deleted_at
             /\ is[3] = "live" => ~new[j].deleted_at
             => \E c \in is[2] : new[i][c] # new[j][c]
    <3> SUFFICES ASSUME NEW i \in DOMAIN old, NEW j \in DOMAIN old, i # j,
                        is[3] = "live" => ~new[i].deleted_at,
                        is[3] = "live" => ~new[j].deleted_at
                 PROVE  \E c \in is[2] : new[i][c] # new[j][c]
      OBVIOUS
    <3>1. is[3] = "live" => ~old[i].deleted_at /\ ~old[j].deleted_at
      BY <2>2
    <3>2. PICK c \in is[2] : old[i][c] # old[j][c]
      BY <2>3, <3>1
    <3>3. new[i][c] # new[j][c]
      BY <2>1, <3>2
    <3> QED BY <3>3
  <2> QED BY <1>3, <2>4, MeetsUnique
<1> QED BY <1>1, <1>2, <1>3 DEF RowFact

\* The facts after columns of t have changed: those that do not mention them, and more.
LEMMA ChangedHold ==
  ASSUME NEW rs, Typed(rs), NEW facts, Hold(rs, facts), NEW t \in DOMAIN rs, t # "templates",
         NEW columns, NEW new, DOMAIN new = DOMAIN rs[t],
         \A i \in DOMAIN new : \A c \in Fields(t) \ columns : new[i][c] = rs[t][i][c],
         NEW more,
         \A f \in more : f = <<t, f[2]>> /\ RowFact(f[2]) /\ InRow(t, f[2]) /\ Meets(new, f[2])
  PROVE  Hold(WithTable(rs, t, new), Spared(facts, t, columns) \union more)
<1> DEFINE next == Spared(facts, t, columns) \union more
<1>1. TypedTable(t, rs[t])
  BY DEF Typed
<1>2. ASSUME NEW f \in next
      PROVE  \/ f \in facts /\ f[1] # t
             \/ f = <<t, f[2]>> /\ t # "templates" /\ RowFact(f[2]) /\ InRow(t, f[2]) /\ Meets(new, f[2])
  <2>1. CASE f \in more
    BY <2>1
  <2>2. CASE f \in facts /\ f[1] # t
    BY <2>2
  <2>3. CASE f \in Spared(facts, t, columns) /\ f[1] = t
    <3>1. /\ f = <<t, f[2]>> /\ RowFact(f[2]) /\ InRow(t, f[2]) /\ Meets(rs[t], f[2])
          /\ Mentioned(f[2]) \intersect columns = {}
      BY <2>3 DEF Hold, Spared
    <3>2. Meets(new, f[2])
      <4> DEFINE is == f[2]
                 was == rs[t]
      <4>1. /\ RowFact(is) /\ InRow(t, is) /\ Meets(was, is) /\ TypedTable(t, was)
            /\ Mentioned(is) \intersect columns = {} /\ DOMAIN new = DOMAIN was
            /\ \A i \in DOMAIN was : \A c \in Fields(t) \ columns : new[i][c] = was[i][c]
        BY <1>1, <3>1
      <4> HIDE DEF is, was
      <4>2. Meets(new, is)
        BY <4>1, SparedMeets
      <4> QED BY <4>2 DEF is
    <3> QED BY <3>1, <3>2
  <2> QED BY <2>1, <2>2, <2>3 DEF Spared
<1> HIDE DEF next
<1>3. Hold(WithTable(rs, t, new), next)
  BY <1>2, HoldWith
<1> QED BY <1>3 DEF next

LEMMA FillFollowed ==
  ASSUME NEW was, NEW db, NEW v, NEW s, Expected(was, db, v, s), s.do = "fill"
  PROVE  Followed(was, db, v, s)
<1> DEFINE t == s.table
           old == db.rows[t]
           new == [i \in DOMAIN old |-> FillRow(old[i], s)]
           rs == WithTable(db.rows, t, new)
           bare == Update(Bare(db.rows), t, LAMBDA r : FillRow(r, s))
<1>1. Do(db, s) = DoFill(db, s) /\ Do(v.db, s) = DoFill(v.db, s)
  <2>1. db.error = NoValue /\ v.db.error = NoValue
    BY DoBoth
  <2> QED BY <2>1, DoIs
<1>2. t \in DOMAIN db.rows /\ s.column \in Fields(t)
  <2>1. t \in DOMAIN v.db.rows /\ s.column \in Fields(t)
    BY Ground DEF Clear
  <2> QED BY <2>1, ViewOf
<1>3. t # "templates"
  BY <1>2, FieldsIsNotTemplates
<1>4. Do(db, s) = DoUpdate(db, rs)
  BY <1>1 DEF DoFill, Update, WithTable
<1>5. Do(v.db, s) = DoUpdate(v.db, bare)
  <2>1. v.db.rows = Bare(db.rows)
    BY ViewOf
  <2> QED BY <1>1, <2>1 DEF DoFill
<1>6. bare = Bare(rs)
  <2>1. Bare(db.rows)[t] = << >>
    BY <1>2, <1>3 DEF Bare
  <2>2. bare = WithTable(Bare(db.rows), t, [i \in DOMAIN << >> |-> FillRow(<< >>[i], s)])
    BY <2>1 DEF Update, WithTable
  <2>3. [i \in DOMAIN << >> |-> FillRow(<< >>[i], s)] = << >>
    OBVIOUS
  <2>4. bare = Bare(db.rows)
    BY <1>2, <1>3, <2>2, <2>3, BareEmpty
  <2> HIDE DEF new, bare
  <2> QED BY <1>2, <1>3, <2>4, BareWith
<1>7. Typed(db.rows) /\ Hold(db.rows, v.facts) /\ CameTrue(was, db.rows, v.came)
  BY TrueBefore
<1>8. IsFcn(old) /\ \A i \in DOMAIN old : IsFcn(old[i]) /\ DOMAIN old[i] = Fields(t)
  BY <1>2, <1>3, <1>7 DEF Typed, TypedTable
<1>9. /\ DOMAIN new = DOMAIN old /\ IsFcn(new)
      /\ \A i \in DOMAIN old :
           /\ IsFcn(new[i]) /\ DOMAIN new[i] = Fields(t) /\ new[i][s.column] = s.value
           /\ \A c \in Fields(t) \ {s.column} : new[i][c] = old[i][c]
           /\ new[i] = FillRow(old[i], s)
  BY <1>2, <1>8 DEF FillRow, IsFcn
<1> HIDE DEF new, bare, t
<1>10. Typed(rs)
  <2>1. TypedTable(t, new)
    BY <1>2, <1>9 DEF TypedTable
  <2> QED BY <1>2, <1>7, <2>1, TypedWith
<1>11. Hold(rs, FactsAfter(v.facts, s))
  <2> DEFINE more == {<<t, Allows(s.column, {s.value})>>}
  <2>1. FactsAfter(v.facts, s) = Spared(v.facts, t, {s.column}) \union more
    BY DEF FactsAfter, t
  <2>2. \A f \in more : f = <<t, f[2]>> /\ RowFact(f[2]) /\ InRow(t, f[2]) /\ Meets(new, f[2])
    <3> DEFINE is == Allows(s.column, {s.value})
    <3>1. is[1] = "allows" /\ is[2] = s.column /\ is[3] = {s.value}
      BY DEF Allows
    <3> HIDE DEF is
    <3>2. Meets(new, is)
      BY <1>9, <3>1, MeetsAllows
    <3>3. RowFact(is) /\ InRow(t, is)
      BY <1>2, <3>1 DEF RowFact, InRow, Mentioned
    <3> QED BY <3>2, <3>3 DEF is
  <2>3. Hold(rs, Spared(v.facts, t, {s.column}) \union more)
    <3> HIDE DEF more
    <3> QED BY <1>2, <1>3, <1>7, <1>9, <2>2, ChangedHold
  <2> QED BY <2>1, <2>3
<1>12. CameTrue(was, rs, CameAfter(v.came, s))
  <2>1. CameAfter(v.came, s) = Changed(v.came, t, s)
    BY DEF CameAfter, t
  <2>2. s # Nothing /\ s # TooMuch /\ \A r : ChangedRow(r, s) = FillRow(r, s)
    BY DEF Nothing, TooMuch, ChangedRow
  <2>3. CameTrue(was, rs, Changed(v.came, t, s))
    BY <1>2, <1>7, <1>9, <2>2, CameWith
  <2> QED BY <2>1, <2>3
<1>13. Sure(v.db, v.facts, s) =>
         \A o \in v.db.objects : Foreseen(Do(v.db, s), FactsAfter(v.facts, s), o)
  BY DEF Sure
<1> HIDE DEF rs
<1> QED BY <1>4, <1>5, <1>6, <1>10, <1>11, <1>12, <1>13, UpdateFollowed

LEMMA InLists ==
  ASSUME NEW rs, NEW facts, Hold(rs, facts), NEW t, NEW column, NEW vs \in Lists(facts, t, column)
  PROVE  t # "templates" /\ \A i \in DOMAIN rs[t] : rs[t][i][column] \in vs \union {NoValue}
<1>1. PICK f \in facts : f[1] = t /\ f[2][1] = "allows" /\ f[2][2] = column /\ f[2][3] = vs
  BY DEF Lists
<1>2. Meets(rs[t], f[2]) /\ t # "templates"
  BY <1>1 DEF Hold
<1> QED BY <1>1, <1>2, MeetsAllows

\* A list after the relabelling of a column.
LEMMA RelabelledMeets ==
  ASSUME NEW rs, NEW facts, Hold(rs, facts), NEW t, NEW column \in Fields(t), NEW a, NEW b,
         a # NoValue, NEW new, DOMAIN new = DOMAIN rs[t],
         \A i \in DOMAIN new :
           new[i][column] = IF rs[t][i][column] = a THEN b ELSE rs[t][i][column]
  PROVE  \A f \in Relabelled(facts, t, column, a, b) :
           f = <<t, f[2]>> /\ RowFact(f[2]) /\ InRow(t, f[2]) /\ Meets(new, f[2])
<1> TAKE f \in Relabelled(facts, t, column, a, b)
<1>1. PICK vs \in Lists(facts, t, column) :
        f = <<t, Allows(column, {IF v = a THEN b ELSE v : v \in vs})>>
  BY DEF Relabelled
<1> DEFINE values == {IF v = a THEN b ELSE v : v \in vs}
           is == Allows(column, values)
<1>2. \A i \in DOMAIN rs[t] : rs[t][i][column] \in vs \union {NoValue}
  BY InLists
<1>3. \A i \in DOMAIN new : new[i][column] \in values \union {NoValue}
  BY <1>2
<1>4. is[1] = "allows" /\ is[2] = column /\ is[3] = values
  BY DEF Allows
<1>5. f = <<t, is>>
  BY <1>1
<1> HIDE DEF is, values
<1>6. Meets(new, is)
  BY <1>3, <1>4, MeetsAllows
<1>7. RowFact(is) /\ InRow(t, is)
  BY <1>4 DEF RowFact, InRow, Mentioned
<1> QED BY <1>5, <1>6, <1>7

LEMMA RelabelFollowed ==
  ASSUME NEW was, NEW db, NEW v, NEW s, Expected(was, db, v, s), s.do = "relabel"
  PROVE  Followed(was, db, v, s)
<1> DEFINE t == s.table
           old == db.rows[t]
           new == [i \in DOMAIN old |-> RelabelRow(old[i], s)]
           rs == WithTable(db.rows, t, new)
           bare == Update(Bare(db.rows), t, LAMBDA r : RelabelRow(r, s))
<1>1. Do(db, s) = DoRelabel(db, s) /\ Do(v.db, s) = DoRelabel(v.db, s)
  <2>1. db.error = NoValue /\ v.db.error = NoValue
    BY DoBoth
  <2> QED BY <2>1, DoIs
<1>2. /\ t \in DOMAIN db.rows /\ s.old # NoValue
      /\ t # "templates" => s.column \in Fields(t)
  <2>1. t \in DOMAIN v.db.rows /\ (t = "templates" \/ s.column \in Fields(t)) /\ s.old # NoValue
    BY Ground DEF Clear
  <2> QED BY <2>1, ViewOf
<1>3. Do(db, s) = DoUpdate(db, rs)
  BY <1>1 DEF DoRelabel, Update, WithTable
<1>4. Do(v.db, s) = DoUpdate(v.db, bare)
  <2>1. v.db.rows = Bare(db.rows)
    BY ViewOf
  <2> QED BY <1>1, <2>1 DEF DoRelabel
<1>5. bare = Bare(rs)
  <2>1. CASE t # "templates"
    <3>1. Bare(db.rows)[t] = << >>
      BY <1>2, <2>1 DEF Bare
    <3>2. bare = WithTable(Bare(db.rows), t, [i \in DOMAIN << >> |-> RelabelRow(<< >>[i], s)])
      BY <3>1 DEF Update, WithTable
    <3>3. [i \in DOMAIN << >> |-> RelabelRow(<< >>[i], s)] = << >>
      OBVIOUS
    <3>4. bare = Bare(db.rows)
      BY <1>2, <2>1, <3>2, <3>3, BareEmpty
    <3> HIDE DEF new, bare
    <3> QED BY <1>2, <2>1, <3>4, BareWith
  <2>2. CASE t = "templates"
    <3>1. Bare(db.rows)[t] = old
      BY <1>2, <2>2 DEF Bare
    <3>2. bare = WithTable(Bare(db.rows), t, new)
      BY <3>1 DEF Update, WithTable
    <3> HIDE DEF new, bare
    <3> QED BY <1>2, <2>2, <3>2, BareWith
  <2> QED BY <2>1, <2>2
<1>6. Typed(db.rows) /\ Hold(db.rows, v.facts) /\ CameTrue(was, db.rows, v.came)
  BY TrueBefore
<1>7. t # "templates" =>
        IsFcn(old) /\ \A i \in DOMAIN old : IsFcn(old[i]) /\ DOMAIN old[i] = Fields(t)
  BY <1>2, <1>6, NoElements DEF Typed, TypedTable
<1>8. DOMAIN new = DOMAIN old /\ IsFcn(new) /\ \A i \in DOMAIN new : new[i] = RelabelRow(old[i], s)
  BY DEF IsFcn
<1>9. t # "templates" =>
        \A i \in DOMAIN new :
           /\ IsFcn(new[i]) /\ DOMAIN new[i] = Fields(t)
           /\ new[i][s.column] = IF old[i][s.column] = s.old THEN s.new ELSE old[i][s.column]
           /\ \A c \in Fields(t) \ {s.column} : new[i][c] = old[i][c]
  BY <1>2, <1>7 DEF RelabelRow, IsFcn
<1> HIDE DEF new, bare, t
<1>10. Typed(rs)
  <2>1. t # "templates" => TypedTable(t, new)
    BY <1>2, <1>8, <1>9 DEF TypedTable
  <2> QED BY <1>2, <1>6, <2>1, TypedWith
<1>11. Hold(rs, FactsAfter(v.facts, s))
  <2> DEFINE more == Relabelled(v.facts, t, s.column, s.old, s.new)
  <2>1. FactsAfter(v.facts, s) = Spared(v.facts, t, {s.column}) \union more
    BY DEF FactsAfter, t
  <2>2. CASE t # "templates"
    <3>1. \A f \in more : f = <<t, f[2]>> /\ RowFact(f[2]) /\ InRow(t, f[2]) /\ Meets(new, f[2])
      BY <1>2, <1>6, <1>8, <1>9, <2>2, RelabelledMeets
    <3> HIDE DEF more
    <3>2. Hold(rs, Spared(v.facts, t, {s.column}) \union more)
      BY <1>2, <1>6, <1>8, <1>9, <2>2, <3>1, ChangedHold
    <3> QED BY <2>1, <3>2
  <2>3. CASE t = "templates"
    <3>1. more = {}
      <4>1. Lists(v.facts, t, s.column) = {}
        BY <1>6, <2>3, InLists
      <4> QED BY <4>1 DEF Relabelled
    <3>2. \A f \in FactsAfter(v.facts, s) : f \in v.facts /\ f[1] # t
      BY <1>6, <2>1, <2>3, <3>1 DEF Spared, Hold
    <3> QED BY <1>2, <1>6, <3>2, HoldWith
  <2> QED BY <2>2, <2>3
<1>12. CameTrue(was, rs, CameAfter(v.came, s))
  <2>1. CameAfter(v.came, s) = Changed(v.came, t, s)
    BY DEF CameAfter, t
  <2>2. s # Nothing /\ s # TooMuch /\ \A r : ChangedRow(r, s) = RelabelRow(r, s)
    BY DEF Nothing, TooMuch, ChangedRow
  <2>3. CameTrue(was, rs, Changed(v.came, t, s))
    BY <1>2, <1>6, <1>8, <2>2, CameWith
  <2> QED BY <2>1, <2>3
<1>13. Sure(v.db, v.facts, s) =>
         \A o \in v.db.objects : Foreseen(Do(v.db, s), FactsAfter(v.facts, s), o)
  BY DEF Sure
<1> HIDE DEF rs
<1> QED BY <1>3, <1>4, <1>5, <1>10, <1>11, <1>12, <1>13, UpdateFollowed

\* The contracts after a turn from label a to label b.
TurnedFrom(old, new, a, b) ==
  /\ DOMAIN new = DOMAIN old
  /\ \A i \in DOMAIN new :
       /\ old[i].connection_type = a =>
            /\ new[i].connection_type = b
            /\ new[i].owner = old[i].counterparty /\ new[i].counterparty = old[i].owner
       /\ old[i].connection_type # a =>
            /\ new[i].connection_type = old[i].connection_type
            /\ new[i].owner = old[i].owner /\ new[i].counterparty = old[i].counterparty
       /\ \A c \in Fields("contracts") \ TurnedColumns : new[i][c] = old[i][c]

\* The unique keys over all that turns: the rows that turn stay as distinct as they
\* were, and none of the others has their label.
LEMMA KeysMeet ==
  ASSUME NEW rs, NEW facts, Hold(rs, facts), NEW a, NEW b, b # NoValue,
         NEW new, TurnedFrom(rs["contracts"], new, a, b)
  PROVE  \A f \in KeysOverTurn(facts, b) :
           f = <<"contracts", f[2]>> /\ RowFact(f[2]) /\ InRow("contracts", f[2]) /\ Meets(new, f[2])
<1> TAKE f \in KeysOverTurn(facts, b)
<1> DEFINE old == rs["contracts"]
           is == f[2]
<1>1. /\ f \in facts /\ f[1] = "contracts" /\ is[1] = "unique" /\ TurnedColumns \subseteq is[2]
      /\ \E vs \in Lists(facts, "contracts", "connection_type") : b \notin vs
  BY DEF KeysOverTurn
<1>2. f = <<"contracts", is>> /\ RowFact(is) /\ InRow("contracts", is) /\ Meets(old, is)
  BY <1>1 DEF Hold
<1>3. \A i \in DOMAIN old : old[i].connection_type # b
  <2>1. PICK vs \in Lists(facts, "contracts", "connection_type") : b \notin vs
    BY <1>1
  <2>2. \A i \in DOMAIN rs["contracts"] : rs["contracts"][i]["connection_type"] \in vs \union {NoValue}
    BY InLists
  <2> QED BY <2>1, <2>2
<1>4. {"owner", "counterparty", "connection_type"} \subseteq is[2]
  BY <1>1 DEF TurnedColumns
<1>5. is[2] \subseteq Fields("contracts") /\ (is[3] = "live" => "deleted_at" \in Fields("contracts"))
  BY <1>1, <1>2 DEF InRow, Mentioned, Fields
<1>6. \A i \in DOMAIN old :
        /\ old[i].connection_type = a =>
             /\ new[i].connection_type = b
             /\ new[i].owner = old[i].counterparty /\ new[i].counterparty = old[i].owner
        /\ old[i].connection_type # a =>
             /\ new[i].connection_type = old[i].connection_type
             /\ new[i].owner = old[i].owner /\ new[i].counterparty = old[i].counterparty
        /\ \A c \in Fields("contracts") \ {"owner", "counterparty", "connection_type"} :
             new[i][c] = old[i][c]
  BY DEF TurnedFrom, TurnedColumns
<1>7. \A i, j \in DOMAIN old :
             /\ i # j
             /\ is[3] = "live" => ~old[i].deleted_at
             /\ is[3] = "live" => ~old[j].deleted_at
             => \E c \in is[2] : old[i][c] # old[j][c]
  BY <1>1, <1>2, MeetsUnique
<1>8. DOMAIN new = DOMAIN old
  BY DEF TurnedFrom
<1> HIDE DEF is, old
<1>9. \A i, j \in DOMAIN new :
             /\ i # j
             /\ is[3] = "live" => ~new[i].deleted_at
             /\ is[3] = "live" => ~new[j].deleted_at
             => \E c \in is[2] : new[i][c] # new[j][c]
  <2> SUFFICES ASSUME NEW i \in DOMAIN old, NEW j \in DOMAIN old, i # j,
                      is[3] = "live" => ~new[i].deleted_at,
                      is[3] = "live" => ~new[j].deleted_at
               PROVE  \E c \in is[2] : new[i][c] # new[j][c]
    BY <1>8
  <2>1. is[3] = "live" => ~old[i].deleted_at /\ ~old[j].deleted_at
    BY <1>5, <1>6
  <2>2. PICK c \in is[2] : old[i][c] # old[j][c]
    BY <1>7, <2>1
  <2>3. CASE old[i].connection_type = a /\ old[j].connection_type = a
    <3>1. CASE c = "owner"
      <4>1. new[i].counterparty # new[j].counterparty
        BY <1>6, <2>2, <2>3, <3>1
      <4> QED BY <1>4, <4>1
    <3>2. CASE c = "counterparty"
      <4>1. new[i].owner # new[j].owner
        BY <1>6, <2>2, <2>3, <3>2
      <4> QED BY <1>4, <4>1
    <3>3. CASE c = "connection_type"
      BY <2>2, <2>3, <3>3
    <3>4. CASE c \notin {"owner", "counterparty", "connection_type"}
      <4>1. new[i][c] # new[j][c]
        BY <1>5, <1>6, <2>2, <3>4
      <4> QED BY <4>1
    <3> QED BY <3>1, <3>2, <3>3, <3>4
  <2>4. CASE old[i].connection_type # a /\ old[j].connection_type # a
    <3>1. new[i][c] # new[j][c]
      <4>1. CASE c = "owner"
        BY <1>6, <2>2, <2>4, <4>1
      <4>2. CASE c = "counterparty"
        BY <1>6, <2>2, <2>4, <4>2
      <4>3. CASE c = "connection_type"
        BY <1>6, <2>2, <2>4, <4>3
      <4>4. CASE c \notin {"owner", "counterparty", "connection_type"}
        BY <1>5, <1>6, <2>2, <4>4
      <4> QED BY <4>1, <4>2, <4>3, <4>4
    <3> QED BY <3>1
  <2>5. CASE \/ old[i].connection_type = a /\ old[j].connection_type # a
             \/ old[i].connection_type # a /\ old[j].connection_type = a
    <3>1. new[i].connection_type # new[j].connection_type
      BY <1>3, <1>6, <2>5
    <3> QED BY <1>4, <3>1
  <2> QED BY <2>3, <2>4, <2>5
<1>10. Meets(new, is)
  BY <1>1, <1>9, MeetsUnique
<1> QED BY <1>2, <1>10 DEF is

LEMMA TurnFollowed ==
  ASSUME NEW was, NEW db, NEW v, NEW s, Expected(was, db, v, s), s.do = "turn"
  PROVE  Followed(was, db, v, s)
<1> DEFINE old == db.rows["contracts"]
           new == [i \in DOMAIN old |-> TurnRow(old[i], s)]
           rs == WithTable(db.rows, "contracts", new)
           bare == Update(Bare(db.rows), "contracts", LAMBDA r : TurnRow(r, s))
<1>1. Do(db, s) = DoTurn(db, s) /\ Do(v.db, s) = DoTurn(v.db, s)
  <2>1. db.error = NoValue /\ v.db.error = NoValue
    BY DoBoth
  <2> QED BY <2>1, DoIs
<1>2. "contracts" \in DOMAIN db.rows /\ s.old # NoValue /\ s.new # NoValue
  <2>1. "contracts" \in DOMAIN v.db.rows /\ s.old # NoValue /\ s.new # NoValue
    BY Ground DEF Clear
  <2> QED BY <2>1, ViewOf
<1>3. Do(db, s) = DoUpdate(db, rs)
  BY <1>1 DEF DoTurn, Update, WithTable
<1>4. Do(v.db, s) = DoUpdate(v.db, bare)
  <2>1. v.db.rows = Bare(db.rows)
    BY ViewOf
  <2> QED BY <1>1, <2>1 DEF DoTurn
<1>5. bare = Bare(rs)
  <2>1. Bare(db.rows)["contracts"] = << >>
    BY <1>2 DEF Bare
  <2>2. bare = WithTable(Bare(db.rows), "contracts", [i \in DOMAIN << >> |-> TurnRow(<< >>[i], s)])
    BY <2>1 DEF Update, WithTable
  <2>3. [i \in DOMAIN << >> |-> TurnRow(<< >>[i], s)] = << >>
    OBVIOUS
  <2>4. bare = Bare(db.rows)
    BY <1>2, <2>2, <2>3, BareEmpty
  <2> HIDE DEF new, bare
  <2> QED BY <1>2, <2>4, BareWith
<1>6. Typed(db.rows) /\ Hold(db.rows, v.facts) /\ CameTrue(was, db.rows, v.came)
  BY TrueBefore
<1>7. Fields("contracts") = {"owner", "counterparty", "subtype", "connection_type", "deleted_at"}
  BY DEF Fields
<1>8. IsFcn(old) /\ \A i \in DOMAIN old : IsFcn(old[i]) /\ DOMAIN old[i] = Fields("contracts")
  BY <1>2, <1>6, <1>7 DEF Typed, TypedTable
<1>9. DOMAIN new = DOMAIN old /\ IsFcn(new) /\ \A i \in DOMAIN new : new[i] = TurnRow(old[i], s)
  BY DEF IsFcn
<1> HIDE DEF new, bare
<1>10. ASSUME NEW i \in DOMAIN new
       PROVE  /\ IsFcn(new[i]) /\ DOMAIN new[i] = Fields("contracts")
              /\ old[i].connection_type = s.old =>
                   /\ new[i].connection_type = s.new
                   /\ new[i].owner = old[i].counterparty /\ new[i].counterparty = old[i].owner
              /\ old[i].connection_type # s.old => new[i] = old[i]
              /\ \A c \in Fields("contracts") \ {"owner", "counterparty", "connection_type"} :
                   new[i][c] = old[i][c]
  <2>1. CASE old[i].connection_type # s.old
    <3>1. new[i] = old[i]
      BY <1>9, <2>1 DEF TurnRow
    <3> QED BY <1>8, <1>9, <2>1, <3>1
  <2>2. CASE old[i].connection_type = s.old
    <3> DEFINE r == old[i]
               x == [r EXCEPT !.connection_type = s.new]
               y == [x EXCEPT !.owner = r.counterparty]
               z == [y EXCEPT !.counterparty = r.owner]
    <3>1. new[i] = z
      BY <1>9, <2>2 DEF TurnRow
    <3>2. DOMAIN r = {"owner", "counterparty", "subtype", "connection_type", "deleted_at"}
      BY <1>7, <1>8, <1>9
    <3> HIDE DEF r
    <3>3. /\ DOMAIN x = DOMAIN r /\ x.connection_type = s.new
          /\ \A c \in DOMAIN r \ {"connection_type"} : x[c] = r[c]
      BY <3>2
    <3> HIDE DEF x
    <3>4. /\ DOMAIN y = DOMAIN r /\ y.owner = r.counterparty
          /\ \A c \in DOMAIN r \ {"owner"} : y[c] = x[c]
      BY <3>2, <3>3
    <3> HIDE DEF y
    <3>5. /\ DOMAIN z = DOMAIN r /\ z.counterparty = r.owner /\ IsFcn(z)
          /\ \A c \in DOMAIN r \ {"counterparty"} : z[c] = y[c]
      BY <3>2, <3>4 DEF IsFcn
    <3> HIDE DEF z
    <3>6. /\ z.connection_type = s.new /\ z.owner = r.counterparty /\ z.counterparty = r.owner
      BY <3>2, <3>3, <3>4, <3>5
    <3>7. \A c \in DOMAIN r \ {"owner", "counterparty", "connection_type"} : z[c] = r[c]
      BY <3>2, <3>3, <3>4, <3>5
    <3> QED BY <1>7, <2>2, <3>1, <3>2, <3>5, <3>6, <3>7 DEF r
  <2> QED BY <2>1, <2>2
<1>11. Typed(rs)
  <2>1. TypedTable("contracts", new)
    BY <1>7, <1>9, <1>10 DEF TypedTable
  <2> QED BY <1>2, <1>6, <2>1, TypedWith
<1>12. \A i \in DOMAIN new : \A c \in Fields("contracts") \ TurnedColumns : new[i][c] = old[i][c]
  BY <1>10 DEF TurnedColumns
<1>13. Hold(rs, FactsAfter(v.facts, s))
  <2> DEFINE keys == KeysOverTurn(v.facts, s.new)
             labels == Relabelled(v.facts, "contracts", "connection_type", s.old, s.new)
  <2>1. FactsAfter(v.facts, s) = Spared(v.facts, "contracts", TurnedColumns) \union (keys \union labels)
    BY DEF FactsAfter
  <2>2. \A f \in keys :
          f = <<"contracts", f[2]>> /\ RowFact(f[2]) /\ InRow("contracts", f[2]) /\ Meets(new, f[2])
    <3>1. TurnedFrom(old, new, s.old, s.new)
      BY <1>9, <1>10, <1>12 DEF TurnedFrom
    <3> QED BY <1>2, <1>6, <3>1, KeysMeet
  <2>3. \A f \in labels :
          f = <<"contracts", f[2]>> /\ RowFact(f[2]) /\ InRow("contracts", f[2]) /\ Meets(new, f[2])
    <3>1. \A i \in DOMAIN new :
            new[i]["connection_type"]
              = IF old[i]["connection_type"] = s.old THEN s.new ELSE old[i]["connection_type"]
      BY <1>10
    <3>2. "connection_type" \in Fields("contracts")
      BY <1>7
    <3> QED BY <1>2, <1>6, <1>9, <3>1, <3>2, RelabelledMeets
  <2>4. Hold(rs, Spared(v.facts, "contracts", TurnedColumns) \union (keys \union labels))
    <3> DEFINE more == keys \union labels
    <3>1. \A f \in more :
            f = <<"contracts", f[2]>> /\ RowFact(f[2]) /\ InRow("contracts", f[2]) /\ Meets(new, f[2])
      <4> HIDE DEF keys, labels
      <4> QED BY <2>2, <2>3
    <3> HIDE DEF more
    <3>2. "contracts" # "templates"
      OBVIOUS
    <3>3. Hold(rs, Spared(v.facts, "contracts", TurnedColumns) \union more)
      BY <1>2, <1>6, <1>9, <1>12, <3>1, <3>2, ChangedHold
    <3> QED BY <3>3 DEF more
  <2> QED BY <2>1, <2>4
<1>14. CameTrue(was, rs, CameAfter(v.came, s))
  <2>1. CameAfter(v.came, s) = Changed(v.came, "contracts", s)
    BY DEF CameAfter
  <2>2. s # Nothing /\ s # TooMuch /\ \A r : ChangedRow(r, s) = TurnRow(r, s)
    BY DEF Nothing, TooMuch, ChangedRow
  <2>3. CameTrue(was, rs, Changed(v.came, "contracts", s))
    BY <1>2, <1>6, <1>9, <2>2, CameWith
  <2> QED BY <2>1, <2>3
<1>15. Sure(v.db, v.facts, s) =>
         \A o \in v.db.objects : Foreseen(Do(v.db, s), FactsAfter(v.facts, s), o)
  BY DEF Sure
<1> HIDE DEF rs
<1> QED BY <1>3, <1>4, <1>5, <1>11, <1>13, <1>14, <1>15, UpdateFollowed

LEMMA DropFollowed ==
  ASSUME NEW was, NEW db, NEW v, NEW s, Expected(was, db, v, s), s.do = "drop"
  PROVE  Followed(was, db, v, s)
<1> DEFINE t == s.table
           old == db.rows[t]
           new == [i \in DOMAIN old |-> WithoutRow(old[i], s.names)]
           os == {o \in db.objects : ~(o.table = t /\ o.name \in s.names)}
           rs == WithTable(db.rows, t, new)
           bare == Update(Bare(db.rows), t, LAMBDA r : WithoutRow(r, s.names))
<1>1. Do(db, s) = DoDrop(db, s) /\ Do(v.db, s) = DoDrop(v.db, s)
  <2>1. db.error = NoValue /\ v.db.error = NoValue
    BY DoBoth
  <2> QED BY <2>1, DoIs
<1>2. t \in DOMAIN db.rows
  <2>1. t \in DOMAIN v.db.rows
    BY Ground DEF Clear
  <2> QED BY <2>1, ViewOf
<1>3. v.db.objects = db.objects /\ v.db.rows = Bare(db.rows)
  BY ViewOf
<1>4. s.names \subseteq Names(db, t) /\ s.names \subseteq Names(v.db, t)
  <2>1. Do(v.db, s).error = "none" /\ IsDb(v.db)
    BY Fine DEF NoValue
  <2>2. Failed(v.db, "schema").error = "schema"
    BY <2>1, FailedIs
  <2>3. Names(v.db, t) = Names(db, t)
    BY SameNames
  <2> HIDE DEF new, rs, bare, os
  <2> QED BY <1>1, <2>1, <2>2, <2>3 DEF DoDrop
<1>5. Now(db, Do(db, s), os, rs)
  BY <1>1, <1>4 DEF DoDrop, Update, WithTable, Now
<1>6. Now(v.db, Do(v.db, s), os, bare)
  BY <1>1, <1>3, <1>4 DEF DoDrop, Now
<1>7. bare = Bare(rs)
  <2>1. CASE t # "templates"
    <3>1. Bare(db.rows)[t] = << >>
      BY <1>2, <2>1 DEF Bare
    <3>2. bare = WithTable(Bare(db.rows), t, [i \in DOMAIN << >> |-> WithoutRow(<< >>[i], s.names)])
      BY <3>1 DEF Update, WithTable
    <3>3. [i \in DOMAIN << >> |-> WithoutRow(<< >>[i], s.names)] = << >>
      OBVIOUS
    <3>4. bare = Bare(db.rows)
      BY <1>2, <2>1, <3>2, <3>3, BareEmpty
    <3> HIDE DEF new, bare
    <3> QED BY <1>2, <2>1, <3>4, BareWith
  <2>2. CASE t = "templates"
    <3>1. Bare(db.rows)[t] = old
      BY <1>2, <2>2 DEF Bare
    <3>2. bare = WithTable(Bare(db.rows), t, new)
      BY <3>1 DEF Update, WithTable
    <3> HIDE DEF new, bare
    <3> QED BY <1>2, <2>2, <3>2, BareWith
  <2> QED BY <2>1, <2>2
<1>8. Typed(db.rows) /\ Hold(db.rows, v.facts) /\ CameTrue(was, db.rows, v.came)
  BY TrueBefore
<1>9. t # "templates" =>
        IsFcn(old) /\ \A i \in DOMAIN old : IsFcn(old[i]) /\ DOMAIN old[i] = Fields(t)
  BY <1>2, <1>8, NoElements DEF Typed, TypedTable
<1>10. /\ DOMAIN new = DOMAIN old /\ IsFcn(new)
       /\ \A i \in DOMAIN new : new[i] = WithoutRow(old[i], s.names)
  BY DEF IsFcn
<1>11. t # "templates" =>
        \A i \in DOMAIN new :
           /\ IsFcn(new[i]) /\ DOMAIN new[i] = Fields(t)
           /\ \A c \in Fields(t) \ s.names : new[i][c] = old[i][c]
           /\ \A c \in Fields(t) \intersect s.names : c # "deleted_at" => new[i][c] = NoValue
  BY <1>9 DEF WithoutRow, IsFcn
<1>12. Fields(t) \intersect s.names = {} /\ t # "templates" => rs = db.rows
  <2> SUFFICES ASSUME Fields(t) \intersect s.names = {}, t # "templates" PROVE rs = db.rows
    OBVIOUS
  <2>1. \A i \in DOMAIN old : new[i] = old[i]
    <3> TAKE i \in DOMAIN old
    <3> DEFINE r == old[i]
    <3>1. r = [f \in DOMAIN r |-> r[f]] /\ DOMAIN r \intersect s.names = {}
      BY <1>9 DEF IsFcn
    <3> HIDE DEF r
    <3>2. WithoutRow(r, s.names) = [f \in DOMAIN r |-> r[f]]
      BY <3>1 DEF WithoutRow
    <3>3. WithoutRow(r, s.names) = r
      BY <3>1, <3>2
    <3> QED BY <3>3 DEF r
  <2> HIDE DEF new
  <2>2. old = [i \in DOMAIN old |-> old[i]] /\ new = [i \in DOMAIN new |-> new[i]]
    BY <1>9, <1>10 DEF IsFcn
  <2>3. new = old
    BY <1>10, <2>1, <2>2
  <2>4. db.rows = [u \in DOMAIN db.rows |-> db.rows[u]]
    BY <1>8 DEF Typed, IsFcn
  <2> QED BY <2>3, <2>4 DEF WithTable
<1> HIDE DEF new, bare, t, os
<1>13. Typed(rs)
  <2>1. t # "templates" => TypedTable(t, new)
    <3> SUFFICES ASSUME t # "templates" PROVE TypedTable(t, new)
      OBVIOUS
    <3>1. CASE Fields(t) # {}
      BY <1>10, <1>11, <3>1 DEF TypedTable
    <3>2. CASE Fields(t) = {}
      <4>1. old = << >> /\ new = [i \in DOMAIN old |-> WithoutRow(old[i], s.names)]
        BY <1>2, <1>8, <3>2 DEF Typed, TypedTable, new
      <4>2. [i \in DOMAIN << >> |-> WithoutRow(<< >>[i], s.names)] = << >>
        OBVIOUS
      <4>3. new = << >>
        BY <4>1, <4>2
      <4> QED BY <3>2, <4>3 DEF TypedTable
    <3> QED BY <3>1, <3>2
  <2> QED BY <1>2, <1>8, <2>1, TypedWith
<1>14. Hold(rs, FactsAfter(v.facts, s))
  <2> DEFINE more == {Null(t, c) : c \in Nullable(t) \intersect s.names}
  <2>1. FactsAfter(v.facts, s) = Spared(v.facts, t, s.names) \union more
    BY DEF FactsAfter, t
  <2>2. CASE t # "templates"
    <3>1. \A f \in more : f = <<t, f[2]>> /\ RowFact(f[2]) /\ InRow(t, f[2]) /\ Meets(new, f[2])
      <4> TAKE f \in more
      <4>1. PICK c \in Nullable(t) \intersect s.names : f = Null(t, c)
        OBVIOUS
      <4> DEFINE is == Allows(c, {})
      <4>2. f = <<t, is>> /\ is[1] = "allows" /\ is[2] = c /\ is[3] = {}
        BY <4>1 DEF Null, Allows
      <4>3. c \in Fields(t) \intersect s.names /\ c # "deleted_at"
        BY DEF Nullable
      <4> HIDE DEF is
      <4>4. Meets(new, is)
        BY <1>11, <2>2, <4>2, <4>3, MeetsAllows
      <4>5. RowFact(is) /\ InRow(t, is)
        BY <4>2, <4>3 DEF RowFact, InRow, Mentioned
      <4> QED BY <4>2, <4>4, <4>5
    <3> HIDE DEF more
    <3>2. Hold(rs, Spared(v.facts, t, s.names) \union more)
      BY <1>2, <1>8, <1>10, <1>11, <2>2, <3>1, ChangedHold
    <3> QED BY <2>1, <3>2
  <2>3. CASE t = "templates"
    <3>1. more = {}
      BY <2>3, FieldsIsNotTemplates DEF Nullable
    <3>2. \A f \in FactsAfter(v.facts, s) : f \in v.facts /\ f[1] # t
      BY <1>8, <2>1, <2>3, <3>1 DEF Spared, Hold
    <3> QED BY <1>2, <1>8, <3>2, HoldWith
  <2> QED BY <2>2, <2>3
<1>15. CameTrue(was, rs, CameAfter(v.came, s))
  <2>1. CASE s.names \intersect Fields(t) # {}
    <3>1. CameAfter(v.came, s) = Changed(v.came, t, s)
      BY <2>1 DEF CameAfter, t
    <3>2. s # Nothing /\ s # TooMuch /\ \A r : ChangedRow(r, s) = WithoutRow(r, s.names)
      BY DEF Nothing, TooMuch, ChangedRow
    <3>3. CameTrue(was, rs, Changed(v.came, t, s))
      BY <1>2, <1>8, <1>10, <3>2, CameWith
    <3> QED BY <3>1, <3>3
  <2>2. CASE s.names \intersect Fields(t) = {}
    <3>1. CameAfter(v.came, s) = v.came
      BY <2>2 DEF CameAfter, t
    <3>2. CASE t # "templates"
      <4>1. rs = db.rows
        BY <1>12, <2>2, <3>2
      <4> QED BY <1>8, <3>1, <4>1
    <3>3. CASE t = "templates"
      BY <1>2, <1>8, <3>1, <3>3, TemplatesSeen
    <3> QED BY <3>2, <3>3
  <2> QED BY <2>1, <2>2
<1> HIDE DEF rs
<1> QED BY <1>5, <1>6, <1>7, <1>13, <1>14, <1>15, TablesFollowed

-----------------------------------------------------------------------------
(* A view that starts out true of a database stays true of it.              *)

LEMMA StepFollowed ==
  ASSUME NEW was, NEW db, NEW v, NEW s, Expected(was, db, v, s)
  PROVE  Followed(was, db, v, s)
<1>1. s.do \in {"create_table", "drop_table", "rename_table", "add", "drop", "drop_unique",
                "drop_check", "rename", "fill", "relabel", "turn", "seed", "unseed", "guard"}
  <2>1. Clear(v.db, s)
    BY Ground
  <2> QED BY <2>1 DEF Clear
<1> QED BY <1>1, CreateTableFollowed, DropTableFollowed, RenameTableFollowed, AddFollowed,
           DropFollowed, DropUniqueFollowed, DropCheckFollowed, RenameFollowed, FillFollowed,
           RelabelFollowed, TurnFollowed, SeedFollowed, UnseedFollowed, GuardFollowed

\* So far as the view has seen: it tells what became of the database.
Told(was, db, v) ==
  v.clear /\ v.db.error = NoValue =>
    /\ db.error # "schema"
    /\ v.sure => db.error = NoValue
    /\ db.error = NoValue => Seen(was, db, v)

LEMMA StepTold ==
  ASSUME NEW was, NEW db, NEW v, NEW s, Told(was, db, v)
  PROVE  Told(was, Do(db, s), Foresee(v, s))
<1> DEFINE w == Foresee(v, s)
<1>1. /\ w.db = Do(v.db, s) /\ (w.clear <=> v.clear /\ Clear(v.db, s))
      /\ (w.sure <=> v.sure /\ Sure(v.db, v.facts, s))
  BY DEF Foresee, View
<1> HIDE DEF w
<1> SUFFICES ASSUME w.clear, w.db.error = NoValue
             PROVE  /\ Do(db, s).error # "schema"
                    /\ w.sure => Do(db, s).error = NoValue
                    /\ Do(db, s).error = NoValue => Seen(was, Do(db, s), w)
  BY DEF Told, w
<1>2. v.db.error = NoValue
  BY <1>1 DEF Do
<1>3. /\ db.error # "schema"
      /\ v.sure => db.error = NoValue
      /\ db.error = NoValue => Seen(was, db, v)
  BY <1>1, <1>2 DEF Told
<1>4. CASE db.error # NoValue
  BY <1>1, <1>3, <1>4 DEF Do
<1>5. CASE db.error = NoValue
  <2>1. Expected(was, db, v, s)
    BY <1>1, <1>3, <1>5 DEF Expected
  <2>2. Followed(was, db, v, s)
    BY <2>1, StepFollowed
  <2> QED BY <1>1, <2>2 DEF Followed, w
<1> QED BY <1>4, <1>5

LEMMA RunTold ==
  ASSUME NEW was, NEW db, NEW v, NEW steps, Len(steps) \in Nat, Told(was, db, v)
  PROVE  Told(was, Run(db, steps), Outlook(v, steps))
<1> DEFINE n == Len(steps)
<1>1. PICK f : /\ f[0] = db /\ \A i \in 1..n : f[i] = Do(f[i - 1], steps[i])
               /\ Run(db, steps) = f[n]
  BY RunUnfolds
<1>2. PICK g : /\ g[0] = v /\ \A i \in 1..n : g[i] = Foresee(g[i - 1], steps[i])
               /\ Outlook(v, steps) = g[n]
  BY OutlookUnfolds
<1> DEFINE S == {i \in 0..n : Told(was, f[i], g[i])}
<1>3. 0 \in S
  BY <1>1, <1>2
<1>4. ASSUME NEW i \in 1..n, i - 1 \in S PROVE i \in S
  <2>1. Told(was, Do(f[i - 1], steps[i]), Foresee(g[i - 1], steps[i]))
    BY <1>4, StepTold
  <2> QED BY <1>1, <1>2, <2>1
<1>5. n \in S
  <2> HIDE DEF S
  <2>1. 0..n \subseteq S
    BY <1>3, <1>4, SetInduction
  <2> QED BY <2>1
<1> QED BY <1>1, <1>2, <1>5

-----------------------------------------------------------------------------
(* The commands, from a database at rest.                                   *)

LEMMA KnownPoint ==
  ASSUME NEW r, NEW d, <<r, d>> \in Known
  PROVE  /\ r \in 0..LastRev /\ {Meaning(o) : o \in d.objects} = MeaningAt[r]
         /\ r >= 2 =>
              "templates" \in DOMAIN d.rows /\ Values(d.rows["templates"], "kind") = KindsAt[r]
         /\ r = LastRev =>
              {<<o.table, o.is[2], o.is[3]>> : o \in {c \in d.objects : c.is[1] = "allows"}} = ModelLists
         /\ "nowhere" \notin DOMAIN d.rows /\ \A o \in d.objects : o.table \in DOMAIN d.rows
         /\ \A f \in AtRest(d).facts : InRow(f[1], f[2])
<1> DEFINE p == <<r, d>>
<1>1. PointIsRight(p)
  BY PathsAssumption
<1>2. p[1] = r /\ p[2] = d
  OBVIOUS
<1> HIDE DEF p
<1> QED BY <1>1, <1>2 DEF PointIsRight

LEMMA AtRestIs ==
  ASSUME NEW d
  PROVE  /\ AtRest(d).db = d /\ AtRest(d).clear /\ AtRest(d).sure
         /\ AtRest(d).came = [t \in DOMAIN d.rows |-> Origin(t, Nothing)]
BY DEF AtRest, View

LEMMA AtRestFact ==
  ASSUME NEW d, NEW f \in AtRest(d).facts
  PROVE  f = <<f[1], f[2]>> /\ RowFact(f[2])
<1>1. AtRest(d).facts =
        FactsOf(d.objects)
          \union UNION {{Null(t, c) : c \in {e \in Nullable(t) :
                                        ~\E o \in d.objects : o.table = t /\ o.name = e}}
                        : t \in DOMAIN d.rows}
  BY DEF AtRest, View
<1>2. CASE f \in FactsOf(d.objects)
  BY <1>2 DEF FactsOf
<1>3. CASE \E t, c : f = Null(t, c)
  BY <1>3 DEF Null, Allows, RowFact
<1> QED BY <1>1, <1>2, <1>3

LEMMA AtRestTold ==
  ASSUME NEW r, NEW db, Rested(r, db)
  PROVE  Told(db.rows, db, AtRest(Emptied(db)))
<1> DEFINE v == AtRest(Emptied(db))
<1>1. /\ IsDb(db) /\ db.error = NoValue /\ <<r, Emptied(db)>> \in Known
      /\ Typed(db.rows) /\ Hold(db.rows, v.facts)
  BY DEF Rested
<1>2. DOMAIN Emptied(db).rows = DOMAIN db.rows
  BY <1>1, EmptiedIs
<1>3. "nowhere" \notin DOMAIN db.rows
  BY <1>1, <1>2, KnownPoint
<1>4. v.db = Emptied(db) /\ v.came = [t \in DOMAIN db.rows |-> Origin(t, Nothing)]
  BY <1>2, AtRestIs
<1> HIDE DEF v
<1>5. CameTrue(db.rows, db.rows, v.came)
  <2>1. ASSUME NEW t \in DOMAIN db.rows PROVE Stems(db.rows, db.rows[t], Origin(t, Nothing))
    <3>1. Nothing # TooMuch /\ \A x : ChangedRow(x, Nothing) = x
      BY DEF Nothing, TooMuch, ChangedRow
    <3>2. Origin(t, Nothing).table = t /\ Origin(t, Nothing).change = Nothing
      BY DEF Origin
    <3> QED BY <1>3, <3>1, <3>2 DEF Stems
  <2> QED BY <1>4, <2>1 DEF CameTrue
<1>6. Seen(db.rows, db, v)
  BY <1>1, <1>4, <1>5 DEF Seen
<1> QED BY <1>1, <1>6 DEF Told, v, NoValue

\* Contracts that came from labelled connections are labelled connections.
LEMMA PairedAfter ==
  ASSUME NEW r, NEW db, Rested(r, db), NEW w, KeepsPaired(<<r, Emptied(db)>>, w),
         NEW rs, Typed(rs), CameTrue(db.rows, rs, w.came)
  PROVE  Paired(rs)
<1> SUFFICES ASSUME "contracts" \in DOMAIN rs PROVE Paired(rs)
  BY DEF Paired
<1> DEFINE o == w.came["contracts"]
           facts == AtRest(Emptied(db)).facts
           unlabelled == Null("contracts", "connection_type") \in facts
           now == rs["contracts"]
           old == db.rows["contracts"]
<1>1. Stems(db.rows, now, o) /\ "contracts" \in DOMAIN w.came
  BY DEF CameTrue
<1>2. \/ o.table = "nowhere"
      \/ /\ o.table = "contracts"
         /\ \/ o.change = Nothing
            \/ o.change.do = "fill" /\ o.change.column = "subtype" /\ unlabelled
            \/ o.change.do = "turn" /\ o.change.old # NoValue
            \/ /\ o.change.do = "drop"
               /\ "subtype" \in o.change.names => unlabelled
  <2>1. <<r, Emptied(db)>>[2] = Emptied(db)
    OBVIOUS
  <2> QED BY <1>1, <2>1 DEF KeepsPaired
<1>3. CASE o.table = "nowhere"
  BY <1>1, <1>3 DEF Stems, Paired
<1>4. CASE o.table = "contracts" /\ o.table # "nowhere"
  <2>1. o.change # TooMuch
    BY <1>2, <1>4 DEF Nothing, TooMuch
  <2>2. /\ "contracts" \in DOMAIN db.rows /\ DOMAIN now = DOMAIN old
        /\ \A i \in DOMAIN now : now[i] = ChangedRow(old[i], o.change)
    BY <1>1, <1>4, <2>1 DEF Stems
  <2>3. \A i \in DOMAIN old : old[i].connection_type # NoValue => old[i].subtype = "connection"
    BY <2>2 DEF Rested, Paired
  <2>4. unlabelled => \A i \in DOMAIN old : old[i].connection_type = NoValue
    <3> SUFFICES ASSUME unlabelled, NEW i \in DOMAIN old PROVE old[i].connection_type = NoValue
      OBVIOUS
    <3> DEFINE is == Allows("connection_type", {})
    <3>1. <<"contracts", is>>[1] = "contracts" /\ <<"contracts", is>>[2] = is
      OBVIOUS
    <3>2. Meets(old, is)
      BY <3>1 DEF Rested, Hold, Null
    <3>3. is[1] = "allows" /\ is[2] = "connection_type" /\ is[3] = {}
      BY DEF Allows
    <3> HIDE DEF is
    <3> QED BY <3>2, <3>3, MeetsAllows
  <2>5. /\ \A i \in DOMAIN old : IsFcn(old[i]) /\ DOMAIN old[i] = Fields("contracts")
        /\ Fields("contracts") = {"owner", "counterparty", "subtype", "connection_type", "deleted_at"}
    <3>1. Fields("contracts") = {"owner", "counterparty", "subtype", "connection_type", "deleted_at"}
      BY DEF Fields
    <3> QED BY <2>2, <3>1 DEF Rested, Typed, TypedTable
  <2> HIDE DEF now, old, o, unlabelled
  <2> SUFFICES ASSUME NEW i \in DOMAIN now, now[i].connection_type # NoValue
               PROVE  now[i].subtype = "connection"
    BY DEF Paired, now
  <2>6. CASE o.change = Nothing
    <3>1. now[i] = old[i]
      BY <2>2, <2>6 DEF ChangedRow, Nothing
    <3> QED BY <2>2, <2>3, <3>1
  <2>7. CASE o.change.do = "fill" /\ o.change.column = "subtype" /\ unlabelled
    <3>1. now[i] = [old[i] EXCEPT !["subtype"] = o.change.value]
      BY <2>2, <2>7 DEF ChangedRow, FillRow
    <3>2. now[i].connection_type = old[i].connection_type
      BY <2>2, <2>5, <3>1
    <3> QED BY <2>2, <2>4, <2>7, <3>2
  <2>8. CASE o.change.do = "turn" /\ o.change.old # NoValue
    <3>1. now[i] = TurnRow(old[i], o.change)
      BY <2>2, <2>8 DEF ChangedRow
    <3>2. now[i].subtype = old[i].subtype
      BY <2>2, <2>5, <3>1 DEF TurnRow
    <3>3. now[i].connection_type # NoValue => old[i].connection_type # NoValue
      BY <2>2, <2>5, <2>8, <3>1 DEF TurnRow
    <3> QED BY <2>2, <2>3, <3>2, <3>3
  <2>9. CASE o.change.do = "drop" /\ ("subtype" \in o.change.names => unlabelled)
    <3>1. now[i] = WithoutRow(old[i], o.change.names)
      BY <2>2, <2>9 DEF ChangedRow
    <3>2. \A c \in {"connection_type", "subtype"} :
            now[i][c] = IF c \notin o.change.names THEN old[i][c] ELSE NoValue
      BY <2>2, <2>5, <3>1 DEF WithoutRow
    <3>3. "connection_type" \notin o.change.names /\ old[i].connection_type # NoValue
      BY <3>2
    <3>4. "subtype" \notin o.change.names
      BY <2>2, <2>4, <2>9, <3>3
    <3> QED BY <2>2, <2>3, <3>2, <3>3, <3>4
  <2> QED BY <1>2, <1>4, <2>6, <2>7, <2>8, <2>9 DEF o, unlabelled
<1> QED BY <1>2, <1>3, <1>4

\* Contracts stay between parts that exist.
LEMMA LinkedAfter ==
  ASSUME NEW r, NEW db, Rested(r, db), NEW w, KeepsLinked(<<r, Emptied(db)>>, w),
         NEW rs, Typed(rs), CameTrue(db.rows, rs, w.came)
  PROVE  Linked(rs)
<1> SUFFICES ASSUME "contracts" \in DOMAIN rs PROVE Linked(rs)
  BY DEF Linked
<1> DEFINE t == PartsIn(DOMAIN db.rows)
           u == PartsIn(DOMAIN rs)
           o == w.came["contracts"]
           parts == w.came[u]
           now == rs["contracts"]
           old == db.rows["contracts"]
<1>1. Stems(db.rows, now, o) /\ DOMAIN w.came = DOMAIN rs
  BY DEF CameTrue
<1>2. DOMAIN Emptied(db).rows = DOMAIN db.rows
  BY EmptiedIs DEF Rested
<1>3. \/ o.table = "nowhere"
      \/ /\ o.table = "contracts"
         /\ \/ o.change.do \in {"nothing", "turn"}
            \/ o.change.do = "fill" /\ o.change.column \notin {"owner", "counterparty"}
            \/ o.change.do = "drop" /\ {"owner", "counterparty"} \intersect o.change.names = {}
         /\ u \in DOMAIN rs
         /\ parts.table = t /\ parts.change # TooMuch
  <2>1. <<r, Emptied(db)>>[2] = Emptied(db)
    OBVIOUS
  <2> QED BY <1>1, <1>2, <2>1 DEF KeepsLinked
<1>4. t # "nowhere" /\ u # "templates"
  BY DEF PartsIn
<1>5. CASE o.table = "nowhere"
  BY <1>1, <1>5 DEF Stems, Linked
<1>6. CASE o.table # "nowhere"
  <2>1. Stems(db.rows, rs[u], parts)
    BY <1>3, <1>4, <1>6 DEF CameTrue
  <2>2. DOMAIN rs[u] = DOMAIN db.rows[t]
    BY <1>3, <1>4, <1>6, <2>1 DEF Stems
  <2> HIDE DEF parts
  <2>9. o.change # TooMuch
    BY <1>3, <1>6 DEF TooMuch
  <2>3. /\ "contracts" \in DOMAIN db.rows /\ DOMAIN now = DOMAIN old
        /\ \A i \in DOMAIN now : now[i] = ChangedRow(old[i], o.change)
    BY <1>1, <1>3, <1>6, <2>9 DEF Stems
  <2>4. \A i \in DOMAIN old : {old[i].owner, old[i].counterparty} \subseteq DOMAIN db.rows[t]
    BY <2>3 DEF Rested, Linked
  <2>5. /\ \A i \in DOMAIN old : IsFcn(old[i]) /\ DOMAIN old[i] = Fields("contracts")
        /\ Fields("contracts") = {"owner", "counterparty", "subtype", "connection_type", "deleted_at"}
    <3>1. Fields("contracts") = {"owner", "counterparty", "subtype", "connection_type", "deleted_at"}
      BY DEF Fields
    <3> QED BY <2>3, <3>1 DEF Rested, Typed, TypedTable
  <2>6. \A i \in DOMAIN now : IsFcn(now[i]) /\ DOMAIN now[i] = Fields("contracts")
    BY <2>5 DEF Typed, TypedTable
  <2> HIDE DEF now, old, o
  <2>7. ASSUME NEW i \in DOMAIN now
        PROVE  {now[i].owner, now[i].counterparty} = {old[i].owner, old[i].counterparty}
    <3>1. CASE o.change.do = "nothing"
      BY <2>3, <3>1 DEF ChangedRow
    <3>2. CASE o.change.do = "drop"
      <4>1. now[i] = WithoutRow(old[i], o.change.names)
        BY <2>3, <3>2 DEF ChangedRow
      <4>2. now[i].owner = old[i].owner /\ now[i].counterparty = old[i].counterparty
        BY <1>3, <1>6, <2>3, <2>5, <3>2, <4>1 DEF WithoutRow
      <4> QED BY <4>2
    <3>3. CASE o.change.do = "fill"
      <4>1. now[i] = [old[i] EXCEPT ![o.change.column] = o.change.value]
        BY <2>3, <3>3 DEF ChangedRow, FillRow
      <4>2. now[i].owner = old[i].owner /\ now[i].counterparty = old[i].counterparty
        BY <1>3, <1>6, <2>3, <2>5, <3>3, <4>1
      <4> QED BY <4>2
    <3>4. CASE o.change.do = "turn"
      <4>1. now[i] = TurnRow(old[i], o.change)
        BY <2>3, <3>4 DEF ChangedRow
      <4> QED BY <2>3, <2>5, <4>1 DEF TurnRow
    <3> QED BY <1>3, <1>6, <3>1, <3>2, <3>3, <3>4
  <2> QED BY <2>2, <2>3, <2>4, <2>7 DEF Linked, now, old
<1> QED BY <1>5, <1>6

\* A run from a database at rest, of which the view says that it arrives at rest.
LEMMA CommandTold ==
  ASSUME NEW r, NEW db, Rested(r, db), NEW steps, Len(steps) \in Nat, NEW w,
         w = Outlook(AtRest(Emptied(db)), steps), Arrives(w), KeepsPaired(<<r, Emptied(db)>>, w),
         KeepsLinked(<<r, Emptied(db)>>, w), NEW q, <<q, w.db>> \in Known
  PROVE  /\ Run(db, steps).error # "schema"
         /\ w.sure => Run(db, steps).error = NoValue
         /\ Run(db, steps).error = NoValue =>
              /\ Seen(db.rows, Run(db, steps), w)
              /\ Rested(q, Run(db, steps)) /\ w.db = Emptied(Run(db, steps))
<1> DEFINE new == Run(db, steps)
<1>1. Told(db.rows, new, w)
  BY AtRestTold, RunTold
<1>2. w.clear /\ w.db.error = NoValue /\ \A f \in AtRest(w.db).facts : Follows(f, w.facts)
  BY DEF Arrives
<1>3. /\ new.error # "schema"
      /\ w.sure => new.error = NoValue
      /\ new.error = NoValue => Seen(db.rows, new, w)
  BY <1>1, <1>2 DEF Told
<1> HIDE DEF new
<1>4. ASSUME new.error = NoValue PROVE Rested(q, new) /\ w.db = Emptied(new)
  <2>1. /\ IsDb(new) /\ w.db = Emptied(new) /\ Typed(new.rows) /\ Hold(new.rows, w.facts)
        /\ CameTrue(db.rows, new.rows, w.came)
    BY <1>3, <1>4 DEF Seen
  <2>2. Paired(new.rows) /\ Linked(new.rows)
    BY <2>1, PairedAfter, LinkedAfter
  <2>3. Hold(new.rows, AtRest(Emptied(new)).facts)
    <3> SUFFICES ASSUME NEW f \in AtRest(w.db).facts
                 PROVE  /\ f = <<f[1], f[2]>> /\ RowFact(f[2])
                        /\ f[1] \in DOMAIN new.rows \ {"templates"} /\ InRow(f[1], f[2])
                        /\ Meets(new.rows[f[1]], f[2])
      BY <2>1 DEF Hold
    <3>1. f = <<f[1], f[2]>> /\ RowFact(f[2])
      BY AtRestFact
    <3>2. InRow(f[1], f[2])
      BY KnownPoint
    <3>3. PICK g \in w.facts : Implies(g, f)
      BY <1>2 DEF Follows
    <3>4. g[1] = f[1] /\ g[1] \in DOMAIN new.rows \ {"templates"} /\ Meets(new.rows[g[1]], g[2])
      BY <2>1, <3>3 DEF Hold, Implies
    <3>5. Meets(new.rows[f[1]], f[2])
      <4> DEFINE rs == new.rows[g[1]]
      <4>1. Meets(rs, g[2])
        BY <3>4
      <4> HIDE DEF rs
      <4>2. Meets(rs, f[2])
        BY <3>3, <4>1, ImpliedMeets
      <4> QED BY <3>4, <4>2 DEF rs
    <3> QED BY <3>1, <3>2, <3>4, <3>5
  <2> QED BY <1>4, <2>1, <2>2, <2>3 DEF Rested
<1> QED BY <1>3, <1>4 DEF new

LEMMA UpgradeTold ==
  ASSUME NEW r, NEW db, Rested(r, db), r < LastRev
  PROVE  LET p == <<r, Emptied(db)>>
             new == Run(db, Upgrades[r + 1])
         IN  /\ new.error = NoValue /\ Seen(db.rows, new, Ahead(p)) /\ Rested(r + 1, new)
             /\ Ahead(p).db = Emptied(new)
             /\ r > 0 => KeepsRows(p, Ahead(p))
<1> DEFINE p == <<r, Emptied(db)>>
           steps == Upgrades[r + 1]
           w == Ahead(p)
<1>1. p \in Known /\ p[1] = r /\ p[2] = Emptied(db)
  BY DEF Rested
<1>2. r \in 0..LastRev /\ LastRev \in Nat
  BY <1>1, KnownPoint, PathsAssumption
<1>3. Len(steps) \in Nat
  <2>1. r + 1 \in 1..LastRev
    BY <1>2
  <2> QED BY <2>1, PathsAssumption
<1> HIDE DEF p
<1>4. /\ Above(p) \in Known /\ Arrives(w) /\ w.sure /\ KeepsPaired(p, w) /\ KeepsLinked(p, w)
      /\ r > 0 => KeepsRows(p, w)
  <2>1. p[1] < LastRev
    BY <1>1
  <2> QED BY <1>1, <2>1, PathsAssumption
<1>5. w = Outlook(AtRest(Emptied(db)), steps) /\ Above(p) = <<r + 1, w.db>>
  BY <1>1 DEF Ahead, Above
<1>6. /\ KeepsPaired(<<r, Emptied(db)>>, w) /\ KeepsLinked(<<r, Emptied(db)>>, w)
      /\ Arrives(w) /\ <<r + 1, w.db>> \in Known
  BY <1>4, <1>5 DEF p
<1> HIDE DEF w, steps
<1>7. /\ w.sure => Run(db, steps).error = NoValue
      /\ Run(db, steps).error = NoValue =>
              /\ Seen(db.rows, Run(db, steps), w)
              /\ Rested(r + 1, Run(db, steps)) /\ w.db = Emptied(Run(db, steps))
  BY <1>3, <1>5, <1>6, CommandTold
<1> QED BY <1>4, <1>7 DEF p, w, steps

LEMMA DowngradeTold ==
  ASSUME NEW r, NEW db, Rested(r, db), r > 0
  PROVE  LET p == <<r, Emptied(db)>>
             new == Run(db, Downgrades[r])
         IN  /\ new.error # "schema"
             /\ new.error = NoValue =>
                  Seen(db.rows, new, Back(p)) /\ Rested(r - 1, new) /\ Back(p).db = Emptied(new)
             /\ r \notin LossyForRows => ComesBack(p)
<1> DEFINE p == <<r, Emptied(db)>>
           steps == Downgrades[r]
           w == Back(p)
<1>1. p \in Known /\ p[1] = r /\ p[2] = Emptied(db)
  BY DEF Rested
<1>2. r \in 1..LastRev
  BY <1>1, KnownPoint, PathsAssumption
<1>3. Len(steps) \in Nat
  BY <1>2, PathsAssumption
<1> HIDE DEF p
<1>4. /\ Below(p) \in Known /\ Arrives(w) /\ KeepsPaired(p, w) /\ KeepsLinked(p, w)
      /\ r \notin LossyForRows => ComesBack(p)
  <2>1. p[1] > 0
    BY <1>1
  <2> QED BY <1>1, <2>1, PathsAssumption
<1>5. w = Outlook(AtRest(Emptied(db)), steps) /\ Below(p) = <<r - 1, w.db>>
  BY <1>1 DEF Back, Below
<1>6. /\ KeepsPaired(<<r, Emptied(db)>>, w) /\ KeepsLinked(<<r, Emptied(db)>>, w)
      /\ Arrives(w) /\ <<r - 1, w.db>> \in Known
  BY <1>4, <1>5 DEF p
<1> HIDE DEF w, steps
<1>7. /\ Run(db, steps).error # "schema"
      /\ Run(db, steps).error = NoValue =>
              /\ Seen(db.rows, Run(db, steps), w)
              /\ Rested(r - 1, Run(db, steps)) /\ w.db = Emptied(Run(db, steps))
  BY <1>3, <1>5, <1>6, CommandTold
<1> QED BY <1>4, <1>7 DEF p, w, steps

-----------------------------------------------------------------------------
(* The rows that the API writes.                                            *)

LEMMA NullRows ==
  ASSUME NEW r, NEW db, Rested(r, db), NEW t \in DOMAIN db.rows, NEW c \in Nullable(t),
         ~\E o \in db.objects : o.table = t /\ o.name = c
  PROVE  \A i \in DOMAIN db.rows[t] : db.rows[t][i][c] = NoValue
<1> DEFINE d == Emptied(db)
           is == Allows(c, {})
<1>1. d.objects = db.objects /\ DOMAIN d.rows = DOMAIN db.rows
  BY EmptiedIs DEF Rested
<1>2. Null(t, c) \in AtRest(d).facts
  <2> HIDE DEF d
  <2> QED BY <1>1 DEF AtRest, View
<1>3. <<t, is>>[1] = t /\ <<t, is>>[2] = is
  OBVIOUS
<1>4. Meets(db.rows[t], is)
  BY <1>2, <1>3 DEF Rested, Hold, Null
<1>5. is[1] = "allows" /\ is[2] = c /\ is[3] = {}
  BY DEF Allows
<1> HIDE DEF is
<1> QED BY <1>4, <1>5, MeetsAllows

\* Rows the API may leave in t, and PostgreSQL accepts.
Writable(db, t, new) ==
  /\ TypedTable(t, new)
  /\ \A c \in Nullable(t) :
       (~\E o \in db.objects : o.table = t /\ o.name = c)
       => \A i \in DOMAIN new : new[i][c] = NoValue
  /\ t = "contracts" =>
       \A i \in DOMAIN new : new[i].connection_type # NoValue => new[i].subtype = "connection"
  /\ Linked(WithTable(db.rows, t, new))
  /\ \A o \in db.objects : Fits(WithTable(db.rows, t, new), o)

LEMMA WriteKeeps ==
  ASSUME NEW r, NEW db, Rested(r, db), NEW t \in DOMAIN db.rows, t # "templates",
         NEW new, Writable(db, t, new)
  PROVE  Rested(r, [objects |-> db.objects, rows |-> WithTable(db.rows, t, new), error |-> NoValue])
<1> DEFINE rs == WithTable(db.rows, t, new)
           os == db.objects
           next == [objects |-> os, rows |-> rs, error |-> NoValue]
           facts == AtRest(Emptied(db)).facts
<1>1. /\ IsDb(db) /\ db.error = NoValue /\ <<r, Emptied(db)>> \in Known
      /\ Typed(db.rows) /\ Hold(db.rows, facts) /\ Paired(db.rows)
  BY DEF Rested
<1>2. IsDb(next) /\ next.rows = rs /\ next.objects = os /\ next.error = NoValue
  <2> HIDE DEF os, rs
  <2> QED BY DEF IsDb
<1>3. Bare(rs) = Bare(db.rows)
  BY BareWith
<1>4. Emptied(next) = Emptied(db)
  <2>1. Emptied(db) = [objects |-> os, rows |-> Bare(db.rows), error |-> NoValue]
    BY <1>1, EmptiedIs
  <2> HIDE DEF os, rs
  <2>2. Emptied(next) = [objects |-> os, rows |-> Bare(rs), error |-> NoValue]
    BY <1>2, EmptiedIs
  <2> QED BY <1>3, <2>1, <2>2
<1>5. Typed(rs)
  BY <1>1, TypedWith DEF Writable
<1>6. DOMAIN rs = DOMAIN db.rows /\ rs[t] = new /\ \A u \in DOMAIN db.rows : u # t => rs[u] = db.rows[u]
  BY WithTableIs
<1> HIDE DEF rs
<1>7. Hold(rs, facts)
  <2> SUFFICES ASSUME NEW f \in facts
               PROVE  /\ f = <<f[1], f[2]>> /\ RowFact(f[2])
                      /\ f[1] \in DOMAIN rs \ {"templates"} /\ InRow(f[1], f[2])
                      /\ Meets(rs[f[1]], f[2])
    BY DEF Hold
  <2>1. /\ f = <<f[1], f[2]>> /\ RowFact(f[2])
        /\ f[1] \in DOMAIN db.rows \ {"templates"} /\ InRow(f[1], f[2])
        /\ Meets(db.rows[f[1]], f[2])
    BY <1>1 DEF Hold
  <2>2. Meets(rs[f[1]], f[2])
    <3>1. CASE f \in FactsOf(os)
      <4>1. PICK o \in os : f = <<o.table, o.is>>
        BY <3>1 DEF FactsOf
      <4>2. f[1] = o.table /\ f[2] = o.is
        BY <4>1
      <4>3. Meets(rs[o.table], o.is)
        BY DEF Fits, rs, Writable
      <4> QED BY <4>2, <4>3
    <3>2. CASE f[1] # t
      BY <1>6, <2>1, <3>2
    <3>3. CASE f \notin FactsOf(os) /\ f[1] = t
      <4>1. PICK u, c : /\ c \in Nullable(u) /\ f = Null(u, c)
                        /\ ~\E o \in os : o.table = u /\ o.name = c
        <5>1. Emptied(db).objects = os
          BY <1>1, EmptiedIs
        <5> DEFINE d == Emptied(db)
        <5> HIDE DEF d, os
        <5>2. d.objects = os
          BY <5>1 DEF d
        <5>3. f \in AtRest(d).facts
          BY DEF d
        <5> QED BY <3>3, <5>2, <5>3 DEF AtRest, View
      <4> DEFINE is == Allows(c, {})
      <4>2. f[1] = u /\ f[2] = is
        BY <4>1 DEF Null
      <4>3. is[1] = "allows" /\ is[2] = c /\ is[3] = {}
        BY DEF Allows
      <4>4. \A i \in DOMAIN new : new[i][c] = NoValue
        BY <3>3, <4>1, <4>2 DEF Writable
      <4> HIDE DEF is
      <4>5. Meets(new, is)
        BY <4>3, <4>4, MeetsAllows
      <4> QED BY <1>6, <3>3, <4>2, <4>5
    <3> QED BY <3>1, <3>2, <3>3
  <2> QED BY <1>6, <2>1, <2>2
<1>8. Paired(rs)
  BY <1>1, <1>6 DEF Paired, Writable
<1>10. Linked(rs)
  BY DEF Writable, rs
<1>9. Rested(r, next)
  <2> HIDE DEF next
  <2> QED BY <1>1, <1>2, <1>4, <1>5, <1>7, <1>8, <1>10 DEF Rested
<1> QED BY <1>9 DEF rs

LEMMA LinkedIs ==
  ASSUME NEW rs, NEW now, rs["contracts"] = now, NEW u, PartsIn(DOMAIN rs) = u,
         \A i \in DOMAIN now : {now[i].owner, now[i].counterparty} \subseteq DOMAIN rs[u]
  PROVE  Linked(rs)
BY DEF Linked

LEMMA InsertKeeps ==
  ASSUME NEW r, NEW db, Rested(r, db), NEW t \in DOMAIN db.rows, t # "templates", Fields(t) # {},
         NEW id, NEW row, IsFcn(row), DOMAIN row = Fields(t),
         \A c \in Nullable(t) :
           (~\E o \in db.objects : o.table = t /\ o.name = c) => row[c] = NoValue,
         t = "contracts" => (row.connection_type # NoValue => row.subtype = "connection"),
         t = "contracts" =>
           {row.owner, row.counterparty} \subseteq DOMAIN db.rows[PartsIn(DOMAIN db.rows)],
         NEW rs, rs = [db.rows EXCEPT ![t] = Put(@, id, row)], \A o \in db.objects : Fits(rs, o)
  PROVE  Rested(r, [objects |-> db.objects, rows |-> rs, error |-> NoValue])
<1> DEFINE old == db.rows[t]
           new == Put(old, id, row)
<1>1. rs = WithTable(db.rows, t, new)
  BY DEF WithTable
<1>2. IsFcn(old) /\ \A i \in DOMAIN old : IsFcn(old[i]) /\ DOMAIN old[i] = Fields(t)
  BY DEF Rested, Typed, TypedTable
<1>3. /\ IsFcn(new) /\ DOMAIN new = DOMAIN old \union {id} /\ new[id] = row
      /\ \A i \in DOMAIN old : i # id => new[i] = old[i]
  BY DEF Put, IsFcn
<1>4. \A i \in DOMAIN new : new[i] = row \/ (i \in DOMAIN old /\ new[i] = old[i])
  BY <1>3
<1> HIDE DEF new
<1>5. TypedTable(t, new)
  BY <1>2, <1>3, <1>4 DEF TypedTable
<1>6. \A c \in Nullable(t) :
        (~\E o \in db.objects : o.table = t /\ o.name = c)
        => \A i \in DOMAIN new : new[i][c] = NoValue
  BY <1>4, NullRows
<1>7. t = "contracts" =>
        \A i \in DOMAIN new :
          new[i].connection_type # NoValue => new[i].subtype = "connection"
  BY <1>4 DEF Rested, Paired
<1>8. Linked(rs)
  <2> DEFINE u == PartsIn(DOMAIN db.rows)
  <2>1. /\ DOMAIN rs = DOMAIN db.rows /\ rs[t] = new
        /\ \A x \in DOMAIN db.rows : x # t => rs[x] = db.rows[x]
    BY <1>1, WithTableIs
  <2>2. PartsIn(DOMAIN rs) = u /\ u # "contracts"
    BY <2>1 DEF PartsIn
  <2> HIDE DEF u
  <2>3. DOMAIN db.rows[u] \subseteq DOMAIN rs[u]
    <3>1. CASE u = t
      BY <1>3, <2>1, <3>1
    <3>2. CASE u # t
      BY <1>1, <3>2, WithTableIs DEF WithTable
    <3> QED BY <3>1, <3>2
  <2>4. CASE t = "contracts"
    <3>1. \A i \in DOMAIN new : {new[i].owner, new[i].counterparty} \subseteq DOMAIN db.rows[u]
      BY <1>4, <2>4 DEF Rested, Linked, u
    <3> QED BY <2>1, <2>2, <2>3, <2>4, <3>1 DEF Linked
  <2>5. CASE t # "contracts"
    BY <2>1, <2>2, <2>3, <2>5 DEF Rested, Linked, u
  <2> QED BY <2>4, <2>5
<1>9. Writable(db, t, new)
  BY <1>1, <1>5, <1>6, <1>7, <1>8 DEF Writable
<1> QED BY <1>1, <1>9, WriteKeeps

LEMMA DeleteKeeps ==
  ASSUME NEW r, NEW db, Rested(r, db), NEW t \in DOMAIN db.rows, t \in {"parts", "contracts"},
         NEW id \in DOMAIN db.rows[t],
         NEW rs, rs = [db.rows EXCEPT ![t][id].deleted_at = TRUE], \A o \in db.objects : Fits(rs, o)
  PROVE  Rested(r, [objects |-> db.objects, rows |-> rs, error |-> NoValue])
<1> DEFINE old == db.rows[t]
           new == [old EXCEPT ![id].deleted_at = TRUE]
<1>1. rs = WithTable(db.rows, t, new)
  BY DEF WithTable
<1>2. Fields(t) # {} /\ "deleted_at" \in Fields(t) /\ t # "templates"
  BY DEF Fields
<1>3. IsFcn(old) /\ \A i \in DOMAIN old : IsFcn(old[i]) /\ DOMAIN old[i] = Fields(t)
  BY <1>2 DEF Rested, Typed, TypedTable
<1>4. /\ IsFcn(new) /\ DOMAIN new = DOMAIN old /\ IsFcn(new[id]) /\ DOMAIN new[id] = Fields(t)
      /\ \A c \in Fields(t) \ {"deleted_at"} : new[id][c] = old[id][c]
      /\ \A i \in DOMAIN old : i # id => new[i] = old[i]
  BY <1>3 DEF IsFcn
<1> HIDE DEF new
<1>5. TypedTable(t, new)
  BY <1>2, <1>3, <1>4 DEF TypedTable
<1>6. \A i \in DOMAIN new : \A c \in Fields(t) \ {"deleted_at"} : new[i][c] = old[i][c]
  BY <1>4
<1>7. \A c \in Nullable(t) :
        (~\E o \in db.objects : o.table = t /\ o.name = c)
        => \A i \in DOMAIN new : new[i][c] = NoValue
  <2>1. \A c \in Nullable(t) : c \in Fields(t) \ {"deleted_at"}
    BY DEF Nullable
  <2> QED BY <1>4, <1>6, <2>1, NullRows
<1>8. t = "contracts" =>
        \A i \in DOMAIN new :
          new[i].connection_type # NoValue => new[i].subtype = "connection"
  <2> SUFFICES ASSUME t = "contracts", NEW i \in DOMAIN new, new[i].connection_type # NoValue
               PROVE  new[i].subtype = "connection"
    OBVIOUS
  <2>1. {"subtype", "connection_type"} \subseteq Fields(t) \ {"deleted_at"}
    BY DEF Fields
  <2>2. new[i].subtype = old[i].subtype /\ new[i].connection_type = old[i].connection_type
    BY <1>6, <2>1
  <2> QED BY <1>4, <2>2 DEF Rested, Paired
<1>9. ASSUME NEW q, q = WithTable(db.rows, t, new) PROVE Linked(q)
  <2> DEFINE u == PartsIn(DOMAIN db.rows)
  <2>1. /\ DOMAIN q = DOMAIN db.rows /\ q[t] = new
        /\ \A x \in DOMAIN db.rows : x # t => q[x] = db.rows[x]
    BY <1>9, WithTableIs
  <2>2. PartsIn(DOMAIN q) = u /\ u # "contracts"
    BY <2>1 DEF PartsIn
  <2> HIDE DEF u
  <2>3. DOMAIN q[u] = DOMAIN db.rows[u]
    <3>1. CASE u = t
      BY <1>4, <2>1, <3>1
    <3>2. CASE u # t
      BY <1>9, <3>2 DEF WithTable
    <3> QED BY <3>1, <3>2
  <2>4. CASE t = "contracts"
    <3>1. {"owner", "counterparty"} \subseteq Fields(t) \ {"deleted_at"}
      BY <2>4 DEF Fields
    <3>2. \A i \in DOMAIN new : new[i].owner = old[i].owner /\ new[i].counterparty = old[i].counterparty
      BY <1>6, <3>1
    <3>3. \A i \in DOMAIN old : {old[i].owner, old[i].counterparty} \subseteq DOMAIN db.rows[u]
      BY <2>4 DEF Rested, Linked, u
    <3>4. DOMAIN new = DOMAIN old
      BY <1>4
    <3> HIDE DEF old
    <3>5. \A i \in DOMAIN new : {new[i].owner, new[i].counterparty} \subseteq DOMAIN q[u]
      BY <2>3, <3>2, <3>3, <3>4
    <3>6. q["contracts"] = new
      BY <2>1, <2>4
    <3> QED BY <2>2, <3>5, <3>6, LinkedIs
  <2>5. CASE t # "contracts"
    BY <2>1, <2>2, <2>3, <2>5 DEF Rested, Linked, u
  <2> QED BY <2>4, <2>5
<1>10. Writable(db, t, new)
  BY <1>1, <1>5, <1>7, <1>8, <1>9 DEF Writable
<1> QED BY <1>1, <1>2, <1>10, WriteKeeps

-----------------------------------------------------------------------------
(* The inductive invariant.                                                 *)

LEMMA SurveyedInit == Init => Surveyed
<1> SUFFICES ASSUME Init PROVE Rested(rev, Database)
  BY DEF Surveyed
<1> DEFINE db == EmptyDatabase
<1>1. /\ db = [objects |-> {}, rows |-> << >>, error |-> NoValue]
      /\ db.objects = {} /\ db.rows = << >> /\ db.error = NoValue
  BY DEF EmptyDatabase
<1>2. rev = 0 /\ Database = db
  BY <1>1 DEF Init, Database
<1> HIDE DEF db
<1>3. IsDb(db)
  BY <1>1 DEF IsDb
<1>4. Bare(<< >>) = << >>
  <2>1. [t \in DOMAIN << >> |-> IF t = "templates" THEN << >>[t] ELSE << >>] = << >>
    OBVIOUS
  <2> QED BY <2>1 DEF Bare
<1>5. Emptied(db) = db
  BY <1>1, <1>3, <1>4, EmptiedIs
<1>6. <<0, db>> \in Known
  BY PathsAssumption DEF db
<1>7. Typed(db.rows) /\ Paired(db.rows)
  BY <1>1, NoElements DEF Typed, Paired
<1>10. Linked(db.rows)
  BY <1>1, NoElements DEF Linked
<1>8. AtRest(db).facts = {}
  <2>1. FactsOf(db.objects) = {}
    BY <1>1 DEF FactsOf
  <2>2. DOMAIN db.rows = {}
    BY <1>1, NoElements
  <2> QED BY <2>1, <2>2 DEF AtRest, View
<1>9. Hold(db.rows, AtRest(Emptied(db)).facts)
  BY <1>5, <1>8 DEF Hold
<1> QED BY <1>1, <1>2, <1>3, <1>5, <1>6, <1>7, <1>9, <1>10 DEF Rested

\* A row of the API, in a database at rest.
LEMMA InsertSurveyed ==
  ASSUME NEW t, NEW id, NEW row, Surveyed, Insert(t, id, row),
         t # "templates", Fields(t) # {}, IsFcn(row), DOMAIN row = Fields(t),
         \A c \in Nullable(t) : ~HasColumn(t, c) => row[c] = NoValue,
         t = "contracts" =>
           /\ row.connection_type # NoValue => row.subtype = "connection"
           /\ {row.owner, row.counterparty} \subseteq DOMAIN rows[PartTable]
  PROVE  Surveyed'
<1>1. PICK r, db, rs : r = rev /\ db = Database /\ rs = rows'
  OBVIOUS
<1>2. Rested(r, db) /\ db.rows = rows /\ db.objects = objects
  BY <1>1 DEF Surveyed, Database
<1>3. /\ t \in DOMAIN db.rows /\ rs = [db.rows EXCEPT ![t] = Put(@, id, row)]
      /\ \A o \in db.objects : Fits(rs, o)
      /\ rev' = r /\ objects' = db.objects
  BY <1>1, <1>2 DEF Insert, Write
<1>4. \A c \in Nullable(t) :
        (~\E o \in db.objects : o.table = t /\ o.name = c) => row[c] = NoValue
  BY <1>2 DEF HasColumn
<1>7. PartTable = PartsIn(DOMAIN db.rows)
  BY <1>2 DEF PartTable, PartsIn
<1>5. Rested(r, [objects |-> db.objects, rows |-> rs, error |-> NoValue])
  BY <1>2, <1>3, <1>4, <1>7, InsertKeeps
<1>6. Database' = [objects |-> db.objects, rows |-> rs, error |-> NoValue]
  BY <1>1, <1>3 DEF Database
<1> QED BY <1>3, <1>5, <1>6 DEF Surveyed

LEMMA SurveyedNext == Surveyed /\ [Next]_vars => Surveyed'
<1> SUFFICES ASSUME Surveyed, [Next]_vars PROVE Surveyed'
  OBVIOUS
<1>1. PICK r, db : r = rev /\ db = Database
  OBVIOUS
<1>2. Rested(r, db) /\ db.rows = rows /\ db.objects = objects
  BY <1>1 DEF Surveyed, Database
<1>3. ASSUME NEW new, NEW q, IsDb(new), Rested(q, new), new.error = NoValue,
             rev' = q, objects' = new.objects, rows' = new.rows
      PROVE  Surveyed'
  <2>1. Database' = [objects |-> new.objects, rows |-> new.rows, error |-> new.error]
    BY <1>3 DEF Database
  <2>2. Database' = new
    BY <1>3, <2>1 DEF IsDb
  <2> QED BY <1>3, <2>2 DEF Surveyed
<1>4. CASE Upgrade
  <2> DEFINE new == Run(db, Upgrades[r + 1])
  <2>1. /\ r < LastRev /\ new.error = NoValue
        /\ rev' = r + 1 /\ objects' = new.objects /\ rows' = new.rows
    BY <1>1, <1>4 DEF Upgrade, Commit
  <2>2. Rested(r + 1, new)
    BY <1>2, <2>1, UpgradeTold
  <2>3. IsDb(new)
    BY <2>2 DEF Rested
  <2> HIDE DEF new
  <2> QED BY <1>3, <2>1, <2>2, <2>3
<1>5. CASE Downgrade
  <2> DEFINE new == Run(db, Downgrades[r])
  <2>1. /\ r > 0 /\ new.error = NoValue
        /\ rev' = r - 1 /\ objects' = new.objects /\ rows' = new.rows
    BY <1>1, <1>5 DEF Downgrade, Commit
  <2>2. Rested(r - 1, new)
    BY <1>2, <2>1, DowngradeTold
  <2>3. IsDb(new)
    BY <2>2 DEF Rested
  <2> HIDE DEF new
  <2> QED BY <1>3, <2>1, <2>2, <2>3
<1>6. ASSUME NEW i \in PartIds, RegisterPart(i) PROVE Surveyed'
  <2> DEFINE t == PartTable
  <2>1. PICK n \in PartNames, s \in IF HasColumn(t, "subtype") THEN UsedSubtypes ELSE {NoValue} :
          Insert(t, i, [name |-> n, subtype |-> s, deleted_at |-> FALSE])
    BY <1>6 DEF RegisterPart
  <2>2. t \in {"parts", "software"}
    BY DEF PartTable
  <2>3. ~HasColumn(t, "subtype") => s = NoValue
    BY <2>1
  <2> HIDE DEF t
  <2> DEFINE row == [name |-> n, subtype |-> s, deleted_at |-> FALSE]
  <2>4. Fields(t) = {"name", "subtype", "deleted_at"} /\ Nullable(t) = {"subtype"}
    BY <2>2 DEF Fields, Nullable
  <2>5. IsFcn(row) /\ DOMAIN row = {"name", "subtype", "deleted_at"} /\ row.subtype = s
    BY DEF IsFcn
  <2>6. PICK u : u = t
    OBVIOUS
  <2>7. Insert(u, i, row)
    BY <2>1, <2>6
  <2> HIDE DEF row
  <2> QED BY <2>2, <2>3, <2>4, <2>5, <2>6, <2>7, InsertSurveyed
<1>7. ASSUME NEW i \in ContractIds, RegisterContract(i) PROVE Surveyed'
  <2>1. PICK a \in DOMAIN rows[PartTable], b \in DOMAIN rows[PartTable], s \in Shapes :
          Insert("contracts", i, [owner |-> a, counterparty |-> b, subtype |-> s[1],
                                  connection_type |-> s[2], deleted_at |-> FALSE])
    BY <1>7, Zenon DEF RegisterContract
  <2> DEFINE row == [owner |-> a, counterparty |-> b, subtype |-> s[1],
                     connection_type |-> s[2], deleted_at |-> FALSE]
  <2>2. /\ ~HasColumn("contracts", "subtype") => s[1] = NoValue
        /\ ~HasColumn("contracts", "connection_type") => s[2] = NoValue
        /\ s[2] # NoValue => s[1] = "connection"
    BY DEF Shapes
  <2>3. /\ Fields("contracts") = {"owner", "counterparty", "subtype", "connection_type", "deleted_at"}
        /\ Nullable("contracts") = {"subtype", "connection_type"}
    BY DEF Fields, Nullable
  <2>4. /\ IsFcn(row) /\ row.subtype = s[1] /\ row.connection_type = s[2]
        /\ row.owner = a /\ row.counterparty = b
        /\ DOMAIN row = {"owner", "counterparty", "subtype", "connection_type", "deleted_at"}
    BY DEF IsFcn
  <2> HIDE DEF row
  <2> QED BY <2>1, <2>2, <2>3, <2>4, InsertSurveyed DEF row
<1>8. ASSUME NEW i \in ProposalIds, ProposeSubtype(i) PROVE Surveyed'
  <2>1. PICK s \in UsedSubtypes : Insert("part_subtype_proposals", i, [new_subtype |-> s])
    BY <1>8 DEF ProposeSubtype
  <2> DEFINE row == [new_subtype |-> s]
  <2>2. /\ Fields("part_subtype_proposals") = {"new_subtype"}
        /\ Nullable("part_subtype_proposals") = {}
    BY DEF Fields, Nullable
  <2>3. IsFcn(row) /\ DOMAIN row = {"new_subtype"}
    BY DEF IsFcn
  <2> QED BY <2>1, <2>2, <2>3, InsertSurveyed
<1>9. ASSUME NEW i \in ProposalIds, ProposeType(i) PROVE Surveyed'
  <2>1. PICK s \in UsedTypes : Insert("contract_subtype_proposals", i, [new_connection_type |-> s])
    BY <1>9 DEF ProposeType
  <2> DEFINE row == [new_connection_type |-> s]
  <2>2. /\ Fields("contract_subtype_proposals") = {"new_connection_type"}
        /\ Nullable("contract_subtype_proposals") = {}
    BY DEF Fields, Nullable
  <2>3. IsFcn(row) /\ DOMAIN row = {"new_connection_type"}
    BY DEF IsFcn
  <2> QED BY <2>1, <2>2, <2>3, InsertSurveyed
<1>10. ASSUME NEW t \in {"parts", "contracts"}, NEW i, Delete(t, i) PROVE Surveyed'
  <2>1. PICK rs : rs = rows'
    OBVIOUS
  <2>2. /\ \E o \in db.objects : o.table = t /\ o.name = "deleted_at"
        /\ i \in DOMAIN db.rows[t] /\ rs = [db.rows EXCEPT ![t][i].deleted_at = TRUE]
        /\ \A o \in db.objects : Fits(rs, o)
        /\ rev' = r /\ objects' = db.objects
    BY <1>1, <1>2, <1>10, <2>1 DEF Delete, Write, HasColumn
  <2>3. t \in DOMAIN db.rows
    <3>1. \A o \in Emptied(db).objects : o.table \in DOMAIN Emptied(db).rows
      BY <1>2, KnownPoint DEF Rested
    <3>2. Emptied(db).objects = db.objects /\ DOMAIN Emptied(db).rows = DOMAIN db.rows
      BY <1>2, EmptiedIs DEF Rested
    <3> QED BY <2>2, <3>1, <3>2
  <2>4. Rested(r, [objects |-> db.objects, rows |-> rs, error |-> NoValue])
    BY <1>2, <2>2, <2>3, DeleteKeeps
  <2>5. Database' = [objects |-> db.objects, rows |-> rs, error |-> NoValue]
    BY <2>1, <2>2 DEF Database
  <2> QED BY <2>2, <2>4, <2>5 DEF Surveyed
<1>11. CASE UNCHANGED vars
  BY <1>11 DEF vars, Surveyed, Database
<1> QED BY <1>4, <1>5, <1>6, <1>7, <1>8, <1>9, <1>10, <1>11 DEF Next

\* Whatever alembic and the API do, the database is at a point that PathsAssumption has
\* looked at, and the facts known of the rows at that point are true of its rows.
THEOREM AlwaysSurveyed == Spec => []Surveyed
<1> QED BY SurveyedInit, SurveyedNext, PTL DEF Spec

-----------------------------------------------------------------------------
(* Every upgrade applies, every downgrade but for its rows, and a revision  *)
(* is one schema.                                                           *)

\* Whatever rows the database holds, and however it came to its revision, the next
\* upgrade() of src/alembic/versions runs to its end.
THEOREM UpgradesAlwaysApply == Spec => []UpgradesApply
<1>1. Surveyed => UpgradesApply
  <2> SUFFICES ASSUME Surveyed, rev < LastRev
               PROVE  Run(Database, Upgrades[rev + 1]).error = NoValue
    BY DEF UpgradesApply
  <2>1. PICK r, db : r = rev /\ db = Database
    OBVIOUS
  <2>2. Rested(r, db) /\ r < LastRev
    BY <2>1 DEF Surveyed
  <2>3. Run(db, Upgrades[r + 1]).error = NoValue
    BY <2>2, UpgradeTold
  <2> QED BY <2>1, <2>3
<1> QED BY <1>1, AlwaysSurveyed, PTL

\* A downgrade() finds every object that it names, whatever the path to its revision:
\* only the rows can make it fail.
THEOREM DowngradesAlwaysRefusedForRows == Spec => []DowngradesRefusedForRows
<1>1. Surveyed => DowngradesRefusedForRows
  <2> SUFFICES ASSUME Surveyed, rev > 0
               PROVE  Run(Database, Downgrades[rev]).error # "schema"
    BY DEF DowngradesRefusedForRows
  <2>1. PICK r, db : r = rev /\ db = Database
    OBVIOUS
  <2>2. Rested(r, db) /\ r > 0
    BY <2>1 DEF Surveyed
  <2>3. Run(db, Downgrades[r]).error # "schema"
    BY <2>2, DowngradeTold
  <2> QED BY <2>1, <2>3
<1> QED BY <1>1, AlwaysSurveyed, PTL

\* A database that was downgraded to a revision has the schema and the templates of one
\* that was upgraded to it.
THEOREM OneSchemaAlways == Spec => []SchemaOfRevision
<1>1. Surveyed => SchemaOfRevision
  <2> SUFFICES ASSUME Surveyed PROVE SchemaOfRevision
    OBVIOUS
  <2>1. PICK r, db : r = rev /\ db = Database
    OBVIOUS
  <2>2. Rested(r, db) /\ db.rows = rows /\ db.objects = objects
    BY <2>1 DEF Surveyed, Database
  <2> DEFINE d == Emptied(db)
  <2>3. <<r, d>> \in Known /\ d.objects = objects /\ d.rows = Bare(rows)
    BY <2>2, EmptiedIs DEF Rested
  <2> HIDE DEF d
  <2>4. /\ {Meaning(o) : o \in d.objects} = MeaningAt[r]
        /\ r >= 2 => Values(d.rows["templates"], "kind") = KindsAt[r]
    BY <2>3, KnownPoint
  <2>5. r >= 2 => d.rows["templates"] = rows["templates"]
    <3>1. r >= 2 => "templates" \in DOMAIN d.rows
      BY <2>3, KnownPoint
    <3>2. DOMAIN d.rows = DOMAIN rows
      BY <2>3 DEF Bare
    <3> QED BY <2>3, <3>1, <3>2 DEF Bare
  <2> QED BY <2>1, <2>3, <2>4, <2>5 DEF SchemaOfRevision
<1> QED BY <1>1, AlwaysSurveyed, PTL

\* At head the database admits exactly the subtypes, labels and kinds of models.py.
THEOREM HeadAlwaysMatchesModels == Spec => []HeadMatchesModels
<1>1. Surveyed => HeadMatchesModels
  <2> SUFFICES ASSUME Surveyed PROVE HeadMatchesModels
    OBVIOUS
  <2>1. PICK r, db : r = rev /\ db = Database
    OBVIOUS
  <2>2. Rested(r, db) /\ db.objects = objects
    BY <2>1 DEF Surveyed, Database
  <2> DEFINE d == Emptied(db)
  <2>3. <<r, d>> \in Known /\ d.objects = objects
    BY <2>2, EmptiedIs DEF Rested
  <2> HIDE DEF d
  <2>4. r = LastRev =>
          {<<o.table, o.is[2], o.is[3]>> : o \in {c \in d.objects : c.is[1] = "allows"}} = ModelLists
    BY <2>3, KnownPoint
  <2> QED BY <2>1, <2>3, <2>4 DEF HeadMatchesModels
<1> QED BY <1>1, AlwaysSurveyed, PTL

-----------------------------------------------------------------------------
(* A downgrade that nothing refuses loses no row but those of the lossy     *)
(* revisions: the upgrade undoes what it did to each.                       *)

LEMMA SameFunction ==
  ASSUME NEW f, NEW g, IsFcn(f), IsFcn(g), DOMAIN f = DOMAIN g, \A x \in DOMAIN f : f[x] = g[x]
  PROVE  f = g
<1>1. [x \in DOMAIN f |-> f[x]] = [x \in DOMAIN g |-> g[x]]
  OBVIOUS
<1> QED BY <1>1 DEF IsFcn

LEMMA RelabelUndone ==
  ASSUME NEW x, IsFcn(x), NEW s, NEW u, s.column \in DOMAIN x, x[s.column] # s.new,
         u.column = s.column, u.old = s.new, u.new = s.old
  PROVE  RelabelRow(RelabelRow(x, s), u) = x
<1> DEFINE y == [x EXCEPT ![s.column] = s.new]
           z == [y EXCEPT ![s.column] = s.old]
<1>1. CASE x[s.column] # s.old
  BY <1>1 DEF RelabelRow
<1>2. CASE x[s.column] = s.old
  <2>1. RelabelRow(x, s) = y
    BY <1>2 DEF RelabelRow
  <2>2. y[s.column] = s.new
    OBVIOUS
  <2> HIDE DEF y
  <2>3. RelabelRow(y, u) = z
    BY <2>2 DEF RelabelRow
  <2>4. z = x
    <3>1. IsFcn(z) /\ DOMAIN z = DOMAIN x
      BY DEF IsFcn, y
    <3>2. \A f \in DOMAIN x : z[f] = x[f]
      BY <1>2 DEF y
    <3> HIDE DEF z
    <3> QED BY <3>1, <3>2, SameFunction
  <2> QED BY <2>1, <2>3, <2>4
<1> QED BY <1>1, <1>2

LEMMA TurnUndone ==
  ASSUME NEW x, IsFcn(x), NEW s, NEW u, {"owner", "counterparty", "connection_type"} \subseteq DOMAIN x,
         x.connection_type # s.new, u.old = s.new, u.new = s.old
  PROVE  TurnRow(TurnRow(x, s), u) = x
<1> DEFINE y == [x EXCEPT !.connection_type = s.new, !.owner = x.counterparty, !.counterparty = x.owner]
           z == [y EXCEPT !.connection_type = s.old, !.owner = y.counterparty, !.counterparty = y.owner]
<1>1. CASE x.connection_type # s.old
  BY <1>1 DEF TurnRow
<1>2. CASE x.connection_type = s.old
  <2>1. TurnRow(x, s) = y
    BY <1>2 DEF TurnRow
  <2>2. /\ DOMAIN y = DOMAIN x
        /\ y.connection_type = s.new /\ y.owner = x.counterparty /\ y.counterparty = x.owner
        /\ \A f \in DOMAIN x \ {"owner", "counterparty", "connection_type"} : y[f] = x[f]
    OBVIOUS
  <2> HIDE DEF y
  <2>3. TurnRow(y, u) = z
    BY <2>2 DEF TurnRow
  <2>4. IsFcn(z) /\ DOMAIN z = DOMAIN x
    BY <2>2 DEF IsFcn
  <2>5. /\ z.connection_type = s.old /\ z.owner = y.counterparty /\ z.counterparty = y.owner
        /\ \A f \in DOMAIN x \ {"owner", "counterparty", "connection_type"} : z[f] = y[f]
    BY <2>2
  <2> HIDE DEF z
  <2>6. z = x
    <3>1. \A f \in DOMAIN x : z[f] = x[f]
      BY <1>2, <2>2, <2>5
    <3> QED BY <2>4, <3>1, SameFunction
  <2> QED BY <2>1, <2>3, <2>6
<1> QED BY <1>1, <1>2

\* A column that was NULL is dropped and comes back NULL.
LEMMA DropUndone ==
  ASSUME NEW x, IsFcn(x), x.connection_type = NoValue
  PROVE  WithoutRow(x, {"connection_type"}) = x
<1> DEFINE y == WithoutRow(x, {"connection_type"})
<1>1. IsFcn(y) /\ DOMAIN y = DOMAIN x /\ \A f \in DOMAIN x : y[f] = x[f]
  BY DEF IsFcn, WithoutRow
<1> HIDE DEF y
<1>2. y = x
  BY <1>1, SameFunction
<1> QED BY <1>2 DEF y

LEMMA UndoneRows ==
  ASSUME NEW r, NEW db, Rested(r, db), NEW t \in DOMAIN db.rows, t # "templates", Fields(t) # {},
         NEW p, p[2] = Emptied(db), NEW dv, NEW uv, Undoes(t, p, dv, uv),
         NEW mid, NEW new, Seen(db.rows, mid, dv), Seen(mid.rows, new, uv)
  PROVE  t \in DOMAIN new.rows /\ new.rows[t] = db.rows[t]
<1> DEFINE s == dv.came[t].change
           u == uv.came[t].change
           old == db.rows[t]
           between == mid.rows[t]
           now == new.rows[t]
<1>1. /\ t \in DOMAIN dv.came /\ t \in DOMAIN uv.came
      /\ dv.came[t].table = t /\ uv.came[t].table = t
      /\ \/ s = Nothing /\ u = Nothing
         \/ /\ t = "contracts" /\ s.do = "drop" /\ s.names = {"connection_type"} /\ u = Nothing
            /\ \E vs \in Lists(dv.facts, "contracts", "subtype") : "connection" \notin vs
         \/ /\ t = "contracts" /\ s.do = "turn" /\ NoValue \notin {s.old, s.new}
            /\ u = Turn(s.new, s.old)
            /\ \E vs \in Lists(AtRest(Emptied(db)).facts, "contracts", "connection_type") :
                 s.new \notin vs
         \/ /\ s.do = "relabel" /\ NoValue \notin {s.old, s.new}
            /\ u = Relabel(t, s.column, s.new, s.old)
            /\ \E vs \in Lists(AtRest(Emptied(db)).facts, t, s.column) : s.new \notin vs
  BY DEF Undoes
<1>2. t \in DOMAIN mid.rows /\ t \in DOMAIN new.rows
  BY <1>1 DEF Seen, CameTrue
<1>3. t # "nowhere"
  <2>1. DOMAIN Emptied(db).rows = DOMAIN db.rows
    BY EmptiedIs DEF Rested
  <2> QED BY <2>1, KnownPoint DEF Rested
<1>4. s # TooMuch /\ u # TooMuch
  BY <1>1 DEF Nothing, TooMuch, Turn, Relabel
<1>5. /\ DOMAIN between = DOMAIN old
      /\ \A i \in DOMAIN between : between[i] = ChangedRow(old[i], s)
  BY <1>1, <1>2, <1>3, <1>4 DEF Seen, CameTrue, Stems
<1>6. /\ DOMAIN now = DOMAIN between
      /\ \A i \in DOMAIN now : now[i] = ChangedRow(between[i], u)
  BY <1>1, <1>2, <1>3, <1>4 DEF Seen, CameTrue, Stems
<1>7. IsFcn(old) /\ \A i \in DOMAIN old : IsFcn(old[i]) /\ DOMAIN old[i] = Fields(t)
  BY DEF Rested, Typed, TypedTable
<1>8. IsFcn(now)
  BY <1>2 DEF Seen, Typed, TypedTable
<1>9. t = "contracts" =>
        Fields(t) = {"owner", "counterparty", "subtype", "connection_type", "deleted_at"}
  BY DEF Fields
<1>10. Hold(db.rows, AtRest(Emptied(db)).facts) /\ Hold(mid.rows, dv.facts) /\ Paired(db.rows)
  BY DEF Rested, Seen
<1> HIDE DEF s, u
<1>11. ASSUME NEW i \in DOMAIN old PROVE ChangedRow(ChangedRow(old[i], s), u) = old[i]
  <2>1. CASE s = Nothing /\ u = Nothing
    BY <2>1 DEF ChangedRow, Nothing
  <2>2. CASE /\ t = "contracts" /\ s.do = "drop" /\ s.names = {"connection_type"} /\ u = Nothing
             /\ \E vs \in Lists(dv.facts, "contracts", "subtype") : "connection" \notin vs
    <3>1. between[i] = WithoutRow(old[i], {"connection_type"})
      BY <1>5, <2>2 DEF ChangedRow
    <3>2. between[i].subtype = old[i].subtype
      BY <1>7, <1>9, <2>2, <3>1 DEF WithoutRow
    <3>3. between[i].subtype # "connection"
      BY <1>5, <1>10, <2>2, InLists DEF NoValue
    <3>4. old[i].connection_type = NoValue
      BY <1>10, <2>2, <3>2, <3>3 DEF Paired
    <3>5. WithoutRow(old[i], {"connection_type"}) = old[i]
      BY <1>7, <3>4, DropUndone
    <3> QED BY <2>2, <3>5 DEF ChangedRow, Nothing
  <2>3. CASE /\ t = "contracts" /\ s.do = "turn" /\ NoValue \notin {s.old, s.new}
             /\ u = Turn(s.new, s.old)
             /\ \E vs \in Lists(AtRest(Emptied(db)).facts, "contracts", "connection_type") :
                  s.new \notin vs
    <3>1. old[i].connection_type # s.new
      BY <1>10, <2>3, InLists
    <3>2. u.do = "turn" /\ u.old = s.new /\ u.new = s.old
      BY <2>3 DEF Turn
    <3>3. TurnRow(TurnRow(old[i], s), u) = old[i]
      BY <1>7, <1>9, <2>3, <3>1, <3>2, TurnUndone
    <3> QED BY <2>3, <3>2, <3>3 DEF ChangedRow
  <2>4. CASE /\ s.do = "relabel" /\ NoValue \notin {s.old, s.new}
             /\ u = Relabel(t, s.column, s.new, s.old)
             /\ \E vs \in Lists(AtRest(Emptied(db)).facts, t, s.column) : s.new \notin vs
    <3>1. old[i][s.column] # s.new
      BY <1>10, <2>4, InLists
    <3>2. u.do = "relabel" /\ u.column = s.column /\ u.old = s.new /\ u.new = s.old
      BY <2>4 DEF Relabel
    <3>3. s.column \in Fields(t)
      <4>1. PICK f \in AtRest(Emptied(db)).facts :
              f[1] = t /\ f[2][1] = "allows" /\ f[2][2] = s.column
        BY <2>4 DEF Lists
      <4>2. InRow(t, f[2])
        BY <1>10, <4>1 DEF Hold
      <4> QED BY <4>1, <4>2 DEF InRow, Mentioned
    <3>4. RelabelRow(RelabelRow(old[i], s), u) = old[i]
      BY <1>7, <3>1, <3>2, <3>3, RelabelUndone
    <3> QED BY <2>4, <3>2, <3>4 DEF ChangedRow
  <2> QED BY <1>1, <2>1, <2>2, <2>3, <2>4
<1>12. DOMAIN now = DOMAIN old /\ \A i \in DOMAIN now : now[i] = old[i]
  BY <1>5, <1>6, <1>11
<1> HIDE DEF now, old
<1>13. now = old
  BY <1>7, <1>8, <1>12, SameFunction
<1> QED BY <1>2, <1>13 DEF now, old

\* Upgrading again after a downgrade that nothing refuses.
LEMMA RoundTripTold ==
  ASSUME NEW r, NEW db, Rested(r, db), r > 0, r \notin LossyForRows,
         NEW mid, mid = Run(db, Downgrades[r]), mid.error = NoValue
  PROVE  Run(mid, Upgrades[r]).rows = db.rows
<1> DEFINE p == <<r, Emptied(db)>>
           dv == Back(p)
           uv == Ahead(Below(p))
           new == Run(mid, Upgrades[r])
<1>1. Seen(db.rows, mid, dv) /\ Rested(r - 1, mid) /\ dv.db = Emptied(mid) /\ ComesBack(p)
  BY DowngradeTold
<1>2. r \in 1..LastRev /\ LastRev \in Nat
  BY KnownPoint, PathsAssumption DEF Rested
<1>3. p[1] = r /\ p[2] = Emptied(db) /\ Below(p) = <<r - 1, Emptied(mid)>>
  <2>1. p[1] = r /\ p[2] = Emptied(db)
    OBVIOUS
  <2> QED BY <1>1, <2>1 DEF Below
<1>4. r - 1 < LastRev /\ (r - 1) + 1 = r
  BY <1>2
<1>5. /\ Seen(mid.rows, new, uv) /\ Rested(r, new) /\ uv.db = Emptied(new)
  <2> DEFINE q == r - 1
  <2>1. q < LastRev /\ q + 1 = r /\ Rested(q, mid) /\ uv = Ahead(<<q, Emptied(mid)>>)
    BY <1>1, <1>3, <1>4
  <2> HIDE DEF q, uv
  <2> QED BY <2>1, UpgradeTold
<1>6. uv.db.rows = Emptied(db).rows
  BY <1>1, <1>3 DEF ComesBack
<1>7. \A t \in DOMAIN db.rows : Fields(t) # {} => Undoes(t, p, dv, uv)
  <2>1. DOMAIN Emptied(db).rows = DOMAIN db.rows
    BY EmptiedIs DEF Rested
  <2> QED BY <1>1, <1>3, <2>1 DEF ComesBack
<1> HIDE DEF p, dv, uv, new
<1>8. Bare(new.rows) = Bare(db.rows)
  BY <1>5, <1>6, EmptiedIs DEF Rested
<1>9. DOMAIN new.rows = DOMAIN db.rows
  <2>1. DOMAIN Bare(new.rows) = DOMAIN new.rows /\ DOMAIN Bare(db.rows) = DOMAIN db.rows
    BY DEF Bare
  <2> QED BY <1>8, <2>1
<1>10. ASSUME NEW t \in DOMAIN db.rows PROVE new.rows[t] = db.rows[t]
  <2>1. CASE t = "templates"
    <3>1. Bare(new.rows)[t] = new.rows[t] /\ Bare(db.rows)[t] = db.rows[t]
      BY <1>9, <2>1 DEF Bare
    <3> QED BY <1>8, <3>1
  <2>2. CASE t # "templates" /\ Fields(t) = {}
    BY <1>5, <1>9, <2>2 DEF Rested, Typed, TypedTable
  <2>3. CASE t # "templates" /\ Fields(t) # {}
    BY <1>1, <1>3, <1>5, <1>7, <2>3, UndoneRows
  <2> QED BY <2>1, <2>2, <2>3
<1>11. IsFcn(new.rows) /\ IsFcn(db.rows)
  BY <1>5 DEF Rested, Typed
<1>12. new.rows = db.rows
  BY <1>9, <1>10, <1>11, SameFunction
<1> QED BY <1>12 DEF new

\* What this module has of parts, contracts and subtype proposals comes back, by the
\* upgrade, from every downgrade that drops no table or column of those and is not
\* refused, however many rows there are.  Of the tables and columns that no row here
\* has (templates, attribution, projects, other proposals, agents, tokens) it says
\* nothing: downgrades do drop them.
THEOREM RoundTripAlwaysKeepsRows == Spec => []RoundTripKeepsRows
<1>1. Surveyed => RoundTripKeepsRows
  <2> SUFFICES ASSUME Surveyed, rev > 0, rev \notin LossyForRows,
                      Run(Database, Downgrades[rev]).error = NoValue
               PROVE  Run(Run(Database, Downgrades[rev]), Upgrades[rev]).rows = rows
    BY DEF RoundTripKeepsRows
  <2>1. PICK r, db, mid : r = rev /\ db = Database /\ mid = Run(Database, Downgrades[rev])
    OBVIOUS
  <2>2. Rested(r, db) /\ db.rows = rows
    BY <2>1 DEF Surveyed, Database
  <2>3. Run(mid, Upgrades[r]).rows = db.rows
    BY <2>1, <2>2, RoundTripTold
  <2> QED BY <2>1, <2>2, <2>3
<1> QED BY <1>1, AlwaysSurveyed, PTL

-----------------------------------------------------------------------------
(* An upgrade loses no part, no contract and no connection.                 *)

\* A column that does not exist yet is NULL in every row.
LEMMA FreshColumn ==
  ASSUME NEW rs, NEW facts, Hold(rs, facts), NEW t, NEW c, Null(t, c) \in facts
  PROVE  \A i \in DOMAIN rs[t] : rs[t][i][c] = NoValue
<1> DEFINE is == Allows(c, {})
<1>1. <<t, is>>[1] = t /\ <<t, is>>[2] = is
  OBVIOUS
<1>2. Meets(rs[t], is)
  BY <1>1 DEF Hold, Null
<1>3. is[1] = "allows" /\ is[2] = c /\ is[3] = {}
  BY DEF Allows
<1> HIDE DEF is
<1> QED BY <1>2, <1>3, MeetsAllows

\* The changes of an upgrade to the rows of parts and contracts, which KeepsRows names.
RowsUpgraded(parts, newParts, contracts, newContracts, ofParts, ofContracts) ==
  /\ DOMAIN newParts = DOMAIN parts
  /\ \A i \in DOMAIN parts : newParts[i] = ChangedRow(parts[i], ofParts)
  /\ DOMAIN newContracts = DOMAIN contracts
  /\ \A i \in DOMAIN contracts : newContracts[i] = ChangedRow(contracts[i], ofContracts)
  /\ \/ ofParts = Nothing /\ ofContracts = Nothing
     \/ /\ ofParts.do = "fill" /\ ofParts.column = "subtype" /\ ofContracts = Nothing
        /\ \A i \in DOMAIN parts : parts[i].subtype = NoValue
        /\ \A i \in DOMAIN contracts :
             contracts[i].subtype = NoValue /\ contracts[i].connection_type = NoValue
     \/ /\ ofParts = Nothing /\ ofContracts = Fill("contracts", "subtype", "interaction")
        /\ \A i \in DOMAIN contracts : contracts[i].connection_type = NoValue
     \/ ofParts = Nothing /\ ofContracts = Turn("member-of", "composes")

LEMMA UpgradedRows ==
  ASSUME NEW r, NEW db, Rested(r, db), r > 0, r < LastRev,
         NEW new, new = Run(db, Upgrades[r + 1]),
         NEW t, t = PartsIn(DOMAIN db.rows), NEW u, u = PartsIn(DOMAIN new.rows)
  PROVE  /\ t \in DOMAIN db.rows /\ "contracts" \in DOMAIN db.rows
         /\ \E ofParts, ofContracts :
              RowsUpgraded(db.rows[t], new.rows[u], db.rows["contracts"], new.rows["contracts"],
                           ofParts, ofContracts)
<1> DEFINE p == <<r, Emptied(db)>>
           w == Ahead(p)
           facts == AtRest(Emptied(db)).facts
           o == w.came["contracts"]
           q == w.came[u]
<1>1. Seen(db.rows, new, w) /\ KeepsRows(p, w)
  BY UpgradeTold
<1>2. p[2] = Emptied(db) /\ DOMAIN Emptied(db).rows = DOMAIN db.rows
  BY EmptiedIs DEF Rested
<1>3. CameTrue(db.rows, new.rows, w.came) /\ DOMAIN w.came = DOMAIN new.rows
  BY <1>1 DEF Seen, CameTrue
<1> HIDE DEF p, w
<1>4. /\ {"contracts", u} \subseteq DOMAIN new.rows /\ q.table = t /\ o.table = "contracts"
      /\ \/ q.change = Nothing /\ o.change = Nothing
         \/ /\ q.change.do = "fill" /\ q.change.column = "subtype"
            /\ Null(t, "subtype") \in facts /\ o.change = Nothing
            /\ Null("contracts", "subtype") \in facts
            /\ Null("contracts", "connection_type") \in facts
         \/ /\ q.change = Nothing
            /\ o.change = Fill("contracts", "subtype", "interaction")
            /\ Null("contracts", "connection_type") \in facts
         \/ q.change = Nothing /\ o.change = Turn("member-of", "composes")
  BY <1>1, <1>2, <1>3 DEF KeepsRows
<1>5. t # "nowhere" /\ u # "templates"
  BY DEF PartsIn
<1>6. q.change # TooMuch /\ o.change # TooMuch
  BY <1>4 DEF Nothing, TooMuch, Turn, Fill
<1>7. Stems(db.rows, new.rows[u], q) /\ Stems(db.rows, new.rows["contracts"], o)
  BY <1>3, <1>4, <1>5 DEF CameTrue
<1>13. t \in DOMAIN db.rows /\ "contracts" \in DOMAIN db.rows
  BY <1>4, <1>5, <1>7 DEF Stems
<1>8. /\ DOMAIN new.rows[u] = DOMAIN db.rows[t]
      /\ \A i \in DOMAIN db.rows[t] : new.rows[u][i] = ChangedRow(db.rows[t][i], q.change)
  BY <1>4, <1>5, <1>6, <1>7 DEF Stems
<1>9. /\ DOMAIN new.rows["contracts"] = DOMAIN db.rows["contracts"]
      /\ \A i \in DOMAIN db.rows["contracts"] :
           new.rows["contracts"][i] = ChangedRow(db.rows["contracts"][i], o.change)
  BY <1>4, <1>6, <1>7 DEF Stems
<1>10. Hold(db.rows, facts)
  BY DEF Rested
<1> DEFINE ofParts == q.change
           ofContracts == o.change
<1> HIDE DEF q, o, facts
<1>11. \/ ofParts = Nothing /\ ofContracts = Nothing
       \/ /\ ofParts.do = "fill" /\ ofParts.column = "subtype" /\ ofContracts = Nothing
          /\ \A i \in DOMAIN db.rows[t] : db.rows[t][i].subtype = NoValue
          /\ \A i \in DOMAIN db.rows["contracts"] :
               /\ db.rows["contracts"][i].subtype = NoValue
               /\ db.rows["contracts"][i].connection_type = NoValue
       \/ /\ ofParts = Nothing /\ ofContracts = Fill("contracts", "subtype", "interaction")
          /\ \A i \in DOMAIN db.rows["contracts"] :
               db.rows["contracts"][i].connection_type = NoValue
       \/ ofParts = Nothing /\ ofContracts = Turn("member-of", "composes")
  <2>1. CASE ofParts = Nothing /\ ofContracts = Nothing
    BY <2>1
  <2>2. CASE /\ ofParts.do = "fill" /\ ofParts.column = "subtype" /\ ofContracts = Nothing
             /\ Null(t, "subtype") \in facts /\ Null("contracts", "subtype") \in facts
             /\ Null("contracts", "connection_type") \in facts
    <3>1. /\ \A i \in DOMAIN db.rows[t] : db.rows[t][i]["subtype"] = NoValue
          /\ \A i \in DOMAIN db.rows["contracts"] : db.rows["contracts"][i]["subtype"] = NoValue
          /\ \A i \in DOMAIN db.rows["contracts"] :
               db.rows["contracts"][i]["connection_type"] = NoValue
      BY <1>10, <2>2, FreshColumn
    <3> QED BY <2>2, <3>1
  <2>3. CASE /\ ofParts = Nothing /\ ofContracts = Fill("contracts", "subtype", "interaction")
             /\ Null("contracts", "connection_type") \in facts
    <3>1. \A i \in DOMAIN db.rows["contracts"] :
            db.rows["contracts"][i]["connection_type"] = NoValue
      BY <1>10, <2>3, FreshColumn
    <3> QED BY <2>3, <3>1
  <2>4. CASE ofParts = Nothing /\ ofContracts = Turn("member-of", "composes")
    BY <2>4
  <2> QED BY <1>4, <2>1, <2>2, <2>3, <2>4
<1> HIDE DEF ofParts, ofContracts
<1>12. /\ DOMAIN new.rows[u] = DOMAIN db.rows[t]
       /\ \A i \in DOMAIN db.rows[t] : new.rows[u][i] = ChangedRow(db.rows[t][i], ofParts)
       /\ DOMAIN new.rows["contracts"] = DOMAIN db.rows["contracts"]
       /\ \A i \in DOMAIN db.rows["contracts"] :
            new.rows["contracts"][i] = ChangedRow(db.rows["contracts"][i], ofContracts)
  BY <1>8, <1>9 DEF ofParts, ofContracts
<1>14. RowsUpgraded(db.rows[t], new.rows[u], db.rows["contracts"], new.rows["contracts"],
                    ofParts, ofContracts)
  BY <1>11, <1>12 DEF RowsUpgraded
<1> QED BY <1>13, <1>14

\* A part that was given a subtype, or was left as it was.
LEMMA PartKept ==
  ASSUME NEW x, IsFcn(x), DOMAIN x = {"name", "subtype", "deleted_at"}, NEW s,
         s = Nothing \/ (s.do = "fill" /\ s.column = "subtype" /\ x.subtype = NoValue),
         NEW y, y = ChangedRow(x, s)
  PROVE  /\ y.name = x.name /\ y.deleted_at = x.deleted_at
         /\ y.subtype = x.subtype \/ x.subtype = NoValue
         /\ s = Nothing => y = x
<1>1. CASE s = Nothing
  BY <1>1 DEF ChangedRow, Nothing
<1>2. CASE s # Nothing
  <2>1. y = [x EXCEPT !["subtype"] = s.value]
    BY <1>2 DEF ChangedRow, FillRow
  <2> QED BY <1>2, <2>1
<1> QED BY <1>1, <1>2

LEMMA ContractKept ==
  ASSUME NEW x, IsFcn(x), DOMAIN x = Fields("contracts"), NEW s,
         s \in {Nothing, Fill("contracts", "subtype", "interaction"), Turn("member-of", "composes")},
         NEW y, y = ChangedRow(x, s)
  PROVE  /\ y.deleted_at = x.deleted_at /\ {y.owner, y.counterparty} = {x.owner, x.counterparty}
         /\ s = Nothing => y = x
         /\ s = Fill("contracts", "subtype", "interaction") =>
              /\ y.subtype = "interaction" /\ y.connection_type = x.connection_type
              /\ y.owner = x.owner /\ y.counterparty = x.counterparty
         /\ s = Turn("member-of", "composes") =>
              IF x.connection_type = "member-of"
              THEN /\ y.subtype = x.subtype /\ y.connection_type = "composes"
                   /\ y.owner = x.counterparty /\ y.counterparty = x.owner
              ELSE y = x
<1>1. DOMAIN x = {"owner", "counterparty", "subtype", "connection_type", "deleted_at"}
  BY DEF Fields
<1>2. CASE s = Nothing
  <2>1. y = x
    BY <1>2 DEF ChangedRow, Nothing
  <2>2. s # Fill("contracts", "subtype", "interaction") /\ s # Turn("member-of", "composes")
    BY <1>2 DEF Nothing, Fill, Turn
  <2> QED BY <2>1, <2>2
<1>3. CASE s = Fill("contracts", "subtype", "interaction")
  <2>1. s.do = "fill" /\ s.column = "subtype" /\ s.value = "interaction"
    BY <1>3 DEF Fill
  <2>2. s # Nothing /\ s # Turn("member-of", "composes")
    BY <1>3 DEF Nothing, Fill, Turn
  <2>3. y = [x EXCEPT !["subtype"] = "interaction"]
    BY <2>1 DEF ChangedRow, FillRow
  <2>4. /\ y.subtype = "interaction" /\ y.connection_type = x.connection_type
        /\ y.owner = x.owner /\ y.counterparty = x.counterparty /\ y.deleted_at = x.deleted_at
    BY <1>1, <2>3
  <2> QED BY <2>2, <2>4
<1>4. CASE s = Turn("member-of", "composes")
  <2>1. s.do = "turn" /\ s.old = "member-of" /\ s.new = "composes"
    BY <1>4 DEF Turn
  <2>2. s # Nothing /\ s # Fill("contracts", "subtype", "interaction")
    BY <1>4 DEF Nothing, Fill, Turn
  <2>3. y = TurnRow(x, s)
    BY <2>1 DEF ChangedRow
  <2>4. CASE x.connection_type = "member-of"
    <3>1. y = [x EXCEPT !.connection_type = "composes", !.owner = x.counterparty,
                        !.counterparty = x.owner]
      BY <2>1, <2>3, <2>4 DEF TurnRow
    <3>2. /\ y.subtype = x.subtype /\ y.connection_type = "composes"
          /\ y.owner = x.counterparty /\ y.counterparty = x.owner /\ y.deleted_at = x.deleted_at
      BY <1>1, <3>1
    <3> QED BY <2>2, <2>4, <3>2
  <2>5. CASE x.connection_type # "member-of"
    <3>1. y = x
      BY <2>1, <2>3, <2>5 DEF TurnRow
    <3> QED BY <2>2, <2>5, <3>1
  <2> QED BY <2>4, <2>5
<1> QED BY <1>2, <1>3, <1>4

\* The upgrade of 0024 turns a member-of into a composes that the rules admit.
LEMMA TurnedAdmitted ==
  Admits(<<"connection", "composes">>, "compose", "container")
BY DEF Admits, ConnectionRules

\* What UpgradeKeepsRows says, of the rows before and after.
RowsKept(t, u, old, new) ==
  /\ \A p \in DOMAIN old[t] :
       /\ p \in DOMAIN new[u]
       /\ new[u][p].name = old[t][p].name
       /\ new[u][p].deleted_at = old[t][p].deleted_at
       /\ new[u][p].subtype = old[t][p].subtype \/ old[t][p].subtype = NoValue
  /\ \A c \in DOMAIN old["contracts"] :
       /\ c \in DOMAIN new["contracts"]
       /\ new["contracts"][c].deleted_at = old["contracts"][c].deleted_at
       /\ {new["contracts"][c].owner, new["contracts"][c].counterparty}
            = {old["contracts"][c].owner, old["contracts"][c].counterparty}
       /\ Admitted(t, old, c) => Admitted(u, new, c)

\* A contract that the rules admitted before the upgrade is one they admit after it.
LEMMA UpgradeKept ==
  ASSUME NEW r, NEW db, Rested(r, db), r > 0, r < LastRev,
         NEW new, new = Run(db, Upgrades[r + 1]),
         NEW t, t = PartsIn(DOMAIN db.rows), NEW u, u = PartsIn(DOMAIN new.rows)
  PROVE  RowsKept(t, u, db.rows, new.rows)
<1> DEFINE parts == db.rows[t]
           newParts == new.rows[u]
           contracts == db.rows["contracts"]
           newContracts == new.rows["contracts"]
<1>1. PICK ofParts, ofContracts :
        RowsUpgraded(parts, newParts, contracts, newContracts, ofParts, ofContracts)
  BY UpgradedRows
<1>2. \A i \in DOMAIN parts : IsFcn(parts[i]) /\ DOMAIN parts[i] = {"name", "subtype", "deleted_at"}
  <2>1. t \in {"parts", "software"} /\ Fields(t) = {"name", "subtype", "deleted_at"} /\ Fields(t) # {}
    BY DEF PartsIn, Fields
  <2>2. t \in DOMAIN db.rows
    BY UpgradedRows
  <2> QED BY <2>1, <2>2 DEF Rested, Typed, TypedTable
<1>3. "contracts" \in DOMAIN db.rows
  BY UpgradedRows
<1>4. \A i \in DOMAIN contracts : IsFcn(contracts[i]) /\ DOMAIN contracts[i] = Fields("contracts")
  <2>1. Fields("contracts") # {}
    BY DEF Fields
  <2> QED BY <1>3, <2>1 DEF Rested, Typed, TypedTable
<1>5. \A i \in DOMAIN contracts :
        /\ contracts[i].connection_type # NoValue => contracts[i].subtype = "connection"
        /\ contracts[i].owner \in DOMAIN parts /\ contracts[i].counterparty \in DOMAIN parts
  BY <1>3 DEF Rested, Paired, Linked
<1> HIDE DEF parts, newParts, contracts, newContracts
<1>6. \A p \in DOMAIN parts :
        /\ p \in DOMAIN newParts
        /\ newParts[p].name = parts[p].name /\ newParts[p].deleted_at = parts[p].deleted_at
        /\ newParts[p].subtype = parts[p].subtype \/ parts[p].subtype = NoValue
        /\ ofParts = Nothing => newParts[p] = parts[p]
  <2> TAKE p \in DOMAIN parts
  <2>1. ofParts = Nothing
        \/ (ofParts.do = "fill" /\ ofParts.column = "subtype" /\ parts[p].subtype = NoValue)
    BY <1>1 DEF RowsUpgraded
  <2>2. p \in DOMAIN newParts /\ newParts[p] = ChangedRow(parts[p], ofParts)
    BY <1>1 DEF RowsUpgraded
  <2> QED BY <1>2, <2>1, <2>2, PartKept
<1>7. ASSUME NEW c \in DOMAIN contracts
      PROVE  /\ c \in DOMAIN newContracts
             /\ newContracts[c].deleted_at = contracts[c].deleted_at
             /\ {newContracts[c].owner, newContracts[c].counterparty}
                  = {contracts[c].owner, contracts[c].counterparty}
             /\ Admitted(t, db.rows, c) => Admitted(u, new.rows, c)
  <2> DEFINE x == contracts[c]
             y == newContracts[c]
  <2>1. IsFcn(x) /\ DOMAIN x = Fields("contracts") /\ y = ChangedRow(x, ofContracts)
        /\ ofContracts \in {Nothing, Fill("contracts", "subtype", "interaction"),
                            Turn("member-of", "composes")}
    BY <1>1, <1>4 DEF RowsUpgraded
  <2>2. /\ y.deleted_at = x.deleted_at /\ {y.owner, y.counterparty} = {x.owner, x.counterparty}
        /\ ofContracts = Nothing => y = x
        /\ ofContracts = Fill("contracts", "subtype", "interaction") =>
             /\ y.subtype = "interaction" /\ y.connection_type = x.connection_type
             /\ y.owner = x.owner /\ y.counterparty = x.counterparty
        /\ ofContracts = Turn("member-of", "composes") =>
             IF x.connection_type = "member-of"
             THEN /\ y.subtype = x.subtype /\ y.connection_type = "composes"
                  /\ y.owner = x.counterparty /\ y.counterparty = x.owner
             ELSE y = x
    <3> HIDE DEF x, y
    <3> QED BY <2>1, ContractKept
  <2>3. /\ x.connection_type # NoValue => x.subtype = "connection"
        /\ x.owner \in DOMAIN parts /\ x.counterparty \in DOMAIN parts
    BY <1>5
  <2>4. Admitted(t, db.rows, c)
          <=> IF x.connection_type = "member-of"
              THEN <<parts[x.owner].subtype, parts[x.counterparty].subtype>>
                     = <<"container", "compose">>
              ELSE x.subtype = NoValue
                   \/ Admits(<<x.subtype, x.connection_type>>, parts[x.owner].subtype,
                             parts[x.counterparty].subtype)
    BY DEF Admitted, parts, contracts
  <2>5. Admitted(u, new.rows, c)
          <=> IF y.connection_type = "member-of"
              THEN <<newParts[y.owner].subtype, newParts[y.counterparty].subtype>>
                     = <<"container", "compose">>
              ELSE y.subtype = NoValue
                   \/ Admits(<<y.subtype, y.connection_type>>, newParts[y.owner].subtype,
                             newParts[y.counterparty].subtype)
    BY DEF Admitted, newParts, newContracts
  <2>6. /\ ofContracts = Fill("contracts", "subtype", "interaction") =>
             x.connection_type = NoValue
        /\ ofParts # Nothing =>
             ofContracts = Nothing /\ x.subtype = NoValue /\ x.connection_type = NoValue
    <3>1. Fill("contracts", "subtype", "interaction") # Nothing
          /\ Fill("contracts", "subtype", "interaction") # Turn("member-of", "composes")
      BY DEF Fill, Nothing, Turn
    <3> QED BY <1>1, <3>1 DEF RowsUpgraded
  <2> HIDE DEF x, y
  <2>7. ASSUME Admitted(t, db.rows, c) PROVE Admitted(u, new.rows, c)
    <3>1. CASE ofParts # Nothing
      <4>1. y.subtype = NoValue /\ y.connection_type = NoValue
        BY <2>2, <2>6, <3>1
      <4> QED BY <2>5, <4>1 DEF NoValue
    <3>2. CASE ofParts = Nothing /\ ofContracts = Nothing
      <4>1. newParts[x.owner] = parts[x.owner] /\ newParts[x.counterparty] = parts[x.counterparty]
        BY <1>6, <2>3, <3>2
      <4> QED BY <2>2, <2>4, <2>5, <2>7, <3>2, <4>1
    <3>3. CASE ofContracts = Fill("contracts", "subtype", "interaction")
      <4>1. y.subtype = "interaction" /\ y.connection_type = NoValue
        BY <2>2, <2>6, <3>3
      <4>2. Admits(<<"interaction", NoValue>>, newParts[y.owner].subtype,
                   newParts[y.counterparty].subtype)
        BY DEF Admits
      <4> QED BY <2>5, <4>1, <4>2 DEF NoValue
    <3>4. CASE ofParts = Nothing /\ ofContracts = Turn("member-of", "composes")
      <4>1. newParts[x.owner] = parts[x.owner] /\ newParts[x.counterparty] = parts[x.counterparty]
        BY <1>6, <2>3, <3>4
      <4>2. CASE x.connection_type = "member-of"
        <5>1. /\ y.connection_type = "composes" /\ y.owner = x.counterparty
              /\ y.counterparty = x.owner /\ y.subtype = "connection"
          BY <2>2, <2>3, <3>4, <4>2 DEF NoValue
        <5>2. parts[x.owner].subtype = "container" /\ parts[x.counterparty].subtype = "compose"
          BY <2>4, <2>7, <4>2
        <5>3. newParts[y.owner].subtype = "compose" /\ newParts[y.counterparty].subtype = "container"
          BY <4>1, <5>1, <5>2
        <5> QED BY <2>5, <5>1, <5>3, TurnedAdmitted
      <4>3. CASE x.connection_type # "member-of"
        <5>1. y = x
          BY <2>2, <3>4, <4>3
        <5> QED BY <2>4, <2>5, <2>7, <4>1, <5>1
      <4> QED BY <4>2, <4>3
    <3> QED BY <1>1, <3>1, <3>2, <3>3, <3>4 DEF RowsUpgraded
  <2>8. c \in DOMAIN newContracts
    BY <1>1 DEF RowsUpgraded
  <2> QED BY <2>2, <2>7, <2>8 DEF x, y
<1> QED BY <1>6, <1>7 DEF RowsKept, parts, newParts, contracts, newContracts

\* An upgrade() loses no part and no contract, changes no deletion and no endpoints, and
\* leaves no contract that the connection rules stop admitting.
THEOREM UpgradeAlwaysKeepsRows == Spec => UpgradeKeepsRows
<1>1. Surveyed /\ [Next]_vars =>
        [rev' = rev + 1 /\ rev > 0 =>
           LET t == PartTable
               u == PartTable'
           IN  /\ \A p \in DOMAIN rows[t] :
                    /\ p \in DOMAIN rows'[u]
                    /\ rows'[u][p].name = rows[t][p].name
                    /\ rows'[u][p].deleted_at = rows[t][p].deleted_at
                    /\ rows'[u][p].subtype = rows[t][p].subtype \/ rows[t][p].subtype = NoValue
               /\ \A c \in DOMAIN rows["contracts"] :
                    /\ c \in DOMAIN rows'["contracts"]
                    /\ LET r == rows["contracts"][c]
                           s == rows'["contracts"][c]
                       IN  /\ s.deleted_at = r.deleted_at
                           /\ {s.owner, s.counterparty} = {r.owner, r.counterparty}
                    /\ Admitted(t, rows, c) => Admitted(u, rows', c)]_vars
  <2> SUFFICES ASSUME Surveyed, Next, rev' = rev + 1, rev > 0
               PROVE  RowsKept(PartTable, PartTable', rows, rows')
    BY DEF RowsKept
  <2>1. PICK r, db : r = rev /\ db = Database
    OBVIOUS
  <2>2. Rested(r, db) /\ db.rows = rows
    BY <2>1 DEF Surveyed, Database
  <2>3. r \in Nat
    BY <2>2, KnownPoint, PathsAssumption DEF Rested
  <2>4. Upgrade
    <3>1. rev' # rev /\ rev' # rev - 1
      BY <2>1, <2>3
    <3> QED BY <3>1 DEF Next, Downgrade, Commit, RegisterPart, RegisterContract, ProposeSubtype,
                        ProposeType, Delete, Insert, Write
  <2>5. PICK new : new = Run(db, Upgrades[r + 1])
    OBVIOUS
  <2>6. r < LastRev /\ rows' = new.rows
    BY <2>1, <2>4, <2>5 DEF Upgrade, Commit
  <2>7. PICK t, u : t = PartsIn(DOMAIN db.rows) /\ u = PartsIn(DOMAIN new.rows)
    OBVIOUS
  <2>8. PartTable = t /\ PartTable' = u
    BY <2>2, <2>6, <2>7 DEF PartTable, PartsIn
  <2>9. r > 0
    BY <2>1
  <2> HIDE DEF PartTable
  <2>10. RowsKept(t, u, db.rows, new.rows)
    BY <2>2, <2>5, <2>6, <2>7, <2>9, UpgradeKept
  <2> QED BY <2>2, <2>6, <2>8, <2>10
<1> QED BY <1>1, AlwaysSurveyed, PTL DEF Spec, UpgradeKeepsRows
=============================================================================
