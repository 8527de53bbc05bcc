----------------------------- MODULE Versioning -----------------------------
(***************************************************************************)
(* The version order of src/versioning.py: MAJOR.MINOR.PATCH with an       *)
(* optional -rcN suffix, compared by the tuple that Version._sort_key      *)
(* builds.  A stable version carries NoPre where the code has              *)
(* prerelease = None.  Pure operators: the ledger modules instantiate the  *)
(* order, LedgerTxProofs proves what they rely on.                         *)
(***************************************************************************)
EXTENDS Integers

NoPre == -1

Version == [major : Nat, minor : Nat, patch : Nat, pre : Nat \union {NoPre}]

IsPrerelease(v) == v.pre # NoPre

\* The stable version an accepted release candidate turns into.
StableOf(v) == [v EXCEPT !.pre = NoPre]

SameTriple(v, w) ==
  /\ v.major = w.major
  /\ v.minor = w.minor
  /\ v.patch = w.patch

TripleAbove(v, w) ==
  \/ v.major > w.major
  \/ v.major = w.major /\ v.minor > w.minor
  \/ v.major = w.major /\ v.minor = w.minor /\ v.patch > w.patch

\* Mutant: no prerelease sorts below every prerelease.
PreAboveNullsFirst(p, q) == p > q

\* pre_key: a stable version is (1, 0), the candidate rcN is (0, N).
PreAbove(p, q) ==
  \/ p = NoPre /\ q # NoPre
  \/ p # NoPre /\ q # NoPre /\ p > q

\* v > w of the code.
Newer(v, w) == TripleAbove(v, w) \/ (SameTriple(v, w) /\ PreAbove(v.pre, w.pre))

\* "latest is None or new > latest", latest being max(S): v exceeds them all.
Exceeds(v, S) == \A w \in S : Newer(v, w)

\* The maximum of a set of versions, of which max() and ORDER BY ... DESC LIMIT 1
\* are the code's two forms.
Latest(S) == CHOOSE v \in S : \A w \in S \ {v} : Newer(v, w)
=============================================================================
