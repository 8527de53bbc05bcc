---------------------------- MODULE TokenInitProofs ----------------------------
(***************************************************************************)
(* TokenInit, for every number of pods, tokens, faults and revocations:    *)
(* what a run hands on was saved before, and was live at some moment of    *)
(* that run; and what the runs mint is accounted for.                      *)
(***************************************************************************)
EXTENDS TokenInit, FiniteSetTheorems, TLAPS

\* The Secret, and so every mount and every token taken from one, was saved; and a
\* run holds on to a token that it has patched in or found good.
HeldInv ==
  /\ secret \in saved \union {None}
  /\ \A p \in Pods :
       /\ pc[p] \in {"probe", "handoff"} => held[p] \in saved
       /\ pc[p] = "probe" /\ held[p] \in Live => held[p] \in known[p]
       /\ pc[p] \in {"patch", "handoff"} => held[p] \in known[p]

InitInv == TypeOK /\ HeldInv /\ SavedBeforeHandoff

-----------------------------------------------------------------------------
\* Tokens are minted and die; none is unmade, and a dead one stays dead.
LEMMA NoneIsId == None \notin TokenIds
BY TokenInitAssumption DEF TokenIds

LEMMA InitOK == Init => InitInv
BY TokenInitAssumption DEF Init, InitInv, TypeOK, HeldInv, SavedBeforeHandoff, Minted, Live

LEMMA MintOK ==
  ASSUME TypeOK, NEW t \in TokenIds, Mint(t)
  PROVE  /\ token' \in [TokenIds -> {"absent", "live", "dead"}]
         /\ Minted' = Minted \union {t} /\ Live' = Live \union {t}
BY DEF TypeOK, Mint, Minted, Live

LEMMA FaultOK ==
  ASSUME TypeOK, Fault
  PROVE  faults' \in 0..MaxFaults
BY TokenInitAssumption DEF TypeOK, Fault

LEMMA SameTokens ==
  ASSUME token' = token PROVE Minted' = Minted /\ Live' = Live
BY DEF Minted, Live

LEMMA StartOK ==
  ASSUME InitInv, NEW p \in Pods, Start(p) PROVE InitInv'
<1>1. /\ Minted' = Minted /\ Live' = Live /\ Live \subseteq Minted
      /\ known' = [known EXCEPT ![p] = Live] /\ held' = [held EXCEPT ![p] = mount[p]]
      /\ UNCHANGED <<token, secret, saved, mount, handoff, faults, deaths>>
  BY SameTokens DEF Start, Goto, cluster, Live, Minted
<1>2. \/ mount[p] = None /\ pc' = [pc EXCEPT ![p] = "issue"]
      \/ mount[p] # None /\ pc' = [pc EXCEPT ![p] = "probe"]
  BY DEF Start, Goto
<1>3. known' \in [Pods -> SUBSET Minted']
  BY <1>1 DEF InitInv, TypeOK
<1>4. \A q \in Pods : /\ q # p => pc'[q] = pc[q] /\ held'[q] = held[q] /\ known'[q] = known[q]
                      /\ q = p => held'[q] = mount[q] /\ known'[q] = Live
                                   /\ pc'[q] = IF mount[q] = None THEN "issue" ELSE "probe"
  BY <1>1, <1>2 DEF InitInv, TypeOK
<1>5. pc' \in [Pods -> {"start", "probe", "issue", "patch", "handoff", "ready", "hung"}]
  BY <1>2 DEF InitInv, TypeOK
<1>6. held' \in [Pods -> TokenIds \union {None}]
  BY <1>1 DEF InitInv, TypeOK
<1>7. TypeOK'
  BY <1>1, <1>3, <1>4, <1>5, <1>6 DEF InitInv, TypeOK
<1>8. HeldInv' /\ SavedBeforeHandoff'
  BY <1>1, <1>4 DEF InitInv, TypeOK, HeldInv, SavedBeforeHandoff
<1>9. QED BY <1>7, <1>8 DEF InitInv

LEMMA ProbeOK ==
  ASSUME InitInv, NEW p \in Pods, Probe(p) PROVE InitInv'
<1>1. /\ Minted' = Minted /\ Live' = Live /\ pc[p] = "probe"
      /\ UNCHANGED <<token, secret, saved, mount, handoff, known, faults, deaths>>
  BY SameTokens DEF Probe, cluster
<1>2. CASE held[p] \in Live
  <2>1. pc' = [pc EXCEPT ![p] = "handoff"] /\ held' = [held EXCEPT ![p] = held[p]]
    BY <1>2 DEF Probe, Goto
  <2>2. QED
    BY <1>1, <1>2, <2>1 DEF InitInv, TypeOK, HeldInv, SavedBeforeHandoff
<1>3. CASE held[p] \notin Live
  <2>1. pc' = [pc EXCEPT ![p] = "issue"] /\ held' = [held EXCEPT ![p] = None]
    BY <1>3 DEF Probe, Goto
  <2>2. QED
    BY <1>1, <2>1 DEF InitInv, TypeOK, HeldInv, SavedBeforeHandoff
<1>4. QED BY <1>2, <1>3

LEMMA ProbeUnansweredOK ==
  ASSUME InitInv, NEW p \in Pods, ProbeUnanswered(p) PROVE InitInv'
BY SameTokens, FaultOK DEF InitInv, TypeOK, HeldInv, SavedBeforeHandoff, ProbeUnanswered, Goto, cluster

LEMMA IssueOK ==
  ASSUME InitInv, NEW p \in Pods, Issue(p) PROVE InitInv'
<1>1. PICK t \in TokenIds : /\ Mint(t) /\ Goto(p, "patch", t)
                            /\ known' = [known EXCEPT ![p] = known[p] \union {t}]
  BY DEF Issue
<1>2. /\ pc' = [pc EXCEPT ![p] = "patch"] /\ held' = [held EXCEPT ![p] = t]
      /\ UNCHANGED <<secret, saved, mount, handoff, faults, deaths>>
  BY <1>1 DEF Issue, Goto, cluster
<1>3. /\ token' \in [TokenIds -> {"absent", "live", "dead"}] /\ t \notin Minted
      /\ Minted' = Minted \union {t} /\ Live' = Live \union {t}
  BY <1>1, MintOK DEF InitInv, Mint
<1>4. known' \in [Pods -> SUBSET Minted']
  BY <1>1, <1>3 DEF InitInv, TypeOK
<1>5. \A q \in Pods : /\ q # p => pc'[q] = pc[q] /\ held'[q] = held[q] /\ known'[q] = known[q]
                      /\ q = p => pc'[q] = "patch" /\ held'[q] = t /\ t \in known'[q]
  BY <1>1, <1>2 DEF InitInv, TypeOK
<1>6. pc' \in [Pods -> {"start", "probe", "issue", "patch", "handoff", "ready", "hung"}]
  BY <1>2 DEF InitInv, TypeOK
<1>7. held' \in [Pods -> TokenIds \union {None}]
  BY <1>2 DEF InitInv, TypeOK
<1>8. TypeOK'
  BY <1>2, <1>3, <1>4, <1>5, <1>6, <1>7 DEF InitInv, TypeOK
<1>9. HeldInv' /\ SavedBeforeHandoff'
  BY <1>2, <1>3, <1>5 DEF InitInv, TypeOK, HeldInv, SavedBeforeHandoff
<1>10. QED BY <1>8, <1>9 DEF InitInv

LEMMA IssueUnansweredOK ==
  ASSUME InitInv, NEW p \in Pods, IssueUnanswered(p) PROVE InitInv'
<1>1. PICK t \in TokenIds : Mint(t)
  BY DEF IssueUnanswered
<1>2. TypeOK'
  BY <1>1, MintOK, FaultOK DEF InitInv, TypeOK, IssueUnanswered, Goto, cluster
<1>3. t \notin Minted
  BY <1>1 DEF Mint
<1>4. HeldInv' /\ SavedBeforeHandoff'
  BY <1>1, <1>3, MintOK DEF InitInv, TypeOK, HeldInv, SavedBeforeHandoff, IssueUnanswered, Goto, cluster
<1>5. QED BY <1>2, <1>4 DEF InitInv

LEMMA PatchOK ==
  ASSUME InitInv, NEW p \in Pods, Patch(p) PROVE InitInv'
BY SameTokens DEF InitInv, TypeOK, HeldInv, SavedBeforeHandoff, Patch, Save, Goto, Minted

LEMMA PatchUnansweredOK ==
  ASSUME InitInv, NEW p \in Pods, PatchUnanswered(p) PROVE InitInv'
BY SameTokens, FaultOK DEF InitInv, TypeOK, HeldInv, SavedBeforeHandoff, PatchUnanswered, Save, Goto, Minted

LEMMA HandoffOK ==
  ASSUME InitInv, NEW p \in Pods, Handoff(p) PROVE InitInv'
BY SameTokens DEF InitInv, TypeOK, HeldInv, SavedBeforeHandoff, Handoff, Goto, cluster

LEMMA CrashOK ==
  ASSUME InitInv, NEW p \in Pods, Crash(p) PROVE InitInv'
BY SameTokens, FaultOK DEF InitInv, TypeOK, HeldInv, SavedBeforeHandoff, Crash, Goto, cluster

LEMMA HangOK ==
  ASSUME InitInv, NEW p \in Pods, CallLost(p) \/ HangEnds(p) PROVE InitInv'
<1>1. CASE CallLost(p)
  BY <1>1, SameTokens, FaultOK DEF InitInv, TypeOK, HeldInv, SavedBeforeHandoff, CallLost, Goto, cluster
<1>2. CASE HangEnds(p)
  BY <1>2, SameTokens DEF InitInv, TypeOK, HeldInv, SavedBeforeHandoff, HangEnds, Goto, cluster
<1>3. QED BY <1>1, <1>2

LEMMA SyncOK ==
  ASSUME InitInv, NEW p \in Pods, Sync(p) PROVE InitInv'
BY SameTokens DEF InitInv, TypeOK, HeldInv, SavedBeforeHandoff, Sync, cluster

LEMMA ReplaceOK ==
  ASSUME InitInv, NEW p \in Pods, Replace(p) PROVE InitInv'
BY SameTokens DEF InitInv, TypeOK, HeldInv, SavedBeforeHandoff, Replace, Goto, cluster

LEMMA TokenDiesOK ==
  ASSUME InitInv, NEW t \in TokenIds, TokenDies(t) PROVE InitInv'
<1>1. /\ token' \in [TokenIds -> {"absent", "live", "dead"}]
      /\ Minted' = Minted /\ Live' \subseteq Live
  BY DEF InitInv, TypeOK, TokenDies, Minted, Live
<1>2. deaths' \in 0..MaxDeaths
  BY TokenInitAssumption DEF InitInv, TypeOK, TokenDies
<1>3. QED
  BY <1>1, <1>2 DEF InitInv, TypeOK, HeldInv, SavedBeforeHandoff, TokenDies, cluster

LEMMA NextOK == InitInv /\ [Next]_vars => InitInv'
<1> SUFFICES ASSUME InitInv, [Next]_vars PROVE InitInv'
  OBVIOUS
<1>1. CASE UNCHANGED vars
  BY <1>1, SameTokens DEF InitInv, TypeOK, HeldInv, SavedBeforeHandoff, vars, cluster
<1>2. CASE Next
  BY <1>2, StartOK, ProbeOK, ProbeUnansweredOK, IssueOK, IssueUnansweredOK, PatchOK,
     PatchUnansweredOK, HandoffOK, HangOK, CrashOK, SyncOK, ReplaceOK, TokenDiesOK DEF Next, Run
<1>3. QED BY <1>1, <1>2

-----------------------------------------------------------------------------
\* Every mount, handoff file and run is about a token that was minted.
THEOREM TypeCorrect == Spec => []TypeOK
<1>1. InitInv => TypeOK
  BY DEF InitInv
<1>2. QED
  BY InitOK, NextOK, <1>1, PTL DEF Spec

\* Whatever crashes, gets lost or is revoked, a pod never runs on a token that was
\* not in the Secret before.
THEOREM AlwaysSavedBeforeHandoff == Spec => []SavedBeforeHandoff
<1>1. InitInv => SavedBeforeHandoff
  BY DEF InitInv
<1>2. QED
  BY InitOK, NextOK, <1>1, PTL DEF Spec

\* However stale the mount, a run hands on a token that lived while it ran.
THEOREM HandoffAlwaysLive == Spec => HandoffWasLive
<1>1. InitInv /\ [Next]_vars =>
        [\A p \in Pods :
           handoff'[p] \notin {handoff[p], None} => handoff'[p] \in known[p]]_vars
  <2> SUFFICES ASSUME InitInv, Next, NEW p \in Pods, handoff'[p] \notin {handoff[p], None}
               PROVE  handoff'[p] \in known[p]
    OBVIOUS
  <2>1. ASSUME NEW q \in Pods, Handoff(q) PROVE handoff'[p] \in known[p]
    BY <2>1 DEF Handoff, InitInv, TypeOK, HeldInv
  <2>2. ASSUME NEW q \in Pods, Replace(q) PROVE handoff'[p] \in known[p]
    BY <2>2 DEF Replace, InitInv, TypeOK
  <2>3. ASSUME handoff' = handoff PROVE handoff'[p] \in known[p]
    BY <2>3
  <2>4. QED
    BY <2>1, <2>2, <2>3 DEF Next, Run, Start, Probe, ProbeUnanswered, Issue, IssueUnanswered,
       Patch, PatchUnanswered, CallLost, HangEnds, Crash, Sync, TokenDies
<1>2. QED
  BY InitOK, NextOK, <1>1, PTL DEF Spec, HandoffWasLive

-----------------------------------------------------------------------------
\* A pod owes a mint when its run is about to, or when what it runs on, or will run
\* on once it is replaced or no longer hangs, is no token or a dead one; a run at its
\* patch has paid.
Dead == {t \in TokenIds : token[t] = "dead"}
Spent == Dead \intersect saved
Bad(x) == x \in Dead \union {None}

Owes(p) ==
  \/ pc[p] = "issue"
  \/ pc[p] \in {"start", "hung"} /\ Bad(mount[p])
  \/ pc[p] = "probe" /\ Bad(held[p])
  \/ pc[p] # "patch" /\ Bad(secret)

Owing == {p \in Pods : Owes(p)}

\* What was minted and what is owed, against the dead tokens that were in the Secret:
\* each lets every pod mint once more, and only from the moment it was both.
Account ==
  /\ Cardinality(Dead) <= deaths
  /\ Cardinality(Minted) + Cardinality(Owing)
       <= Cardinality(Pods) * (1 + Cardinality(Spent)) + faults

\* What a run is about to patch in was never in the Secret and is its own: the Secret
\* does not come back to a dead token that was overwritten.
OwnPatch ==
  \A p \in Pods : pc[p] = "patch" =>
    /\ held[p] \notin saved
    /\ \A q \in Pods \ {p} : pc[q] = "patch" => held[q] # held[p]

LEMMA Sizes ==
  ASSUME InitInv
  PROVE  /\ IsFiniteSet(Minted) /\ Cardinality(Minted) \in Nat
         /\ IsFiniteSet(Dead) /\ Cardinality(Dead) \in Nat
         /\ IsFiniteSet(Spent) /\ Cardinality(Spent) \in Nat
         /\ IsFiniteSet(Owing) /\ Cardinality(Owing) \in Nat
         /\ Cardinality(Owing) <= Cardinality(Pods)
         /\ IsFiniteSet(Pods) /\ Cardinality(Pods) \in Nat
         /\ faults \in Nat /\ deaths \in Nat
<1>1. IsFiniteSet(TokenIds)
  BY FS_Interval, TokenInitAssumption DEF TokenIds
<1>2. IsFiniteSet(Minted) /\ IsFiniteSet(Dead) /\ IsFiniteSet(Spent)
  <2>1. /\ Minted \in SUBSET TokenIds /\ Dead \in SUBSET TokenIds
        /\ Spent \in SUBSET TokenIds
    BY DEF Minted, Dead, Spent
  <2> QED BY <1>1, <2>1, FS_Subset
<1>3. IsFiniteSet(Owing) /\ Cardinality(Owing) <= Cardinality(Pods)
  <2>1. Owing \in SUBSET Pods
    BY DEF Owing
  <2> QED BY <2>1, FS_Subset, TokenInitAssumption
<1>4. faults \in Nat /\ deaths \in Nat
  BY TokenInitAssumption DEF InitInv, TypeOK
<1> QED BY <1>2, <1>3, <1>4, FS_CardinalityType, TokenInitAssumption

LEMMA AddOne ==
  ASSUME NEW S, IsFiniteSet(S), NEW x
  PROVE  /\ IsFiniteSet(S \union {x}) /\ Cardinality(S \union {x}) \in Nat
         /\ Cardinality(S \union {x}) <= Cardinality(S) + 1
<1>1. /\ IsFiniteSet(S \union {x})
      /\ Cardinality(S \union {x}) = Cardinality(S) \/ Cardinality(S \union {x}) = Cardinality(S) + 1
  BY FS_AddElement
<1>2. Cardinality(S) \in Nat /\ Cardinality(S \union {x}) \in Nat
  BY <1>1, FS_CardinalityType
<1> QED BY <1>1, <1>2

\* Nothing is minted, and nobody but q owes more than before, q at the price of a fault.
LEMMA AccountKept ==
  ASSUME InitInv, InitInv', Account,
         Minted' = Minted, Dead' = Dead, Spent' = Spent, deaths' = deaths,
         NEW q,
         \/ faults' = faults /\ Owing' \subseteq Owing
         \/ faults' = faults + 1 /\ Owing' \subseteq Owing \union {q}
  PROVE  Account'
<1>1. Cardinality(Owing') - Cardinality(Owing) <= faults' - faults
  <2>1. CASE faults' = faults /\ Owing' \subseteq Owing
    <3>1. Cardinality(Owing') <= Cardinality(Owing)
      BY <2>1, Sizes, FS_Subset
    <3> QED BY <2>1, <3>1, Sizes, FS_CardinalityType, FS_Subset
  <2>2. CASE faults' = faults + 1 /\ Owing' \subseteq Owing \union {q}
    <3>1. /\ IsFiniteSet(Owing \union {q})
          /\ Cardinality(Owing \union {q}) <= Cardinality(Owing) + 1
      BY Sizes, AddOne
    <3>2. IsFiniteSet(Owing') /\ Cardinality(Owing') <= Cardinality(Owing \union {q})
      BY <2>2, <3>1, FS_Subset
    <3>3. Cardinality(Owing') \in Nat /\ Cardinality(Owing \union {q}) \in Nat
      BY <3>1, <3>2, FS_CardinalityType
    <3> QED BY <2>2, <3>1, <3>2, <3>3, Sizes
  <2> QED BY <2>1, <2>2
<1>2. Cardinality(Owing') \in Nat /\ faults' \in Nat
  <2>1. IsFiniteSet(Owing')
    <3>1. Owing' \in SUBSET Pods
      BY DEF Owing
    <3> QED BY <3>1, FS_Subset, TokenInitAssumption
  <2>2. Cardinality(Owing') \in Nat
    BY <2>1, FS_CardinalityType
  <2> QED BY <2>2, Sizes
<1> DEFINE budget == Cardinality(Pods) * (1 + Cardinality(Spent))
<1>3. budget \in Nat
  BY Sizes
<1>4. /\ Cardinality(Minted) + Cardinality(Owing) <= budget + faults
      /\ Cardinality(Dead) <= deaths
  BY DEF Account
<1> HIDE DEF budget
<1>5. Cardinality(Minted) + Cardinality(Owing') <= budget + faults'
  BY <1>1, <1>2, <1>3, <1>4, Sizes
<1> QED BY <1>4, <1>5 DEF Account, budget

\* A mint is paid for by the pod that owed it, or by the fault that lost the answer.
LEMMA AccountMinted ==
  ASSUME InitInv, InitInv', Account, NEW t, NEW q \in Pods,
         Minted' = Minted \union {t}, Dead' = Dead, Spent' = Spent, deaths' = deaths,
         \/ faults' = faults /\ q \in Owing /\ Owing' \subseteq Owing \ {q}
         \/ faults' = faults + 1 /\ Owing' \subseteq Owing
  PROVE  Account'
<1>1. Cardinality(Minted') \in Nat /\ Cardinality(Minted') <= Cardinality(Minted) + 1
  BY Sizes, AddOne
<1>2. IsFiniteSet(Owing \ {q}) /\ (q \in Owing => Cardinality(Owing \ {q}) = Cardinality(Owing) - 1)
  BY Sizes, FS_RemoveElement
<1>3. Cardinality(Owing') \in Nat
  <2>1. Owing' \in SUBSET Pods
    BY DEF Owing
  <2> QED BY <2>1, FS_Subset, FS_CardinalityType, TokenInitAssumption
<1>4. Cardinality(Owing') + 1 <= Cardinality(Owing) + (faults' - faults)
  <2>1. CASE faults' = faults /\ q \in Owing /\ Owing' \subseteq Owing \ {q}
    <3>1. Cardinality(Owing') <= Cardinality(Owing \ {q})
      BY <1>2, <2>1, FS_Subset
    <3> QED BY <1>2, <1>3, <2>1, <3>1, Sizes
  <2>2. CASE faults' = faults + 1 /\ Owing' \subseteq Owing
    <3>1. Cardinality(Owing') <= Cardinality(Owing)
      BY <2>2, Sizes, FS_Subset
    <3> QED BY <1>3, <2>2, <3>1, Sizes
  <2> QED BY <2>1, <2>2
<1> DEFINE budget == Cardinality(Pods) * (1 + Cardinality(Spent))
<1>5. budget \in Nat /\ faults' \in Nat
  BY Sizes
<1>6. /\ Cardinality(Minted) + Cardinality(Owing) <= budget + faults
      /\ Cardinality(Dead) <= deaths
  BY DEF Account
<1> HIDE DEF budget
<1>7. Cardinality(Minted') + Cardinality(Owing') <= budget + faults'
  BY <1>1, <1>3, <1>4, <1>5, <1>6, Sizes
<1> QED BY <1>6, <1>7 DEF Account, budget

\* One more dead token that was in the Secret lets every pod mint once more.
LEMMA AccountSpent ==
  ASSUME InitInv, InitInv', Account, NEW t, t \notin Spent,
         Minted' = Minted, Spent' = Spent \union {t}, faults' \in Nat, faults' >= faults,
         Cardinality(Dead') <= deaths'
  PROVE  Account'
<1>1. Cardinality(Spent') = Cardinality(Spent) + 1
  BY Sizes, FS_AddElement
<1>2. Cardinality(Owing') \in Nat /\ Cardinality(Owing') <= Cardinality(Pods)
  <2>1. Owing' \in SUBSET Pods
    BY DEF Owing
  <2> QED BY <2>1, FS_Subset, FS_CardinalityType, TokenInitAssumption
<1> DEFINE budget == Cardinality(Pods) * (1 + Cardinality(Spent))
<1>3. budget \in Nat
  BY Sizes
<1>4. Cardinality(Pods) * (1 + Cardinality(Spent')) = budget + Cardinality(Pods)
  BY <1>1, Sizes
<1>5. Cardinality(Minted) + Cardinality(Owing) <= budget + faults
  BY DEF Account
<1> HIDE DEF budget
<1>6. Cardinality(Minted) + Cardinality(Owing') <= budget + Cardinality(Pods) + faults'
  BY <1>2, <1>3, <1>5, Sizes
<1> QED BY <1>4, <1>6 DEF Account

\* A step of p that leaves the tokens and the Secret alone changes only what p owes.
LEMMA OwedByOthers ==
  ASSUME InitInv, NEW p \in Pods, UNCHANGED <<token, secret, saved>>,
         \A q \in Pods \ {p} : pc'[q] = pc[q] /\ mount'[q] = mount[q] /\ held'[q] = held[q]
  PROVE  /\ Minted' = Minted /\ Dead' = Dead /\ Spent' = Spent
         /\ \A x : Bad(x)' <=> Bad(x)
         /\ Owing' \subseteq Owing \union {p}
         /\ (Owes(p)' => Owes(p)) => Owing' \subseteq Owing
<1>1. Minted' = Minted /\ Dead' = Dead /\ Spent' = Spent
  BY DEF Minted, Dead, Spent
<1>2. \A x : Bad(x)' <=> Bad(x)
  BY <1>1 DEF Bad
<1>3. ASSUME NEW q \in Pods \ {p} PROVE Owes(q)' <=> Owes(q)
  BY <1>2 DEF Owes
<1> QED BY <1>1, <1>2, <1>3 DEF Owing

\* A failed run costs a fault.
LEMMA FailedAccount ==
  ASSUME InitInv, InitInv', Account, NEW p \in Pods,
         ProbeUnanswered(p) \/ CallLost(p) \/ Crash(p)
  PROVE  Account'
<1>1. /\ UNCHANGED <<token, secret, saved, mount, deaths>> /\ faults' = faults + 1
      /\ \A q \in Pods \ {p} : pc'[q] = pc[q] /\ held'[q] = held[q]
  BY DEF ProbeUnanswered, CallLost, Crash, Fault, Goto, cluster, InitInv, TypeOK
<1> QED BY <1>1, OwedByOthers, AccountKept

\* The steps that neither mint nor fail: nobody owes more than before.
LEMMA QuietAccount ==
  ASSUME InitInv, InitInv', Account, NEW p \in Pods,
         Start(p) \/ Probe(p) \/ Handoff(p) \/ HangEnds(p) \/ Sync(p) \/ Replace(p)
  PROVE  Account'
<1>1. /\ UNCHANGED <<token, secret, saved, faults, deaths>>
      /\ \A q \in Pods \ {p} : pc'[q] = pc[q] /\ mount'[q] = mount[q] /\ held'[q] = held[q]
  BY DEF Start, Probe, Handoff, HangEnds, Sync, Replace, Goto, cluster, InitInv, TypeOK
<1>2. \A x : Bad(x)' <=> Bad(x)
  BY <1>1, OwedByOthers
<1>3. Owes(p)' => Owes(p)
  <2> SUFFICES ASSUME Owes(p)' PROVE Owes(p)
    OBVIOUS
  <2>1. CASE Start(p)
    <3>1. /\ pc[p] = "start" /\ mount'[p] = mount[p] /\ held'[p] = mount[p]
          /\ pc'[p] = IF mount[p] = None THEN "issue" ELSE "probe"
      BY <2>1 DEF Start, Goto, InitInv, TypeOK
    <3> QED BY <1>1, <1>2, <3>1 DEF Owes, Bad
  <2>2. CASE Probe(p)
    <3>1. pc[p] = "probe" /\ held[p] \in Minted
      BY <2>2 DEF Probe, InitInv, TypeOK
    <3>2. CASE held[p] \in Live
      <4>1. pc'[p] = "handoff"
        BY <2>2, <3>2 DEF Probe, Goto, InitInv, TypeOK
      <4> QED BY <1>1, <1>2, <3>1, <4>1 DEF Owes
    <3>3. CASE held[p] \notin Live
      <4>1. held[p] \in Dead
        BY <3>1, <3>3 DEF Minted, Live, Dead, InitInv, TypeOK
      <4> QED BY <3>1, <4>1 DEF Owes, Bad
    <3> QED BY <3>2, <3>3
  <2>3. CASE Handoff(p)
    <3>1. pc[p] = "handoff" /\ pc'[p] = "ready"
      BY <2>3 DEF Handoff, Goto, InitInv, TypeOK
    <3> QED BY <1>1, <1>2, <3>1 DEF Owes
  <2>4. CASE Sync(p)
    <3>1. pc'[p] = pc[p] /\ held'[p] = held[p] /\ mount'[p] = secret
      BY <2>4 DEF Sync, InitInv, TypeOK
    <3> QED BY <1>1, <1>2, <3>1 DEF Owes
  <2>5. CASE Replace(p)
    <3>1. pc[p] = "ready" /\ pc'[p] = "start" /\ mount'[p] = secret
      BY <2>5 DEF Replace, Goto, InitInv, TypeOK
    <3> QED BY <1>1, <1>2, <3>1 DEF Owes
  <2>6. CASE HangEnds(p)
    <3>1. pc[p] = "hung" /\ pc'[p] = "start" /\ mount'[p] = mount[p]
      BY <2>6 DEF HangEnds, Goto, InitInv, TypeOK
    <3> QED BY <1>1, <1>2, <3>1 DEF Owes
  <2> QED BY <2>1, <2>2, <2>3, <2>4, <2>5, <2>6
<1> QED BY <1>1, <1>3, OwedByOthers, AccountKept

\* A mint is of a token that is neither dead nor was ever in the Secret.
LEMMA MintedAlive ==
  ASSUME InitInv, NEW t \in TokenIds, Mint(t), saved' = saved, secret' = secret
  PROVE  /\ Minted' = Minted \union {t} /\ Dead' = Dead /\ Spent' = Spent
         /\ \A x : Bad(x)' <=> Bad(x)
<1>1. Minted' = Minted \union {t}
  BY MintOK DEF InitInv
<1>2. Dead' = Dead
  BY DEF Mint, Minted, Dead, InitInv, TypeOK
<1> QED BY <1>1, <1>2 DEF Spent, Bad

LEMMA IssueAccount ==
  ASSUME InitInv, InitInv', Account, NEW p \in Pods,
         Issue(p) \/ IssueUnanswered(p)
  PROVE  Account'
<1>1. PICK t \in TokenIds : Mint(t)
  BY DEF Issue, IssueUnanswered
<1>2. /\ UNCHANGED <<secret, saved, mount, deaths>> /\ pc[p] = "issue"
      /\ \A q \in Pods \ {p} : pc'[q] = pc[q] /\ held'[q] = held[q]
  BY DEF Issue, IssueUnanswered, Goto, cluster, InitInv, TypeOK
<1>3. /\ Minted' = Minted \union {t} /\ Dead' = Dead /\ Spent' = Spent
      /\ \A x : Bad(x)' <=> Bad(x)
  BY <1>1, <1>2, MintedAlive
<1>4. \A q \in Pods \ {p} : Owes(q)' <=> Owes(q)
  BY <1>2, <1>3 DEF Owes
<1>5. p \in Owing /\ Owing' \subseteq Owing
  BY <1>2, <1>4 DEF Owing, Owes
<1>6. CASE Issue(p)
  <2>1. pc'[p] = "patch" /\ faults' = faults
    BY <1>6 DEF Issue, Goto, InitInv, TypeOK
  <2>2. p \notin Owing'
    BY <2>1 DEF Owing, Owes
  <2>3. Owing' \subseteq Owing \ {p}
    BY <1>5, <2>2
  <2> QED BY <1>2, <1>3, <1>5, <2>1, <2>3, AccountMinted
<1>7. CASE IssueUnanswered(p)
  <2>1. faults' = faults + 1
    BY <1>7 DEF IssueUnanswered, Fault
  <2> QED BY <1>2, <1>3, <1>5, <2>1, AccountMinted
<1> QED BY <1>6, <1>7

\* What is patched in may be dead by then; if not, nobody owes because of the Secret.
LEMMA PatchAccount ==
  ASSUME InitInv, InitInv', Account, OwnPatch, NEW p \in Pods,
         Patch(p) \/ PatchUnanswered(p)
  PROVE  Account'
<1> DEFINE t == held[p]
<1>1. /\ pc[p] = "patch" /\ secret' = t /\ saved' = saved \union {t}
      /\ UNCHANGED <<token, mount, deaths>> /\ t \in Minted
      /\ \A q \in Pods \ {p} : pc'[q] = pc[q] /\ held'[q] = held[q]
  BY DEF Patch, PatchUnanswered, Save, Goto, InitInv, TypeOK
<1>2. \/ Patch(p) /\ faults' = faults /\ pc'[p] = "handoff"
      \/ PatchUnanswered(p) /\ faults' = faults + 1
  BY DEF Patch, PatchUnanswered, Fault, Goto, InitInv, TypeOK
<1>3. Minted' = Minted /\ Dead' = Dead /\ \A x : Bad(x)' <=> Bad(x)
  BY <1>1 DEF Minted, Dead, Bad
<1> HIDE DEF t
<1>4. CASE t \in Dead \ saved
  <2>1. Spent' = Spent \union {t} /\ t \notin Spent
    BY <1>1, <1>3, <1>4 DEF Spent
  <2>2. faults' \in Nat /\ faults' >= faults /\ Cardinality(Dead') <= deaths'
    BY <1>1, <1>2, <1>3, Sizes DEF Account
  <2> QED BY <1>3, <2>1, <2>2, AccountSpent
<1>5. CASE t \notin Dead
  <2>1. Spent' = Spent
    BY <1>1, <1>3, <1>5 DEF Spent
  <2>2. ~Bad(secret)'
    BY <1>1, <1>3, <1>5, NoneIsId DEF Bad, Minted
  <2>3. \A q \in Pods \ {p} : Owes(q)' => Owes(q)
    BY <1>1, <1>3, <2>2 DEF Owes
  <2>4. Owing' \subseteq Owing \union {p}
    BY <2>3 DEF Owing
  <2>5. CASE Patch(p) /\ faults' = faults /\ pc'[p] = "handoff"
    <3>1. p \notin Owing'
      BY <2>2, <2>5 DEF Owing, Owes
    <3>2. Owing' \subseteq Owing
      BY <2>4, <3>1
    <3> QED BY <1>1, <1>3, <2>1, <2>5, <3>2, AccountKept
  <2>6. CASE faults' = faults + 1
    BY <1>1, <1>3, <2>1, <2>4, <2>6, AccountKept
  <2> QED BY <1>2, <2>5, <2>6
<1>6. t \notin saved
  BY <1>1 DEF OwnPatch, t
<1> QED BY <1>4, <1>5, <1>6

\* Only a token that was in the Secret is ever mounted or probed: the death of another
\* makes nobody owe.
LEMMA TokenDiesAccount ==
  ASSUME InitInv, InitInv', Account, NEW t \in TokenIds, TokenDies(t)
  PROVE  Account'
<1>1. /\ t \notin Dead /\ deaths' = deaths + 1 /\ Minted' = Minted /\ Dead' = Dead \union {t}
      /\ UNCHANGED <<secret, saved, mount, pc, held, faults>>
  BY DEF TokenDies, Live, Dead, Minted, cluster, InitInv, TypeOK
<1>2. Cardinality(Dead') <= deaths'
  <2>1. Cardinality(Dead') <= Cardinality(Dead) + 1 /\ Cardinality(Dead') \in Nat
    BY <1>1, Sizes, AddOne
  <2> QED BY <1>1, <2>1, Sizes DEF Account
<1>3. CASE t \in saved
  <2>1. Spent' = Spent \union {t} /\ t \notin Spent
    BY <1>1, <1>3 DEF Spent
  <2> QED BY <1>1, <1>2, <2>1, Sizes, AccountSpent
<1>4. CASE t \notin saved
  <2>1. Spent' = Spent
    BY <1>1, <1>4 DEF Spent
  <2>2. \A x \in saved \union {None} : Bad(x)' <=> Bad(x)
    BY <1>1, <1>4 DEF Bad
  <2>3. secret \in saved \union {None}
    BY DEF InitInv, HeldInv
  <2>4. ASSUME NEW p \in Pods PROVE Owes(p)' <=> Owes(p)
    <3>1. mount[p] \in saved \union {None} /\ (pc[p] = "probe" => held[p] \in saved)
      BY DEF InitInv, HeldInv, TypeOK
    <3>2. Bad(mount[p])' <=> Bad(mount[p])
      BY <1>1, <2>2, <3>1
    <3> QED BY <1>1, <2>2, <2>3, <3>1, <3>2 DEF Owes
  <2>5. Owing' = Owing
    BY <2>4 DEF Owing
  <2> QED BY <1>1, <1>2, <2>1, <2>5 DEF Account
<1> QED BY <1>3, <1>4

LEMMA InitAccount == Init => Account
<1> SUFFICES ASSUME Init PROVE Account
  OBVIOUS
<1>1. Minted = {} /\ Dead = {} /\ Spent = {} /\ deaths = 0 /\ faults = 0
  BY DEF Init, Minted, Dead, Spent
<1>2. InitInv
  BY InitOK
<1>3. Cardinality(Minted) = 0 /\ Cardinality(Dead) = 0 /\ Cardinality(Spent) = 0
  BY <1>1, FS_EmptySet
<1>4. Cardinality(Owing) <= Cardinality(Pods) * (1 + 0) + 0
  BY <1>2, Sizes
<1> QED BY <1>1, <1>2, <1>3, <1>4, Sizes DEF Account

LEMMA NextOwnPatch == InitInv /\ OwnPatch /\ [Next]_vars => OwnPatch'
<1> SUFFICES ASSUME InitInv, OwnPatch, [Next]_vars PROVE OwnPatch'
  OBVIOUS
<1>1. CASE UNCHANGED vars
  BY <1>1 DEF vars, cluster, OwnPatch
<1>2. ASSUME NEW p \in Pods, Issue(p) PROVE OwnPatch'
  <2>1. PICK t \in TokenIds : Mint(t) /\ Goto(p, "patch", t)
    BY <1>2 DEF Issue
  <2>2. t \notin Minted /\ saved' = saved
    BY <1>2, <2>1 DEF Issue, cluster, Mint
  <2>3. /\ pc'[p] = "patch" /\ held'[p] = t
        /\ \A q \in Pods \ {p} : pc'[q] = pc[q] /\ held'[q] = held[q]
    BY <2>1 DEF Goto, InitInv, TypeOK
  <2>4. \A q \in Pods : pc[q] = "patch" => held[q] # t
    BY <2>2 DEF InitInv, TypeOK
  <2>5. t \notin saved
    BY <2>2 DEF InitInv, TypeOK
  <2> QED BY <2>2, <2>3, <2>4, <2>5 DEF OwnPatch
<1>3. ASSUME NEW p \in Pods, Patch(p) \/ PatchUnanswered(p) PROVE OwnPatch'
  <2>1. /\ pc[p] = "patch" /\ pc'[p] # "patch" /\ saved' = saved \union {held[p]}
        /\ \A q \in Pods \ {p} : pc'[q] = pc[q] /\ held'[q] = held[q]
    BY <1>3 DEF Patch, PatchUnanswered, Save, Goto, InitInv, TypeOK
  <2> QED BY <2>1 DEF OwnPatch
<1>4. ASSUME NEW p \in Pods,
             \/ Start(p) \/ Probe(p) \/ Handoff(p) \/ Sync(p) \/ Replace(p)
             \/ ProbeUnanswered(p) \/ IssueUnanswered(p) \/ CallLost(p) \/ HangEnds(p) \/ Crash(p)
      PROVE  OwnPatch'
  <2>1. /\ saved' = saved
        /\ pc'[p] = "patch" => pc[p] = "patch" /\ held'[p] = held[p]
        /\ \A q \in Pods \ {p} : pc'[q] = pc[q] /\ held'[q] = held[q]
    BY <1>4 DEF Start, Probe, Handoff, Sync, Replace, ProbeUnanswered, IssueUnanswered, CallLost,
       HangEnds, Crash, Goto, cluster, InitInv, TypeOK
  <2> QED BY <2>1 DEF OwnPatch
<1>5. ASSUME NEW t \in TokenIds, TokenDies(t) PROVE OwnPatch'
  BY <1>5 DEF TokenDies, cluster, OwnPatch
<1> QED BY <1>1, <1>2, <1>3, <1>4, <1>5 DEF Next, Run

LEMMA NextAccount == InitInv /\ InitInv' /\ Account /\ OwnPatch /\ [Next]_vars => Account'
<1> SUFFICES ASSUME InitInv, InitInv', Account, OwnPatch, [Next]_vars PROVE Account'
  OBVIOUS
<1>1. CASE UNCHANGED vars
  <2>1. UNCHANGED <<token, secret, saved, mount, pc, held, faults, deaths>>
    BY <1>1 DEF vars, cluster
  <2>2. Minted' = Minted /\ Dead' = Dead /\ Spent' = Spent
    BY <2>1 DEF Minted, Dead, Spent
  <2>3. \A x : Bad(x)' <=> Bad(x)
    BY <2>2 DEF Bad
  <2>4. Owing' = Owing
    BY <2>1, <2>3 DEF Owing, Owes
  <2> QED BY <2>1, <2>2, <2>4 DEF Account
<1>2. ASSUME NEW p \in Pods, Run(p) PROVE Account'
  BY <1>2, QuietAccount, IssueAccount, PatchAccount DEF Run
<1>3. ASSUME NEW p \in Pods,
             \/ ProbeUnanswered(p) \/ IssueUnanswered(p) \/ PatchUnanswered(p)
             \/ CallLost(p) \/ HangEnds(p) \/ Crash(p) \/ Sync(p) \/ Replace(p)
      PROVE  Account'
  BY <1>3, QuietAccount, IssueAccount, PatchAccount, FailedAccount
<1>4. ASSUME NEW t \in TokenIds, TokenDies(t) PROVE Account'
  BY <1>4, TokenDiesAccount
<1> QED BY <1>1, <1>2, <1>3, <1>4 DEF Next

\* However many pods are replaced, crash or overtake each other, and whatever expires
\* or is lost, no more tokens are minted than the first deploy, the deaths and the
\* faults account for.
THEOREM MintsAlwaysAccountedFor == Spec => []MintsAccountedFor
<1>1. Account /\ InitInv => MintsAccountedFor
  <2> SUFFICES ASSUME Account, InitInv PROVE MintsAccountedFor
    OBVIOUS
  <2>1. Cardinality(Spent) <= Cardinality(Dead)
    <3>1. Spent \in SUBSET Dead
      BY DEF Spent
    <3> QED BY <3>1, Sizes, FS_Subset
  <2>2. Cardinality(Spent) <= deaths
    BY <2>1, Sizes DEF Account
  <2>3. Cardinality(Pods) * (1 + Cardinality(Spent)) <= Cardinality(Pods) * (1 + deaths)
    BY <2>2, Sizes
  <2> DEFINE spent == Cardinality(Pods) * (1 + Cardinality(Spent))
             budget == Cardinality(Pods) * (1 + deaths)
  <2>4. spent \in Nat /\ budget \in Nat /\ Cardinality(Minted) + Cardinality(Owing) <= spent + faults
    BY Sizes DEF Account
  <2>5. spent <= budget
    BY <2>3
  <2> HIDE DEF spent, budget
  <2>6. Cardinality(Minted) <= budget + faults
    BY <2>4, <2>5, Sizes
  <2> QED BY <2>6 DEF MintsAccountedFor, budget
<1>2. Init => OwnPatch
  BY DEF Init, OwnPatch
<1> QED BY InitOK, NextOK, InitAccount, NextAccount, NextOwnPatch, <1>1, <1>2, PTL DEF Spec
=============================================================================
