------------------------------ MODULE TokenInit ------------------------------
(***************************************************************************)
(* cli.py k8s-init-token: the init container that gets a pod its bearer.   *)
(* Each run probes the token the mounted Secret holds, and otherwise mints *)
(* one with the admin bearer, patches it into the Secret and hands it to   *)
(* the main container.  A run that fails exits non-zero, and Kubernetes    *)
(* starts it again; but its calls have no timeout, and one that is never   *)
(* answered hangs the run instead.  The replicas of a deployment run it    *)
(* side by side.  The admin bearer is valid throughout.                    *)
(***************************************************************************)
EXTENDS Naturals, FiniteSets

CONSTANTS
  Pods,
  MaxTokens,   \* bound: the tokens that can be minted, numbered as they are
  MaxFaults,   \* bound: crashes, 5xx answers and calls without an answer
  MaxDeaths,   \* bound: revocations and expiries
  None

ASSUME TokenInitAssumption ==
  /\ IsFiniteSet(Pods)
  /\ MaxTokens \in Nat /\ MaxFaults \in Nat /\ MaxDeaths \in Nat
  /\ None \notin 1..MaxTokens

VARIABLES
  token,     \* token[t]: its auth_tokens row
  secret,    \* the TITAN_TYR_TOKEN key of the UI Secret
  mount,     \* mount[p]: that key as p's volume shows it
  handoff,   \* handoff[p]: the file in p's emptyDir
  pc, held,  \* where p's run is, and the token it holds
  known,     \* known[p]: the tokens that were live at some moment of the run
  saved,     \* every token that was ever in the Secret
  faults, deaths

TokenIds == 1..MaxTokens

vars == <<token, secret, mount, handoff, pc, held, known, saved, faults, deaths>>
cluster == <<secret, saved>>

Live == {t \in TokenIds : token[t] = "live"}
Minted == {t \in TokenIds : token[t] # "absent"}

Init ==
  /\ token = [t \in TokenIds |-> "absent"]
  /\ secret = None /\ saved = {}
  /\ mount = [p \in Pods |-> None] /\ handoff = [p \in Pods |-> None]
  /\ pc = [p \in Pods |-> "start"] /\ held = [p \in Pods |-> None]
  /\ known = [p \in Pods |-> {}]
  /\ faults = 0 /\ deaths = 0

\* The run of p goes on with token t.
Goto(p, step, t) == pc' = [pc EXCEPT ![p] = step] /\ held' = [held EXCEPT ![p] = t]

Fault == faults < MaxFaults /\ faults' = faults + 1

-----------------------------------------------------------------------------
(* The steps of a run *)

\* Mutant: a token that is there is taken to be good.
StartTrusting(p) ==
  /\ pc[p] = "start"
  /\ Goto(p, IF mount[p] = None THEN "issue" ELSE "handoff", mount[p])
  /\ known' = [known EXCEPT ![p] = Live]
  /\ UNCHANGED <<token, cluster, mount, handoff, faults, deaths>>

Start(p) ==
  /\ pc[p] = "start"
  /\ Goto(p, IF mount[p] = None THEN "issue" ELSE "probe", mount[p])
  /\ known' = [known EXCEPT ![p] = Live]
  /\ UNCHANGED <<token, cluster, mount, handoff, faults, deaths>>

\* Mutant: a token that is refused ends the run.
ProbeStrict(p) ==
  /\ pc[p] = "probe"
  /\ IF held[p] \in Live THEN Goto(p, "handoff", held[p]) ELSE Goto(p, "start", None)
  /\ UNCHANGED <<token, cluster, mount, handoff, known, faults, deaths>>

\* GET /parts?limit=1: 200 or 401.
Probe(p) ==
  /\ pc[p] = "probe"
  /\ IF held[p] \in Live THEN Goto(p, "handoff", held[p]) ELSE Goto(p, "issue", None)
  /\ UNCHANGED <<token, cluster, mount, handoff, known, faults, deaths>>

\* Any other status than 200 counts as a refusal, a 500 or a 503 too.
ProbeUnanswered(p) ==
  /\ pc[p] = "probe" /\ Fault
  /\ Goto(p, "issue", None)
  /\ UNCHANGED <<token, cluster, mount, handoff, known, deaths>>

\* The next id is the lowest that was never used.
Mint(t) ==
  /\ t \notin Minted /\ 1..(t - 1) \subseteq Minted
  /\ token' = [token EXCEPT ![t] = "live"]

\* POST /auth-tokens, answered 201.
Issue(p) ==
  /\ pc[p] = "issue"
  /\ \E t \in TokenIds :
       /\ Mint(t) /\ Goto(p, "patch", t)
       /\ known' = [known EXCEPT ![p] = @ \union {t}]
  /\ UNCHANGED <<cluster, mount, handoff, faults, deaths>>

\* The row is committed and the answer lost: nobody has the plaintext, and urlopen,
\* which is given no timeout, waits on.
IssueUnanswered(p) ==
  /\ pc[p] = "issue" /\ Fault
  /\ \E t \in TokenIds : Mint(t)
  /\ Goto(p, "hung", None)
  /\ UNCHANGED <<cluster, mount, handoff, known, deaths>>

Save(t) == secret' = t /\ saved' = saved \union {t}

\* Mutant: the patch goes to a key that is not the one mounted.
PatchElsewhere(p) ==
  /\ pc[p] = "patch"
  /\ saved' = saved \union {held[p]} /\ secret' = secret
  /\ Goto(p, "handoff", held[p])
  /\ UNCHANGED <<token, mount, handoff, known, faults, deaths>>

\* Mutant: the run goes on when the patch is refused.
PatchUnchecked(p) ==
  /\ pc[p] = "patch"
  /\ Save(held[p]) \/ UNCHANGED cluster
  /\ Goto(p, "handoff", held[p])
  /\ UNCHANGED <<token, mount, handoff, known, faults, deaths>>

\* PATCH of the Secret: the last of two pods wins.
Patch(p) ==
  /\ pc[p] = "patch"
  /\ Save(held[p])
  /\ Goto(p, "handoff", held[p])
  /\ UNCHANGED <<token, mount, handoff, known, faults, deaths>>

\* The Secret is patched and the answer lost; urlopen waits on.
PatchUnanswered(p) ==
  /\ pc[p] = "patch" /\ Fault
  /\ Save(held[p])
  /\ Goto(p, "hung", None)
  /\ UNCHANGED <<token, mount, handoff, known, deaths>>

Handoff(p) ==
  /\ pc[p] = "handoff"
  /\ handoff' = [handoff EXCEPT ![p] = held[p]]
  /\ Goto(p, "ready", held[p])
  /\ UNCHANGED <<token, cluster, mount, known, faults, deaths>>

\* A transport failure, an answer that is neither 201 nor 200 where one is
\* demanded, or the container being killed: the exit code is not 0.
Crash(p) ==
  /\ pc[p] \in {"probe", "issue", "patch", "handoff"} /\ Fault
  /\ Goto(p, "start", None)
  /\ UNCHANGED <<token, cluster, mount, handoff, known, deaths>>

\* The call never gets there, and no reset comes back either.
CallLost(p) ==
  /\ pc[p] \in {"probe", "issue", "patch"} /\ Fault
  /\ Goto(p, "hung", None)
  /\ UNCHANGED <<token, cluster, mount, handoff, known, deaths>>

\* The connection breaks after all, or somebody kills the container: as in Crash.
HangEnds(p) ==
  /\ pc[p] = "hung"
  /\ Goto(p, "start", None)
  /\ UNCHANGED <<token, cluster, mount, handoff, known, faults, deaths>>

-----------------------------------------------------------------------------
(* The cluster and the API's other callers *)

\* The kubelet brings the volume up to date.
Sync(p) ==
  /\ mount[p] # secret /\ mount' = [mount EXCEPT ![p] = secret]
  /\ UNCHANGED <<token, cluster, handoff, pc, held, known, faults, deaths>>

\* A pod is replaced: a new volume, an empty emptyDir.
Replace(p) ==
  /\ pc[p] = "ready"
  /\ Goto(p, "start", None)
  /\ mount' = [mount EXCEPT ![p] = secret] /\ handoff' = [handoff EXCEPT ![p] = None]
  /\ known' = [known EXCEPT ![p] = {}]
  /\ UNCHANGED <<token, cluster, faults, deaths>>

\* A token is revoked, or expires.
TokenDies(t) ==
  /\ t \in Live /\ deaths < MaxDeaths /\ deaths' = deaths + 1
  /\ token' = [token EXCEPT ![t] = "dead"]
  /\ UNCHANGED <<cluster, mount, handoff, pc, held, known, faults>>

Run(p) == Start(p) \/ Probe(p) \/ Issue(p) \/ Patch(p) \/ Handoff(p)

Next ==
  \/ \E p \in Pods :
       \/ Run(p) \/ ProbeUnanswered(p) \/ IssueUnanswered(p) \/ PatchUnanswered(p)
       \/ CallLost(p) \/ HangEnds(p) \/ Crash(p) \/ Sync(p) \/ Replace(p)
  \/ \E t \in TokenIds : TokenDies(t)

Spec == Init /\ [][Next]_vars

\* The container runs, and Kubernetes runs it again; a replacement, a fault and
\* a revocation need not happen, and nothing ends the wait of a run that hangs.
Fairness == \A p \in Pods : WF_vars(Run(p))

LiveSpec == Spec /\ Fairness

-----------------------------------------------------------------------------
(* Properties *)

TypeOK ==
  /\ token \in [TokenIds -> {"absent", "live", "dead"}]
  /\ secret \in TokenIds \union {None} /\ saved \subseteq Minted
  /\ mount \in [Pods -> TokenIds \union {None}]
  /\ \A p \in Pods : mount[p] # None => mount[p] \in saved
  /\ handoff \in [Pods -> Minted \union {None}]
  /\ pc \in [Pods -> {"start", "probe", "issue", "patch", "handoff", "ready", "hung"}]
  /\ held \in [Pods -> TokenIds \union {None}]
  /\ \A p \in Pods : pc[p] \in {"probe", "patch", "handoff", "ready"} => held[p] \in Minted
  /\ known \in [Pods -> SUBSET Minted]
  /\ faults \in 0..MaxFaults /\ deaths \in 0..MaxDeaths

\* A token that a main container got was persisted first: whatever crashed or was
\* lost, what a pod uses is a token the Secret held, never one that only it knows.
SavedBeforeHandoff == \A p \in Pods : handoff[p] \in saved \union {None}

\* A run never hands on a token that was already dead when the run began, although
\* the mounted file may have been stale for any time.
HandoffWasLive ==
  [][\A p \in Pods :
       handoff'[p] \notin {handoff[p], None} => handoff'[p] \in known[p]]_vars

\* Tokens do not pile up: however often pods are replaced, each pod mints one for
\* the first deploy and one for each token that died, and each fault costs one.
MintsAccountedFor ==
  Cardinality(Minted) <= Cardinality(Pods) * (1 + deaths) + faults

\* Every pod gets its token, and a run that fails is made good by a later one, unless
\* a call of its run is never answered and the run hangs for ever: no timeout of
\* _http_request and no restart of Kubernetes ends that.
Ready == \A p \in Pods : <>[](pc[p] = "hung") \/ (pc[p] = "start" ~> pc[p] = "ready")
=============================================================================
