------------------------------- MODULE JwksCache -------------------------------
(***************************************************************************)
(* The OIDC arm of authentication (oidc.py): the cache of the issuer's     *)
(* signing keys, the asyncio lock around its refresh, and the requests     *)
(* that look keys up in it while Keycloak rotates them.  Requests are      *)
(* coroutines of one event loop: one runs until it awaits the lock or the  *)
(* answer to a GET.  A token is its signing key; malformed, expired and    *)
(* misaddressed ones, which the cache has no part in, are left out.        *)
(***************************************************************************)
EXTENDS Naturals, Sequences

CONSTANTS
  Conns,     \* requests with a JWT
  Keys,      \* signing keys; those of one kid are told apart by the signature
  KidOf,     \* KidOf[k]: the kid the issuer gives key k
  Ttl,       \* KEYCLOAK_JWKS_TTL_SECONDS, in ticks of the clock
  Timeout,   \* how long an answer may be under way, in ticks (httpx, 10 s)
  None       \* nobody, no key, no stage

ASSUME JwksCacheAssumption ==
  /\ Ttl \in Nat \ {0} /\ Timeout \in Nat
  /\ None \notin Conns \union Keys

VARIABLES
  published,  \* the keys Keycloak publishes
  since,      \* since[k]: ticks since k was published or withdrawn
  keys,       \* self._keys
  age,        \* ticks since self._fetched_at
  lock,       \* who holds self._lock
  waiting,    \* who waits for it, in order
  running,    \* the coroutine the event loop is running
  pc,         \* pc[c]: where coroutine c is
  req,        \* req[c]: its token's key, and which call of get_key it is in
  jwks,       \* what Keycloak answered to the GET
  flight      \* for how long that answer has been under way

vars == <<published, since, keys, age, lock, waiting, running, pc, req, jwks, flight>>
issuer == <<published, since>>
cache == <<keys, age>>
mutex == <<lock, waiting>>
response == <<jwks, flight>>

\* The bound on staleness: an answer may be Timeout old when it is stored, the TTL
\* starts then, and the last tick is not over when it ends.
Window == Ttl + Timeout

OneKeyPerKid(S) == \A k, l \in S : KidOf[k] = KidOf[l] => k = l
KeySets == {S \in SUBSET Keys : S # {} /\ OneKeyPerKid(S)}

\* self._keys.get(kid), as the set of what it finds.
Cached(kid) == {k \in keys : KidOf[k] = kid}

\* The TTL ends during the tick in which age = Ttl: either answer is right then.
MayBeFresh == age <= Ttl
MayBeExpired == age >= Ttl

NoRequest == [token |-> None, stage |-> None]

Init ==
  /\ published \in KeySets
  /\ since = [k \in Keys |-> Window + 1]
  /\ keys = {} /\ age = Ttl + 1
  /\ lock = None /\ waiting = <<>>
  /\ running = None
  /\ pc = [c \in Conns |-> "idle"]
  /\ req = [c \in Conns |-> NoRequest]
  /\ jwks = {} /\ flight = 0

\* Keycloak publishes another set of keys.
Rotate ==
  /\ \E new \in KeySets \ {published} :
       /\ published' = new
       /\ since' = [k \in Keys |-> IF (k \in published) # (k \in new) THEN 0 ELSE since[k]]
  /\ UNCHANGED <<cache, mutex, running, pc, req, response>>

UnderWay == \E c \in Conns : pc[c] = "answered"
Later(n, bound) == IF n < bound THEN n + 1 ELSE n

\* Time passes while the loop is idle, and an answer is not under way for too long.
Tick ==
  /\ running = None
  /\ UnderWay => flight < Timeout
  /\ since' = [k \in Keys |-> Later(since[k], Window + 1)]
  /\ age' = Later(age, Ttl + 1)
  /\ flight' = IF UnderWay THEN flight + 1 ELSE 0
  /\ UNCHANGED <<published, keys, mutex, running, pc, req, jwks>>
-----------------------------------------------------------------------------
Goto(c, label) == pc' = [pc EXCEPT ![c] = label]

\* A request with a token that is signed with a key Keycloak has, had or will have.
Begin(c) ==
  /\ running = None /\ pc[c] = "idle"
  /\ \E k \in Keys : req' = [req EXCEPT ![c] = [NoRequest EXCEPT !.token = k,
                                                                  !.stage = "first"]]
  /\ running' = c
  /\ Goto(c, "get_key")
  /\ UNCHANGED <<issuer, cache, mutex, response>>

\* get_key: the key is at hand, or _refresh asks for the lock.
GetKey(c) ==
  /\ running = c /\ pc[c] = "get_key"
  /\ \/ /\ req[c].stage = "first" /\ Cached(KidOf[req[c].token]) # {} /\ MayBeFresh
        /\ Goto(c, "got")
        /\ UNCHANGED <<mutex, running>>
     \/ /\ req[c].stage # "first" \/ Cached(KidOf[req[c].token]) = {} \/ MayBeExpired
        /\ IF lock = None /\ waiting = <<>>
             THEN Goto(c, "check") /\ lock' = c /\ UNCHANGED <<waiting, running>>
             ELSE Goto(c, "wait") /\ waiting' = Append(waiting, c) /\ running' = None
                  /\ UNCHANGED lock
  /\ UNCHANGED <<issuer, cache, req, response>>

\* The lock is free and c is first in line for it.
Acquire(c) ==
  /\ running = None /\ pc[c] = "wait" /\ lock = None
  /\ waiting # <<>> /\ c = Head(waiting)
  /\ lock' = c /\ waiting' = Tail(waiting)
  /\ running' = c
  /\ Goto(c, "check")
  /\ UNCHANGED <<issuer, cache, req, response>>

\* Mutant: whoever gets the lock sends a GET.
CheckNothing(c) ==
  /\ running = c /\ pc[c] = "check"
  /\ Goto(c, "sent") /\ running' = None /\ UNCHANGED lock
  /\ UNCHANGED <<issuer, cache, waiting, req, response>>

\* Mutant: any keys will do for another coroutine's.
CheckAnyKeys(c) ==
  /\ running = c /\ pc[c] = "check"
  /\ \/ /\ keys # {}
        /\ Goto(c, "got") /\ lock' = None /\ UNCHANGED running
     \/ /\ keys = {}
        /\ Goto(c, "sent") /\ running' = None /\ UNCHANGED lock
  /\ UNCHANGED <<issuer, cache, waiting, req, response>>

\* _refresh: another coroutine may have refreshed; if not, the GET is sent.
Check(c) ==
  /\ running = c /\ pc[c] = "check"
  /\ \/ /\ MayBeFresh /\ keys # {}
        /\ Goto(c, "got") /\ lock' = None /\ UNCHANGED running
     \/ /\ MayBeExpired \/ keys = {}
        /\ Goto(c, "sent") /\ running' = None /\ UNCHANGED lock
  /\ UNCHANGED <<issuer, cache, waiting, req, response>>

\* Keycloak answers with the keys it publishes then.
Answer(c) ==
  /\ pc[c] = "sent"
  /\ Goto(c, "answered")
  /\ jwks' = published /\ flight' = 0
  /\ UNCHANGED <<issuer, cache, mutex, running, req>>

\* The answer arrives: the new keys take the place of the old ones.
Receive(c) ==
  /\ running = None /\ pc[c] = "answered"
  /\ keys' = jwks /\ age' = 0
  /\ jwks' = {} /\ flight' = 0
  /\ lock' = None /\ running' = c
  /\ Goto(c, "got")
  /\ UNCHANGED <<issuer, waiting, req>>

\* Mutant: a failed GET leaves the lock behind.
FailLocked(c) ==
  /\ running = None /\ pc[c] \in {"sent", "answered"}
  /\ jwks' = {} /\ flight' = 0
  /\ Goto(c, "idle")
  /\ req' = [req EXCEPT ![c] = NoRequest]
  /\ UNCHANGED <<issuer, cache, mutex, running>>

\* The GET fails: the exception leaves the lock's block and ends the request.
Fail(c) ==
  /\ running = None /\ pc[c] \in {"sent", "answered"}
  /\ jwks' = {} /\ flight' = 0
  /\ lock' = None
  /\ Goto(c, "idle")
  /\ req' = [req EXCEPT ![c] = NoRequest]
  /\ UNCHANGED <<issuer, cache, waiting, running>>

\* The key found is the one the token is signed with.
Verifies(c) == req[c].token \in keys

\* validate_oidc_token is through: an actor, a 401, or (after the retry, with no key)
\* the TypeError of jwt.decode.
Finish(c) ==
  /\ Goto(c, "idle")
  /\ running' = None
  /\ req' = [req EXCEPT ![c] = NoRequest]

\* get_key(kid, force_refresh=True)
Again(c, stage) ==
  /\ Goto(c, "get_key")
  /\ req' = [req EXCEPT ![c].stage = stage]
  /\ UNCHANGED running

\* What follows each call of get_key: no key is looked for once more, a signature that
\* does not match is tried once more.
Decide(c) ==
  /\ running = c /\ pc[c] = "got"
  /\ LET found == Cached(KidOf[req[c].token]) IN
       IF req[c].stage = "first" /\ found = {} THEN Again(c, "forced")
       ELSE IF req[c].stage # "retry" /\ found # {} /\ ~Verifies(c) THEN Again(c, "retry")
       ELSE Finish(c)
  /\ UNCHANGED <<issuer, cache, mutex, response>>

Step(c) ==
  \/ GetKey(c) \/ Acquire(c) \/ Check(c) \/ Answer(c)
  \/ Receive(c) \/ Fail(c) \/ Decide(c)

Next == Rotate \/ Tick \/ \E c \in Conns : Begin(c) \/ Step(c)

Spec == Init /\ [][Next]_vars

\* The event loop runs what can run, the lock's queue is in order, and a GET is
\* answered, or fails when its timeout is over.
Fairness == \A c \in Conns : SF_vars(Step(c))

LiveSpec == Spec /\ Fairness
-----------------------------------------------------------------------------
Labels == {"idle", "get_key", "wait", "check", "sent", "answered", "got"}
Request == [token : Keys \union {None}, stage : {None, "first", "forced", "retry"}]

TypeOK ==
  /\ published \in KeySets
  /\ since \in [Keys -> 0 .. Window + 1]
  /\ keys \in KeySets \union {{}}
  /\ age \in 0 .. Ttl + 1
  /\ lock \in Conns \union {None}
  /\ waiting \in Seq(Conns)
  /\ running \in Conns \union {None}
  /\ pc \in [Conns -> Labels]
  /\ req \in [Conns -> Request]
  /\ jwks \in KeySets \union {{}}
  /\ flight \in 0 .. Timeout

\* Whether a token is let in is what Keycloak said of its key no longer ago than the
\* TTL and one answer's delay, however refreshes, rotations and waiting requests
\* interleave: for that long, and no longer, a withdrawn key may still work, and a
\* published one shut its users out.
KeysWithinWindow ==
  [][\A c \in Conns : pc[c] = "got" /\ pc'[c] = "idle" =>
       \/ Verifies(c) <=> req[c].token \in published
       \/ since[req[c].token] <= Window]_vars

\* JWKSCache: the lock and the second look "avoid redundant fetches under concurrent
\* requests".  One GET is under way at a time, by the holder of the lock, and one that
\* forces no refresh sends it only while the keys at hand are none or too old.  (What
\* a forced refresh may GET is not said here: oidc.py:9-11 means it to.)
NoRedundantFetch ==
  \A c \in Conns : pc[c] \in {"sent", "answered"} =>
    /\ lock = c
    /\ \A d \in Conns \ {c} : pc[d] \notin {"sent", "answered"}
    /\ req[c].stage = "first" => keys = {} \/ MayBeExpired

\* Every request ends, whatever becomes of the GETs of those before it in the queue.
Answered == \A c \in Conns : pc[c] # "idle" ~> pc[c] = "idle"
=============================================================================
