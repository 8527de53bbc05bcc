---------------------------- MODULE JwksCacheProofs ----------------------------
(***************************************************************************)
(* JwksCache, for every number of requests and keys, every TTL and every   *)
(* timeout: the lock and the second look leave one GET at a time, and what *)
(* a request is told of a key was true within the TTL and one answer's     *)
(* delay.                                                                  *)
(***************************************************************************)
EXTENDS JwksCache, TLAPS

\* Whoever is past the lock holds it.
Locked == \A c \in Conns : pc[c] \in {"check", "sent", "answered"} => lock = c

\* A GET is under way only for keys that are none or too old.
Needed == \A c \in Conns : pc[c] \in {"sent", "answered"} => keys = {} \/ MayBeExpired

\* A coroutine between two awaits is the one that runs, and the keys it has are fresh.
Loop == \A c \in Conns : /\ pc[c] \in {"get_key", "check", "got"} => running = c
                         /\ pc[c] = "got" => age <= Ttl

\* What differs from what Keycloak publishes changed there after the answer was given.
CacheLags ==
  \A k \in Keys : (k \in keys <=> k \in published) \/ since[k] <= age + Timeout
AnswerLags ==
  UnderWay => \A k \in Keys : (k \in jwks <=> k \in published) \/ since[k] <= flight

Asks == \A c \in Conns : pc[c] # "idle" => req[c].token \in Keys

JwksInv == TypeOK /\ Asks /\ Locked /\ Needed /\ Loop /\ CacheLags /\ AnswerLags

Told ==
  \A c \in Conns : pc[c] = "got" /\ pc'[c] = "idle" =>
    \/ Verifies(c) <=> req[c].token \in published
    \/ since[req[c].token] <= Window

\* What a step does to nobody else, and to the loop, is all that most invariants ask.
Others(c) == /\ pc' \in [Conns -> Labels] /\ req' \in [Conns -> Request]
             /\ \A d \in Conns \ {c} : pc'[d] = pc[d] /\ req'[d] = req[d]

-----------------------------------------------------------------------------
LEMMA WindowType ==
  Ttl \in Nat \ {0} /\ Timeout \in Nat /\ Window = Ttl + Timeout /\ None \notin Conns \union Keys
BY JwksCacheAssumption DEF Window

LEMMA InitOK == Init => JwksInv
BY WindowType DEF Init, JwksInv, TypeOK, Labels, Request, NoRequest, Asks, Locked, Needed,
   Loop, CacheLags, AnswerLags, UnderWay, MayBeExpired

\* Keycloak's clock starts over for a key it publishes or withdraws.
LEMMA RotateOK == ASSUME JwksInv, Rotate PROVE JwksInv'
<1>1. PICK new \in KeySets :
        /\ published' = new
        /\ since' = [k \in Keys |-> IF (k \in published) # (k \in new) THEN 0 ELSE since[k]]
  BY DEF Rotate
<1>2. since' \in [Keys -> 0 .. Window + 1]
  BY <1>1, WindowType DEF JwksInv, TypeOK
<1>3. TypeOK'
  BY <1>1, <1>2 DEF Rotate, cache, mutex, response, JwksInv, TypeOK
<1>4. Asks' /\ Locked' /\ Needed' /\ Loop'
  BY DEF Rotate, cache, mutex, response, JwksInv, Asks, Locked, Needed, MayBeExpired, Loop
<1>5. \A k \in Keys : since'[k] = 0 \/ (since'[k] = since[k] /\ (k \in published' <=> k \in published))
  BY <1>1
<1>6. CacheLags'
  BY <1>5, WindowType DEF Rotate, cache, JwksInv, TypeOK, CacheLags
<1>7. AnswerLags'
  BY <1>5, WindowType DEF Rotate, response, JwksInv, TypeOK, AnswerLags, UnderWay
<1>8. QED BY <1>3, <1>4, <1>6, <1>7 DEF JwksInv

LEMMA TickOK == ASSUME JwksInv, Tick PROVE JwksInv'
<1>1. /\ since' \in [Keys -> 0 .. Window + 1] /\ age' \in 0 .. Ttl + 1 /\ flight' \in 0 .. Timeout
      /\ age <= age' /\ \A k \in Keys : since'[k] <= since[k] + 1
      /\ age' = IF age < Ttl + 1 THEN age + 1 ELSE Ttl + 1
  BY WindowType DEF Tick, Later, JwksInv, TypeOK
<1>2. TypeOK'
  BY <1>1 DEF Tick, mutex, JwksInv, TypeOK
<1>3. Asks' /\ Locked'
  BY DEF Tick, mutex, JwksInv, Asks, Locked
<1>4. Needed'
  BY <1>1, WindowType DEF Tick, JwksInv, TypeOK, Needed, MayBeExpired
<1>5. Loop'
  BY WindowType DEF Tick, JwksInv, Loop
<1>6. CacheLags'
  BY <1>1, WindowType DEF Tick, JwksInv, TypeOK, CacheLags
<1>7. AnswerLags'
  BY <1>1, WindowType DEF Tick, JwksInv, TypeOK, AnswerLags, UnderWay
<1>8. QED BY <1>2, <1>3, <1>4, <1>5, <1>6, <1>7 DEF JwksInv

\* A step of one coroutine that keeps to the lock, the loop and the age of the keys.
LEMMA QuietStep ==
  ASSUME JwksInv, NEW c \in Conns, Others(c), UNCHANGED <<published, since, keys, age>>,
         jwks' \in KeySets \union {{}}, flight' \in 0 .. Timeout, AnswerLags',
         lock' \in Conns \union {None}, waiting' \in Seq(Conns), running' \in Conns \union {None},
         pc'[c] # "idle" => req'[c].token \in Keys,
         lock \in {None, c} \/ lock' = lock,
         pc'[c] \in {"check", "sent", "answered"} => lock' = c,
         pc'[c] \in {"sent", "answered"} => keys = {} \/ MayBeExpired,
         running \in {None, c} \/ running' = running,
         pc'[c] \in {"get_key", "check", "got"} => running' = c,
         pc'[c] = "got" => age <= Ttl
  PROVE  JwksInv'
<1>1. TypeOK'
  BY DEF JwksInv, TypeOK, Others, KeySets, OneKeyPerKid
<1>2. Asks'
  BY DEF JwksInv, Asks, Others
<1>3. Locked'
  BY WindowType DEF JwksInv, Locked, Others
<1>4. Needed'
  BY DEF JwksInv, Needed, MayBeExpired, Others
<1>5. Loop'
  BY WindowType DEF JwksInv, Loop, Others
<1>6. CacheLags'
  BY DEF JwksInv, CacheLags
<1>7. QED BY <1>1, <1>2, <1>3, <1>4, <1>5, <1>6 DEF JwksInv

\* An answer that stays as it is, and is no new one, lags as it did.
LEMMA SameAnswer ==
  ASSUME JwksInv, NEW c \in Conns, Others(c), UNCHANGED <<published, since, jwks, flight>>,
         pc'[c] # "answered"
  PROVE  jwks' \in KeySets \union {{}} /\ flight' \in 0 .. Timeout /\ AnswerLags'
BY DEF JwksInv, TypeOK, AnswerLags, UnderWay, Others, KeySets, OneKeyPerKid

LEMMA BeginOK == ASSUME JwksInv, NEW c \in Conns, Begin(c) PROVE JwksInv'
<1>1. PICK k \in Keys : req' = [req EXCEPT ![c] = [NoRequest EXCEPT !.token = k, !.stage = "first"]]
  BY DEF Begin
<1>2. Others(c) /\ pc'[c] = "get_key" /\ req'[c].token = k
  BY <1>1 DEF Begin, Goto, NoRequest, Others, JwksInv, TypeOK, Labels, Request
<1>3. /\ running = None /\ running' = c
      /\ UNCHANGED <<published, since, keys, age, lock, waiting, jwks, flight>>
  BY DEF Begin, issuer, cache, mutex, response
<1>4. QED BY <1>2, <1>3, QuietStep, SameAnswer, WindowType DEF JwksInv, TypeOK

LEMMA GetKeyOK == ASSUME JwksInv, NEW c \in Conns, GetKey(c) PROVE JwksInv'
<1>1. /\ running = c /\ pc[c] = "get_key" /\ req' = req
      /\ UNCHANGED <<published, since, keys, age, jwks, flight>>
  BY DEF GetKey, issuer, cache, response
<1>2. \/ /\ pc' = [pc EXCEPT ![c] = "got"] /\ age <= Ttl
         /\ UNCHANGED <<lock, waiting, running>>
      \/ /\ pc' = [pc EXCEPT ![c] = "check"] /\ lock = None /\ lock' = c
         /\ UNCHANGED <<waiting, running>>
      \/ /\ pc' = [pc EXCEPT ![c] = "wait"] /\ waiting' = Append(waiting, c)
         /\ running' = None /\ UNCHANGED lock
  BY DEF GetKey, Goto, MayBeFresh, mutex
<1>3. Others(c) /\ pc'[c] \in {"got", "check", "wait"} /\ req'[c].token \in Keys
  BY <1>1, <1>2 DEF Others, JwksInv, TypeOK, Labels, Asks
<1>4. waiting' \in Seq(Conns) /\ lock' \in Conns \union {None} /\ running' \in Conns \union {None}
  <2>1. waiting \in Seq(Conns) /\ Append(waiting, c) \in Seq(Conns) /\ lock \in Conns \union {None}
    BY DEF JwksInv, TypeOK
  <2>2. QED BY <1>1, <1>2, <2>1
<1>5. /\ lock = None \/ lock' = lock
      /\ pc'[c] = "check" => lock' = c
      /\ pc'[c] \in {"got", "check"} => running' = c
      /\ pc'[c] = "got" => age <= Ttl
  <2>1. \A l : pc' = [pc EXCEPT ![c] = l] => pc'[c] = l
    BY DEF JwksInv, TypeOK
  <2>2. QED BY <1>1, <1>2, <2>1
<1>6. QED BY <1>1, <1>3, <1>4, <1>5, QuietStep, SameAnswer

LEMMA AcquireOK == ASSUME JwksInv, NEW c \in Conns, Acquire(c) PROVE JwksInv'
<1>1. /\ running = None /\ running' = c /\ lock = None /\ lock' = c /\ req' = req
      /\ pc[c] = "wait" /\ pc' = [pc EXCEPT ![c] = "check"]
      /\ UNCHANGED <<published, since, keys, age, jwks, flight>>
  BY DEF Acquire, Goto, issuer, cache, response
<1>2. Others(c) /\ pc'[c] = "check" /\ req'[c].token \in Keys
  BY <1>1 DEF Others, JwksInv, TypeOK, Labels, Asks
<1>3. waiting' \in Seq(Conns)
  BY DEF Acquire, JwksInv, TypeOK
<1>4. QED BY <1>1, <1>2, <1>3, QuietStep, SameAnswer

LEMMA CheckOK == ASSUME JwksInv, NEW c \in Conns, Check(c) PROVE JwksInv'
<1>1. /\ running = c /\ pc[c] = "check" /\ lock = c /\ req' = req
      /\ UNCHANGED <<published, since, keys, age, waiting, jwks, flight>>
  BY DEF Check, issuer, cache, response, JwksInv, Locked
<1>2. \/ /\ pc' = [pc EXCEPT ![c] = "got"] /\ age <= Ttl /\ lock' = None /\ running' = c
      \/ /\ pc' = [pc EXCEPT ![c] = "sent"] /\ (keys = {} \/ MayBeExpired)
         /\ running' = None /\ lock' = c
  BY <1>1 DEF Check, Goto, MayBeFresh
<1>3. \/ pc'[c] = "got" /\ age <= Ttl /\ lock' = None /\ running' = c
      \/ pc'[c] = "sent" /\ (keys = {} \/ MayBeExpired) /\ running' = None /\ lock' = c
  <2>1. \A l : pc' = [pc EXCEPT ![c] = l] => pc'[c] = l
    BY DEF JwksInv, TypeOK
  <2>2. QED BY <1>2, <2>1
<1>4. req'[c].token \in Keys /\ waiting' \in Seq(Conns)
  BY <1>1 DEF JwksInv, TypeOK, Asks
<1>5. Others(c)
  <2>1. \E l \in Labels : pc' = [pc EXCEPT ![c] = l]
    BY <1>2 DEF Labels
  <2>2. QED BY <1>1, <2>1 DEF Others, JwksInv, TypeOK
<1>6. QED BY <1>1, <1>3, <1>4, <1>5, QuietStep, SameAnswer

\* What Keycloak has just answered is what it publishes.
LEMMA AnswerOK == ASSUME JwksInv, NEW c \in Conns, Answer(c) PROVE JwksInv'
<1>1. /\ pc[c] = "sent" /\ pc' = [pc EXCEPT ![c] = "answered"] /\ req' = req
      /\ jwks' = published /\ flight' = 0
      /\ UNCHANGED <<published, since, keys, age, lock, waiting, running>>
  BY DEF Answer, Goto, issuer, cache, mutex
<1>2. Others(c) /\ pc'[c] = "answered" /\ req'[c].token \in Keys
  BY <1>1 DEF Others, JwksInv, TypeOK, Labels, Asks
<1>3. lock = c /\ (keys = {} \/ MayBeExpired)
  BY <1>1 DEF JwksInv, Locked, Needed
<1>4. AnswerLags' /\ jwks' \in KeySets \union {{}} /\ flight' \in 0 .. Timeout
  BY <1>1, WindowType DEF AnswerLags, JwksInv, TypeOK
<1>5. /\ lock' \in Conns \union {None} /\ waiting' \in Seq(Conns)
      /\ running' \in Conns \union {None}
  BY <1>1 DEF JwksInv, TypeOK
<1>6. QED BY <1>1, <1>2, <1>3, <1>4, <1>5, QuietStep

\* The answer becomes the cache, and its delay the lag of the cache.
LEMMA ReceiveOK == ASSUME JwksInv, NEW c \in Conns, Receive(c) PROVE JwksInv'
<1>1. /\ pc[c] = "answered" /\ pc' = [pc EXCEPT ![c] = "got"] /\ req' = req
      /\ running = None /\ running' = c /\ lock' = None
      /\ keys' = jwks /\ age' = 0 /\ jwks' = {} /\ flight' = 0
      /\ UNCHANGED <<published, since, waiting>>
  BY DEF Receive, Goto, issuer
<1>2. Others(c) /\ pc'[c] = "got" /\ lock = c
  BY <1>1 DEF Others, JwksInv, TypeOK, Labels, Locked
<1>3. TypeOK'
  BY <1>1, <1>2, WindowType DEF JwksInv, TypeOK, Others, KeySets, OneKeyPerKid
<1>4. Asks'
  BY <1>1, <1>2 DEF JwksInv, Asks, Others
<1>5. \A d \in Conns : pc'[d] \notin {"check", "sent", "answered"}
  BY <1>2 DEF JwksInv, Locked, Others
<1>6. Locked' /\ Needed' /\ AnswerLags'
  BY <1>5 DEF Locked, Needed, AnswerLags, UnderWay
<1>7. Loop'
  BY <1>1, <1>2, WindowType DEF JwksInv, Loop, Others
<1>8. CacheLags'
  <2>1. \A k \in Keys : (k \in jwks <=> k \in published) \/ since[k] <= flight
    BY <1>1 DEF JwksInv, AnswerLags, UnderWay
  <2>2. QED BY <1>1, <2>1, WindowType DEF JwksInv, TypeOK, CacheLags
<1>9. QED BY <1>3, <1>4, <1>6, <1>7, <1>8 DEF JwksInv

LEMMA FailOK == ASSUME JwksInv, NEW c \in Conns, Fail(c) PROVE JwksInv'
<1>1. /\ pc[c] \in {"sent", "answered"} /\ pc' = [pc EXCEPT ![c] = "idle"]
      /\ req' = [req EXCEPT ![c] = NoRequest]
      /\ jwks' = {} /\ flight' = 0 /\ lock' = None
      /\ UNCHANGED <<published, since, keys, age, waiting, running>>
  BY DEF Fail, Goto, issuer, cache
<1>2. Others(c) /\ pc'[c] = "idle" /\ lock = c
  BY <1>1 DEF Others, NoRequest, JwksInv, TypeOK, Labels, Request, Locked
<1>3. AnswerLags'
  BY <1>2 DEF JwksInv, Locked, AnswerLags, UnderWay, Others
<1>4. /\ jwks' \in KeySets \union {{}} /\ flight' \in 0 .. Timeout
      /\ lock' \in Conns \union {None} /\ waiting' \in Seq(Conns)
      /\ running' \in Conns \union {None}
  BY <1>1, WindowType DEF JwksInv, TypeOK
<1>5. QED BY <1>1, <1>2, <1>3, <1>4, QuietStep

LEMMA DecideOK == ASSUME JwksInv, NEW c \in Conns, Decide(c) PROVE JwksInv'
<1>1. /\ running = c /\ pc[c] = "got"
      /\ UNCHANGED <<published, since, keys, age, lock, waiting, jwks, flight>>
  BY DEF Decide, issuer, cache, mutex, response
<1>2. \/ Again(c, "forced") \/ Again(c, "retry") \/ Finish(c)
  BY DEF Decide
<1>3. /\ Others(c) /\ pc'[c] \in {"get_key", "idle"}
      /\ pc'[c] = "get_key" => running' = c /\ req'[c].token \in Keys
      /\ running' \in Conns \union {None}
  <2>1. ASSUME NEW stage \in {"forced", "retry"}, Again(c, stage)
        PROVE  /\ Others(c) /\ pc'[c] = "get_key" /\ running' = c /\ req'[c].token \in Keys
    BY <1>1, <2>1 DEF Again, Goto, Others, JwksInv, TypeOK, Labels, Request, Asks
  <2>2. ASSUME Finish(c) PROVE Others(c) /\ pc'[c] = "idle" /\ running' = None
    BY <2>2 DEF Finish, Goto, Others, NoRequest, JwksInv, TypeOK, Labels, Request
  <2>3. QED BY <1>2, <2>1, <2>2
<1>4. /\ lock' \in Conns \union {None} /\ waiting' \in Seq(Conns)
  BY <1>1 DEF JwksInv, TypeOK
<1>5. QED BY <1>1, <1>3, <1>4, QuietStep, SameAnswer

LEMMA NextOK == JwksInv /\ [Next]_vars => JwksInv'
<1> SUFFICES ASSUME JwksInv, [Next]_vars PROVE JwksInv'
  OBVIOUS
<1>1. CASE UNCHANGED vars
  BY <1>1 DEF vars, issuer, cache, mutex, response, JwksInv, TypeOK, Asks, Locked, Needed,
              MayBeExpired, Loop, CacheLags, AnswerLags, UnderWay, KeySets, OneKeyPerKid
<1>2. CASE Next
  BY <1>2, RotateOK, TickOK, BeginOK, GetKeyOK, AcquireOK, CheckOK, AnswerOK, ReceiveOK,
     FailOK, DecideOK DEF Next, Step
<1>3. QED BY <1>1, <1>2

-----------------------------------------------------------------------------
\* The cache, the lock's queue and every coroutine are in one of their states.
THEOREM TypeCorrect == Spec => []TypeOK
<1>1. JwksInv => TypeOK
  BY DEF JwksInv
<1>2. QED BY InitOK, NextOK, <1>1, PTL DEF Spec

\* JWKSCache: however many requests miss at once, one GET is under way, and one that
\* forces no refresh sends it only while the keys at hand are none or too old.
THEOREM NeverRedundantFetch == Spec => []NoRedundantFetch
<1>1. JwksInv => NoRedundantFetch
  BY DEF JwksInv, Locked, Needed, NoRedundantFetch
<1>2. QED BY InitOK, NextOK, <1>1, PTL DEF Spec

\* What a request is told of a key was true within the TTL and one answer's delay.
THEOREM KeysAlwaysWithinWindow == Spec => KeysWithinWindow
<1>1. JwksInv /\ [Next]_vars => [Told]_vars
  <2> SUFFICES ASSUME JwksInv, Next, NEW c \in Conns, pc[c] = "got", pc'[c] = "idle"
               PROVE  \/ Verifies(c) <=> req[c].token \in published
                      \/ since[req[c].token] <= Window
    BY DEF Told
  <2>1. age <= Ttl /\ req[c].token \in Keys
    BY DEF JwksInv, Loop, Asks
  <2>2. QED BY <2>1, WindowType DEF JwksInv, TypeOK, CacheLags, Verifies
<1>2. QED BY InitOK, NextOK, <1>1, PTL DEF Spec, KeysWithinWindow, Told
=============================================================================
