SPECIFICATION MCSpec
CONSTANTS
  alice = alice
  bob = bob
  c1 = c1
  c2 = c2
  Versions <- MCVersions
  FirstVersion <- MCFirst
  Actors = {alice, bob}
  NoActor = noActor
  Conns = {c1, c2}
  Nobody = nobody
  Deletable = TRUE
INVARIANTS
  NoIntegrityError
  TwoPartyRecorded
  PromotedFromCandidate
  PromotedNotListed
  ListedBetween
PROPERTIES
  HistoryIsFinal
  Linearizable
  Answered
