SPECIFICATION MCSpec
CONSTANTS
  Conns = {c1, c2}
  TokenIds = {t1, t2, t3}
  Grants <- SomeGrants
  Legacy = legacy
  None = none
SYMMETRY Symmetry
INVARIANTS
  EffectiveOnNextRequest
  NoEscalation
  RevokersTraceable
PROPERTY RevokedIsFinal
