SPECIFICATION GateSpec
CONSTANTS
  Actors = {alice, bot, crawler}
  NoActor = noActor
  Bots = {bot}
  Conns = {c1, c2}
  RowIds = {i1, i2, i3}
  Free = free
SYMMETRY Symmetry
INVARIANTS
  AgentsConfined
PROPERTY RevokedIsFinal
