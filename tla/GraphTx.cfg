SPECIFICATION LiveSpec
CONSTANTS
  Conns = {r1, r2}
  PartIds = {p1, p2}
  ContractIds = {1, 2}
  None = none
INVARIANT DeadlockNeedsBoth
PROPERTIES
  CommitsSoundly
  Answered
