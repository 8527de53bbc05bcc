SPECIFICATION Spec
CONSTANTS
  Conns = {c1, c2}
  PartIds = {p1, p2}
  ProposalIds = {q1, q2}
  Names = {n1, n2}
  MaxVersion = 3
  None = none
SYMMETRY Symmetry
PROPERTIES
  VersionsAscend
  WritesReachNamed
  RenamedOnce
