SPECIFICATION MCSpec
CONSTANTS
  PartIds = {p1, p2}
  ContractIds = {c1, c2}
  ProposalIds = {1}
  PartNames = {n1, n2}
  UsedSubtypes = {"container", "compose", "deployment"}
  UsedTypes = {"member-of", "composes"}
SYMMETRY Symmetry
INVARIANTS
  UpgradesApply
  DowngradesRefusedForRows
  SchemaOfRevision
  HeadMatchesModels
