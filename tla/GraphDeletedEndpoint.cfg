SPECIFICATION MCSpec
CONSTANTS
  PartIds = {1, 2, 3}
  ContractIds = {1, 2}
  ProposalIds = {1, 2}
  Names = {1, 2, 3}
  Subtypes = {"container", "software"}
  Shapes <- MCShapes
  Actors = {alice, bot}
  NoActor = noActor
  Agents = {bot}
  Kinds = {"part_subtype", "part_name", "part_deletion", "contract_subtype", "contract_endpoint", "contract_deletion"}
  Keep = keep
  Nothing = nothing
  Sessions = {r1}
SYMMETRY Symmetry
CHECK_DEADLOCK FALSE
INVARIANT NoContractOnDeletedPart
