CONSTANTS
  p1 = p1
  p2 = p2
  Process = {p1}
  Overlap = FALSE
  MaxCycle = 2
  TurnCap = 2
  DialogModes <- EitherMode
  Brownfield = TRUE
  MayBlock = TRUE
  Moves <- ReviewsByHand
  MaxMoves = 3
  MaxKills = 1
SPECIFICATION Spec
INVARIANTS
  TypeOK
  GateOrder
  ArtifactsBehindState
  ApprovedIsPlanned
PROPERTIES
  StateFollowsTable
CHECK_DEADLOCK FALSE
