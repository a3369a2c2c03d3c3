CONSTANTS
  p1 = p1
  p2 = p2
  Process = {p1, p2}
  Overlap = TRUE
  MaxCycle = 0
  TurnCap = 2
  DialogModes <- DialogOn
  Brownfield = FALSE
  MayBlock = TRUE
  Moves <- Approvals
  MaxMoves = 0
  MaxKills = 0
SPECIFICATION Spec
INVARIANTS
  GateOrder
CHECK_DEADLOCK FALSE
