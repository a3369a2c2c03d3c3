CONSTANTS
  p1 = p1
  p2 = p2
  Process = {p1}
  Overlap = FALSE
  MaxCycle = 2
  TurnCap = 2
  DialogModes <- EitherMode
  Brownfield = TRUE
  MayBlock = FALSE
  Moves <- Approvals
  MaxMoves = 0
  MaxKills = 0
SPECIFICATION DiligentSpec
PROPERTIES
  PlanningCompletes
  ExtensionCompletes
CHECK_DEADLOCK FALSE
