CONSTANTS
  p1 = p1
  p2 = p2
  Process = {p1}
  Overlap = FALSE
  MaxCycle = 1
  TurnCap = 1
  DialogModes <- DialogOn
  Brownfield = FALSE
  MayBlock = FALSE
  Moves <- Approvals
  MaxMoves = 0
  MaxKills = 1
SPECIFICATION DiligentSpec
PROPERTIES
  RunResumes
CHECK_DEADLOCK FALSE
