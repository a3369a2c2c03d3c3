CONSTANTS
  p1 = p1
  p2 = p2
  Process = {p1}
  Overlap = TRUE
  MaxCycle = 0
  TurnCap = 2
  DialogModes <- EitherMode
  Brownfield = TRUE
  MayBlock = TRUE
  Moves <- GivesUp
  MaxMoves = 1
  MaxKills = 0
SPECIFICATION Spec
PROPERTIES
  StateFollowsTable
CHECK_DEADLOCK FALSE
