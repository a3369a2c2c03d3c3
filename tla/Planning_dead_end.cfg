CONSTANTS
  p1 = p1
  p2 = p2
  Process = {p1}
  Overlap = FALSE
  MaxCycle = 1
  TurnCap = 2
  DialogModes <- EitherMode
  Brownfield = TRUE
  MayBlock = TRUE
  Moves <- Reviews
  MaxMoves = 2
  MaxKills = 0
SPECIFICATION Spec
INVARIANTS
  ProposedLockIsAccepted
CHECK_DEADLOCK FALSE
