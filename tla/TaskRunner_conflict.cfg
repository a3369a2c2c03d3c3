CONSTANTS
  t1 = t1
  t2 = t2
  t3 = t3
  Task = {t1, t2, t3}
  Deps <- Fork
  MaxAttempts = 2
  Phase <- OnePhase
  Sensitive = {}
  SchemaTasks = {}
  Modes <- Parallel
  Moves <- NoMoves
  CapSet = FALSE
  MaxKills = 0
  MaxRaises = 0
SPECIFICATION Spec
PROPERTIES
  StopOnFail
CHECK_DEADLOCK FALSE
