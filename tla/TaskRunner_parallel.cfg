CONSTANTS
  t1 = t1
  t2 = t2
  t3 = t3
  Task = {t1, t2, t3}
  Deps <- Fork
  MaxAttempts = 2
  Phase <- OnePhase
  Sensitive = {}
  SchemaTasks = {}
  Modes <- Parallel
  Moves <- NoMoves
  CapSet = FALSE
  MaxKills = 0
  MaxRaises = 1
SPECIFICATION FairSpec
INVARIANTS
  WorkerOnItsBranch
  DoneIsOnMainAtRest
  StartsBounded
PROPERTIES
  RunTerminates
CHECK_DEADLOCK FALSE
