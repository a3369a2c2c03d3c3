CONSTANTS
  t1 = t1
  t2 = t2
  t3 = t3
  Task = {t1, t2, t3}
  Deps <- Fork
  MaxAttempts = 2
  Phase <- OnePhase
  Sensitive = {t1}
  SchemaTasks = {}
  Modes <- Sequential
  Moves <- NoMoves
  CapSet = FALSE
  MaxKills = 0
  MaxRaises = 0
SPECIFICATION Spec
INVARIANTS
  DependencyOrder
PROPERTIES
  StopOnFail
  ImplementsLedger
CHECK_DEADLOCK FALSE
