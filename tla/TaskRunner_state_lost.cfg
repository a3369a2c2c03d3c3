CONSTANTS
  t1 = t1
  t2 = t2
  t3 = t3
  Task = {t1, t2}
  Deps <- Apart
  MaxAttempts = 2
  Phase <- OnePhase
  Sensitive = {}
  SchemaTasks = {}
  Modes <- Sequential
  Moves <- NoMoves
  CapSet = FALSE
  MaxKills = 1
  MaxRaises = 0
SPECIFICATION Spec
INVARIANTS
  StateIsOnDisk
CHECK_DEADLOCK FALSE
