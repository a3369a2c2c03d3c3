CONSTANTS
  t1 = t1
  t2 = t2
  t3 = t3
  Task = {t1, t2}
  Deps <- Apart
  MaxAttempts = 2
  Phase <- OnePhase
  Sensitive = {t1}
  SchemaTasks = {}
  Modes = {}
  Moves <- NoMoves
  CapSet = FALSE
  MaxKills = 0
  MaxRaises = 0
SPECIFICATION DiligentSpec
PROPERTIES
  SignedTaskRunsAgain
CHECK_DEADLOCK FALSE
