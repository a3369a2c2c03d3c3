CONSTANTS
  t1 = t1
  t2 = t2
  t3 = t3
  Task = {t1, t2}
  Deps <- Apart
  MaxAttempts = 2
  Phase <- OnePhase
  Sensitive = {t1}
  SchemaTasks = {t1}
  Modes <- AnyOrder
  Moves <- Approvals
  CapSet = TRUE
  MaxKills = 1
  MaxRaises = 0
SPECIFICATION Spec
INVARIANTS
  TypeOK
  DoneIsOnMain
  StartsBounded
  FinishedMeansLanded
CHECK_DEADLOCK FALSE
