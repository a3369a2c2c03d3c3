\* Two tasks in the first plan, two deltas of up to two tasks each.
SPECIFICATION FairSpec
CONSTANTS
    MaxId = 3
    MaxAnswer = 2
    MaxCycles = 2
    MaxRedrafts = 0
    Kinds = {"core"}
INVARIANTS TypeOK PlanIsSound RecordsMatchPlan
PROPERTIES PlansFinish
