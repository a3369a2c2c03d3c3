\* A sensitive task with two criteria, two attempts, one reset, two commands cut short.
SPECIFICATION FairSpec
CONSTANTS
    MaxRetries = 1
    MaxRaises = 2
    Criteria = {c1, c2}
    Chain = {"security", "test", "perf"}
    MaxAttempts = 2
    Sensitive = TRUE
    MaxResets = 1
INVARIANTS TypeOK DoneIsEarned ToldWhy
PROPERTIES AttemptEnds
