SPECIFICATION FairSpec
CONSTANTS
    Procs = {p1, p2}
    Mortal = {p1}
    MaxOverruns = 1
    MaxFails = 1
    Permanent = FALSE
    MaxPolls = 1
    Task = {1}
    NoTask = 0
    Parallel = FALSE
INVARIANT
    SharedOnlyIfLost
PROPERTIES
    CommandEnds
    OrphanCleared
