SPECIFICATION Spec
CONSTANTS
    Procs = {p1, p2}
    Mortal = {}
    MaxOverruns = 0
    MaxFails = 0
    Permanent = FALSE
    MaxPolls = 1
    Task = {1, 2}
    NoTask = 0
    Parallel = TRUE
PROPERTY DoneStays
