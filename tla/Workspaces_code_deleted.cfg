\* One terminal, one command after another: the generated code goes with .ortim.
SPECIFICATION Spec
CONSTANTS
    Procs = {t1}
    d1 = d1
    o1 = o1
    Dirs = {d1, d2}
    BrownDirs = {d2}
    PoolIds = {p1}
    Settled <- MCSettled
    NewIds = {n1}
    Files = {"state", "docs", "code"}
    NoId = NoId
    Modes = {"copy", "move"}
    Overlap = "none"
    MaxCommands = 3
    MaxKills = 0
PROPERTIES GeneratedCodeSurvives
