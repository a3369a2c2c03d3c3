\* Two terminals whose commands run side by side in different places, one kill.
SPECIFICATION Spec
CONSTANTS
    Procs = {t1, t2}
    d1 = d1
    o1 = o1
    Dirs = {d1, d2}
    BrownDirs = {d2}
    PoolIds = {p1}
    Settled <- MCSettled
    NewIds = {n1}
    Files = {"state", "docs", "code"}
    NoId = NoId
    Modes = {"copy", "move"}
    Overlap = "apart"
    MaxCommands = 3
    MaxKills = 1
SYMMETRY Terminals
INVARIANTS TypeOK ResolvesToItself ListedAtRest
PROPERTIES UserCodeSurvives WorkSurvives
