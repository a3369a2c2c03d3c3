SPECIFICATION Spec
CONSTANTS
    Writers = {w1, w2}
    NoProcess = NoProcess
    MaxEvents = 3
    Overlap = FALSE
    Tears = {"part", "no newline"}
    Syncers = {s1, s2}
    Projects = {p1, p2}
    NoProject = NoProject
    MaxFaults = 1
    MaxLinks = 2
INVARIANT NothingSkipped
