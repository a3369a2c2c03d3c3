SPECIFICATION Spec
CONSTANTS
    Writers = {w1}
    NoProcess = NoProcess
    MaxEvents = 2
    Overlap = FALSE
    Tears = {"part"}
    Syncers = {s1, s2}
    Projects = {p1}
    NoProject = NoProject
    MaxFaults = 1
    MaxLinks = 2
INVARIANT LossAlwaysShows
