SPECIFICATION Spec
CONSTANTS
    j1 = j1  j2 = j2
    Jobs = {j1, j2}
    Phases = {"implement"}
    Isolation = {FALSE}
    MaxCommits = 2
    MaxTimeline = 2
SYMMETRY Symm
INVARIANT EndedIsSaved
PROPERTY NavigationKeepsTimeline
CHECK_DEADLOCK FALSE
