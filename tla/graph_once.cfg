SPECIFICATION Spec
CONSTANTS
    N = 3
    Graphs <- AllGraphs
    Resumes <- AnyCached
    MaxParallel = 1
    Kinds = {"plain", "conditional", "timed"}
    FailBranches = TRUE
    MaxIn = 2
    Resumed = TRUE
    MayRefuse = TRUE
    MayCancel = FALSE
INVARIANTS AllDoneIsFinal OkIsOk DepsFirst SkipsJustified
CHECK_DEADLOCK FALSE
