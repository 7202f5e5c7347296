SPECIFICATION FairSpec
CONSTANTS
    N = 2
    Graphs <- AllGraphs
    Resumes <- AnyCached
    MaxParallel = 1
    Kinds = {"iterate", "frozen", "delayed", "gatedretry", "conditional", "timedfallback"}
    FailBranches = TRUE
    MaxIn = 1
    Resumed = FALSE
    MayRefuse = TRUE
    MayCancel = TRUE
INVARIANTS RunningExact OneOwner UngatedLimit NoStaleApproval
PROPERTIES CancelCloses GraphEnds
CHECK_DEADLOCK FALSE
