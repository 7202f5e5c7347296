SPECIFICATION Spec
CONSTANTS
    t1 = t1  c1 = c1  c2 = c2  r1 = r1  r2 = r2
    Tasks = {t1}
    Publishes = {t1}
    Clients = {c1, c2}
    Runs = {r1, r2}
    Requests = {"start", "plan", "implement", "optimize", "review", "reviewfix", "stop", "abort", "reset"}
    AutoAdvance = FALSE
    SkipPhases = {}
    OnFailure = "fail"
    Policy <- Policies
    MaxRetries = 1
    Iterative = FALSE
    MaxIterations = 3
    Lossy = FALSE
    RiskBased = FALSE
    MaxCrashes = 1
SYMMETRY Symm
INVARIANT ProgressSaved
INVARIANT ImplementedHasCode
CHECK_DEADLOCK FALSE
