SPECIFICATION FairSpec
CONSTANTS
    t1 = t1  c1 = c1  r1 = r1  r2 = r2
    Tasks = {t1}
    Publishes = {t1}
    Clients = {c1}
    Runs = {r1}
    Requests = {"start", "plan", "implement", "simplify", "optimize", "review", "submit", "update", "stop", "abandon"}
    AutoAdvance = FALSE
    SkipPhases = {}
    OnFailure = "fail"
    Policy <- Policies
    MaxRetries = 1
    Iterative = FALSE
    MaxIterations = 3
    Lossy = FALSE
    RiskBased = FALSE
    MaxCrashes = 0
INVARIANT SubmittedHasPR
PROPERTY PhaseEnds
 
CHECK_DEADLOCK FALSE
