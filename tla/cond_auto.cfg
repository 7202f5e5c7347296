SPECIFICATION Spec
CONSTANTS
    t1 = t1  t2 = t2  c1 = c1  r1 = r1  r2 = r2
    Tasks = {t1, t2}
    Publishes = {t1, t2}
    Clients = {c1}
    Runs = {r1, r2}
    Requests = {"start", "plan", "stop", "abandon"}
    AutoAdvance = TRUE
    SkipPhases = {"optimize"}
    OnFailure = "default"
    Policy <- Policies
    MaxRetries = 1
    Iterative = TRUE
    MaxIterations = 2
    Lossy = TRUE
    RiskBased = FALSE
    MaxCrashes = 0
SYMMETRY Symm
PROPERTY NoPhaseJump
CHECK_DEADLOCK FALSE
