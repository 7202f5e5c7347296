SPECIFICATION Spec
CONSTANTS
    t1 = t1  t2 = t2  c1 = c1  r1 = r1  r2 = r2
    Tasks = {t1, t2}
    Publishes = {t1, t2}
    Clients = {c1}
    Runs = {r1, r2}
    Requests = {"start", "plan", "implement", "stop", "abandon", "finish", "delete", "queue"}
    AutoAdvance = FALSE
    SkipPhases = {}
    OnFailure = "fail"
    Policy <- Policies
    MaxRetries = 1
    Iterative = FALSE
    MaxIterations = 3
    Lossy = FALSE
    RiskBased = FALSE
    MaxCrashes = 1
SYMMETRY Symm
INVARIANT PhaseOwned
INVARIANT DiscardedStaysAway
CHECK_DEADLOCK FALSE
