SPECIFICATION FairSpec
CONSTANTS
    c1 = c1  c2 = c2
    Conns = {c1, c2}
    MaxInst = 2
    MaxKills = 1
INVARIANTS ReturnedIsSilent ServingIsMapped StaleFileNoObstacle
PROPERTY ShutdownEnds
CHECK_DEADLOCK FALSE
