SPECIFICATION FairSpec
CONSTANTS
    MaxEvents = 2
    MaxConns = 2
    MaxRestarts = 1
    BufSize = 1
    ChanCap = 1
INVARIANTS NoSendAfterClose ShownOnce NothingMissed
PROPERTIES Delivered DeadSubscriptionsLeave
CHECK_DEADLOCK FALSE
