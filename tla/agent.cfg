SPECIFICATION FairSpec
CONSTANTS
    MaxPrompts = 2
    MaxNoise = 1
    EventCap = 1
    OutCap = 1
    WireCap = 1
INVARIANT TurnsSeparate
PROPERTIES ResultEndsPrompt CloseEndsPrompts AskAnswered
CHECK_DEADLOCK FALSE
