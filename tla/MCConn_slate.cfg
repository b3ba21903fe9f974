SPECIFICATION Spec
CONSTANTS
    Calls = 1
    Ahead = 1
    MaxInt32 = 2
    DefaultMax = 2
    Limits <- MCLimits
    MaxReply = 3
    MaxChunks = 1
INVARIANTS OwnDeadline
CHECK_DEADLOCK FALSE
