SPECIFICATION FairSpec
CONSTANTS
    Calls = 2
    Ahead = 1
    MaxInt32 = 2
    DefaultMax = 2
    Limits <- MCLimits
    MaxReply = 3
    MaxChunks = 1
INVARIANTS TypeOK FollowsScript CallsIndependent BudgetExact CallsOnOpen
PROPERTIES CancelUnblocks HandshakeEnds
CHECK_DEADLOCK FALSE
