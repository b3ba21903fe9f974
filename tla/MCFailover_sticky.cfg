SPECIFICATION FairSpec
CONSTANTS
    N = 3
    MinBackoff = 2
    MaxBackoff = 2
    Random = FALSE
    Callers = {p1, p2}
    Good = {2}
    MaxRetries = 3
    Cancellable = {p1, p2}
    Deadlines = FALSE
PROPERTIES StaysOnAnswering
CHECK_DEADLOCK FALSE
