SPECIFICATION FairSpec
CONSTANTS
    N = 2
    MinBackoff = 2
    MaxBackoff = 2
    Random = TRUE
    Callers = {p1, p2}
    Good = {0}
    MaxRetries = 2
    Cancellable = {p1}
    Deadlines = FALSE
INVARIANTS TypeOK GoodNeverCools AtMostOnce BackoffBounded OutageSurvived NewTriesAll
PROPERTIES CallReturns
CHECK_DEADLOCK FALSE
