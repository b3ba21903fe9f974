SPECIFICATION Spec
CONSTANTS
    N = 2
    MinBackoff = 2
    MaxBackoff = 2
    Random = FALSE
    Callers = {p1}
    Good = {0, 1}
    MaxRetries = 2
    Cancellable = {p1}
    Deadlines = TRUE
INVARIANTS GoodNeverCools
CHECK_DEADLOCK FALSE
