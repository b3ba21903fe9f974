SPECIFICATION Spec
CONSTANTS
    Callers = {"a", "b"}
    Inputs <- NotifyInputs
    Servers <- MCServers
    InitialStores <- MCStores
    MaxRetries = 2
    MaxLosses <- MCLosses
    ChunkSize = 2
    BatchSize = 2
    MaxI16 = 5
INVARIANT EmptyMeansNone
CHECK_DEADLOCK FALSE
