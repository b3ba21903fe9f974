SPECIFICATION Spec
CONSTANTS
    Callers = {"a"}
    Inputs <- DropInputs
    Servers <- MCServers
    InitialStores <- MCStores
    MaxRetries = 2
    MaxLosses <- MCLosses
    ChunkSize = 2
    BatchSize = 2
    MaxI16 = 5
INVARIANT PooledClean
CHECK_DEADLOCK FALSE
