SPECIFICATION Spec
CONSTANTS
    Callers = {"a", "b"}
    Inputs <- MCInputs
    Servers <- MCServers
    InitialStores <- MCStores
    MaxRetries = 2
    MaxLosses <- MCLosses
    ChunkSize = 2
    BatchSize = 2
    MaxI16 = 5
INVARIANTS TypeOK CachesTrue NoCatalogTo23 AnswersTrue StreamExact BatchesOnce
CHECK_DEADLOCK FALSE
