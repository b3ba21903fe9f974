SPECIFICATION FairSpec
CONSTANTS
    u1 = u1
    u2 = u2
    s1 = s1
    s2 = s2
    MaxInt32 = 3
    Conns <- MCConns
    Stoppers = {s1, s2}
    MaxFail = 1
    Users = {u1, u2}
    Objects <- MCObjects
    Resource <- MCResource
    Workloads <- MCWorkloads
    Edit <- MCEdit
    NewParams <- MCParams
    Far = 5
    MaxRetries = 2
    MaxTxns = 1
    MaxLocks = 2
INVARIANTS TypeOK ExclusiveExcludes TxnDecided StoppedForGood
PROPERTIES ChangesOnlyEdits EverythingEnds
CHECK_DEADLOCK FALSE
