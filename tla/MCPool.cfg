SPECIFICATION FairSpec
CONSTANTS
    Endpoints = {e1}
    Callers = {p1, p2}
    Closers = {k1, k2}
    Conns = {c1, c2, c3, c4}
    Nil = Nil
    Prober = Prober
    PoolSize = 1
INVARIANTS TypeOK LiveExact NoLeak DrainedForGood SessionUnused
PROPERTIES DialsWithinPool ImplementsLifecycle CloseReturns CloseReleasesAll CloseWakesWaiters
