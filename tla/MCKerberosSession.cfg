SPECIFICATION FairCredsSpec
CONSTANTS
    Dials = {d1, d2}
    Acqs = {a1, a2, a3, a4}
    Closers = {k1, k2}
    Nil = Nil
INVARIANTS CredsTypeOK DestroyedUnused OneDestroyer
PROPERTIES Released
