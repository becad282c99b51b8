CONSTANTS
    Threads = {t1, t2, t3}
    NULL = NULL
    MaxCalls = 5

SPECIFICATION FairSpec

INVARIANTS
    KeyVisible
    KeyCreatedOnce
    LibraryReady

PROPERTY
    EveryCallReturns
