CONSTANTS
    Syncs = {s1}
    NULL = NULL
    Errors = {1, 2}
    Counts = {0, 2}
    MaxDepth = 4
    MaxCalls = 4
    MaxSignaled = 2
    MaxTime = 1

SPECIFICATION FairSpec

INVARIANTS
    TypeOK
    WaitRegistered
    WaitersCounted

PROPERTIES
    ImplementsWait
    EveryWaitReturns
