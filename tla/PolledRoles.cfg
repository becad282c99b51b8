CONSTANTS
    Acquirers = {a1, a2}
    TimedWaiters = {w}
    Signallers = {s}
    Wakers = {k}
    NULL = NULL
    MaxRounds = 1
    Deadlines = {1}
    MaxTime = 2
    NsPerUs = 2
    UsPerSec = 1

SPECIFICATION FairSpec

INVARIANTS
    TypeOK
    WaitersCounted
    NoEarlyTimeout

PROPERTIES
    EveryTimedWaitEnds
