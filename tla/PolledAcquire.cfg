CONSTANTS
    Acquirers = {a1, a2, a3}
    TimedWaiters = {}
    Signallers = {}
    Wakers = {}
    NULL = NULL
    MaxRounds = 2
    Deadlines = {1}
    MaxTime = 0
    NsPerUs = 2
    UsPerSec = 2

SPECIFICATION FairSpec

INVARIANTS
    MutualExclusion
    NoStaleSignal

PROPERTIES
    EveryAcquireSucceeds
