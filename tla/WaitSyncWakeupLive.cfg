CONSTANTS
    Waiters = {w1, w2}
    Helpers = {}
    NULL = NULL
    Errors = {1}
    WakeupStatuses = {1}
    Counts = {0, 1, 2}
    MaxRounds = 1
    MaxWakeups = 1
    max_thread_in_progress = 1

SPECIFICATION FairSpec

INVARIANTS
    NoLostCompletion

PROPERTIES
    ImplementsWait
    EveryWaitReturns
    EveryWakeupEnds
