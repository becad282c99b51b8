CONSTANTS
    Waiters = {w1, w2, w3}
    Helpers = {}
    NULL = NULL
    Errors = {}
    WakeupStatuses = {}
    Counts = {0, 1}
    MaxRounds = 1
    MaxWakeups = 0
    max_thread_in_progress = 1

SPECIFICATION FairSpec

INVARIANT
    NoUseAfterRelease

PROPERTY
    EveryWaitReturns
