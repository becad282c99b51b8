CONSTANTS
    Waiters = {w1, w2}
    Helpers = {h1}
    NULL = NULL
    Errors = {}
    WakeupStatuses = {0}
    Counts = {1}
    MaxRounds = 1
    MaxWakeups = 1
    max_thread_in_progress = 1

SPECIFICATION Spec

PROPERTIES
    SuccessWakeupIsNoOp
