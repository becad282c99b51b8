CONSTANTS
    Main = m
    Workers = {w1, w2}
    NULL = NULL
    Handles = {h1, h2}
    ENABLE_DEBUG = TRUE
    Recursive = TRUE
    MaxNest = 2
    MaxOps = 2

SPECIFICATION Spec

INVARIANTS
    TypeOK
    SelfCompareExact
    MutualExclusion
    LockBalanced
    Conservation
