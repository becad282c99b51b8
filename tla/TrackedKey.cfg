CONSTANTS
    Threads = {t1, t2, t3}
    Items = {i1, i2, i3}
    Values = {v1, v2, v3, v4}
    NULL = NULL

SPECIFICATION Spec
SYMMETRY Symmetry

INVARIANTS
    TypeOK
    SlotsAreSafe
    DestroyedOnce
    NothingLost
