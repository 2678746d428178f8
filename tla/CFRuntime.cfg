SPECIFICATION FairSpec
CONSTANTS
    t1 = t1
    t2 = t2
    v1 = v1
    v2 = v2
    v3 = v3
    v4 = v4
    a = a
    x = x
    b = b
    sys = sys
    mal = mal
    Thread <- TwoThreads
    Var = {v1, v2, v3}
    Owner <- TwoAndOne
    Heap = {a, b, x}
    CustomAllocator = {a, b}
    Static = {sys}
    SystemDefault = sys
    Default = Default
    RetainMax = 3
    NULL = NULL
INVARIANTS
    CountIsReferences
    NoUseAfterFree
    NoFalseAlarm
PROPERTIES
    ImplementsOwnership
    FreedEventually
CHECK_DEADLOCK FALSE
