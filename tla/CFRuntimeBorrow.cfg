SPECIFICATION BorrowSpec
CONSTANTS
    t1 = t1
    t2 = t2
    v1 = v1
    v2 = v2
    v3 = v3
    v4 = v4
    a = a
    x = x
    b = b
    sys = sys
    mal = mal
    Thread <- TwoThreads
    Var = {v1, v2, v3, v4}
    Owner <- TwoEach
    Heap = {a, x}
    CustomAllocator = {a}
    Static = {sys}
    SystemDefault = sys
    Default = Default
    RetainMax = 4
    NULL = NULL
INVARIANTS
    DefaultIsValid
CHECK_DEADLOCK FALSE
