SPECIFICATION FairSpec
CONSTANTS
    k1 = k1
    k2 = k2
    v = v
    a = a
    b = b
    d = d
    e = e
    Leaf = {k1, k2}
    Array = {a}
    Dictionary = {d}
    Content <- MCContent
    FirstCapacity = 1
    MaxCount = 2
    MaxNew = 2
    MaxHeld = 1
    NULL = NULL
INVARIANTS
    HeapOK
PROPERTIES
    ImplementsCollections
    UnreferencedFreed
CHECK_DEADLOCK FALSE
