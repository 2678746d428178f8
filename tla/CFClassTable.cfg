SPECIFICATION FairSpec
CONSTANTS
    t1 = t1
    t2 = t2
    A = A
    B = B
    X = X
    NotATypeClass = NotATypeClass
    TypeClass = TypeClass
    AllocatorClass = AllocatorClass
    Thread = {t1, t2}
    Class = {A, B, X}
    Refused = {X}
    Builtin = {0, 1, 2}
    BuiltinClass <- MCBuiltinClass
    FirstDynamic = 4
    TableSize = 6
    NotAType = 0
    Abstract = {0, 1}
    NULL = NULL
INVARIANTS
    TableOK
PROPERTIES
    EntryPermanent
    LockReleased
