SPECIFICATION Spec
CONSTANTS
    c1 = c1
    t1 = t1
    t2 = t2
    b1 = b1
    b2 = b2
    Binding = {b1, b2}
    NULL = NULL
    Thread = {c1}
    Token = {t1, t2}
    BindingOf <- FirstBound
    MaxGeneration = 2
    MaxRenewals = 1
    Lossy = FALSE
    s1 = s1
    s2 = s2
    s3 = s3
    s4 = s4
    s5 = s5
    Str = {s1, s2, s3, s4, s5}
SYMMETRY Renamings
INVARIANTS
    CacheInStep
    StringsOwned
PROPERTIES
    ChangeReported
    ImplementsNotifyClient
CHECK_DEADLOCK FALSE
