SPECIFICATION Spec
CONSTANTS
    c1 = c1
    c2 = c2
    t1 = t1
    b1 = b1
    b2 = b2
    Binding = {b1, b2}
    NULL = NULL
    Thread = {c1, c2}
    Token = {t1}
    BindingOf <- OneBound
    MaxGeneration = 2
    MaxRenewals = 1
    Lossy = TRUE
INVARIANTS
    BindingsBalanced
PROPERTIES
    ReportsAdvance
    NeverBack
    ValidityAgreesWithCache
    OnlyLossDiscards
CHECK_DEADLOCK FALSE
SYMMETRY Threads
