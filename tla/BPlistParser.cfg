SPECIFICATION FairSpec
CONSTANTS
    Documents <- MCDocuments
    NULL = NULL
INVARIANTS
    HeapOK
    ParsesWellFormed
    EndsCleanly
PROPERTIES
    Returns
CHECK_DEADLOCK FALSE
