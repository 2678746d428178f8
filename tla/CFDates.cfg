SPECIFICATION Spec
CONSTANTS
    IntBits = 4
    SmallBits = 3
    Precision = 2
    MaxExponent = 5
    Casts = {"minimum"}
INVARIANTS
    EqualDatesHashAlike
CHECK_DEADLOCK FALSE
