SPECIFICATION ValuesSpec
CONSTANTS
    ByteStrings <- MCByteStrings
    UnitStrings <- MCUnitStrings
    StringSizes = {0, 1, 3, 4, 5, 12}
    IntBits = 4
    SmallBits = 3
    Precision = 2
    MaxExponent = 5
    Casts = {"minimum"}
    ByteBase = 4
    InlineLimit = 3
    AsciiLimit = 2
    Counts <- MCCounts
    SampleIntegers <- MCIntegers
    Strings <- MCStrings
    Values <- MCTextValues
    FirstSize = 4
    SizeMax = 44
    Word = 128
    Widths = {1, 2, 4}
    PointerSize = 4
    UnitSize = 2
    HeaderSize = 3
    TrailerSize = 5
    MemoryMax = 53
    Lengths = {8, 9, 14, 21}
    ListHeaders = {1, 3, 4}
    Slot = {a1, a2}
    Block = {b1, b2, b3}
    Info = {i1}
    Contexts <- MCContexts
    Sizes = {0, 2}
    MaxRefs = 2
    NULL = NULL
SYMMETRY Symmetry
INVARIANTS
    ConvertsTexts
    EqualityIsByValue
    ReadsWhole
    ReadsInside
    TextWhole
    AllocatorsBalanced
CHECK_DEADLOCK FALSE
