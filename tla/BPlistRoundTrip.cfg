SPECIFICATION FairRoundTrip
CONSTANTS
    r = r
    x = x
    y = y
    z = z
    Node = {r, x, y, z}
    Graphs <- MCGraphs
    Root = r
    Text <- MCText
    MaxDepth = 2
    FirstRoom = 1
    ByteBase = 2
    Documents = {}
    NULL = NULL
INVARIANTS
    WritesPropertyLists
    WriterEndsCleanly
    RoundTrips
PROPERTIES
    WriterReturns
CHECK_DEADLOCK FALSE
