SPECIFICATION Spec
CONSTANTS
    a = a
    b = b
    c = c
    Ip <- MCIp
    Event <- MCEvent
    Listing <- MCListing
    WINDOW = 1
    MAX_BUFFERED = 3
    MAX_LINES = 3
    MAX_EDGES = 2
    MAX_FANOUT = 1
    MaxU64 = 3
    MaxTime = 3
    MaxBack = 1
    MaxPushes = 4
INVARIANTS
    WindowBound
    PrunedWereOld
    ReportedEdgesComplete
    DropsAreCounted
