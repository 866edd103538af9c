SPECIFICATION ProbesSpec
CONSTANTS
    Key <- MCKey
    Fault <- MCFault
    Window <- MCWindow
    Answer = {"items", "empty", "404", "503"}
    MaxClock = 1
    MaxReports = 3
CHECK_DEADLOCK FALSE
INVARIANTS
    MissingWasAbsent
    EmptyIsExplained
    OutageIsInTheLog
    KeepsReminding
    Accounted
