SPECIFICATION ProbesSpec
CONSTANTS
    Key <- MCKey
    Fault <- MCFault
    Window <- MCWindow
    Answer = {"items", "empty", "404", "503"}
    MaxClock = 1
    MaxReports = 3
CHECK_DEADLOCK FALSE
INVARIANT SnapshotsAreExplained
\* The other one (one at a time):
\* INVARIANT ChangeIsLogged
