SPECIFICATION LifecycleFairSpec
CONSTANTS
    app = app
    Namespace = {}
    Configs <- MCOnOff
    Agent = {n1, n2}
    MaxEvents = 1
    MayDelete = FALSE
    MayExpire = TRUE
INVARIANTS
    CaughtUpAgrees
    CaughtUpIsAtRest
PROPERTIES
    Converges
    StaysInPlace
