SPECIFICATION LifecycleFairSpec
CONSTANTS
    app = app
    Namespace <- MCNamespace
    Configs <- MCConfigs
    Agent = {n1}
    MaxEvents = 2
    MayDelete = TRUE
    MayExpire = TRUE
INVARIANT
    CaughtUpAgrees
PROPERTIES
    Converges
    StaysInPlace
    OptOutHolds
