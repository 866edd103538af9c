SPECIFICATION LifecycleFairSpec
CONSTANTS
    app = app
    Namespace <- MCNamespace
    Configs <- MCOnOff
    Agent = {n1}
    MaxEvents = 1
    MayDelete = TRUE
    MayExpire = FALSE
PROPERTY RemovedWhenDisabled
