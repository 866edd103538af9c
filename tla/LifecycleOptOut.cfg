SPECIFICATION LifecycleFairSpec
CONSTANTS
    app = app
    Namespace <- MCNamespace
    Configs <- MCOnOff
    Agent = {n1}
    MaxEvents = 1
    MayDelete = FALSE
    MayExpire = FALSE
PROPERTY OptOutRespected
