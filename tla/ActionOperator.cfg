SPECIFICATION CalmSpec
CONSTANTS
    app = app
    sys = sys
    Namespace <- MCNamespace
    AgentNamespace = sys
    Excluded <- MCExcluded
    StaleAfter = 1
    Operator = {o1, o2}
    Policy = {p1}
    PolicySpecs <- MCNeverReady
    Relabelled <- MCRelabelled
    MaxSkew = 0
    MaxTime = 1
PROPERTY
    OptOutConverges
