SPECIFICATION Spec
CONSTANTS
    app = app
    sys = sys
    Namespace <- MCNamespace
    AgentNamespace = sys
    Excluded <- MCExcluded
    StaleAfter = 0
    Operator = {o1}
    Policy = {p1}
    PolicySpecs <- MCTwoSpecs
    Relabelled <- MCRelabelled
    MaxSkew = 0
    MaxTime = 1
    Agent = {a1}
    Commands <- PathCommands
    ActionsEnabled = TRUE
    ReadonlyEnabled = FALSE
INVARIANTS
    EffectiveSince
    OptOutBound
    ResultHonest
PROPERTY
    StaysForgotten
