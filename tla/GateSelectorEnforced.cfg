SPECIFICATION Spec
CONSTANTS
    app = app
    sys = sys
    Namespace <- MCNamespace
    AgentNamespace = sys
    Excluded <- MCExcluded
    StaleAfter = 1
    Operator = {o1}
    Policy = {p1}
    PolicySpecs <- MCSelectiveSpecs
    Relabelled <- MCRelabelled
    MaxSkew = 0
    MaxTime = 1
    Agent = {a1}
    Commands <- GateCommands
    ActionsEnabled = TRUE
    ReadonlyEnabled = FALSE
PROPERTY SelectorEnforced
