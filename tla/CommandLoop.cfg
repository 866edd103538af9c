SPECIFICATION FairSpec
CONSTANTS
    work = work
    update = update
    Cmd <- MCCmd
    SelfUpdate <- MCSelfUpdate
    Pod = {p1, p2}
    MaxBatch = 2
    MaxCrashes = 1
INVARIANTS
    AtMostOncePerProcess
    AnswersAreReal
PROPERTIES
    EveryCommandAnswered
    ImplementsService
