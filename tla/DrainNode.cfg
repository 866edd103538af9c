SPECIFICATION FairSpec
CONSTANTS
    web = web
    bare = bare
    logs = logs
    Name <- MCName
    Managed <- MCManaged
    Unmanaged <- MCUnmanaged
    Drain = {d1, d2}
    Forced = {d2}
    Timeout = 1
INVARIANTS
    OkMeansDrained
    RefusalTouchesNothing
PROPERTY
    DrainEnds
