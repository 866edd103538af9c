SPECIFICATION Spec
CONSTANTS
    web = web
    bare = bare
    logs = logs
    Name <- MCName
    Managed <- MCManaged
    Unmanaged <- MCUnmanaged
    Drain = {d1}
    Forced = {}
    Timeout = 1
PROPERTY EvictsOnlyHere
\* The other one (one at a time):
\* INVARIANT RemainingWereEvicted
