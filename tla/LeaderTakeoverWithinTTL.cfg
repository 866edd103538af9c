SPECIFICATION Spec
CONSTANTS
    Pod = {n1, n2}
    LeaseTTL = 9
    Retry = 1
    MaxSkew = 0
    MaxTime = 11
INVARIANT TakeoverWithinTTL
