SPECIFICATION Spec
CONSTANTS
    Pod = {n1, n2}
    LeaseTTL = 6
    Retry = 1
    MaxSkew = 1
    MaxTime = 13
INVARIANTS
    OneHealthyLeader
    TakeoverBound
