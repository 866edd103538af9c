SPECIFICATION Spec
CONSTANTS
    Pod = {n1, n2}
    LeaseTTL = 3
    Retry = 1
    MaxSkew = 0
    MaxTime = 7
INVARIANT BelievesBriefly
