SPECIFICATION Spec
CONSTANTS
    a1 = a1
    a2 = a2
    Address <- OneAddress
    Fallback = fallback
    MaxEndpoints = 1
    DiscoveryEnabled = TRUE
    Required = TRUE
INVARIANT NotReadyWhileDisconnected
\* The other one (one at a time):
\* INVARIANT StreamingIsCounted
