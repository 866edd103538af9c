SPECIFICATION FairSpec
CONSTANTS
    a1 = a1
    a2 = a2
    Address <- TwoAddresses
    Fallback = fallback
    MaxEndpoints = 1
    DiscoveryEnabled = TRUE
    Required = TRUE
INVARIANTS
    NoOrphanTask
    ConnectedIsStreaming
    AlwaysSomeStream
    StreamsCapped
    WrongOnlyWhenOvertaken
PROPERTY
    StreamsFollowEndpoints
