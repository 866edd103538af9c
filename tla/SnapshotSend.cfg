SPECIFICATION SendFairSpec
CONSTANTS
    Collector = {n1}
    Rounds = 3
    Routes = 2
INVARIANTS
    SentIsInHub
PROPERTY
    KeepsDelivering
