SPECIFICATION SendSpec
CONSTANTS
    Collector = {n1}
    Rounds = 3
    Routes = 2
INVARIANT FailsAfterRetries
\* The other one (one at a time):
\* INVARIANT ThreeAttempts
