SPECIFICATION Spec
CONSTANTS
    Object <- MCObject
    Worlds <- MCWorlds
    List <- MCList
    Request <- MCRequest
    Response <- MCResponse
    Secrets <- MCSecrets
    Tls = {"config"}
    BadCert = {"secret"}
    MAX_EVENTS = 1
    APP_METRICS_MAX_SAMPLES = 2
    MaxChanges = 1
INVARIANT ScrapeIsFailSoft
\* The others (one at a time):
\* INVARIANT SecretFirst
\* INVARIANT SamplesAreTheirs
