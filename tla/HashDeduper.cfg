\* A deployment and its alert with two contents each: connections, failures, retries, flushes,
\* restarts that restore one hash (below MaxHashes) or discard two (at MaxHashes).
CONSTANTS
    dep = dep
    alert = alert
    h1 = h1
    h2 = h2
    Keys = {dep, alert}
    Hashes = {h1, h2}
    NoHash = NoHash
    AlertKeys = {alert}
    SkipKeys = {}
    DeploymentOf <- MCDeploymentOf
    MaxHashes = 2
    MaxAttempts = 2
    Traffic <- MCTraffic
    MaxPending = 1
SPECIFICATION Spec
INVARIANTS TypeOK HashWasWritten ReceivedIsBacked
PROPERTY SyncKeepsSeen
