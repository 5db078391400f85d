\* Workers that outlive their connection, objects that return to an earlier content.
CONSTANTS
    k1 = k1
    k2 = k2
    h1 = h1
    h2 = h2
    Keys = {k1}
    Hashes = {h1, h2}
    NoHash = NoHash
    AlertKeys = {}
    DeploymentOf <- MCDeploymentOf
    SkipKeys = {}
    MaxHashes = 3
    BufferSize = 2
    MaxChanges = 3
    MaxBreaks = 2
    Faults = {"break", "crash", "straggler", "revert"}
SPECIFICATION Spec
INVARIANT ExistenceHeals
PROPERTIES ReconcileSparesExisting
CHECK_DEADLOCK FALSE
