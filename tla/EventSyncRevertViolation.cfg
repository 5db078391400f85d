\* An object returns to its earlier content around a crash of Central.
CONSTANTS
    k1 = k1
    k2 = k2
    h1 = h1
    h2 = h2
    Keys = {k1}
    Hashes = {h1, h2}
    NoHash = NoHash
    AlertKeys = {}
    DeploymentOf <- MCDeploymentOf
    SkipKeys = {}
    MaxHashes = 3
    BufferSize = 2
    MaxChanges = 3
    MaxBreaks = 1
    Faults = {"crash", "revert"}
SPECIFICATION Spec
INVARIANT SuccessfulMeansStored
CHECK_DEADLOCK FALSE
