\* Two objects that change and vanish across breaks, crashes, failures and dropped messages.
CONSTANTS
    k1 = k1
    k2 = k2
    h1 = h1
    h2 = h2
    Keys = {k1, k2}
    Hashes = {h1, h2}
    NoHash = NoHash
    AlertKeys = {}
    DeploymentOf <- MCDeploymentOf
    SkipKeys = {}
    MaxHashes = 2
    BufferSize = 1
    MaxChanges = 2
    MaxBreaks = 3
    Faults = {"break", "crash", "fail", "drop"}
SPECIFICATION FairSpec
INVARIANTS TypeOK ResyncHeals
PROPERTIES ReconcileSparesExisting Converges
CHECK_DEADLOCK FALSE
