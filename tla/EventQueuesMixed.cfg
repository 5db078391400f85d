\* A deployment, its alerts and its reprocessing, with all failures.
CONSTANTS
    a = a
    b = b
    Keys <- MixedKeys
    Hashes <- MCHashes
    NoHash = 0
    AlertKeys <- MCAlertKeys
    DeploymentOf <- MCDeploymentOf
    SkipKeys <- MCSkipKeys
    MaxHashes = 10
    ShardOf <- OneShard
    MaxAttempts = 2
    MaxEvents = 3
    Faults = {"transient", "unretryable"}
SPECIFICATION FairSpec
INVARIANTS TypeOK SameResourceSerial OneFailureHeals
PROPERTIES StoredNeverOlder RetriesEnd
CHECK_DEADLOCK FALSE
