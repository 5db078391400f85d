\* Two nodes whose ids fall into the same shard.
CONSTANTS
    a = a
    b = b
    Keys <- NodeKeys
    Hashes <- MCHashes
    NoHash = 0
    AlertKeys <- MCAlertKeys
    DeploymentOf <- MCDeploymentOf
    SkipKeys <- MCSkipKeys
    MaxHashes = 10
    ShardOf <- OneShard
    MaxAttempts = 1
    MaxEvents = 2
    Faults = {}
SPECIFICATION Spec
PROPERTY InventoryNeverReplaced
CHECK_DEADLOCK FALSE
