\* Two pods at an external database, or one with the internal one; upgrades and rollbacks.
CONSTANTS
    p1 = p1
    p2 = p2
    Pods = {p1, p2}
    NoPod = NoPod
    MaxSeq = 3
    MinOf <- MCMinOf
    BgOf <- MCBgOf
    InCluster = TRUE
    Faults = {"crash", "read", "fail"}
    MaxFaults = 1
    MaxRollouts = 2
    MaxRestores = 1
SPECIFICATION FairSpec
INVARIANTS TypeOK BgTypeOK VersionMeansMigrated ServingMeansMigrated OldRowsAreAhead
PROPERTIES EventuallyServes EventuallyMigrated
CHECK_DEADLOCK FALSE
