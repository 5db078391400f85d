\* Two pods at an external database, or one with the internal one; upgrades and rollbacks.
CONSTANTS
    p1 = p1
    p2 = p2
    Pods = {p1, p2}
    NoPod = NoPod
    MaxSeq = 2
    MinOf <- MCMinOf
    BgOf <- MCBgOf
    InCluster = TRUE
    Faults = {"crash"}
    MaxFaults = 1
    MaxRollouts = 2
    MaxRestores = 1
SPECIFICATION AllSpec
INVARIANT FreshMeansEmpty
CHECK_DEADLOCK FALSE
