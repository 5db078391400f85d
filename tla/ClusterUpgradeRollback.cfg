\* A rollback that lasts longer than the stuck timeout, and an upgrader that restarts.
SPECIFICATION Spec
CONSTANTS
    Versions <- TwoVersions
    MaxProcs = 1
    MaxFaults = 2
    Faults = {"stage", "upgrader"}
CHECK_DEADLOCK FALSE
INVARIANT RollbackContinues
