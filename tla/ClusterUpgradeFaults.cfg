\* One process and two faults of any kind.
SPECIFICATION Spec
CONSTANTS
    Versions <- TwoVersions
    MaxProcs = 1
    MaxFaults = 2
    Faults <- AllFaults
CHECK_DEADLOCK FALSE
INVARIANTS
    ActiveIsWatched
    CompleteMeansDeployed
    RollbackHasSnapshot
PROPERTY TerminalIsFinal
