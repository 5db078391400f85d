\* Two processes after each other; a stage of the upgrader may fail.
SPECIFICATION FairSpec
CONSTANTS
    Versions <- TwoVersions
    MaxProcs = 2
    MaxFaults = 1
    Faults = {"stage"}
CHECK_DEADLOCK FALSE
INVARIANTS
    TypeOK
    ActiveIsWatched
    CompleteMeansDeployed
    RollbackHasSnapshot
PROPERTIES
    TerminalIsFinal
    UpgradesEnd
