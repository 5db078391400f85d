\* A Sensor that reconnects, another deployment for its cluster, and one slot for two clusters.
CONSTANTS
    a1 = a1
    a2 = a2
    b1 = b1
    A = A
    B = B
    Conns = {a1, a2, b1}
    NoConn = NoConn
    Clusters = {A, B}
    ClusterOf <- MCClusterOf
    Ids <- MCIds
    Oversized = {B}
    MaxSensors = 1
    Disturbed = {A}
    Scenarios = {{"break", "update"}, {"delete", "update"}}
SPECIFICATION FairSpec
INVARIANTS TypeOK MapIsLive OnlyOneServes SyncsBounded NothingLeaks
PROPERTIES ImplementsSessions EventuallySynced
CHECK_DEADLOCK FALSE
