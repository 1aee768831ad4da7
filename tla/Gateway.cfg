SPECIFICATION Spec
CONSTANTS
    c1 = c1
    s1 = s1
    u1 = u1
    Cluster = {c1}
    Stream = {s1}
    ClusterOf <- SameCluster
    Unary = {u1}
    Capacity = 1
    Retries = 1
    MaxSeq = 2
    MaxCopies = 2
    MaxFaults <- EveryFault
    MaxKinds = 2
INVARIANTS
    TypeOK
    DuplicatesArePaidFor
    StreamKeepsOrder
PROPERTIES
    QueuedIsSignalled
    GoroutinesEnd
    RejectedWasHere
CHECK_DEADLOCK FALSE
