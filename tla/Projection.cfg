SPECIFICATION Spec
CONSTANTS
    cpu = cpu
    nodes = nodes
    c1 = c1
    c2 = c2
    u1 = u1
    u2 = u2
    AllResources <- CpuAndNodes
    ActiveNodes = nodes
    Cluster = {c1, c2}
    Usage <- SharedUsage
    InitialCredits <- Two
    Update = {}
    Credit <- CpuCredit
    SoftLimit <- Limits
    BatchSizeThreshold = 2
    MaxAttempts = 2
    TwoTo64 = 64
    Registering = {c1}
    Ordered = FALSE
    MaxCopies = 1
    MaxFaults = 0
    MaxFlushes = 9
    MaxRuns = 0
INVARIANTS
    OneReservationPerCluster
    SnapshotsConverge
    SoftLimitIsReported
PROPERTIES
    ImplementsWallets
