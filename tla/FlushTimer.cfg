SPECIFICATION TimedSpec
CONSTANTS
    cpu = cpu
    nodes = nodes
    c1 = c1
    c2 = c2
    u1 = u1
    u2 = u2
    AllResources <- CpuOnly
    ActiveNodes = nodes
    Cluster = {c1}
    Usage <- RisingUsage
    InitialCredits <- Ample
    Update = {u1}
    Credit <- CpuCredit
    SoftLimit <- NoLimits
    BatchSizeThreshold = 2
    MaxAttempts = 1
    TwoTo64 = 64
    Registering = {c1}
    Ordered = TRUE
    MaxCopies = 1
    MaxFaults = 1
    MaxFlushes = 9
    MaxRuns = 1
    BaseFlushInterval = 2
    MaxFlushInterval = 3
INVARIANTS
    FiresOnce
PROPERTIES
    HeartbeatsAreProcessed
    UpdatesEnd
