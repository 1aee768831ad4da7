SPECIFICATION Spec
CONSTANTS
    cpu = cpu
    nodes = nodes
    c1 = c1
    c2 = c2
    u1 = u1
    u2 = u2
    AllResources <- CpuOnly
    ActiveNodes = nodes
    Cluster = {c1}
    Usage <- RisingUsage
    InitialCredits <- Ample
    Update = {}
    Credit <- CpuCredit
    SoftLimit <- NoLimits
    BatchSizeThreshold = 2
    MaxAttempts = 2
    TwoTo64 = 64
    Registering = {}
    Ordered = TRUE
    MaxCopies = 1
    MaxFaults = 0
    MaxFlushes = 9
    MaxRuns = 1
INVARIANTS
    NoUsageLost
