SPECIFICATION LoopSpec
CONSTANTS
    cpu = cpu
    nodes = nodes
    c1 = c1
    c2 = c2
    u1 = u1
    u2 = u2
    AllResources <- NodesOnly
    ActiveNodes = nodes
    Cluster = {c1}
    Usage <- FallingUsage
    InitialCredits <- One
    Update = {u1}
    Credit <- NodeCredit
    SoftLimit <- NoLimits
    BatchSizeThreshold = 2
    MaxAttempts = 2
    TwoTo64 = 64
    Registering = {}
    Ordered = TRUE
    MaxCopies = 1
    MaxFaults = 1
    MaxFlushes = 9
    MaxRuns = 0
INVARIANTS
    StopIsJustified
PROPERTIES
    CrumbsStopAgents
