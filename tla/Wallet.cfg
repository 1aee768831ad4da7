SPECIFICATION Spec
CONSTANTS
    cpu = cpu
    nodes = nodes
    c1 = c1
    c2 = c2
    u1 = u1
    u2 = u2
    AllResources <- CpuOnly
    ActiveNodes = nodes
    Cluster = {c1}
    Usage <- SignedUsage
    InitialCredits <- Two
    Update = {u1}
    Credit <- CpuCredit
    SoftLimit <- NoLimits
    BatchSizeThreshold = 2
    MaxAttempts = 2
    TwoTo64 = 64
    Registering = {}
    Ordered = TRUE
    MaxCopies = 2
    MaxFaults = 1
    MaxFlushes = 2
    MaxRuns = 0
INVARIANTS
    TypeOK
    LedgerInv
    ExceededIsJustified
    NoUsageLost
    ChargedOnce
    ReportsArePast
PROPERTIES
    LedgerSpec
