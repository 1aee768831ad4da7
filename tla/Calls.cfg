SPECIFICATION Spec
CONSTANTS
    cpu = cpu
    nodes = nodes
    c1 = c1
    c2 = c2
    u1 = u1
    u2 = u2
    AllResources <- NodesOnly
    ActiveNodes = nodes
    Cluster = {c1}
    Usage <- RisingUsage
    InitialCredits <- Ample
    Update = {u1, u2}
    Credit <- NodeCredit
    SoftLimit <- NoLimits
    BatchSizeThreshold = 2
    MaxAttempts = 2
    TwoTo64 = 64
    Registering = {}
    Ordered = TRUE
    MaxCopies = 1
    MaxFaults = 1
    MaxFlushes = 2
    MaxRuns = 1
INVARIANTS
    AcknowledgedCreditIsPosted
    OneReservationPerCluster
    CreditedOnce
PROPERTIES
    NeverGoesBack
SYMMETRY UpdateSymmetry
