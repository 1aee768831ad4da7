SPECIFICATION Spec
CONSTANTS
    s1 = s1
    w1 = w1
    Servers <- OneServer
    Workers <- OneWorker
    Watched = s1
    Files = 2
    MaxAttempts = 2
    MaxStarts <- Starts
    RingSize = 2
    Durations = {1, 2}
    MaxMsgs = 3
INVARIANTS
    ServerInv
    MetricsInv
    PercentilesMatch
PROPERTIES
    SignalledStaysOut
    SignalEnds
CHECK_DEADLOCK FALSE
