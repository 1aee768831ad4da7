SPECIFICATION Spec
CONSTANTS
    acme = acme
    globex = globex
    a = a
    d = d
    Tenants <- TwoTenants
    Clusters <- TwoClusters
    TenantOf <- Owners
    ReplayCount = 1
    RecentSize = 1
    ReplayCap = 1
    MaxSeq <- Numbers
    MaxRounds = 2
    MaxLive <- Live
    Unreliable <- FirstOfA
INVARIANTS
    SimulatorInv
PROPERTIES
    StepsEnd
    ReplayIsDuplicate
CHECK_DEADLOCK FALSE
