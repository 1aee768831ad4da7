SPECIFICATION Spec
CONSTANTS
    t1 = t1
    Resource = {cpu, nodes}
    Tenant = {t1}
    NewCluster = {k1}
    OwnerOf <- FirstTenant
    MaxAttempts = 2
    MaxFaults = 3
    MaxStarts = 2
INVARIANTS
    TypeOK
    ProvisionedIsWhole
    LoadedOnce
    RegisteredIsKnown
PROPERTIES
    CallsEnd
    DeletedStaysOut
CHECK_DEADLOCK FALSE
