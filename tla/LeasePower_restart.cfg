SPECIFICATION FairSpec
CONSTANTS
    worker = worker
    h1 = h1
    amd64 = amd64
    NULL = NULL
    Admin = Admin
    Macs <- MCOneMac
    Profiles = {worker}
    Architectures = {amd64}
    ArchitectureOf <- MCArchitectureOf
    Holders = {h1}
    Ttls = {1}
    MaxTime = 2
    MaxInFlight = 1
    MaxSame = 1
    CanCrash = TRUE
    CanFail = FALSE
PROPERTIES
    ExpiredLeaseEndsOffDespiteRestarts
CHECK_DEADLOCK FALSE
