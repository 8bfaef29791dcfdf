SPECIFICATION Spec
CONSTANTS
    school = school
    worker = worker
    h1 = h1
    h2 = h2
    amd64 = amd64
    arm64 = arm64
    NULL = NULL
    Admin = Admin
    Macs <- MCMacs
    Profiles = {school, worker}
    Architectures = {amd64, arm64}
    ArchitectureOf <- MCArchitectureOf
    Holders = {h1, h2}
    Ttls = {1, 2}
    MaxTime = 3
    CanCrash = TRUE
INVARIANTS
    TypeOK
    UniqueIndexNeverConflicts
    NoOrphanHold
    PoolIsOptIn
PROPERTIES
    LeaseRunsToTerm
    AgentsLeavePermanentAlone
