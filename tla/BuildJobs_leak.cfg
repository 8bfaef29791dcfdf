\* A profile is saved while a request reads it.
SPECIFICATION Spec
CONSTANTS
    r1 = r1
    r2 = r2
    Requests = {r1, r2}
    MaxJobs = 2
    CanEdit = TRUE
    Watched <- NoJobs
PROPERTY RejectedOnlyWhileBuilding
\* Every request is served once, then nothing is left to do.
CHECK_DEADLOCK FALSE
