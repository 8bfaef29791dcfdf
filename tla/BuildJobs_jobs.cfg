\* Two requests, profiles edited while they are served, a client polling.
SPECIFICATION FairSpec
CONSTANTS
    r1 = r1
    r2 = r2
    Requests = {r1, r2}
    MaxJobs = 2
    CanEdit = TRUE
    Watched <- JobsOfOne
INVARIANTS CascadesDoNotInterleave CascadeOutcome PollersSeeFinal
PROPERTIES JobsEnd LockComesFree
\* Every request is served once, then nothing is left to do.
CHECK_DEADLOCK FALSE
