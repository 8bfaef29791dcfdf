\* Every choice of parent files of base and three profiles.
SPECIFICATION ResolverSpec
CONSTANTS
    Profiles <- MCProfiles
    Names <- MCNames
    Base = 4
    Inputs <- MCInputs
INVARIANTS
    CascadeIsComplete
    EachBuiltOnce
    ParentsFirst
    RootFirst
    ChainIsAncestry
    FailsExactlyIfBroken
    CascadeCoversChains
PROPERTIES
    BothTerminate
\* Both programs return.
CHECK_DEADLOCK FALSE
