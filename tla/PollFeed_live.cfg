SPECIFICATION FairSpec
CONSTANTS
    None = None
    r1 = r1
    r2 = r2
    x = x
    y = y
    ip6 = ip6
    Hosts <- TwoRouters
    Values <- TwoValues
    Addresses <- NoAddress
    Capacity = 1
    MaxPolls = 3
    MaxConfigs = 1
INVARIANTS
    OutageReachesBrowser
    DrainedViewIsCurrent
    EngineIsConsistent
    ReplayIsBounded
PROPERTIES
    CatchesUp
    SaveTakesEffect
CHECK_DEADLOCK FALSE
