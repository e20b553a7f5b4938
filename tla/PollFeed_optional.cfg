SPECIFICATION Spec
CONSTANTS
    None = None
    r1 = r1
    r2 = r2
    x = x
    y = y
    ip6 = ip6
    Hosts <- OneRouter
    Values <- OneValue
    Addresses <- OneAddress
    Capacity = 2
    MaxPolls = 3
    MaxConfigs = 0
INVARIANTS
    UpdatesReproduceSnapshot
CHECK_DEADLOCK FALSE
