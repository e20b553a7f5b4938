SPECIFICATION Spec
CONSTANTS
    a = a
    b = b
    Wans <- MCWans
    Aggregate = Aggregate
    None = None
    U64Max = 15
    InitialCounters <- ZeroCounter
    Traffic <- FourBytes
    TickMs = 3000
    RebootMs = 4000
    RequestMs = 3000
    StartMs = 20000
    StartUptimeMs = 4000
    Faults <- StorageFaults
    ClockSteps <- NoClockSteps
    MaxMono = 29000
    MaxBoots = 0
    MaxResets = 1
    MaxSkew = 0
    MaxIncarnation = 1
SYMMETRY WanSymmetry
INVARIANTS
    AggregateNeverMasksMemberGap
CHECK_DEADLOCK FALSE
