SPECIFICATION Spec
CONSTANTS
    a = a
    b = b
    Wans <- MCWans
    Aggregate = Aggregate
    None = None
    U64Max = 15
    InitialCounters <- ZeroCounter
    Traffic <- TwoOrSix
    TickMs = 3000
    RebootMs = 4000
    RequestMs = 3000
    StartMs = 20000
    StartUptimeMs = 4000
    Faults <- MemberFaults
    ClockSteps <- NoClockSteps
    MaxMono = 26000
    MaxBoots = 0
    MaxResets = 1
    MaxSkew = 0
    MaxIncarnation = 1
SYMMETRY WanSymmetry
INVARIANTS
    AggregateBackedByMembers
CHECK_DEADLOCK FALSE
