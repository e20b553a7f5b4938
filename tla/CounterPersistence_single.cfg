SPECIFICATION Spec
CONSTANTS
    a = a
    b = b
    Wans <- MCOneWan
    Aggregate = Aggregate
    None = None
    U64Max = 15
    InitialCounters <- TwelveBytes
    Traffic <- FourBytes
    TickMs = 4000
    RebootMs = 4000
    RequestMs = 4000
    StartMs = 20000
    StartUptimeMs = 8000
    Faults <- StoreFaults
    ClockSteps <- StepBack
    MaxMono = 40000
    MaxBoots = 2
    MaxResets = 0
    MaxSkew = 4000
    MaxIncarnation = 2
CONSTRAINT ShortOrUndisturbed
INVARIANTS
    TypeOK
    BaselineIsCheckpoint
    ExactWithinOneProcess
    ExactBytesAreTrue
    RebootHiddenOnlyBelowTolerance
PROPERTIES
    ImplementsLedger
CHECK_DEADLOCK FALSE
