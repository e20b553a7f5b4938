SPECIFICATION Spec
CONSTANTS
    Interfaces <- MCInterfaces
    Bytes <- MCBytes
    Retentions <- MCRetentions
    PollTimes <- MCPollTimes
    BucketSize = 3
    BatchSize = 1
    MaxPoints = 2
    PruneBatch = 1
    MaxTime = 8
INVARIANTS
    StoreIsSound
    HistoryIsComplete
    ExactWasMeasured
PROPERTIES
    RollupKeepsTotals
    RollupMakesProgress
