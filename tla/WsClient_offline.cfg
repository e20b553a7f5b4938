SPECIFICATION ClientSpec
CONSTANTS
    None = None
    MaxGeneration = 7
    MaxSignIns = 2
INVARIANTS
    ReconnectsWhenOnline
CHECK_DEADLOCK FALSE
