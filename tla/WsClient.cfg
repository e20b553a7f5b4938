SPECIFICATION ClientSpec
CONSTANTS
    None = None
    MaxGeneration = 9
    MaxSignIns = 2
INVARIANTS
    SocketsAreOwned
    NeverStopsTrying
    FollowsTheLogin
CHECK_DEADLOCK FALSE
