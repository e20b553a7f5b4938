SPECIFICATION FairSpec
CONSTANTS
    None = None
    Unnamed = Unnamed
    Aggregate = Aggregate
    k1 = k1
    k2 = k2
    p1 = p1
    t1 = t1
    r1 = r1
    r2 = r2
    wan1 = wan1
    old = old
    new = new
    Server = Server
    Tools <- MCTools
    Requests <- MCRequests
    Keys <- MCKeys
    Passwords <- MCPasswords
    EnvPasswords <- MCEnvPasswords
    CURRENT_SCHEMA_VERSION = 7
    ExactVersion = 4
    Histories <- MCHistories
    InitialTargets <- MCInitialTargets
    UserPaths <- MCUserPaths
    InitialBackups <- MCInitialBackups
    Generated = {1, 2, 3, 4}
    MaxCommits = 2
    MaxCommands = 1
    MaxFaults = 1
PROPERTIES
    ServiceReturns
INVARIANTS
    FilesAreSound
    NothingIsLost
    ServingIsReady
    ImportCountsOnce
CHECK_DEADLOCK FALSE
