SPECIFICATION FairSpec
CONSTANTS
    c1 = c1
    c2 = c2
    s1 = s1
    s2 = s2
    a1 = a1
    a2 = a2
    Conns <- MCConns
    Sessions <- MCSessions
    Sources <- MCSources
    GlobalLimit = 2
    SessionLimit = 1
    SourceLimit = 1
INVARIANTS
    ResourcesAreCounted
    DrainIsSound
PROPERTIES
    ShutdownCompletes
    RevokedIsCutOff
