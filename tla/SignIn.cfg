SPECIFICATION Spec
CONSTANTS
    None = None
    Overflow = Overflow
    h1 = h1
    h2 = h2
    s1 = s1
    s2 = s2
    f1 = f1
    f2 = f2
    b1 = b1
    c1 = c1
    c2 = c2
    d1 = d1
    Handlers <- MCHandlers
    Sources <- MCSources
    Flows <- MCFlows
    Browsers <- MCBrowsers
    Callbacks <- MCCallbacks
    Deployments <- MCDeployments
    AuthFailureTtl = 2
    AuthFailureCapacity = 1
    AuthBackoffMax = 2
    MaxTokens = 2
    SetupSecs = 1
    MaxTime = 2
    FlowTtl = 1
    FlowCapacity = 2
    FlowPerSource = 1
    OidcRequests = 2
    MaxChanges = 2
PROPERTIES
    BackoffIsServed
    SignInRecovers
INVARIANTS
    SetupHappensOnce
    OneSessionPerFlow
CHECK_DEADLOCK FALSE
