SPECIFICATION FairSpec
CONSTANTS
    Partitions = 2
    Items <- MCItems
    Page <- MCPage
    shared = shared
    left = left
    Runners = {r1, r2}
    DiscoveryMethod = "DIRECT"
    MaxInvocations = 2
INVARIANTS
    TypeOK
    CleanScopeIsCaptured
    OneCapturePerInvocation
PROPERTIES
    ImplementsScan
    InvocationsEnd
CHECK_DEADLOCK FALSE
