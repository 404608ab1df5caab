SPECIFICATION Spec
CONSTANTS
    Partitions = 2
    Items <- MCItems
    Page <- MCPage
    shared = shared
    left = left
    Runners = {r1}
    DiscoveryMethod = "SEARCH_INDEX"
    MaxInvocations = 2
INVARIANTS
    HealthyMeansUntruncated
CHECK_DEADLOCK FALSE
