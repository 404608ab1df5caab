SPECIFICATION FairSpec
CONSTANTS
    Capacity = 2
    Keys = {k1, k2}
    Priorities <- MCPriorities
    MaxAttempts = 2
    Workers = {w1, w2}
INVARIANTS
    TypeOK
    AtMostOneOwner
    OneLiveJobPerIdentity
    LedgerAgrees
    StrandedOnlyWhenAbandoned
PROPERTIES
    ImplementsLifecycle
    WaitingJobsSettle
CHECK_DEADLOCK FALSE
