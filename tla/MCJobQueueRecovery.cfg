SPECIFICATION Spec
CONSTANTS
    Capacity = 1
    Keys = {k1}
    Priorities <- MCPriorities
    MaxAttempts = 2
    Workers = {w1}
INVARIANTS
    ClaimableWithinAttemptLimits
CHECK_DEADLOCK FALSE
