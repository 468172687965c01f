SPECIFICATION FairSpec
CONSTANTS
    Calls = {1, 2}
    Idempotent <- MCIdempotent
    TimeLimit = 4
    AttemptLimit = 3
    initial_delay = 1
    maximum_delay = 2
    max_tokens = 3
    min_tokens = 1
    error_cost = 1
    NORMAL_REFRESH_SLACK = 3
    SHORT_REFRESH_SLACK = 2
    Lifetimes <- MCLifetimes
    Forever = 9
    AttemptTimeout = 2
INVARIANTS
    RetriesWithinLimits
    UnsafeRequestsAreSentOnce
    NoWaiterIsOrphaned
PROPERTIES
    ValidTokenIsKept
    EveryCallReturns
