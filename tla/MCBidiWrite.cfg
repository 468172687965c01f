SPECIFICATION FairSpec
CONSTANTS
    MAX_WRITE_CHUNK_SIZE = 2
    Capacity = 7
    CHANNEL_BUFFER_SIZE = 1
    AttemptLimit = 2
    MAX_REDIRECTS_FOLLOWED = 1
    Openings <- MCOpenings
    AppendSizes = {3}
    MaxBytes = 8
    MaxCalls = 2
    MaxFaults = 2
CHECK_DEADLOCK FALSE
INVARIANTS
    ReplayCoversUnacknowledged
    StreamContinuesObject
    ResponseIsOwed
    FruitlessReconnectsAreBounded
PROPERTIES
    ImplementsObject
    EveryCallReturns
