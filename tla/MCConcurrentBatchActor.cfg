SPECIFICATION FairSpec
CONSTANTS
    CountThreshold = 2
    ByteThreshold = 4
    TopicBytes = 1
    MaxCmds = 4
    MsgBytes = {1, 3}
INVARIANTS
    FlushBarrier
    RequestsArePartition
PROPERTIES
    EveryPublishResolves
