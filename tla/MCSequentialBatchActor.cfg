SPECIFICATION FairSpec
CONSTANTS
    CountThreshold = 2
    ByteThreshold = 4
    TopicBytes = 1
    MaxCmds = 5
    MsgBytes = {1, 3}
INVARIANTS
    TypeOK
    BatchEmptyWhileInflight
    PausedIsDrained
    WaitingMessagesHaveTimer
    FlushBarrier
    SentInOrder
    NoOvertake
PROPERTIES
    ImplementsOrderingKey
    EverythingCompletes
