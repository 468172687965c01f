SPECIFICATION RaceSpec
CONSTANTS
    CountThreshold = 1
    ByteThreshold = 4
    TopicBytes = 1
    MaxCmds = 3
    MsgBytes = {1}
INVARIANTS
    ResumeTakesEffect
