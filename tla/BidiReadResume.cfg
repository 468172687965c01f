SPECIFICATION Spec
CONSTANTS
    Readers = {1, 2}
    Offset <- MCOffset
    Limit <- MCLimit
    Size = 3
    ChannelSize = 1
    ResumeLimit = 2
    MaxChunk = 2
    MaxResponses = 2
    MaxFaults = 2
CHECK_DEADLOCK FALSE
INVARIANTS
    ResumesWithinRange
