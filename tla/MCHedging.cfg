SPECIFICATION FairSpec
CONSTANTS
    Batches = {1, 2}
    Delay = 2
    TotalTimeout = 5
    Scale = 2
    Refill = 5
    MaxScaled = 5
INVARIANTS
    HedgeBudget
    TimerCoversQueue
    HedgesArePaced
PROPERTIES
    EveryBatchResolvesOnce
