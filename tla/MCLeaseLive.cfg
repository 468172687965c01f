SPECIFICATION FairSpec
CONSTANTS
    ALO = {a}
    EO = {e1}
    MaxIds = 1
    Configs <- AllConfigs
INVARIANTS
    WaitHonoursConfirmedAcks
PROPERTIES
    EveryAwaitReturns
    ShutdownCompletes
