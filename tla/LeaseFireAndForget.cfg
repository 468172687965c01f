SPECIFICATION Spec
CONSTANTS
    ALO = {}
    EO = {e1}
    MaxIds = 1
    Configs <- WaitForgets
INVARIANTS
    WaitHonoursAcks
