SPECIFICATION Spec
CONSTANTS
    ALO = {a}
    EO = {e1, e2}
    MaxIds = 2
    Configs <- NackConfigs
SYMMETRY Symmetry
INVARIANTS
    OneThreadKeepsOrder
    ReportsAreTruthful
    NothingLeftBehind
