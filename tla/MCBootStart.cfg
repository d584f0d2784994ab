CONSTANTS
    Configs <- MCConfigs
    Foreign <- MCForeign
SPECIFICATION Spec
INVARIANTS
    Inv
    ClashesAreForeign
    NoPartialGateway
CHECK_DEADLOCK FALSE
