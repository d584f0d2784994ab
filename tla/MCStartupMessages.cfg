CONSTANTS
    Messages <- MessagesDef
    Identities <- IdentitiesDef
    DBName <- DBNameDef
SPECIFICATION Spec
INVARIANTS OthersKept SameNameOnBothPaths ManagedAsServer
CHECK_DEADLOCK FALSE
