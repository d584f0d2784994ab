CONSTANTS
    Messages <- MessagesDef
    Identities <- IdentitiesDef
    DBName <- DBNameDef
SPECIFICATION Spec
INVARIANT TailnetAttributed
CHECK_DEADLOCK FALSE
