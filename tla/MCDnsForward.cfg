CONSTANTS
    Udp = {u1, u2}
    Tcp = {t1}
    Queries <- QueriesDef
    Zone <- ZoneDef
    MaxQueries = 2
SPECIFICATION MCSpec
INVARIANTS Inv SelfOnceUp
PROPERTIES ImplementsService GoroutinesEnd
