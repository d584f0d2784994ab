CONSTANTS
    Udp = {u1}
    Tcp = {}
    Queries <- QueriesDef
    Zone <- ZoneDef
    MaxQueries = 1
SPECIFICATION Spec
INVARIANTS AliasResolvesLikeTarget
