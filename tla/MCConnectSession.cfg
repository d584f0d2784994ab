CONSTANTS
    Conns = {c1}
    MaxChunks = 2
    ErrcCap = 1
    MaxRequests = 2
    OnFly = TRUE
    TailscaleEnabled = TRUE
    HttpProxyAllowTailscale = FALSE
SPECIFICATION FairSpec
INVARIANTS
    Inv
    OnlyEarlyDataLost
    EveryRequestCounted
PROPERTIES
    ImplementsRelay
    TeardownCompletes
    ClientLeaves
CHECK_DEADLOCK FALSE
