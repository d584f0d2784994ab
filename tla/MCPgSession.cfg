CONSTANTS
    Conns = {c1}
    MaxChunks = 1
    ErrcCap = 1
    MaxClock = 1
    Inputs <- EveryInput
    OnFly = TRUE
    TailscaleEnabled = TRUE
SPECIFICATION FairSpec
INVARIANTS
    Inv
    StrictUpstreamTLS
    FailureCounted
    AttributedSession
    CloseOnlyAfterEnd
    SendersNeverBlock
PROPERTIES
    ImplementsRelay
    TeardownCompletes
    ClientLeaves
CHECK_DEADLOCK FALSE
