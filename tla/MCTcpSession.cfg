CONSTANTS
    Conns = {c1}
    MaxChunks = 2
    ErrcCap = 2
    OnFly = TRUE
    TailscaleEnabled = FALSE
SPECIFICATION FairSpec
INVARIANTS
    TypeOK
    Inv
    CloseOnlyAfterEnd
    SendersNeverBlock
    ActiveCountsLive
    EveryConnectionCounted
PROPERTIES
    ImplementsRelay
    TeardownCompletes
    RelayIsLive
    EndNoticed
CHECK_DEADLOCK FALSE
