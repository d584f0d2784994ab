CONSTANTS
    Conns = {c1, c2, c3}
    MaxChunks = 0
    ErrcCap = 1
    MaxClock = 1
    Inputs <- PassthroughInput
    OnFly = TRUE
    TailscaleEnabled = TRUE
SPECIFICATION Spec
INVARIANTS
    UniqueSessionIDs
CHECK_DEADLOCK FALSE
