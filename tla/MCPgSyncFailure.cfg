CONSTANTS
    Conns = {c1}
    MaxChunks = 0
    ErrcCap = 1
    MaxClock = 1
    Inputs <- ManagedInput
    OnFly = TRUE
    TailscaleEnabled = TRUE
SPECIFICATION Spec
INVARIANTS
    UpstreamFailureSurfaces
CHECK_DEADLOCK FALSE
