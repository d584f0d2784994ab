CONSTANTS
    Conns = {c1}
    MaxChunks = 0
    ErrcCap = 1
    MaxClock = 1
    Inputs <- PlainInput
    OnFly = TRUE
    TailscaleEnabled = TRUE
SPECIFICATION Spec
INVARIANTS
    PlaintextStartupReused
CHECK_DEADLOCK FALSE
