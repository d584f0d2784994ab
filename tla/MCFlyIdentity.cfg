CONSTANTS
    Lookups = {l1, l2}
    IPs = {ip1}
    Machines = {m1, m2}
    Apps = {a1}
    AppOf <- OneApp
    Unknown = Unknown
    flyCacheTTL = 2
    QueryTimeout = 1
    MaxTime = 7
SYMMETRY LookupSymmetry
SPECIFICATION Spec
INVARIANTS
    TypeOK
    BoundedStaleness
    LabelsRecover
    Inv
CHECK_DEADLOCK FALSE
