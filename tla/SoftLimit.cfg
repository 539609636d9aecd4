\* A native and a background profile compete for one place; nobody calls status.
SPECIFICATION Spec
CONSTANTS
    p1 = p1
    p2 = p2
    Profiles = {p1, p2}
    Requests = {t1, t2}
    Monitors = {m1, m2, m3}
    LaunchMode <- Mixed
    SoftLimit = 1
    MaxRetries = 0
    Ops = {"start", "stop", "restart"}
    NoProfile = NoProfile
    NoRequest = NoRequest
    NoMonitor = NoMonitor
SYMMETRY Symmetry
INVARIANTS
    SoftLimitRespected
PROPERTIES
    NoFalseDisappearance
