\* One ordinary Chrome profile, three calls in flight.
SPECIFICATION Spec
CONSTANTS
    p1 = p1
    p2 = p2
    Profiles = {p1}
    Requests = {t1, t2, t3}
    Monitors = {m1, m2}
    LaunchMode <- Native
    SoftLimit = 1
    MaxRetries = 1
    Ops = {"start", "stop", "restart", "status"}
    NoProfile = NoProfile
    NoRequest = NoRequest
    NoMonitor = NoMonitor
SYMMETRY Symmetry
INVARIANTS
    TypeOK
    TransientHasOwner
    RunningIsWatched
    NativeNeverForgotten
    OrphanReported
    OneMonitorPerProfile
PROPERTIES
    CallsAdvance
    ImplementsProfileSpec
