\* The retry loop launches over a living browser.
SPECIFICATION Spec
CONSTANTS
    p1 = p1
    p2 = p2
    Profiles = {p1}
    Requests = {t1, t2}
    Monitors = {m1, m2}
    LaunchMode <- Native
    SoftLimit = 1
    MaxRetries = 1
    Ops = {"start", "stop", "restart", "status"}
    NoProfile = NoProfile
    NoRequest = NoRequest
    NoMonitor = NoMonitor
PROPERTIES
    EveryLaunchFindsNoBrowser
