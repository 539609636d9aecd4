\* An ordinary and a Playwright profile with up to two calls each, one of them running at a time.
SPECIFICATION SpecService
CONSTANTS
    Profiles = {p1, p2}
    Driven = {p2}
    SoftLimit = 1
    MaxCalls = 2
INVARIANTS
    TypeOK
    SettledAtExit
PROPERTIES
    NoLateLaunch
    ShutdownEnds
