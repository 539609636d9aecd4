\* Two profiles that share the files, two authenticated proxies.
SPECIFICATION Spec
CONSTANTS
    Profiles = {p1, p2}
    Basic = {b1, b2}
    Plain = {Direct}
    Direct = Direct
    NoRoute = NoRoute
    NoProfile = NoProfile
SYMMETRY Symmetry
INVARIANTS
    TypeOK
    CredentialsOfRoute
    LiveRouteIsShown
PROPERTIES
    RouteIsKept
