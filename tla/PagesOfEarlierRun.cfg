\* A profile that is started again after its browser disappeared.
SPECIFICATION Spec
CONSTANTS
    Pages = {p1, p2}
    Addresses = {a1, a2}
    NoPage = NoPage
    NoAddress = NoAddress
INVARIANTS
    DiscardedOnRestart
