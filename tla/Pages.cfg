\* Three pages over any number of runs, at two addresses; two requests and two dialogs.
SPECIFICATION SpecRequests
CONSTANTS
    Pages = {p1, p2, p3}
    Addresses = {a1, a2}
    NoPage = NoPage
    NoAddress = NoAddress
    Requests = {r1, r2}
    NoRequest = NoRequest
    Dialogs = {d1, d2}
    NoDialog = NoDialog
SYMMETRY Symmetry
CONSTRAINT FewObjects
INVARIANTS
    TypeOK
    TypeOKRequests
    HandleMeansOnePage
    HeardOnceUnlessReused
    ActionsExcludeEachOther
    OpenDialogIsListed
    EventsNameKnownPages
    PopupNamesItsPages
PROPERTIES
    OpenPageKeepsHandle
