\* Two processes, two threads and two presets, one of them with settings of its own.
SPECIFICATION Spec
CONSTANTS
    Managers = {m1, m2}
    Threads = {t1, t2}
    Profiles = {p1, p2}
    Presets = {p1, p2}
    Values = {v1}
    Default = Default
    MaxFailures = 1
    Nothing = Nothing
SYMMETRY Symmetry
CONSTRAINT OneCut
INVARIANTS
    TypeOK
    RefusedRootIsBeingMade
    CreatedIsKept
    PresetsUnlessCut
    SettingsKept
