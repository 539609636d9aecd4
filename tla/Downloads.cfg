\* Three downloads of one or two kinds, two requests, both ways to wait.
SPECIFICATION Spec
CONSTANTS
    Guids = {g1, g2, g3}
    Waiters = {w1, w2}
    Keys = {k1, k2}
    NoKey = NoKey
    NoGuid = NoGuid
SYMMETRY Symmetry
INVARIANTS
    TypeOK
    NoSleepOverAnswer
    AnswerIsFirstMatch
