CONSTANTS
    c1 = c1
    c2 = c2
    Publishers = {p1, p2}
    Actors = {a1}
    Commits = {c1, c2}
    Contexts = {x1, x2}
    Keys = {k1, k2}
    TokenExpires <- MCTokenExpires
    ScopeSets <- MCScopeSets
    Windows <- MCWindows
    MaxTime = 2
    MaxWindow = 1
    MaxEnrollments = 2
SPECIFICATION AttemptsSpec
SYMMETRY Symmetry
INVARIANT RecordsStayReadable
PROPERTY SatisfactionHasCause
