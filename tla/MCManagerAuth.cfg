\* two pages, in one browser or in two; two sessions, one login over OIDC,
\* three ticks with limits of one and two
CONSTANTS
    Pages = {p1, p2}
    Browsers = {b1, b2}
    Idle = 1
    MaxAge = 2
    PendingTTL = 1
    MaxSessions = 2
    MaxLogins = 1
    MaxTime = 3
SPECIFICATION Spec
INVARIANTS SignedInWorks OneSessionPerLogin
PROPERTY ServedInTime
SYMMETRY MCSymmetry
CHECK_DEADLOCK FALSE
