\* two callers, one viewer with two requests in flight, two password messages
CONSTANTS
    c1 = c1
    c2 = c2
    f1 = f1
    f2 = f2
    Callers = {c1, c2}
    SleepConfigured = TRUE
    WakeConfigured = TRUE
    MaxCalls = 3
    Viewers = {v1}
    StatusCap = 2
    Fetches = {f1, f2}
    MaxFocus = 2
SPECIFICATION MCSpec
INVARIANTS StreamConverges NeverStuckAsleepPage SleepReachesPage NeverStuckDark NeverStuckLit
CHECK_DEADLOCK FALSE
SYMMETRY MCSymmetry
VIEW MCView
