\* three logins at once from two addresses; two failures within two ticks
CONSTANTS
    Callers = {c1, c2, c3}
    Addrs = {a1, a2}
    MaxFails = 2
    Window = 1
    MaxTicks = 3
SPECIFICATION LimiterSpec
INVARIANTS OverrunByOverlap RefusedWithCause
SYMMETRY MCSymmetry
