\* two gestures on one page or on two, a channel of two, two faults
CONSTANTS
    Gestures = {g1, g2}
    Viewers = {v1, v2}
    QueueCap = 2
    MaxFaults = 2
SPECIFICATION Spec
INVARIANTS ClickWithoutFinger NoFingerLeftDown
SYMMETRY MCSymmetry
CHECK_DEADLOCK FALSE
