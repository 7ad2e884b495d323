\* two connections, channels for one message, two broadcasts in all, of either kind
CONSTANTS
    Producers = {"callback", "loop", "display"}
    Viewers = {v1, v2}
    Kinds = {"frames", "status"}
    Cap <- MCCap
    MaxMsgs = 2
    MaxTotal = 2
SPECIFICATION PageSpec
INVARIANTS StreamForEachStart PictureSettles ModeFollows
CHECK_DEADLOCK FALSE
SYMMETRY MCSymmetry
VIEW MCView
