\* two servers, two saves at once; three pairs, three deaths; four lists, two failed writes
CONSTANTS
    Listeners = {display, manager}
    Manager = manager
    MaxPairs = 3
    MaxBreaks = 3
    Savers = {s1, s2}
    MaxLists = 4
    MaxFaults = 2
SPECIFICATION ServiceSpec
INVARIANTS UnusableOnlyIfTorn HomeFollowsStore
PROPERTIES EditsSurvive StopSparesSaves
SYMMETRY MCSymmetry
VIEW MCView
CHECK_DEADLOCK FALSE
