\* the attached page and two others, two moves, one failed request
CONSTANTS
    main = main
    popup = popup
    other = other
    Tabs <- MCTabs
    Attached = main
    MaxMoves = 2
    MaxFails = 1
SPECIFICATION FairSpec
INVARIANTS NeverClosesItself EventsSuffice
PROPERTIES LostIsGivenUp RefusedPageLeaves
CHECK_DEADLOCK FALSE
