\* a navigation and two touch moves through a channel of one
CONSTANTS
    nav = nav
    move1 = move1
    move2 = move2
    Requests <- MCRequests
    Moves <- MCMoves
    Loads = {nav}
    QueueCap = 1
    MaxDeaths = 1
SPECIFICATION FairSpec
INVARIANT GuardsReapplied
PROPERTIES ImplementsService QueueServed
CHECK_DEADLOCK FALSE
