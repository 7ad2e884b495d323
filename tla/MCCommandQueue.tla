--------------------------- MODULE MCCommandQueue ---------------------------
EXTENDS CommandQueue

CONSTANTS nav, move1, move2

MCMoves == {move1, move2}
MCRequests == {nav} \cup MCMoves
=============================================================================
