---------------------------- MODULE MCManagerAuth ----------------------------
EXTENDS ManagerAuth, TLC

MCSymmetry == Permutations(Pages) \cup Permutations(Browsers)
=============================================================================
