---------------------------- MODULE MCRemoteTouch ----------------------------
EXTENDS RemoteTouch, TLC

MCSymmetry == Permutations(Gestures) \cup Permutations(Viewers)
=============================================================================
