--------------------------- MODULE MCLoginLimiter ---------------------------
EXTENDS LoginLimiter, TLC

MCSymmetry == Permutations(Callers) \cup Permutations(Addrs)
=============================================================================
