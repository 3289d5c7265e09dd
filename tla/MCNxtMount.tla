----------------------------- MODULE MCNxtMount -----------------------------
EXTENDS NxtMountProperties, TLC

Symmetric == Permutations(Name) \cup Permutations(Hnd)
=============================================================================
