---------------------------- MODULE MCNxtdTable ----------------------------
EXTENDS NxtdTableProperties, TLC

Blocks == Permutations(Rec)
=============================================================================
