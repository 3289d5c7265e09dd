------------------------------ MODULE MCNxtNet ------------------------------
EXTENDS NxtNetProperties, TLC

\* clients that nxtd answers are alike
Alike == Permutations(Trusted)
=============================================================================
