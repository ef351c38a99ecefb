------------------------------- MODULE MCCash -------------------------------
EXTENDS Cash, TLC

CONSTANTS t1, t2, t3, k1, k2

\* Threads are alike, and so are keys.
Symmetry == Permutations(Threads) \cup Permutations(Keys)
SomeBases == {-1, 0, 9}
=============================================================================
