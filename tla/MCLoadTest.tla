----------------------------- MODULE MCLoadTest -----------------------------
EXTENDS LoadTest, TLC

CONSTANTS w1, w2

MCWorkers == {w1, w2}
Symmetric == Permutations(MCWorkers)
=============================================================================
