---------------------------- MODULE MC_ConnQueue ----------------------------
EXTENDS ConnQueue, TLC

CONSTANTS w1, w2, w3

MCWorkers == {w1, w2, w3}
\* Two threads: one stuck in recv, one asleep.
MCTwoWorkers == {w1, w2}
WorkerSymmetry == Permutations(MCWorkers)
=============================================================================
