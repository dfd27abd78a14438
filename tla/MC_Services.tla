---------------------------- MODULE MC_Services ----------------------------
EXTENDS Services, TLC

CONSTANTS u1, u2, w1, w2

MCUsers == {u1, u2}

\* Users are interchangeable: no guard or property names one of them, so a
\* state and its image under a swap of users are equivalent for the
\* safety runs.
UserSymmetry == Permutations(MCUsers)
=============================================================================
