----------------------------- MODULE MCUpdates -----------------------------
EXTENDS Updates, TLC

CONSTANTS q1, q2, pa, r1, r2, u

Symmetry == Permutations({q1, q2})
=============================================================================
