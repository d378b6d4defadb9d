----------------------------- MODULE MCEvidence -----------------------------
EXTENDS Evidence, TLC

CONSTANTS p1, p2, r1, r2

Symmetry == Permutations({p1, p2})
=============================================================================
