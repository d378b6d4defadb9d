----------------------------- MODULE MCSnapshot -----------------------------
EXTENDS Snapshot, TLC

CONSTANTS m, a, b

Symmetry == Permutations({a, b})
=============================================================================
