----------------------------- MODULE MCProjects -----------------------------
EXTENDS Projects, TLC

CONSTANTS q1, q2, pa, pb, da, db, ca, cb

Symmetry == Permutations({q1, q2}) \cup Permutations({pa, pb})
SymmetryUsed == Permutations({q1, q2}) \cup Permutations({da, db})
=============================================================================
