------------------------------ MODULE MCDeploy ------------------------------
EXTENDS Deploy

CONSTANTS p1, p2, co, s0, s1, s2
=============================================================================
