------------------------------ MODULE MCRunner ------------------------------
EXTENDS Runner, TLC

CONSTANTS m, e
=============================================================================
