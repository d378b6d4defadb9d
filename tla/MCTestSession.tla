--------------------------- MODULE MCTestSession ---------------------------
EXTENDS TestSession

CONSTANTS pa, pb, s1, s2

\* The projects are interchangeable: s1 is a session of pa.
MCInit == Init /\ owner[s1] = pa /\ by = pa /\ cur = s1

MCSpec == MCInit /\ [][Next]_vars /\ Fairness
=============================================================================
