SPECIFICATION Spec
CONSTANTS
  p1 = p1
  p2 = p2
  r1 = r1
  r2 = r2
  m1 = m1
  m2 = m2
  t1 = t1
  t2 = t2
  abc = abc
  None = None
  Nobody = Nobody
  Process = {p1, p2}
  Revision = {r1, r2}
  Project = {m1, m2}
  Task = {t1, t2}
  Name <- Names
  Time = {1}
  MaxCalls = 3
  MaxFaults = 1
  MaxChanges = 1
SYMMETRY Symmetry
INVARIANTS
  OwnTree
PROPERTIES
  ImplementsBook
  HandoffIsOwn
