SPECIFICATION Spec
CONSTANTS
  p1 = p1
  p2 = p2
  r1 = r1
  r2 = r2
  f = f
  a = a
  b = b
  None = None
  Dirty = Dirty
  Vast = Vast
  Nobody = Nobody
  Process = {p1, p2}
  Revision = {r1, r2}
  Finding = {f}
  Artifact = {a, b}
  Ships <- Executables
  Skipped = {b}
  Report <- Reports
  Time = {1, 2}
  MaxReviews = 3
  MaxCalls = 4
  MaxMoves = 1
SYMMETRY Symmetry
INVARIANTS
  FindingsTraced
PROPERTIES
  ImplementsLog
  ReadyIsLast
  ReadyAccounts
  DossierIsReady
  RemedyAtReviewed
