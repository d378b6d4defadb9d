SPECIFICATION Spec
CONSTANTS
  p1 = p1
  p2 = p2
  r1 = r1
  r2 = r2
  None = None
  Garbage = Garbage
  Process = {p1, p2}
  Revision = {r1, r2}
  Passes = {r1}
  PassesOne = {r1, r2}
  Window = 2
  MaxLines = 3
  MaxFaults = 1
  MaxCalls = 3
  MaxMoves = 1
SYMMETRY Symmetry
INVARIANTS
  EvidenceIsTrue
  ReadyIsChecked
  ReadyIsReviewed
  LossIsBounded
