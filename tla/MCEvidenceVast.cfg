SPECIFICATION Spec
CONSTANTS
  p1 = p1
  p2 = p2
  r1 = r1
  r2 = r2
  None = None
  Garbage = Garbage
  Process = {p1}
  Revision = {r1, r2}
  Passes = {r1}
  PassesOne = {r1, r2}
  Window = 2
  MaxLines = 3
  MaxFaults = 1
  MaxCalls = 2
  MaxMoves = 1
INVARIANT ReadyIsClean
