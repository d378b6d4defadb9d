SPECIFICATION Spec
CONSTANTS
  m = m
  e = e
  Member = {m}
  Escaped = {e}
  Limit = 1
  Chunk = 1
  Room = 1
  Depth = 1
INVARIANTS
  RunnerInv
  GroupGone
PROPERTIES
  Complete
  Returns
  ReadersEnd
