SPECIFICATION SnapshotSpec
CONSTANTS
  m = m
  a = a
  b = b
  Pieces = {m, a, b}
  Manifest = m
  Broken = {1}
  MaxEdits = 2
SYMMETRY Symmetry
INVARIANTS
  SnapshotIsAnInstant
  SnapshotIsCurrent
