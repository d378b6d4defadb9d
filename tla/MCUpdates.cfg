SPECIFICATION Spec
CONSTANTS
  q1 = q1
  q2 = q2
  pa = pa
  r1 = r1
  r2 = r2
  u = u
  Unknown = Unknown
  Process = {q1, q2}
  Plugin = {pa}
  Commit = {r1, r2}
  Bad = {r2}
  Work = {u}
  MaxFaults = 1
  MaxChanges = 1
SYMMETRY Symmetry
INVARIANT UpdatesInv
PROPERTIES
  OnlyReviewed
  WorkKept
  FailedIsUndone
  UpdatedIsServed
