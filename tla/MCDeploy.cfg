SPECIFICATION FairSpec
CONSTANTS
  p1 = p1
  p2 = p2
  co = co
  s0 = s0
  s1 = s1
  s2 = s2
  Proc = {p1, p2}
  Live = co
  Snapshots = {s0, s1, s2}
  Legacy = {s0}
  MaxHistory = 2
  MaxFaults = 2
  MaxTouches = 1
INVARIANTS
  LinkMatchesReceipt
PROPERTIES
  ImplementsLog
  OkIsFinal
  RestoredWhenServed
  ForeignKept
  RollBackServesVerified
  JournalSettles
