SPECIFICATION Spec
CONSTANTS
  q1 = q1
  q2 = q2
  pa = pa
  pb = pb
  da = da
  db = db
  ca = ca
  cb = cb
  Absent = Absent
  Unregistered = Unregistered
  Nobody = Nobody
  NoJob = NoJob
  Process = {q1, q2}
  Project = {pa, pb}
  Definition = {da}
  Capability = {ca}
  Op = {"add", "add-trusting", "remove", "refresh", "trust", "untrust", "approve", "revoke", "check", "workflow"}
SYMMETRY Symmetry
PROPERTY ImplementsConsent
