CONSTANTS
  u1 = u1 u2 = u2 s1 = s1 s2 = s2 s3 = s3 t1 = t1 t2 = t2 p1 = p1 p2 = p2
  User = {u1}
  Sid = {s1, s2}
  Proc = {p1, p2}
  Task = {t1, t2}
  Owner <- MCOwner
  At <- MCAt
  SessionTTL = 2
  CacheTTL = 1
  CmdTimeout = 1
  MaxCached = 1
  MaxResets = 2
  MaxFailures = 1
  Refreshing = TRUE
SPECIFICATION Spec
INVARIANTS StaleBounded CacheBounded
SYMMETRY MCSymmetryProc
