CONSTANTS
  u1 = u1 u2 = u2 s1 = s1 s2 = s2 s3 = s3 t1 = t1 t2 = t2 p1 = p1 p2 = p2
  User = {u1, u2}
  Sid = {s1, s2, s3}
  Proc = {p1}
  Task = {t1, t2}
  Owner <- MCOwner
  At <- MCAt
  SessionTTL = 2
  CacheTTL = 1
  CmdTimeout = 0
  MaxCached = 2
  MaxResets = 1
  MaxFailures = 0
  Refreshing = FALSE
SPECIFICATION Spec
INVARIANTS TypeOK IndexComplete OnlyRacedFillsSurvive
PROPERTY ImplementsService
SYMMETRY MCSymmetry
