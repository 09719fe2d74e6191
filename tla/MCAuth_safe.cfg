CONSTANTS
  Email = {e1}
  Uid = {u1}
  Bundle = {b1, b2}
  Family = {f1}
  Task = {t1, t2}
  Mode = "both"
  JwtTTL = 1
  Leeway = 1
  FailOpen = FALSE
  RefreshTTL = 2
  CacheTTL = 2
SPECIFICATION Spec
INVARIANTS TypeOK LogoutSticks
PROPERTIES RotationIsABaton RegisterOnce
SYMMETRY MCSymmetry
