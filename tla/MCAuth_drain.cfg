CONSTANTS
  Email = {e1}
  Uid = {u1}
  Bundle = {b1, b2}
  Family = {f1}
  Task = {t1, t2}
  Mode = "bearer"
  JwtTTL = 1
  Leeway = 1
  FailOpen = TRUE
  RefreshTTL = 2
  CacheTTL = 2
SPECIFICATION FairSpec
PROPERTY DeletedDrains
