CONSTANTS
  t1 = t1 t2 = t2
  Task = {t1, t2}
  Service = {"python"}
  StatusOf <- MCStatusOf
  Timeout <- MCTimeout
  MaxRetries = 2
  BackoffBase = 1
  BackoffMax = 1
  OkTTL = 1
  ErrTTL = 2
SPECIFICATION FairSpec
INVARIANTS TypeOK CallBounded ProbesAreNeeded OkIsRecent
PROPERTIES Answered
