CONSTANTS
  Conn = {c1, c2, c3}
  User = {u1, u2}
  AuthOn = TRUE
  MaxConn = 2
  PerUserMax = 1
  Cap = 1
  MaxLeaks = 1
SPECIFICATION FairSpec
PROPERTY SubscribeAnswers
CHECK_DEADLOCK FALSE
INVARIANTS TypeOK PermitsConserved QuotaHolds ListenersAreCounted
