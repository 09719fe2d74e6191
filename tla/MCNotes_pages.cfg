CONSTANTS
  u1 = u1 u2 = u2
  User = {u1, u2}
  Note = {1, 2, 3}
  Reader = {r1}
  PerPage = {0, 1, 3}
  MaxPerPage = 2
  MaxTime = 1
SPECIFICATION FairSpec
INVARIANTS TypeOK WalkExact ListedIsReadable NoOrphans
PROPERTY WalkEnds
