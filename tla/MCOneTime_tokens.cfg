CONSTANTS
  e1 = e1 u1 = u1 k1 = k1 o1 = o1 b1 = b1 t1 = t1 t2 = t2
  Email = {e1}
  User = {u1}
  Token = {k1}
  State = {o1}
  Browser = {b1}
  Task = {t1, t2}
  AddressOf <- MCAddressOf
  WithId = {"github", "google"}
  WithSecret = {"github", "google"}
  ResetTTL = 1
  StateTTL = 1
  MaxSets = 3
  MaxFailures = 1
SPECIFICATION Spec
INVARIANTS TypeOK SpentTokensAreDead PasswordMatchesProvider ResetEndsOldLogins
PROPERTY StateIsABaton
SYMMETRY MCSymmetry
