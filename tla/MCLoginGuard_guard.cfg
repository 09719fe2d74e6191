CONSTANTS
  Attempt = {a1, a2}
  Step1 = 2
  Step2 = 4
  Step3 = 5
  Track = 2
  Block1 = 2
  Block2 = 3
  Block3 = 4
  EmailMax = 2
  IpMax = 3
  LimitWindow = 1
  MaxCount = 5
  Slot <- MCSlot
SPECIFICATION FairLoginSpec
PROPERTY BlockEnds
INVARIANTS LoginTypeOK OvershootBounded
