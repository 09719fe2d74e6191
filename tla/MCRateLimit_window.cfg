CONSTANTS
  Task = {t1, t2}
  Window = 3
  Max = 2
  Buffer = 1
  CmdTimeout = 1
  Epoch = 3
  MaxTime = 11
SPECIFICATION Spec
INVARIANTS TypeOK Limited ResetIsEnough
SYMMETRY MCSymmetry
