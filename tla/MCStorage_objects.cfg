CONSTANTS
  u1 = u1 u2 = u2 n1 = n1 up = up k1 = k1 k2 = k2 d1 = d1 d2 = d2
  x1 = x1 r1 = r1 r2 = r2 p1 = p1
  User = {u1, u2}
  Name = {n1, up}
  Checked = {n1}
  Key = {k1, k2}
  KeyOf <- MCKeyOf
  Data = {d1, d2}
  WriterOf <- MCWriterOf
  Upload = {x1}
  MaxPart = 1
  Req = {r1, r2}
  MaxUrls = 1
  Proc = {p1}
SPECIFICATION Spec
INVARIANTS TypeOK  
SYMMETRY MCSymmetry
