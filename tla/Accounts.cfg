SPECIFICATION Spec
CONSTANTS
  r1 = r1
  r2 = r2
  r3 = r3
  ann = ann
  ben = ben
  t1 = t1
  t2 = t2
  w1 = w1
  w2 = w2
  m1 = m1
  m2 = m2
  c1 = c1
  None = None
  Request = {r1, r2, r3}
  User = {ann, ben}
  Token = {t1, t2}
  Wallet = {w1, w2}
  Email = {m1, m2}
  Chat = {c1}
SYMMETRY Symmetry
CHECK_DEADLOCK FALSE
INVARIANTS
  SpentOnce
  LinksAreTheirs
PROPERTY OnlyOvertakenUndo
