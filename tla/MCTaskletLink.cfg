CONSTANTS
  t1 = t1
  t2 = t2
  p1 = p1
  p2 = p2
  TH = TH
  NONE = NONE
  Tasklets = {t1, t2}
  Penders = {p1, p2}
  Of <- OwnPender
  Modulus = 4
  MaxPends = 1
SPECIFICATION Spec
INVARIANT LinkedIsListed
CHECK_DEADLOCK FALSE
