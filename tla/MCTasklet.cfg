CONSTANTS
  t1 = t1
  t2 = t2
  p1 = p1
  p2 = p2
  TH = TH
  NONE = NONE
  Tasklets = {t1, t2}
  Penders = {p1, p2}
  Of <- OwnPender
  Modulus = 4
  MaxPends = 2
SPECIFICATION Spec
INVARIANTS TypeOK NoLostPend WalkEnds UnlinkedIsQuiet
PROPERTY PendedIsRun
CHECK_DEADLOCK FALSE
