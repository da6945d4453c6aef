CONSTANTS
  s1 = s1
  s2 = s2
  Sessions = {s1, s2}
  Descriptors = {0, 1, 2, 3, 4, 5}
  Lines <- MCLines
  Addresses <- MCAddresses
  Own <- MCOwn
  Upper <- MCUpper
  Options <- MCOptions
  EndOptions = "--"
  Blocks = 1
  MaxLines <- MCMaxLines
  NONE = NONE
SPECIFICATION Spec
INVARIANTS TypeOK NoOrphans Answered SentWhole FreshData
PROPERTY CommandEnds
CHECK_DEADLOCK FALSE
