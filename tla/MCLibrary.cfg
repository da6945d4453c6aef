CONSTANTS
  m1 = m1
  m2 = m2
  m3 = m3
  popper = popper
  verbose = verbose
  output = output
  one = one
  two = two
  NULL = NULL
  JUNK = JUNK
  WILD = WILD
  NONE = NONE
  Capacity = 6
  Keys = {1, 2, 3}
  Values = {one, two}
  MaxSize = 6
  MaxCount = 2
  TreeKeys = {1, 2, 3, 4, 5}
  Copies = 2
  MaxNodes = 5
  MapKeys = {1, 2, 3}
  MaxItems = 4
  Hash <- MCHash
  Buckets = {0, 1}
  Pushers = {m1, m2}
  Popper = popper
  MaxPushes = 2
  Timers = {m1, m2, m3}
  Paterns = {verbose, output}
  Plain = output
  Args = {one, two}
  MaxWords = 3
  Answers <- MCAnswers
  Prefix = 3
  TypeSize = 2
  BufSize = 18
  MaxLen = 5
  UrlChars = {"x"}
  PathMax = 3
  QueryMax = 2
  MaxText = 7
  Block = 8
  Word = 1
  Bits = 8
  Pieces = {0, 1, 2, 5, 8, 17, 34}
  MaxBytes = 60
  Users = {m1, m2}
  Handles = {1, 2, 3, 4}
  MaxOpen = 3
SPECIFICATION Spec
INVARIANTS
  HeapHolds VectorHolds TreeHolds FindHolds KeysKept QueueHolds PopsOnce
  HandlerSafe CommandLine AnswerRead SortHolds QueryHolds BlocksHold PortsKept
CHECK_DEADLOCK FALSE
