CONSTANTS
  c1 = c1
  c2 = c2
  c3 = c3
  Conn = {c1, c2, c3}
  x = x
  bad = bad
  Query = {x, bad}
  BadTime = {bad}
  Arrival = {8, 9}
  max_queries = 1
  Copies = 2
  MaxStarts = 1
  MayLeave = TRUE
SPECIFICATION Spec
SYMMETRY Symmetry
INVARIANTS
  TypeOK
  WaitersGetTheirAnswer
  NobodyIsForgotten
PROPERTIES
  CrashHasACause
  FastestIsKept
CHECK_DEADLOCK FALSE
