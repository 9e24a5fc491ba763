CONSTANTS
  c1 = c1
  c2 = c2
  Conn = {c1, c2}
  Dest = {"X"}
  Arrival = {8, 9}
  Requests <- MCOne
  MAX_QUERIES = 2
  MaxFd = 3
  MaxTime = 0
  Copies = 2
  MaxStarts = 0
  MayLeave = FALSE
  MayDisturb = FALSE
SPECIFICATION Spec
PROPERTIES
  FastestIsKept
CHECK_DEADLOCK FALSE
