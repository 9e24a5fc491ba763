CONSTANTS
  c1 = c1
  c2 = c2
  c3 = c3
  Conn = {c1, c2, c3}
  Dest = {"X"}
  Arrival = {8, 9}
  Requests <- MCCostly
  MAX_QUERIES = 2
  MaxFd = 3
  MaxTime = 1
  Copies = 2
  MaxStarts = 1
  MayLeave = FALSE
  MayDisturb = TRUE
SPECIFICATION FairSpec
PROPERTIES
  ClientsAreServed
CHECK_DEADLOCK FALSE
