CONSTANTS
  c1 = c1
  Conn = {c1}
  x = x
  Query = {x}
  BadTime = {}
  Arrival = {8, 9}
  max_queries = 3
  Copies = 2
  MaxStarts = 0
  MayLeave = FALSE
SPECIFICATION FairSpec
PROPERTIES
  WaitersAreServed
CHECK_DEADLOCK FALSE
