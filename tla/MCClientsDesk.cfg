CONSTANTS
  c1 = c1
  c2 = c2
  c3 = c3
  c4 = c4
  Conn = {c1, c2, c3, c4}
  Dest = {"X"}
  Arrival = {9}
  Requests <- MCEverything
  MAX_QUERIES = 2
  MaxFd = 3
  MaxTime = 1
  Copies = 1
  MaxStarts = 1
  MayLeave = TRUE
  MayDisturb = FALSE
SPECIFICATION Spec
SYMMETRY Symmetry
INVARIANTS
  TypeOK
  ListIsSound
  DescriptorsAreAccounted
  RingHasNoDuplicates
PROPERTIES
  PromiseIsKept
  CrashHasACause
CHECK_DEADLOCK FALSE
