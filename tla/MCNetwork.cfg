CONSTANTS
  N = 4
  FirstBus = 56
  LastBus = 64
  Spread = 2
  Distance <- MCDistance
  Skews = {0, 1, 2}
  Gaps = {0, 1}
SPECIFICATION Spec
INVARIANTS
  ClosureIsReachability
  NetworkIsSound
  BusesNeverOvertake
CHECK_DEADLOCK FALSE
