CONSTANTS
  Station <- Line3
  Route <- MCRoute
  Name <- MCName
  Addr <- MCAddr
  OwnAddr <- MCOwnAddr
  Host <- MCHost
  Neighbours <- AliasedTriangle
  Timetables <- MCTimetables
  Query <- MCAtoC
  MaxHops = 9
  Overlap = 0
  MayDelay = FALSE
  MayLose = FALSE
  MayDuplicate = FALSE
  MayMisread = FALSE
SPECIFICATION Spec
INVARIANTS
  FloodIsFresh
CHECK_DEADLOCK FALSE
