CONSTANTS
  Station <- Line3
  Route <- MCRoute
  Name <- MCName
  Addr <- MCAddr
  OwnAddr <- MCOwnAddr
  Host <- MCHost
  Neighbours <- LineNeighbours
  Timetables <- MCTimetables
  Query <- MCSome
  MaxHops = 3
  Overlap = 0
  MayDelay = FALSE
  MayLose = FALSE
  MayDuplicate = FALSE
  MayMisread = FALSE
SPECIFICATION FairSpec
PROPERTIES
  UnansweredAreFlooded
CHECK_DEADLOCK FALSE
