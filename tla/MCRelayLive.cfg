CONSTANTS
  Station <- Line3
  Route <- MCRoute
  Name <- MCName
  Addr <- MCAddr
  OwnAddr <- MCOwnAddr
  Host <- MCHost
  Neighbours <- TriangleNeighbours
  Timetables <- MCTimetables
  Query <- MCLive
  MaxHops = 3
  Overlap = 2
  MayDelay = FALSE
  MayLose = TRUE
  MayDuplicate = FALSE
  MayMisread = FALSE
SPECIFICATION FairSpec
PROPERTIES
  ClientsAreAnswered
  FloodsEnd
CHECK_DEADLOCK FALSE
