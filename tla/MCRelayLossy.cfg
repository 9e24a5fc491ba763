CONSTANTS
  Station <- Line3
  Route <- MCRoute
  Name <- MCName
  Addr <- MCAddr
  OwnAddr <- MCOwnAddr
  Host <- MCHost
  Neighbours <- TriangleNeighbours
  Timetables <- MCTimetables
  Query <- MCBtoC
  MaxHops = 3
  Overlap = 2
  MayDelay = TRUE
  MayLose = TRUE
  MayDuplicate = TRUE
  MayMisread = FALSE
SPECIFICATION Spec
INVARIANTS
  FloodIsFresh
  RoutesAreSimplePaths
  CursorIsAddressee
  NobodyDown
  AnswersAreJourneys
  AnswersAreEarliest
CHECK_DEADLOCK FALSE
