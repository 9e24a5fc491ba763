CONSTANTS
  Station <- Diamond5
  Route <- MCRoute
  Name <- MCName
  Addr <- MCAddr
  OwnAddr <- MCOwnAddr
  Host <- MCHost
  Neighbours <- DiamondNeighbours
  Timetables <- MCTimetables
  Query <- MCAtoD
  MaxHops = 4
  Overlap = 0
  MayDelay = FALSE
  MayLose = FALSE
  MayDuplicate = FALSE
  MayMisread = TRUE
SPECIFICATION Spec
INVARIANTS
  TypeOK
  FloodIsFresh
  RoutesAreSimplePaths
  CursorIsAddressee
  AnswersAreJourneys
  AnswersAreEarliest
  PayloadsSurviveTheWire
  CutsTearTheTimeOnly
CHECK_DEADLOCK FALSE
